CONSTANTS
    t1 = t1
    t2 = t2
    t3 = t3
    parent1 = parent1
    parent2 = parent2
    child = child
    group1 = group1
    group2 = group2
    user = user
    other = other
    Threads = {t1, t2, t3}
    States = {parent1, parent2, child}
    Registrations = {group1, group2, user, other}
    StateOf <- MCStateOf
    Program <- MCProgram
    Callback <- MCCallback
    Null = Null
SPECIFICATION StopSpec
INVARIANTS NoCycle
CHECK_DEADLOCK FALSE
