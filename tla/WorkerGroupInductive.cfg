CONSTANTS
    m1 = m1
    m2 = m2
    Runtimes = {m1, m2}
    Members <- MCMembers
    Lifecycle = L
    Other = X
    Failures = {f1}
    MaxEvents = 1
    Null = Null
SPECIFICATION GroupSpec
INVARIANTS GroupInv
CHECK_DEADLOCK FALSE
