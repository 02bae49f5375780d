CONSTANTS
    Acquires = {a1, a2, a3, a4}
    Slots = {s1, s2}
    None = None
SPECIFICATION LiveSpec
INVARIANTS LeaseInv
PROPERTIES Implements WaitEnds
CHECK_DEADLOCK FALSE
