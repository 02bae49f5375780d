CONSTANTS
    m1 = m1
    m2 = m2
    Runtimes = {m1, m2}
    Members <- MCMembers
    Lifecycle = L
    Other = X
    Failures = {f1}
    MaxEvents = 1
    Null = Null
SPECIFICATION GroupLiveSpec
INVARIANTS RetireInv PhaseVerdict NoFailureVanishes
PROPERTIES StopHasClosed CallsReturn
CHECK_DEADLOCK FALSE
