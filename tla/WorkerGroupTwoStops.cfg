CONSTANTS
    m1 = m1
    m2 = m2
    Runtimes = {m1, m2}
    Members <- MCMembers
    Lifecycle = L
    Other = X
    Failures = {}
    MaxEvents = 2
    Null = Null
SPECIFICATION GroupLiveSpec
PROPERTIES CallsReturn
CHECK_DEADLOCK FALSE
