CONSTANTS
    Senders = {s1}
    Receivers = {r1}
    Values = {v1, v2}
    Slots = {n1, n2}
    Capacity = 1
    MaxWaits = 2
    None = None
SPECIFICATION LiveSpec
PROPERTIES WaitEnds
CHECK_DEADLOCK FALSE
