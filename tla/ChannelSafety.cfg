CONSTANTS
    Senders = {s1, s2}
    Receivers = {r1, r2}
    Values = {v1, v2}
    Slots = {n1, n2, n3}
    Capacity = 2
    MaxWaits = 2
    None = None
SPECIFICATION Spec
SYMMETRY Symmetry
INVARIANTS ChannelInv DeliveredInOrder
CHECK_DEADLOCK FALSE
