CONSTANTS
    Producers = {p1, p2}
    Full = 1
    MaxNotes = 4
    MaxErrors = 1
SPECIFICATION WakeLiveSpec
INVARIANTS NoLostWake LatchInv
PROPERTIES NotifySeen CloseResumes
CHECK_DEADLOCK FALSE
