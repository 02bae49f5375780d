CONSTANTS
    Regs = {r1, r2}
    MaxSchedules = 3
    MaxTime = 1
    MaxCancels = 2
    MaxFailures = 2
    CompactAt = 1
    None = None
SPECIFICATION LiveSpec
INVARIANTS HeapExact
PROPERTIES RoundFiresAllDue CancelledWhenAsked TimerEnds
CHECK_DEADLOCK FALSE
