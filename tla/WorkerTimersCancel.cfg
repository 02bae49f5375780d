CONSTANTS
    Regs = {r1}
    MaxSchedules = 1
    MaxTime = 1
    MaxCancels = 1
    MaxFailures = 0
    CompactAt = 1
    None = None
SPECIFICATION LiveSpec
PROPERTY CancelIsSilent
CHECK_DEADLOCK FALSE
