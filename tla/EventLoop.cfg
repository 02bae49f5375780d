CONSTANTS
    Loop = Loop
    Hooks = {Loop, h1}
    Chain = Chain
    Gate = Gate
    Waiters = {Chain, Gate}
    Roots = {r1}
    Jobs = {j1}
    None = None
SPECIFICATION LoopLiveSpec
INVARIANTS HookInv GateInv TerminatesOnlyOnPending
PROPERTIES PhasesInOrder Retires
CHECK_DEADLOCK FALSE
