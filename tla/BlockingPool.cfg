CONSTANTS
    Threads = {t1, t2}
    Callers = {c1, c2}
    Tasks = {k1, k2, k3}
    Nodes = {n1, n2, n3}
    Capacity = 1
    None = None
SPECIFICATION LiveSpec
INVARIANTS PoolInv
PROPERTIES JoinLeavesQuiet CallableResolved JoinReturns
CHECK_DEADLOCK FALSE
