CONSTANTS
    Clients = {c1, c2}
    Worker = w
    Nodes = {n1, n2, n3, n4}
    Capacity = 2
    Tasks = {t1, t2, t3, t4}
    Waiters = {i1}
    MaxFailures = 1
    None = None
SPECIFICATION LiveSpec
ACTION_CONSTRAINT TakesFirst
INVARIANTS DrainNeverLost WaitersServed RunInOrder QueueInv
PROPERTIES NoStartAfterAbandon QueueProgress
CHECK_DEADLOCK FALSE
