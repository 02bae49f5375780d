CONSTANTS
    Clients = {c1, c2}
    Worker = w
    Nodes = {n1, n2, n3, n4}
    Capacity = 2
    Tasks = {t1, t2}
    Waiters = {i1}
    MaxFailures = 0
    None = None
SPECIFICATION Spec
INVARIANTS DestroyedBeforeIdleCallbacks
CHECK_DEADLOCK FALSE
