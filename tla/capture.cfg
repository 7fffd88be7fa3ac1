SPECIFICATION Spec
CONSTANTS
    p1 = p1
    p2 = p2
    x1 = x1
    x2 = x2
    Starts = {p1, p2}
    Exchanges = {x1, x2}
    Capacity = 1
    NoStart = NoStart
    NoExchange = NoExchange
CHECK_DEADLOCK FALSE
INVARIANTS HandleIsServing Accounted
PROPERTIES WorkersCatchUp
