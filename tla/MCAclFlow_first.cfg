SPECIFICATION Spec
CONSTANTS
    Conns = {c1, c2}
    MaxConns = 2
    MaxPkts = 2
    MaxFrags = 3
    MaxQueue = 1
    MaxEvents = 1
    MaxRefusals = 0
    Faults = FALSE
    NULL = NULL
PROPERTIES PartialFirst
