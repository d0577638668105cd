SPECIFICATION Spec
CONSTANTS
    Conns = {c1}
    MaxConns = 1
    MaxPkts = 2
    MaxFrags = 3
    MaxQueue = 1
    MaxEvents = 1
    MaxRefusals = 1
    Faults = FALSE
    NULL = NULL
INVARIANTS NoBufferInvented
