SPECIFICATION FairSpec
CONSTANTS
    Conns = {c1, c2}
    MaxConns = 1
    MaxPkts = 2
    MaxFrags = 3
    MaxQueue = 2
    MaxEvents = 2
    MaxRefusals = 1
    Faults = TRUE
    NULL = NULL
INVARIANTS TypeOK WithinBuffers NoLostWakeup HalfSentIsNext
PROPERTIES QueuesMove
