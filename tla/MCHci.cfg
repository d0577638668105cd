SPECIFICATION FairSpec
CONSTANTS
    Tasks = {t1, t2}
    Opcodes = {o1, o2}
    MaxPending = 1
    MaxEvents = 2
    NULL = NULL
INVARIANTS TypeOK OwnAck BuffersAccounted OneToken
PROPERTIES ImplementsSerialCommands CommandEnds
