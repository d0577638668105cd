SPECIFICATION Spec
CONSTANTS
    Characteristics <- OneEach
    CountRange = 4
INVARIANT RemovedServiceReadable
