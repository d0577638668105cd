SPECIFICATION FairSpec
CONSTANTS
    Characteristics <- AsBuilt
    CountRange = 4
INVARIANTS
    TypeOK
    HaltedBeforeTeardown
    WindowOnAir
    FlagTracksLink
    RemovalTargetsLive
PROPERTIES
    CycleRecurs
