SPECIFICATION FairSpec
CONSTANTS
    c1 = c1
    c2 = c2
    c3 = c3
    c4 = c4
    Controllers <- Tasks
INVARIANTS TypeOK Exclusion TokenConserved
PROPERTIES ImplementsPausableTask SuspendReturns OperationRecurs
CHECK_DEADLOCK FALSE
