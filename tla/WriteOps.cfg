CONSTANTS
    Sizes = {1, 2, 4}
    MaxWrite = 3
    MaxBytes = 6
SPECIFICATION FairSpec
CHECK_DEADLOCK FALSE
INVARIANTS
    TypeOK
    WireInOrder
    SuccessIsWhole
PROPERTIES
    RoundsProgress
    ImplementsWriter
    OperationEnds
