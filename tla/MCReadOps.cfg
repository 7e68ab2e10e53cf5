CONSTANTS
    HdrSizes = {1, 2}
    BodySizes = {0, 2}
    MaxMessages = 2
    MaxRead = 3
    MaxBytes = 6
    Layouts <- SmallLayouts
SPECIFICATION Spec
CHECK_DEADLOCK FALSE
INVARIANTS
    TypeOK
    BytesConserved
    SuccessDelivers
    SuspendedInStage
    WaitsForMissing
PROPERTIES
    RoundsProgress
    ImplementsReader
