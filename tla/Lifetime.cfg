CONSTANTS
    MaxWorkers = 6
SPECIFICATION Spec
CHECK_DEADLOCK FALSE
INVARIANTS
    TypeOK
    AliveWhileUsed
    ArrayReleased
