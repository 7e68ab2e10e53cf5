CONSTANTS
    w1 = w1
    w2 = w2
    Workers <- TwoWorkers
    MaxSignals = 3
SYMMETRY WorkerSymmetry
SPECIFICATION Spec
CHECK_DEADLOCK FALSE
INVARIANTS
    TypeOK
    NoWorkerLost
    NeverThrows
    ShutdownDrains
    StopIsClean
PROPERTIES
    GraceRespected
    ImplementsService
