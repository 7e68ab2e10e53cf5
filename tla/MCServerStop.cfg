CONSTANTS
    w1 = w1
    w2 = w2
    Workers <- TwoWorkers
    MaxSignals = 3
SPECIFICATION FairSpec
CHECK_DEADLOCK FALSE
PROPERTIES
    StopReturns
