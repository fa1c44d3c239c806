SPECIFICATION LiveSpec
CONSTANTS
    f1 = f1
    Control = Control
    NumDevices = 3
    ActiveCounts <- TwoOrThree
    L1Max = 1
    L2RawMax = 1
    L2RawCalMax = 1
    L2Max = 1
    PoolSize = 7
    StuckMax = 2
    Flushers <- OneFlusher
    MaxTick = 1
    MaxFlushes = 0
    MaxRestarts = 1
INVARIANTS SetsMatchElementCount
PROPERTIES ImplementsSetStream NothingHangs
