SPECIFICATION Spec
CONSTANTS
    f1 = f1
    Control = Control
    NumDevices = 2
    ActiveCounts <- OnlyTwo
    L1Max = 1
    L2RawMax = 2
    L2RawCalMax = 1
    L2Max = 1
    PoolSize = 7
    StuckMax = 1
    Flushers <- OneFlusher
    MaxTick = 3
    MaxFlushes = 2
    MaxRestarts = 0
INVARIANTS TypeOK CountersAccounted DepthsBounded NoBufferLost NoSilentDesync
PROPERTIES ImplementsSetStream
