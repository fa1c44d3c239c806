SPECIFICATION LiveSpec
CONSTANTS
    Workers = {w1, w2}
    Channels = 2
    Counts = {1, 2}
    Places = 2
    Sizes = {1, 2}
    MaxRaw = 2
    MaxMemory = 3
    MaxQueued = 2
    MaxPackets = 2
    MaxRetunes = 1
    MaxSwitches = 1
    MaxResizes = 1
INVARIANTS PipelineSound
PROPERTIES HoldCoversOldPackets ResizeEnds
CHECK_DEADLOCK FALSE
