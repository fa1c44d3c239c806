SPECIFICATION LiveSpec
CONSTANTS
    Readers = {reader}
    Lengths = {2, 3}
    SocketRoom = 4
    RtlMax = 2
    MaxPackets = 5
    MaxBreaks = 2
    MaxRtl = 3
    QueueCap = 1
    FreeCap = 5
    CoherentOnly = FALSE
    MaxFrames = 5
    Metadata <- SomeMetadata
    MaxEvents = 3
    LogDecs = {0, 1}
    Files = {a, b}
    SyncTicks = 1
    MaxLogEvents = 4
    MapKeys = {"k1", "k2"}
    Tunings = {1, 2}
    CloudPushes <- SomePushes
    LanClients = {c1}
    MapVfos = 2
    MaxMapEvents = 2
INVARIANTS LinkSound RadioSound RecordingSound MapSound
PROPERTIES ImplementsPacketStream NothingBackwards EverythingArrives
CHECK_DEADLOCK FALSE
