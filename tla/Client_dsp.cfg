SPECIFICATION Spec
CONSTANTS
  Elements = 3
  BlockSizes = {5}
  SnapLength = 2
  Overlap = 1
  NumSnaps = 2
  MinSnaps = 2
  BufferSize = 8
  StableFrames = 2
  Offsets = {0, 1}
  Frequencies = {10, 20}
  Settings = {"method", "topology", "positions", "radius", "elevation", "fb", "alpha", "sources", "config", "enable", "squelch", "beam", "frequency", "count"}
  Stored <- MCStored
  MaxBlocks = 4
  MaxEvents = 2
  Ids = {0, 1}
  Rates = {1, 2}
  FmQueueCap = 2
  RingSize = 4
  FillTarget = 2
  Block = 2
  PacketSize = 2
  GapTimeouts = 1
  Commands = {"fm", "reset", "source", "bandwidth", "mode", "rate", "list"}
  MaxAudioBlocks = 3
  MaxOrders = 4
  Angles = {0, 90}
  Radii = {1, 2}
  Tuned = {1, 2}
  Counts = {2, 3}
  Snaps = {2, 4}
  BeamBlocks = {3}
  FftSize = 4
  MaxPasses = 3
  MaxTurns = 2
INVARIANTS FinderSound AudioSound BeamSound FramesTile
PROPERTIES StepsSound
CHECK_DEADLOCK FALSE
