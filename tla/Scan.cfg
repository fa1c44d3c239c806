SPECIFICATION LiveSpec
CONSTANTS
  Configs <- TwoLists
  Grid = {2, 4, 6, 8, 10, 12}
  MaxSpan = 4
  CenterFreq = 9
  Commands = {"load", "wideband", "frequency", "start", "stop", "dwell", "next"}
  Prompt = TRUE
  MaxCommands = 3
  MaxBands = 2
  Positions = {1, 2}
  Step = 10
  Airs <- OneAndTwo
  Decs = {0, 1}
  MaxTracked = 2
  MaxEmpty = 1
  ScanCommands = {"start", "stop", "wideband", "range", "remove"}
  MaxScanCommands = 2
  MaxFaults = 1
INVARIANTS ScanSound LocksSound
PROPERTIES ScansGoOn
CHECK_DEADLOCK FALSE
