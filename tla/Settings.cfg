SPECIFICATION FairSpec
CONSTANTS
  Sessions <- AllSessions
  Variant = TRUE
  PipeRoom = 1
  MaxVfos = 3
INVARIANTS SaverSound SettingsAgree
PROPERTIES SavedInTheEnd
CHECK_DEADLOCK FALSE
