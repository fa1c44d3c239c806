SPECIFICATION Spec
CONSTANTS
  Sessions <- Quiet
  Variant = TRUE
  PipeRoom = 1
  MaxVfos = 3
INVARIANTS TopologyRestored
CHECK_DEADLOCK FALSE
