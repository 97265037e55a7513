SPECIFICATION Spec
CONSTANTS
  Uplinks = {1, 2}
  Wires = {0}
  Strict = TRUE
  GlobalProbe = FALSE
  Resume = FALSE
  SharedResume = FALSE
  TargetFirst = FALSE
  Up = 2
  Down = 1
  Chunk = 2
  ReplayCap = 2
  RingCap = 2
  Budget = 0
  Soft = FALSE
  MaxRst = 2
  Standby = FALSE
  Faults = {"reset", "send"}
  MaxFaults = 2
  MaxSwitch = 0
INVARIANTS
  UplinkExact
CHECK_DEADLOCK FALSE
