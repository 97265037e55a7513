SPECIFICATION Spec
CONSTANTS
  Uplinks = {1, 2}
  Scopes = {TRUE}
  Shared = TRUE
  Ingresses = {"associate"}
  Standby = FALSE
  MaxCarriers = 5
  MaxSends = 3
  RespCap = 1
  Faults = {}
  Intents = {"soft"}
  MaxFaults = 0
  MaxSwitches = 2
INVARIANTS
  ContextHasReader
CHECK_DEADLOCK FALSE
