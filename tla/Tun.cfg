SPECIFICATION MCSpec
CONSTANTS
  Keys = {"k"}
  Objects = {1, 2}
  KeyOf <- OneKey
  Ids = {1, 2}
  Instants = {0, 1, 2}
  None = None
INVARIANTS
  SleepIsSound
  TunStreamsExact
  DutiesKept
  TunCountsExact
PROPERTIES
  FlowOnItsCarrier
CHECK_DEADLOCK FALSE
