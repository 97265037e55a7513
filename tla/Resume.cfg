SPECIFICATION MCSpec
CONSTANTS
  MaxUp = 2
  MaxDown = 0
  MaxDials = 1
  UpCap = 1
  DownCap = 1
  MaxAttempts = 2
  SymmetricReplay = TRUE
  SoftSwitches = TRUE
  None = None
INVARIANTS
  UplinkExact
  UplinkComplete
  DownlinkExact
  CarrierIsResumed
PROPERTIES
  ImplementsUpPipe
  ImplementsDownPipe
CHECK_DEADLOCK FALSE
