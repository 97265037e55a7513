SPECIFICATION MCSpec
CONSTANTS
  Parts = {
    "settle", "settle_back", "settle_equal", "dial", "cap", "round", "timer",
    "pool", "probe", "probe_bare", "calendar", "overlap", "rules", "flows", "edits",
    "edits_fail", "state", "loss", "loss_alias", "retry", "speaks", "resume",
    "overflow", "udp", "carriers", "plan", "plan_legacy", "udp_mux",
    "udp_mux_slow", "io", "bbr_rates", "ceiling"}
  Pair = {p, q}
SYMMETRY PairSymmetry
INVARIANTS
  SessionsExact
  BlameIsFair
  DialsRemembered
  CloseIsOrderly
  ClientCountsExact
  PacingSound
  DecisionsFresh
  ConfigSound
  RotationSound
PROPERTIES
  EvidenceMoves
  LiveIsKept
CHECK_DEADLOCK FALSE
