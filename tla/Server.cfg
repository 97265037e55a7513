SPECIFICATION MCSpec
CONSTANTS
  Parts = {
    "registry", "nat_resume", "nat_race", "filter", "window", "full", "control",
    "resolve", "connect", "pins", "sources", "rings", "takes", "mesh", "vless",
    "vless_udp", "mux", "uplink", "sessions", "datagrams"}
  s1 = s1
  s2 = s2
  alice = alice
  bob = bob
  None = None
  Ids = {s1, s2}
  Users = {alice, bob}
  Owner <- AllAlices
  Takers = {t, u}
  Claims <- Redials
  PerUserCap = 1
  GlobalCap = 1
  Ttl <- TcpShorter
  MaxClock = 1
SYMMETRY PairSymmetry
INVARIANTS
  NoStaleSlot
  OneHitPerPark
  RingsExact
  RelayedExact
  HeaderFirst
  SessionsKeepTheirOwn
  ServerCountsExact
  FilterPassesOnce
  LookupsSound
PROPERTIES
  UnknownOnlyIfGone
  PushImplementsWindow
  ControlSaves
CHECK_DEADLOCK FALSE
