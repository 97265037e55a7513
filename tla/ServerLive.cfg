SPECIFICATION MCFairSpec
CONSTANTS
  Parts = {
    "redial", "migration", "migration_soft", "nat_end", "mesh_back",
    "vless_park", "mux_harvest", "upload", "session_end", "datagram_update", "lookup"}
  s1 = s1
  s2 = s2
  alice = alice
  bob = bob
  None = None
  Ids = {s1, s2}
  Users = {alice, bob}
  Owner <- AllAlices
  Takers = {"t", "u"}
  Claims <- Redials
  PerUserCap = 1
  GlobalCap = 1
  Ttl <- TcpShorter
  MaxClock = 1
PROPERTIES
  ResumptionEnds
  WaitsEnd
CHECK_DEADLOCK FALSE
