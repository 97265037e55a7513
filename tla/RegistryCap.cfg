SPECIFICATION MCSpec
CONSTANTS
  Parts = {"registry"}
  s1 = s1
  s2 = s2
  alice = alice
  bob = bob
  None = None
  Ids = {s1, s2}
  Users = {alice, bob}
  Owner <- AllAlices
  Takers = {"t", "u"}
  Claims <- Redials
  PerUserCap = 1
  GlobalCap = 2
  Ttl <- TcpShorter
  MaxClock = 1
INVARIANT
  EntriesWithinCap
CHECK_DEADLOCK FALSE
