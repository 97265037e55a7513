SPECIFICATION MCFairSpec
CONSTANTS
  Parts = {
    "probe_bare", "active", "wires", "refill", "save", "fin", "assoc", "first",
    "follow", "dead", "recover", "close", "tun_tcp", "tun_udp"}
  Pair = {p, q}
PROPERTIES
  BadIsLeft
  SessionsFollow
  RepairsHappen
CHECK_DEADLOCK FALSE
