---------------------------- MODULE OutboundIpv6 ----------------------------
(***************************************************************************)
(* The IPv6 source address of an upstream connection: the pool (a static   *)
(* prefix, the addresses of an interface, or the prefix derived from one), *)
(* its periodic refresh, the sticky table that pins a source to a          *)
(* destination, the start-up probe and the sockets that are bound.         *)
(*                                                                         *)
(* An address is a pair of a prefix and a host part.  The table is a       *)
(* concurrent map: every operation on it is a step of its own.             *)
(***************************************************************************)
EXTENDS Naturals, FiniteSets

CONSTANTS
    Addrs,      \* the addresses there are, pairs <<prefix, host>>
    Kinds,      \* subset of {"prefix", "interface", "derived"}
    Static,     \* the configured prefix
    Sticky,     \* outbound_ipv6_sticky
    Ttl, Cap,   \* of the sticky table
    Callers, Dests,
    Attempts,   \* of the start-up probe
    MaxNow, MaxChanges

VARIABLES
    kind,    \* OutboundIpv6Source
    iface,   \* address -> "absent", "live" or "deprecated" on the interface
    pool,    \* the cached addresses, or the addresses of the cached prefix
    left,    \* history: when an address last left the pool
    mode,    \* "probing", "on" or "off" (disabled by the probe)
    tries,
    pins,    \* StickyIpv6Cache::map
    call,    \* the connects and binds under way
    now, changes

vars == <<kind, iface, pool, left, mode, tries, pins, call, now, changes>>

NoAddr == <<0, 0>>
NoPin == [src |-> NoAddr, exp |-> 0]
NoCall == [pc |-> "idle", dest |-> "none", at |-> 0, src |-> NoAddr,
           soonest |-> "none"]

\* enumerate_ipv6_on_interface: deprecated and tentative addresses are left out.
enumerate(f) == {a \in Addrs : f[a] = "live"}

PrefixOf(a) == {b \in Addrs : b[1] = a[1]}

\* What refresh (or bind) may cache: every live address, or the prefix of the
\* first one the kernel lists.
derive_interface_prefix(f) ==
    IF enumerate(f) = {} THEN {{}} ELSE {PrefixOf(a) : a \in enumerate(f)}

Derived(k, f) ==
    CASE k = "prefix" -> {{a \in Addrs : a[1] = Static}}
      [] k = "interface" -> {enumerate(f)}
      [] k = "derived" -> derive_interface_prefix(f)

Init ==
    /\ kind \in Kinds
    /\ iface \in [Addrs -> {"absent", "live"}]
    /\ pool \in Derived(kind, iface)
    /\ left = [a \in Addrs |-> 0]
    /\ mode = "probing" /\ tries = 0
    /\ pins = [d \in Dests |-> NoPin]
    /\ call = [c \in Callers |-> NoCall]
    /\ now = 0 /\ changes = 0

-----------------------------------------------------------------------------
\* probe: random sources are tried until one connects; an empty pool leaves the
\* feature on for the addresses of a later refresh.
ProbeEmpty ==
    /\ mode = "probing" /\ pool = {}
    /\ mode' = "on"
    /\ UNCHANGED <<kind, iface, pool, left, tries, pins, call, now, changes>>

ProbeConnects ==
    /\ mode = "probing" /\ pool # {}
    /\ mode' = "on"
    /\ UNCHANGED <<kind, iface, pool, left, tries, pins, call, now, changes>>

ProbeFails ==
    /\ mode = "probing" /\ pool # {}
    /\ tries' = tries + 1
    /\ mode' = IF tries' = Attempts THEN "off" ELSE mode
    /\ UNCHANGED <<kind, iface, pool, left, pins, call, now, changes>>

\* SLAAC, privacy extensions and renumbering.
AddressChanges ==
    /\ changes < MaxChanges
    /\ \E a \in Addrs, s \in {"absent", "live", "deprecated"} :
         iface[a] # s /\ iface' = [iface EXCEPT ![a] = s]
    /\ changes' = changes + 1
    /\ UNCHANGED <<kind, pool, left, mode, tries, pins, call, now>>

\* The periodic task; a failed enumeration keeps the pool (a stuttering step).
Cached(p) ==
    /\ pool' = p
    /\ left' = [a \in Addrs |-> IF a \in pool \ p THEN now ELSE left[a]]
    /\ UNCHANGED <<kind, iface, mode, tries, pins, call, now, changes>>

RefreshInterface ==
    mode = "on" /\ kind = "interface" /\ pool # enumerate(iface)
    /\ Cached(enumerate(iface))

RefreshPrefix ==
    /\ mode = "on" /\ kind = "derived"
    /\ \E p \in derive_interface_prefix(iface) : pool # p /\ Cached(p)

-----------------------------------------------------------------------------
Step(c, f) == call' = [call EXCEPT ![c] = f]

KeepPool == UNCHANGED <<kind, iface, pool, left, mode, tries, now, changes>>

PinKept(d) == UNCHANGED pins

\* A connect or a bind towards d begins: the clock is read, then a live pin.
source_for(c, d) ==
    /\ mode = "on" /\ call[c].pc = "idle"
    /\ IF Sticky /\ pins[d].exp > now
       THEN /\ Step(c, [NoCall EXCEPT !.pc = "bind", !.dest = d, !.at = now,
                                      !.src = pins[d].src])
            /\ PinKept(d)
       ELSE /\ Step(c, [NoCall EXCEPT !.pc = "pick", !.dest = d, !.at = now])
            /\ UNCHANGED pins
    /\ KeepPool

\* generate(): a random address of the pool as it is now.  None clears the pin.
PickNone(c) ==
    /\ call[c].pc = "pick" /\ pool = {}
    /\ pins' = IF Sticky THEN [pins EXCEPT ![call[c].dest] = NoPin] ELSE pins
    /\ Step(c, [call[c] EXCEPT !.pc = "wildcard"])
    /\ KeepPool

random_addr(c) ==
    /\ call[c].pc = "pick"
    /\ \E a \in pool : Step(c, [call[c] EXCEPT !.src = a,
                                  !.pc = IF Sticky THEN "evict" ELSE "bind"])
    /\ UNCHANGED pins
    /\ KeepPool

Pinned == {d \in Dests : pins[d] # NoPin}

\* evict_if_full: the expired pins go, then the one that expires soonest is
\* looked up ...
evict_if_full(c) ==
    /\ call[c].pc = "evict"
    /\ LET live == {d \in Pinned : pins[d].exp > call[c].at}
           full == Cardinality(Pinned) >= Cap
       IN  /\ pins' = [d \in Dests |-> IF full /\ d \notin live
                                       THEN NoPin ELSE pins[d]]
           /\ \/ /\ Cardinality(live) < Cap \/ ~full
                 /\ Step(c, [call[c] EXCEPT !.pc = "insert"])
              \/ /\ Cardinality(live) >= Cap
                 /\ \E s \in live :
                      /\ \A d \in live : pins[s].exp <= pins[d].exp
                      /\ Step(c, [call[c] EXCEPT !.pc = "remove", !.soonest = s])
    /\ KeepPool

\* ... and removed.
RemoveSoonest(c) ==
    /\ call[c].pc = "remove"
    /\ pins' = [pins EXCEPT ![call[c].soonest] = NoPin]
    /\ Step(c, [call[c] EXCEPT !.pc = "insert", !.soonest = "none"])
    /\ KeepPool

InsertPin(c) ==
    /\ call[c].pc = "insert"
    /\ pins' = [pins EXCEPT ![call[c].dest] =
                  [src |-> call[c].src, exp |-> call[c].at + Ttl]]
    /\ Step(c, [call[c] EXCEPT !.pc = "bind"])
    /\ KeepPool

\* connect_tcp_addr and bind_nat_udp_socket: FREEBIND lets any source be bound;
\* without one the kernel chooses.
SocketBound(c) ==
    /\ call[c].pc \in {"bind", "wildcard"}
    /\ Step(c, NoCall)
    /\ UNCHANGED pins
    /\ KeepPool

Tick ==
    /\ now < MaxNow
    /\ now' = now + 1
    /\ UNCHANGED <<kind, iface, pool, left, mode, tries, pins, call, changes>>

Next ==
    \/ ProbeEmpty \/ ProbeConnects \/ ProbeFails
    \/ AddressChanges \/ RefreshInterface \/ RefreshPrefix \/ Tick
    \/ \E c \in Callers :
         \/ \E d \in Dests : source_for(c, d)
         \/ PickNone(c) \/ random_addr(c) \/ evict_if_full(c)
         \/ RemoveSoonest(c) \/ InsertPin(c) \/ SocketBound(c)

Spec == Init /\ [][Next]_vars

-----------------------------------------------------------------------------
\* A connection is bound to an address of the pool, or to one that left the
\* pool less than the sticky TTL before the connect began: whatever refreshes,
\* pins and evictions interleave, no source outlives its address by more.
SourceFresh ==
    \A c \in Callers : call[c].pc \in {"evict", "remove", "insert", "bind"} =>
        \/ call[c].src \in pool
        \/ call[c].at < left[call[c].src] + (IF Sticky THEN Ttl ELSE 1)

=============================================================================
