------------------------------- MODULE MCClient -------------------------------
(*****************************************************************************)
(* The client: selection, the calendar, wire failover, probes, the standby   *)
(* pool, loss sampling, the routing table, configuration and saved state;    *)
(* SOCKS TCP and UDP sessions, the shared carriers and the dial plan they    *)
(* use, the VLESS UDP mux, the I/O of a WebSocket carrier, and the pacing of *)
(* a TUN flow. The parts do not interact: a behaviour is one of a single     *)
(* part, and the parts share the variables v1, v2 ...                        *)
(*****************************************************************************)
EXTENDS Integers, Sequences, TLC

CONSTANTS Parts,  \* the parts of a run
          Pair    \* the two dials, requests or targets of a part

VARIABLES part,  \* the instance this behaviour is of
          v1, v2, v3, v4, v5, v6, v7, v8, v9, v10, v11, v12, v13  \* the state of that instance

vars == <<part, v1, v2, v3, v4, v5, v6, v7, v8, v9, v10, v11, v12, v13>>

\* The members of a pair may do the same: the safety run takes them as
\* interchangeable.
PairSymmetry == Permutations(Pair)

FirstHeavier == [u \in {1, 2} |-> IF u = 1 THEN 2 ELSE 1]
AllEqual == [u \in {1, 2} |-> 1]
FirstActive == {[active |-> 1, disabled |-> {}]}

\* The highest carrier of each wire.
OneWire == 0 :> 2
FlatWires == [w \in 0..2 |-> 0]

\* The slots of a day, with windows apart, or the first two of which overlap;
\* the order of a slot is any function of the day and slot.
TwoSlots == <<2, 6>>
NearSlots == <<1, 2, 6>>
RotatedOrder(d, s) == LET r == (d * 5 + s) % 3 IN [i \in 1..3 |-> ((i - 1 + r) % 3) + 1]

\* A configuration with a group the next one drops, an inline list, and files
\* with adjacent, nested and extreme prefixes.
Prefix(a, l) == [addr |-> a, len |-> l]
RouteConfigs ==
  <<[inline |-> <<Prefix(4, 3)>>, invert |-> FALSE, target |-> "g", fallback |-> "h",
     groups |-> {"g", "h"}, first |-> "g", bypass |-> {"h"}],
    [inline |-> <<>>, invert |-> TRUE, target |-> "h", fallback |-> "none",
     groups |-> {"h"}, first |-> "h", bypass |-> {"h"}]>>
RuleFiles == {<<Prefix(5, 3), Prefix(6, 2)>>, <<Prefix(0, 1), Prefix(2, 3), Prefix(7, 3)>>}
RuleFilesOrNone == RuleFiles \cup {<<>>}
RoutedSocks == {[routed |-> TRUE, kind |-> "socks"]}
NotTunUnrouted == [routed : BOOLEAN, kind : {"socks", "tun"}] \ {[routed |-> FALSE, kind |-> "tun"]}

\* Two groups with an uplink each, and requests of every kind.
Rule(via, tag) == [via |-> via, dflt |-> FALSE, tag |-> tag]
BootDoc ==
  [groups |-> <<[name |-> "g", policy |-> "p"], [name |-> "h", policy |-> "p"]>>,
   uplinks |-> <<[name |-> "u", group |-> "g", weight |-> 1], [name |-> "v", group |-> "h", weight |-> 1]>>,
   routes |-> <<Rule("g", 1), [via |-> "direct", dflt |-> TRUE, tag |-> 0]>>,
   sections |-> [s \in {"probe"} |-> "ok"]]
EditRequests ==
  {[kind |-> "group_create", group |-> "k", policy |-> "p"],
   [kind |-> "group_delete", group |-> "k"],
   [kind |-> "group_update", group |-> "g", policy |-> "bad"],
   [kind |-> "group_reorder", group |-> "h", to |-> 1],
   [kind |-> "uplink_create", group |-> "k", name |-> "w"],
   [kind |-> "uplink_create", group |-> "g", name |-> "w"],
   [kind |-> "uplink_delete", group |-> "g", name |-> "u"],
   [kind |-> "uplink_update", group |-> "g", name |-> "u", weight |-> 2],
   [kind |-> "uplink_reorder", group |-> "g", name |-> "w", to |-> 1],
   [kind |-> "route_create", at |-> 0, rule |-> Rule("k", 2)],
   [kind |-> "route_update", index |-> 1, rule |-> Rule("h", 3)],
   [kind |-> "route_delete", index |-> 1],
   [kind |-> "route_reorder", from |-> 1, to |-> 2],
   [kind |-> "patch", section |-> "probe", value |-> "refused"],
   [kind |-> "patch", section |-> "probe", value |-> "bad"]}

\* Carriers 1 and 3 are TCP to one address on wire 0, carrier 2 is QUIC on wire 1.
FamilyOf == [c \in 1..3 |-> IF c = 2 THEN "quic" ELSE "tcp"]
AddressOf == [c \in 1..3 |-> IF c = 2 THEN "q" ELSE "a"]
WireOfCarrier == [c \in 1..3 |-> IF c = 2 THEN 1 ELSE 0]

Mode(f, x) == [fam |-> f, r |-> x]
BothFamilies == {Mode("ws", 2), Mode("xh", 2)}
XhttpOnly == {Mode("xh", 2)}
AllPaths == {<<"ws", 2>>, <<"ws", 1>>, <<"xh", 2>>, <<"one", 0>>}
XhttpPaths == {<<"xh", 2>>, <<"xh", 1>>, <<"one", 0>>}
PacingGains == <<5, 3, 4>>

StateFileOrNone == {[active |-> 0, disabled |-> {}], [active |-> 2, disabled |-> {1}]}
TwoWires == (0 :> 1) @@ (1 :> 0)
LoneFamily == 1 :> "tcp"
LoneAddress == 1 :> "a"
LoneWire == 1 :> 0
EveryRule == <<"group", "drop", "direct">>

\* Two equal uplinks with fallback wires, selected per transport; carriers
\* degrade and lose, an operator moves the pointer.
Settle == INSTANCE UplinkSelection WITH
    st <- v1, enabled <- v2, active <- v3, published <- v4, task <- v5,
    booted <- v6, events <- v7,
    Uplinks <- {1, 2}, Weight <- AllEqual, UdpCapable <- {1, 2},
    HasFallback <- {1, 2}, Global <- FALSE, ProbeEnabled <- TRUE,
    AutoFailback <- FALSE, SharedResume <- FALSE, UdpStrict <- FALSE,
    MinFailures <- 1, Cooldown <- 2, StateFiles <- FirstActive, Sessions <- {},
    Events <- {"probe", "degrade", "loss", "wire", "score", "reselect", "manual"},
    MaxEvents <- 3

\* A global group with failback, whose sessions fail and whose carriers
\* degrade and lose.
SettleBack == INSTANCE UplinkSelection WITH
    st <- v1, enabled <- v2, active <- v3, published <- v4, task <- v5,
    booted <- v6, events <- v7,
    Uplinks <- {1, 2}, Weight <- FirstHeavier, UdpCapable <- {2},
    HasFallback <- {2}, Global <- TRUE, ProbeEnabled <- TRUE,
    AutoFailback <- TRUE, SharedResume <- FALSE, UdpStrict <- FALSE,
    MinFailures <- 1, Cooldown <- 2, StateFiles <- FirstActive, Sessions <- {"s"},
    Events <- {"probe", "degrade", "loss", "fail", "cool"}, MaxEvents <- 3

\* Equal uplinks with failback, whose latencies move.
SettleEqual == INSTANCE UplinkSelection WITH
    st <- v1, enabled <- v2, active <- v3, published <- v4, task <- v5,
    booted <- v6, events <- v7,
    Uplinks <- {1, 2}, Weight <- AllEqual, UdpCapable <- {1},
    HasFallback <- {1, 2}, Global <- FALSE, ProbeEnabled <- TRUE,
    AutoFailback <- TRUE, SharedResume <- FALSE, UdpStrict <- FALSE,
    MinFailures <- 1, Cooldown <- 2, StateFiles <- FirstActive, Sessions <- {},
    Events <- {"probe", "score", "wire", "reselect"}, MaxEvents <- 3

\* A session dials in a probed global group while the operator switches.
Dialled == INSTANCE UplinkSelection WITH
    st <- v1, enabled <- v2, active <- v3, published <- v4, task <- v5,
    booted <- v6, events <- v7,
    Uplinks <- {1, 2}, Weight <- FirstHeavier, UdpCapable <- {1, 2},
    HasFallback <- {}, Global <- TRUE, ProbeEnabled <- TRUE,
    AutoFailback <- TRUE, SharedResume <- FALSE, UdpStrict <- FALSE,
    MinFailures <- 1, Cooldown <- 1, StateFiles <- FirstActive, Sessions <- {"s"},
    Events <- {"probe", "manual", "fail"}, MaxEvents <- 2

\* One wire with three carriers.
CapPart == INSTANCE WireFailover WITH
    s <- v1, order <- v2, sessions <- v3, probe <- v4, wprobe <- v5,
    N <- 1, Configured <- OneWire, Shuffle <- FALSE, ShuffleTimer <- FALSE,
    CarrierDowngrade <- TRUE, ProbeEnabled <- TRUE, Escalates <- TRUE,
    MinFailures <- 2, Window <- 1, RuntimeWindow <- 0, Cooldown <- 1,
    Dead <- {},
    ProbeResults <- {"ok", "carrier", "silent", "error", "endpoint", "site"},
    Dense <- FALSE

\* Three shuffled wires, whose dials and sessions fail.
Round == INSTANCE WireFailover WITH
    s <- v1, order <- v2, sessions <- v3, probe <- v4, wprobe <- v5,
    N <- 3, Configured <- FlatWires, Shuffle <- TRUE, ShuffleTimer <- FALSE,
    CarrierDowngrade <- FALSE, ProbeEnabled <- TRUE, Escalates <- TRUE,
    MinFailures <- 1, Window <- 1, RuntimeWindow <- 0, Cooldown <- 1,
    Dead <- {}, ProbeResults <- {"ok"}, Dense <- FALSE

\* Two shuffled wires that are also re-rolled by the timer.
Timer == INSTANCE WireFailover WITH
    s <- v1, order <- v2, sessions <- v3, probe <- v4, wprobe <- v5,
    N <- 2, Configured <- FlatWires, Shuffle <- TRUE, ShuffleTimer <- TRUE,
    CarrierDowngrade <- FALSE, ProbeEnabled <- TRUE, Escalates <- TRUE,
    MinFailures <- 1, Window <- 1, RuntimeWindow <- 0, Cooldown <- 1,
    Dead <- {}, ProbeResults <- {"ok", "error", "endpoint", "site"},
    Dense <- FALSE

\* Two flows and a sweep over a pool of one slot and two wires.
Pool == INSTANCE StandbyPool WITH
    pool <- v1, active <- v2, gate <- v3, lock <- v4, take <- v5, task <- v6,
    sweep <- v7, events <- v8,
    Wires <- {0, 1}, TunWireDial <- TRUE, Desired <- 1, Takes <- {101, 102},
    Sweeps <- {201}, Refills <- {1, 2, 3}, MaxSweeps <- 1, MaxEvents <- 2,
    Events <- {"rotate", "clear", "die", "fail", "probe"}

\* Probes of every application with DNS and the carrier check.
Probe == INSTANCE ProbeCycle WITH
    uplink <- v1, app <- v2, cursor <- v3, slot <- v4, mode <- v5, pl <- v6,
    cyc <- v7, ka <- v8, others <- v9, events <- v10,
    Urls <- 1, Apps <- {"http", "tls", "tunnel", "none"}, Dns <- TRUE,
    WsProbe <- TRUE, Attempts <- 2, Permits <- 2, Others <- 1,
    EndpointCheck <- TRUE, Liveness <- 1, Keepalive <- TRUE, MaxCycles <- 2,
    MaxEvents <- 1

\* Probes without DNS and without the carrier check.
ProbeBare == INSTANCE ProbeCycle WITH
    uplink <- v1, app <- v2, cursor <- v3, slot <- v4, mode <- v5, pl <- v6,
    cyc <- v7, ka <- v8, others <- v9, events <- v10,
    Urls <- 1, Apps <- {"http", "tls", "tunnel", "none"}, Dns <- FALSE,
    WsProbe <- FALSE, Attempts <- 2, Permits <- 2, Others <- 1,
    EndpointCheck <- TRUE, Liveness <- 1, Keepalive <- TRUE, MaxCycles <- 2,
    MaxEvents <- 1

\* Two nodes over a day boundary, with late wake-ups and restarts.
Calendar == INSTANCE ReselectSchedule WITH
    now <- v1, node <- v2, usable <- v3, steady <- v4, fired <- v5,
    decisions <- v6, events <- v7,
    Nodes <- {"a", "b"}, Uplinks <- {1, 2, 3}, Slots <- TwoSlots,
    SyncOrder <- RotatedOrder, DaySecs <- 9, Tick <- 1, Tolerance <- 2,
    YearDays <- 366, MaxNow <- 13, MaxEvents <- 2

\* One node, two of whose slots are closer than the tolerance.
Overlap == INSTANCE ReselectSchedule WITH
    now <- v1, node <- v2, usable <- v3, steady <- v4, fired <- v5,
    decisions <- v6, events <- v7,
    Nodes <- {"a"}, Uplinks <- {1, 2, 3}, Slots <- NearSlots,
    SyncOrder <- RotatedOrder, DaySecs <- 9, Tick <- 1, Tolerance <- 2,
    YearDays <- 366, MaxNow <- 13, MaxEvents <- 2

\* Two writes of the rule file, a hot apply.
RulesPart == INSTANCE RouteTable WITH
    mode <- v1, file <- v2, tables <- v3, cur <- v4, watch <- v5, cache <- v6,
    look <- v7, gen <- v8, job <- v9, down <- v10, flow <- v11, writes <- v12,
    downs <- v13,
    Bits <- 3, Configs <- RouteConfigs, Contents <- RuleFilesOrNone,
    Modes <- RoutedSocks, Flows <- {}, Address <- 5, MaxWrites <- 2,
    MaxDowns <- 0, QuietSwap <- TRUE, QuietSeed <- TRUE

\* A flow that starts around a hot apply.
FlowsPart == INSTANCE RouteTable WITH
    mode <- v1, file <- v2, tables <- v3, cur <- v4, watch <- v5, cache <- v6,
    look <- v7, gen <- v8, job <- v9, down <- v10, flow <- v11, writes <- v12,
    downs <- v13,
    Bits <- 3, Configs <- RouteConfigs, Contents <- RuleFiles,
    Modes <- NotTunUnrouted, Flows <- {"f"}, Address <- 5, MaxWrites <- 0,
    MaxDowns <- 1, QuietSwap <- TRUE, QuietSeed <- TRUE

\* Two requests, three operations.
Edits == INSTANCE ClientControl WITH
    disk <- v1, live <- v2, table <- v3, lock <- v4, req <- v5, view <- v6,
    apply <- v7, ops <- v8,
    Requests <- Pair, Ops <- EditRequests, Booted <- BootDoc,
    MaxGroups <- 3, MaxOps <- 3, CompileFails <- FALSE

\* Two operations; a table may fail to compile.
EditsFail == INSTANCE ClientControl WITH
    disk <- v1, live <- v2, table <- v3, lock <- v4, req <- v5, view <- v6,
    apply <- v7, ops <- v8,
    Requests <- Pair, Ops <- EditRequests, Booted <- BootDoc,
    MaxGroups <- 3, MaxOps <- 2, CompileFails <- TRUE

\* Two keys, a failed write, a crash.
State == INSTANCE UplinkState WITH
    store <- v1, permit <- v2, writer <- v3, copy <- v4, tmp <- v5, disk <- v6,
    unsaved <- v7, held <- v8, failures <- v9, crashes <- v10,
    Keys <- {"active", "off"}, Values <- {0, 1}, Default <- 0,
    MaxFailures <- 1, MaxCrash <- 1

\* A TCP and a QUIC carrier, two probes.
Loss == INSTANCE CarrierLoss WITH
    carrier <- v1, entries <- v2, carried <- v3, apply <- v4, loss <- v5,
    stamp <- v6, since <- v7, active <- v8, counted <- v9, applies <- v10,
    flips <- v11,
    Carriers <- {1, 2}, Family <- FamilyOf, Address <- AddressOf,
    WireOf <- WireOfCarrier, Wires <- {0, 1}, MaxProbes <- 2, MaxIdle <- 2,
    Staleness <- 1, MinPackets <- 1, MaxSent <- 1, MaxApplies <- 1,
    MaxFlips <- 0

\* Two carriers to one address.
LossAlias == INSTANCE CarrierLoss WITH
    carrier <- v1, entries <- v2, carried <- v3, apply <- v4, loss <- v5,
    stamp <- v6, since <- v7, active <- v8, counted <- v9, applies <- v10,
    flips <- v11,
    Carriers <- {1, 3}, Family <- FamilyOf, Address <- AddressOf,
    WireOf <- WireOfCarrier, Wires <- {0, 1}, MaxProbes <- 1, MaxIdle <- 1,
    Staleness <- 1, MinPackets <- 1, MaxSent <- 1, MaxApplies <- 1,
    MaxFlips <- 0

\* A session that retries and fails over before its first chunk.
Retry == INSTANCE SocksTcp WITH
    s <- v1, cl <- v2, conn <- v3, car <- v4, replay <- v5, ring <- v6,
    active <- v7, blamed <- v8, faults <- v9,
    Uplinks <- {1, 2}, Wires <- {0, 1}, Strict <- TRUE, GlobalProbe <- FALSE,
    Resume <- FALSE, SharedResume <- FALSE, TargetFirst <- FALSE, Up <- 2,
    Down <- 1, Chunk <- 2, ReplayCap <- 2, RingCap <- 2, Budget <- 0,
    Soft <- FALSE, MaxRst <- 2, Standby <- TRUE,
    Faults <- {"dial", "again", "reset", "silent", "clean", "client"},
    MaxFaults <- 2, MaxSwitch <- 0

\* A client that speaks first on a carrier that can resume.
Speaks == INSTANCE SocksTcp WITH
    s <- v1, cl <- v2, conn <- v3, car <- v4, replay <- v5, ring <- v6,
    active <- v7, blamed <- v8, faults <- v9,
    Uplinks <- {1, 2}, Wires <- {0, 1}, Strict <- TRUE, GlobalProbe <- FALSE,
    Resume <- TRUE, SharedResume <- TRUE, TargetFirst <- FALSE, Up <- 2,
    Down <- 1, Chunk <- 2, ReplayCap <- 2, RingCap <- 2, Budget <- 0,
    Soft <- FALSE, MaxRst <- 2, Standby <- FALSE,
    Faults <- {"dial", "reset", "silent", "client"}, MaxFaults <- 2,
    MaxSwitch <- 0

\* A session that redials, resumes and follows a switch.
Resumed == INSTANCE SocksTcp WITH
    s <- v1, cl <- v2, conn <- v3, car <- v4, replay <- v5, ring <- v6,
    active <- v7, blamed <- v8, faults <- v9,
    Uplinks <- {1, 2}, Wires <- {0}, Strict <- TRUE, GlobalProbe <- FALSE,
    Resume <- TRUE, SharedResume <- TRUE, TargetFirst <- TRUE, Up <- 2,
    Down <- 2, Chunk <- 2, ReplayCap <- 2, RingCap <- 2, Budget <- 1,
    Soft <- FALSE, MaxRst <- 2, Standby <- FALSE,
    Faults <- {"dial", "again", "reset", "clean", "trunc", "idle", "client"},
    MaxFaults <- 2, MaxSwitch <- 1

\* Chunks the ring cannot keep and writes that are cut short.
Overflow == INSTANCE SocksTcp WITH
    s <- v1, cl <- v2, conn <- v3, car <- v4, replay <- v5, ring <- v6,
    active <- v7, blamed <- v8, faults <- v9,
    Uplinks <- {1}, Wires <- {0}, Strict <- TRUE, GlobalProbe <- FALSE,
    Resume <- TRUE, SharedResume <- TRUE, TargetFirst <- TRUE, Up <- 2,
    Down <- 2, Chunk <- 2, ReplayCap <- 2, RingCap <- 1, Budget <- 1,
    Soft <- FALSE, MaxRst <- 2, Standby <- FALSE,
    Faults <- {"reset", "partial"}, MaxFaults <- 1, MaxSwitch <- 0

\* An association that loses its carrier or is switched.
Udp == INSTANCE SocksUdp WITH
    assoc <- v1, active <- v2, car <- v3, store <- v4, ptr <- v5, blamed <- v6,
    task <- v7, resp <- v8, seen <- v9,
    Uplinks <- {1, 2}, Scopes <- {TRUE, FALSE}, Shared <- TRUE,
    Ingresses <- {"associate"}, Standby <- FALSE, MaxCarriers <- 4,
    MaxSends <- 2, RespCap <- 1,
    Faults <- {"loss", "dial", "junk", "client", "direct"},
    Intents <- {"soft"}, MaxFaults <- 1, MaxSwitches <- 1

\* Two dials over two slots, a sweep, two faults.
CarriersPart == INSTANCE SharedCarriers WITH
    kind <- v1, reg <- v2, car <- v3, dial <- v4, lock <- v5, gc <- v6,
    faults <- v7,
    Kinds <- {"h2", "h3", "xhttp"}, Dials <- Pair, Slots <- {0, 1}, Min <- 2,
    Cap <- 1, Ids <- {1, 2, 3}, Sweeps <- 1, KeepWarm <- 1, Addrs <- 1,
    Faults <- {"die", "open", "cancel", "dial", "probe"}, MaxFaults <- 2

\* Two dials of both families, weighted memory.
Plan == INSTANCE DialPlan WITH
    ws <- v1, xh <- v2, sub <- v3, win <- v4, dial <- v5, net <- v6, owed <- v7,
    Dials <- Pair, Uplinks <- BothFamilies, Kinds <- {"fresh"},
    Weighted <- TRUE, StreamOne <- FALSE, Ttl <- 1, Window <- 1,
    MaxPenalty <- 2, Paths <- AllPaths, MaxFlips <- 2, Cancels <- FALSE

\* Two dials of one family, which may be cancelled.
PlanLegacy == INSTANCE DialPlan WITH
    ws <- v1, xh <- v2, sub <- v3, win <- v4, dial <- v5, net <- v6, owed <- v7,
    Dials <- Pair, Uplinks <- XhttpOnly, Kinds <- {"fresh"},
    Weighted <- FALSE, StreamOne <- FALSE, Ttl <- 1, Window <- 1,
    MaxPenalty <- 2, Paths <- XhttpPaths, MaxFlips <- 2, Cancels <- TRUE

\* Two targets over a mux of one session.
UdpMux == INSTANCE VlessUdpMux WITH
    now <- v1, map <- v2, slot <- v3, snd <- v4, jan <- v5, down <- v6,
    told <- v7, closed <- v8, cache <- v9,
    Targets <- Pair, Slots <- {1, 2, 3}, MaxSessions <- 1, Idle <- 1,
    DialTicks <- 0, QueueCap <- 1, CacheCap <- 1, MaxNow <- 1, MaxSends <- 3,
    Faults <- {"dial", "die"}

\* A dial that takes a tick, of the two a session may idle.
UdpMuxSlow == INSTANCE VlessUdpMux WITH
    now <- v1, map <- v2, slot <- v3, snd <- v4, jan <- v5, down <- v6,
    told <- v7, closed <- v8, cache <- v9,
    Targets <- Pair, Slots <- {1, 2, 3}, MaxSessions <- 1, Idle <- 2,
    DialTicks <- 1, QueueCap <- 1, CacheCap <- 1, MaxNow <- 3, MaxSends <- 2,
    Faults <- {"dial", "die"}

\* Two messages of any size, every fault.
Io == INSTANCE WsCarrierIo WITH
    shape <- v1, snd <- v2, free <- v3, q <- v4, ctrl <- v5, wr <- v6,
    wire <- v7, peer <- v8, rd <- v9, down <- v10,
    Shapes <- {"frame", "datagram"}, Total <- 2, Sizes <- {0, 1, 4},
    Budget <- 3, SlotsCap <- 2, CtrlCap <- 1, DownCap <- 1, Replies <- 1,
    Faults <- {"send", "stall", "idle", "error", "again", "cover"}

\* Two delivery rates.
Filtering == INSTANCE Bbr WITH
    bbr <- v1, pipe <- v2, odd <- v3, seen <- v4,
    Rates <- {4, 8}, Rtts <- {1}, Scale <- 4, Slots <- 2, Window <- 1,
    RttWindow <- 0, Hold <- 1, Gains <- PacingGains, MinPipe <- 2,
    Quantum <- 2, FullCount <- 2, MinSample <- 2, ThreshInv <- 3,
    FloorRate <- 1, InitialWindow <- 2, ClientWindow <- 2, MaxOdd <- 1

\* A path that lost twice, with a ceiling below what a probe aims at.
Ceiling == INSTANCE Bbr WITH
    bbr <- v1, pipe <- v2, odd <- v3, seen <- v4,
    Rates <- {4}, Rtts <- {2}, Scale <- 4, Slots <- 2, Window <- 1,
    RttWindow <- 1, Hold <- 1, Gains <- PacingGains, MinPipe <- 2,
    Quantum <- 2, FullCount <- 2, MinSample <- 2, ThreshInv <- 3,
    FloorRate <- 1, InitialWindow <- 2, ClientWindow <- 3, MaxOdd <- 2

\* Two uplinks of a probed global group.
Active == INSTANCE UplinkSelection WITH
    st <- v1, enabled <- v2, active <- v3, published <- v4, task <- v5,
    booted <- v6, events <- v7,
    Uplinks <- {1, 2}, Weight <- FirstHeavier, UdpCapable <- {1, 2},
    HasFallback <- {}, Global <- TRUE, ProbeEnabled <- TRUE,
    AutoFailback <- TRUE, SharedResume <- FALSE, UdpStrict <- FALSE,
    MinFailures <- 1, Cooldown <- 1, StateFiles <- StateFileOrNone, Sessions <- {},
    Events <- {"probe", "admin", "manual", "loss"}, MaxEvents <- 2

\* Two wires; the first answers probes and carries no data.
WiresPart == INSTANCE WireFailover WITH
    s <- v1, order <- v2, sessions <- v3, probe <- v4, wprobe <- v5,
    N <- 2, Configured <- TwoWires, Shuffle <- FALSE, ShuffleTimer <- FALSE,
    CarrierDowngrade <- FALSE, ProbeEnabled <- TRUE, Escalates <- TRUE,
    MinFailures <- 2, Window <- 1, RuntimeWindow <- 1, Cooldown <- 1,
    Dead <- {0}, ProbeResults <- {"ok"}, Dense <- TRUE

\* A pool of two slots that flows empty.
Refill == INSTANCE StandbyPool WITH
    pool <- v1, active <- v2, gate <- v3, lock <- v4, take <- v5, task <- v6,
    sweep <- v7, events <- v8,
    Wires <- {0, 1}, TunWireDial <- TRUE, Desired <- 2, Takes <- {101, 102},
    Sweeps <- {}, Refills <- {1, 2, 3}, MaxSweeps <- 0, MaxEvents <- 1,
    Events <- {"die"}

\* One key, a failed write, a crash.
Save == INSTANCE UplinkState WITH
    store <- v1, permit <- v2, writer <- v3, copy <- v4, tmp <- v5, disk <- v6,
    unsaved <- v7, held <- v8, failures <- v9, crashes <- v10,
    Keys <- {"active"}, Values <- {0, 1}, Default <- 0, MaxFailures <- 1,
    MaxCrash <- 1

\* One carrier whose wire may stop being the active one.
FinPart == INSTANCE CarrierLoss WITH
    carrier <- v1, entries <- v2, carried <- v3, apply <- v4, loss <- v5,
    stamp <- v6, since <- v7, active <- v8, counted <- v9, applies <- v10,
    flips <- v11,
    Carriers <- {1}, Family <- LoneFamily, Address <- LoneAddress,
    WireOf <- LoneWire, Wires <- {0, 1}, MaxProbes <- 1, MaxIdle <- 1,
    Staleness <- 1, MinPackets <- 1, MaxSent <- 2, MaxApplies <- 1,
    MaxFlips <- 1

\* An association that is switched.
Assoc == INSTANCE SocksUdp WITH
    assoc <- v1, active <- v2, car <- v3, store <- v4, ptr <- v5, blamed <- v6,
    task <- v7, resp <- v8, seen <- v9,
    Uplinks <- {1, 2}, Scopes <- {TRUE, FALSE}, Shared <- FALSE,
    Ingresses <- {"in_tcp"}, Standby <- TRUE, MaxCarriers <- 3, MaxSends <- 1,
    RespCap <- 1, Faults <- {"half", "direct", "junk", "client"},
    Intents <- {"soft"}, MaxFaults <- 1, MaxSwitches <- 1

\* A session before its first chunk, every fault.
First == INSTANCE SocksTcp WITH
    s <- v1, cl <- v2, conn <- v3, car <- v4, replay <- v5, ring <- v6,
    active <- v7, blamed <- v8, faults <- v9,
    Uplinks <- {1, 2}, Wires <- {0}, Strict <- TRUE, GlobalProbe <- FALSE,
    Resume <- FALSE, SharedResume <- FALSE, TargetFirst <- FALSE, Up <- 1,
    Down <- 1, Chunk <- 2, ReplayCap <- 1, RingCap <- 1, Budget <- 1,
    Soft <- FALSE, MaxRst <- 2, Standby <- FALSE,
    Faults <- {"dial", "again", "silent", "send", "reset", "partial", "client"},
    MaxFaults <- 0, MaxSwitch <- 0

\* A session that the active uplink leaves.
Follow == INSTANCE SocksTcp WITH
    s <- v1, cl <- v2, conn <- v3, car <- v4, replay <- v5, ring <- v6,
    active <- v7, blamed <- v8, faults <- v9,
    Uplinks <- {1, 2}, Wires <- {0}, Strict <- TRUE, GlobalProbe <- FALSE,
    Resume <- TRUE, SharedResume <- TRUE, TargetFirst <- TRUE, Up <- 1,
    Down <- 2, Chunk <- 1, ReplayCap <- 1, RingCap <- 1, Budget <- 1,
    Soft <- TRUE, MaxRst <- 2, Standby <- FALSE,
    Faults <- {"dial", "reset", "silent", "trunc"}, MaxFaults <- 1,
    MaxSwitch <- 1

\* Two dials over two slots, two faults.
DeadPart == INSTANCE SharedCarriers WITH
    kind <- v1, reg <- v2, car <- v3, dial <- v4, lock <- v5, gc <- v6,
    faults <- v7,
    Kinds <- {"h2", "h3", "xhttp"}, Dials <- {1, 2}, Slots <- {0, 1}, Min <- 1,
    Cap <- 1,
    Ids <- {1, 2}, Sweeps <- 1, KeepWarm <- 1, Addrs <- 1,
    Faults <- {"die", "open"}, MaxFaults <- 2

\* A dial that degrades to stream-one and recovers.
Recover == INSTANCE DialPlan WITH
    ws <- v1, xh <- v2, sub <- v3, win <- v4, dial <- v5, net <- v6, owed <- v7,
    Dials <- {1}, Uplinks <- XhttpOnly,
    Kinds <- {"fresh", "redial", "migrate"}, Weighted <- FALSE,
    StreamOne <- TRUE, Ttl <- 1, Window <- 1, MaxPenalty <- 2,
    Paths <- XhttpPaths, MaxFlips <- 2, Cancels <- FALSE

\* Two messages, one above the budget.
ClosePart == INSTANCE WsCarrierIo WITH
    shape <- v1, snd <- v2, free <- v3, q <- v4, ctrl <- v5, wr <- v6,
    wire <- v7, peer <- v8, rd <- v9, down <- v10,
    Shapes <- {"frame"}, Total <- 2, Sizes <- {1, 4}, Budget <- 3,
    SlotsCap <- 1, CtrlCap <- 1, DownCap <- 1, Replies <- 0,
    Faults <- {"send", "stall"}

\* One flow.
TunTcp == INSTANCE TunTcpEngine WITH
    flows <- v1, flow <- v2, index <- v3, carriers <- v4, used <- v5,
    pending_server_bytes_global <- v6, removed <- v7, loop <- v8, conn <- v9,
    reader <- v10, pump <- v11, expired <- v12,
    Keys <- {"k"}, Ids <- {1}, MaxFlows <- 1, CarrierCap <- 1, Permits <- 1,
    MaxPending <- 0, Budget <- 0, RouteBySni <- TRUE

\* One flow.
TunUdpPart == INSTANCE TunUdp WITH
    flows <- v1, index <- v2, direct_flows <- v3, direct_index <- v4,
    flow <- v5, used <- v6, drained <- v7, version <- v8,
    drop_route_cache <- v9, loop <- v10, clock <- v11, active <- v12,
    Keys <- {"k"}, Ids <- {1}, MaxDatagrams <- 2, MaxCarriers <- 2,
    CarrierCap <- 1, MaxDirect <- 1, QueueCap <- 1, DialCap <- 1,
    Rules <- EveryRule

Spare4 ==     v5 = 0 /\ v6 = 0 /\ v7 = 0 /\ v8 = 0 /\ v9 = 0 /\ v10 = 0 /\ v11 = 0 /\
              v12 = 0 /\ v13 = 0
Keep4 == UNCHANGED <<v5, v6, v7, v8, v9, v10, v11, v12, v13>>
Spare5 ==     v6 = 0 /\ v7 = 0 /\ v8 = 0 /\ v9 = 0 /\ v10 = 0 /\ v11 = 0 /\ v12 = 0 /\
              v13 = 0
Keep5 == UNCHANGED <<v6, v7, v8, v9, v10, v11, v12, v13>>
Spare7 ==     v8 = 0 /\ v9 = 0 /\ v10 = 0 /\ v11 = 0 /\ v12 = 0 /\ v13 = 0
Keep7 == UNCHANGED <<v8, v9, v10, v11, v12, v13>>
Spare8 ==     v9 = 0 /\ v10 = 0 /\ v11 = 0 /\ v12 = 0 /\ v13 = 0
Keep8 == UNCHANGED <<v9, v10, v11, v12, v13>>
Spare9 ==     v10 = 0 /\ v11 = 0 /\ v12 = 0 /\ v13 = 0
Keep9 == UNCHANGED <<v10, v11, v12, v13>>
Spare10 ==    v11 = 0 /\ v12 = 0 /\ v13 = 0
Keep10 == UNCHANGED <<v11, v12, v13>>
Spare11 ==    v12 = 0 /\ v13 = 0
Keep11 == UNCHANGED <<v12, v13>>
Spare12 ==    v13 = 0
Keep12 == UNCHANGED <<v13>>

MCInit ==
  /\ part \in Parts
  /\ \/ part = "settle" /\ Settle!Init /\ Spare7
     \/ part = "settle_back" /\ SettleBack!Init /\ Spare7
     \/ part = "settle_equal" /\ SettleEqual!Init /\ Spare7
     \/ part = "dial" /\ Dialled!Init /\ Spare7
     \/ part = "cap" /\ CapPart!Init /\ Spare5
     \/ part = "round" /\ Round!Init /\ Spare5
     \/ part = "timer" /\ Timer!Init /\ Spare5
     \/ part = "pool" /\ Pool!Init /\ Spare8
     \/ part = "probe" /\ Probe!Init /\ Spare10
     \/ part = "probe_bare" /\ ProbeBare!Init /\ Spare10
     \/ part = "calendar" /\ Calendar!Init /\ Spare7
     \/ part = "overlap" /\ Overlap!Init /\ Spare7
     \/ part = "rules" /\ RulesPart!Init
     \/ part = "flows" /\ FlowsPart!Init
     \/ part = "edits" /\ Edits!Init /\ Spare8
     \/ part = "edits_fail" /\ EditsFail!Init /\ Spare8
     \/ part = "state" /\ State!Init /\ Spare10
     \/ part = "loss" /\ Loss!Init /\ Spare11
     \/ part = "loss_alias" /\ LossAlias!Init /\ Spare11
     \/ part = "retry" /\ Retry!Init /\ Spare9
     \/ part = "speaks" /\ Speaks!Init /\ Spare9
     \/ part = "resume" /\ Resumed!Init /\ Spare9
     \/ part = "overflow" /\ Overflow!Init /\ Spare9
     \/ part = "udp" /\ Udp!Init /\ Spare9
     \/ part = "carriers" /\ CarriersPart!Init /\ Spare7
     \/ part = "plan" /\ Plan!Init /\ Spare7
     \/ part = "plan_legacy" /\ PlanLegacy!Init /\ Spare7
     \/ part = "udp_mux" /\ UdpMux!Init /\ Spare9
     \/ part = "udp_mux_slow" /\ UdpMuxSlow!Init /\ Spare9
     \/ part = "io" /\ Io!Init /\ Spare10
     \/ part = "bbr_rates" /\ Filtering!Init /\ Spare4
     \/ part = "ceiling" /\ Ceiling!Init /\ Spare4
     \/ part = "active" /\ Active!Init /\ Spare7
     \/ part = "wires" /\ WiresPart!Init /\ Spare5
     \/ part = "refill" /\ Refill!Init /\ Spare8
     \/ part = "save" /\ Save!Init /\ Spare10
     \/ part = "fin" /\ FinPart!Init /\ Spare11
     \/ part = "assoc" /\ Assoc!Init /\ Spare9
     \/ part = "first" /\ First!Init /\ Spare9
     \/ part = "follow" /\ Follow!Init /\ Spare9
     \/ part = "dead" /\ DeadPart!Init /\ Spare7
     \/ part = "recover" /\ Recover!Init /\ Spare7
     \/ part = "close" /\ ClosePart!Init /\ Spare10
     \/ part = "tun_tcp" /\ TunTcp!Init /\ Spare12
     \/ part = "tun_udp" /\ TunUdpPart!Init /\ Spare12

MCNext ==
  /\ UNCHANGED part
  /\ \/ part = "settle" /\ Settle!Next /\ Keep7
     \/ part = "settle_back" /\ SettleBack!Next /\ Keep7
     \/ part = "settle_equal" /\ SettleEqual!Next /\ Keep7
     \/ part = "dial" /\ Dialled!Next /\ Keep7
     \/ part = "cap" /\ CapPart!Next /\ Keep5
     \/ part = "round" /\ Round!Next /\ Keep5
     \/ part = "timer" /\ Timer!Next /\ Keep5
     \/ part = "pool" /\ Pool!Next /\ Keep8
     \/ part = "probe" /\ Probe!Next /\ Keep10
     \/ part = "probe_bare" /\ ProbeBare!Next /\ Keep10
     \/ part = "calendar" /\ Calendar!Next /\ Keep7
     \/ part = "overlap" /\ Overlap!Next /\ Keep7
     \/ part = "rules" /\ RulesPart!Next
     \/ part = "flows" /\ FlowsPart!Next
     \/ part = "edits" /\ Edits!Next /\ Keep8
     \/ part = "edits_fail" /\ EditsFail!Next /\ Keep8
     \/ part = "state" /\ State!Next /\ Keep10
     \/ part = "loss" /\ Loss!Next /\ Keep11
     \/ part = "loss_alias" /\ LossAlias!Next /\ Keep11
     \/ part = "retry" /\ Retry!Next /\ Keep9
     \/ part = "speaks" /\ Speaks!Next /\ Keep9
     \/ part = "resume" /\ Resumed!Next /\ Keep9
     \/ part = "overflow" /\ Overflow!Next /\ Keep9
     \/ part = "udp" /\ Udp!Next /\ Keep9
     \/ part = "carriers" /\ CarriersPart!Next /\ Keep7
     \/ part = "plan" /\ Plan!Next /\ Keep7
     \/ part = "plan_legacy" /\ PlanLegacy!Next /\ Keep7
     \/ part = "udp_mux" /\ UdpMux!Next /\ Keep9
     \/ part = "udp_mux_slow" /\ UdpMuxSlow!Next /\ Keep9
     \/ part = "io" /\ Io!Next /\ Keep10
     \/ part = "bbr_rates" /\ Filtering!Next /\ Keep4
     \/ part = "ceiling" /\ Ceiling!Next /\ Keep4
     \/ part = "active" /\ Active!Next /\ Keep7
     \/ part = "wires" /\ WiresPart!Next /\ Keep5
     \/ part = "refill" /\ Refill!Next /\ Keep8
     \/ part = "save" /\ Save!Next /\ Keep10
     \/ part = "fin" /\ FinPart!Next /\ Keep11
     \/ part = "assoc" /\ Assoc!Next /\ Keep9
     \/ part = "first" /\ First!Next /\ Keep9
     \/ part = "follow" /\ Follow!Next /\ Keep9
     \/ part = "dead" /\ DeadPart!Next /\ Keep7
     \/ part = "recover" /\ Recover!Next /\ Keep7
     \/ part = "close" /\ ClosePart!Next /\ Keep10
     \/ part = "tun_tcp" /\ TunTcp!Next /\ Keep12
     \/ part = "tun_udp" /\ TunUdpPart!Next /\ Keep12

MCSpec == MCInit /\ [][MCNext]_vars

\* Each part has the fairness its module states. A behaviour stays in its part,
\* so weak fairness of a disjunction with one action of each part is weak
\* fairness of each of these actions.
Fair1 ==
  \/ part = "active" /\ Active!TaskStep("probe") /\ Keep7 /\ UNCHANGED part
  \/ part = "wires" /\ WiresPart!DialStart /\ Keep5 /\ UNCHANGED part
  \/ part = "refill" /\ Refill!TaskSteps /\ Keep8 /\ UNCHANGED part
  \/ part = "probe_bare" /\ ProbeBare!ProbeSteps /\ Keep10 /\ UNCHANGED part
  \/ part = "save" /\ Save!WriterStep /\ Keep10 /\ UNCHANGED part
  \/ part = "fin" /\ FinPart!sample_carrier_loss_once /\ Keep11 /\ UNCHANGED part
  \/ part = "assoc" /\ Assoc!UpStep /\ Keep9 /\ UNCHANGED part
  \/ part = "first" /\ First!Task /\ Keep9 /\ UNCHANGED part
  \/ part = "follow" /\ Follow!Task /\ Keep9 /\ UNCHANGED part
  \/ part = "dead" /\ DeadPart!GcSteps /\ Keep7 /\ UNCHANGED part
  \/ part = "recover" /\ Recover!Starts(1) /\ Keep7 /\ UNCHANGED part
  \/ part = "close" /\ ClosePart!Producer /\ Keep10 /\ UNCHANGED part
  \/ part = "tun_tcp" /\ TunTcp!LoopStep /\ Keep12 /\ UNCHANGED part
  \/ part = "tun_udp" /\ TunUdpPart!UplinkTask(1) /\ Keep12 /\ UNCHANGED part

Fair2 ==
  \/ part = "active" /\ Active!TaskStep("op") /\ Keep7 /\ UNCHANGED part
  \/ part = "wires" /\ WiresPart!DialOk /\ Keep5 /\ UNCHANGED part
  \/ part = "fin" /\ FinPart!adopt_carrier_loss_registries /\ Keep11 /\ UNCHANGED part
  \/ part = "assoc" /\ Assoc!DownStep /\ Keep9 /\ UNCHANGED part
  \/ part = "dead" /\ DeadPart!DialSteps(1) /\ Keep7 /\ UNCHANGED part
  \/ part = "recover" /\ Recover!Step(1) /\ Keep7 /\ UNCHANGED part
  \/ part = "close" /\ ClosePart!Writer /\ Keep10 /\ UNCHANGED part
  \/ part = "tun_tcp" /\ TunTcp!GcScan /\ Keep12 /\ UNCHANGED part
  \/ part = "tun_udp" /\ TunUdpPart!close_udp_flow(1) /\ Keep12 /\ UNCHANGED part

Fair3 ==
  \/ part = "active" /\ Active!initialize_strict_active_selection /\ Keep7 /\ UNCHANGED part
  \/ part = "wires" /\ WiresPart!SessionFails(0, FALSE) /\ Keep5 /\ UNCHANGED part
  \/ part = "assoc" /\ Assoc!Writes /\ Keep9 /\ UNCHANGED part
  \/ part = "dead" /\ DeadPart!DialSteps(2) /\ Keep7 /\ UNCHANGED part
  \/ part = "recover" /\ Recover!Tick /\ Keep7 /\ UNCHANGED part
  \/ part = "close" /\ ClosePart!Reader /\ Keep10 /\ UNCHANGED part
  \/ part = "tun_tcp" /\ TunTcp!GcAbort("k") /\ Keep12 /\ UNCHANGED part
  \/ part = "tun_udp" /\ TunUdpPart!SweepIndex(1) /\ Keep12 /\ UNCHANGED part

Fair4 ==
  \/ part = "active" /\ Active!ProbeCycleEnds /\ Keep7 /\ UNCHANGED part
  \/ part = "dead" /\ (DeadPart!DriverEnds(1) \/ DeadPart!DriverInvalidates(1)) /\ Keep7 /\ UNCHANGED part
  \/ part = "tun_tcp" /\ TunTcp!CloseRemoved(1) /\ Keep12 /\ UNCHANGED part

Fair5 ==
  \/ part = "dead" /\ (DeadPart!DriverEnds(2) \/ DeadPart!DriverInvalidates(2)) /\ Keep7 /\ UNCHANGED part
  \/ part = "tun_tcp" /\ TunTcp!DropFlow(1) /\ Keep12 /\ UNCHANGED part

Fair6 ==
  \/ part = "tun_tcp" /\ TunTcp!ConnStep(1) /\ Keep12 /\ UNCHANGED part

Fair7 ==
  \/ part = "tun_tcp" /\ TunTcp!await_downlink_backlog_room(1) /\ Keep12 /\ UNCHANGED part

Fair8 ==
  \/ part = "tun_tcp" /\ TunTcp!Closed(1) /\ TunTcp!ReadChunk(1) /\ Keep12 /\ UNCHANGED part

Fair9 ==
  \/ part = "tun_tcp" /\ TunTcp!Closed(1) /\ TunTcp!PumpStops(1) /\ Keep12 /\ UNCHANGED part

MCFairSpec ==
  /\ MCSpec
  /\ WF_vars(Fair1) /\ WF_vars(Fair2) /\ WF_vars(Fair3) /\ WF_vars(Fair4) /\ WF_vars(Fair5) /\ WF_vars(Fair6) /\ WF_vars(Fair7) /\ WF_vars(Fair8) /\ WF_vars(Fair9)
  /\ SF_(Save!vars)(part = "save" /\ Save!DebounceEnds)

-----------------------------------------------------------------------------
\* The target of a SOCKS session gets a prefix of what the client sent, over
\* the retries and fail-overs of a session with or without resumption, and over
\* the resumes and switches of one whose target speaks first, and the client one
\* of what the target sent; one carrier loss costs a UDP association neither
\* itself nor its downlink task; and a VLESS UDP session that carried a
\* datagram has a reader for the reply (ReplayBufState,
\* ClientUpstreamRingBuffer, udp_mux_core.rs).
\* The redial of a session with resumption after a closed carrier is not among
\* these: SocksRedial.cfg shows that it may repeat the client's bytes.
SessionsExact ==
  /\ part = "retry" => Retry!UplinkExact
  /\ part = "speaks" => Speaks!UplinkExact /\ Speaks!DownlinkExact
  /\ part = "resume" => Resumed!UplinkExact /\ Resumed!DownlinkExact
  /\ part = "udp" => Udp!OneLossSurvived
  /\ part = "udp_mux" => UdpMux!RepliesHeard
  /\ part = "udp_mux_slow" => UdpMuxSlow!RepliesHeard

\* Nobody is blamed for another's fault: where no uplink answered, none is
\* blamed; a session that failed over and got its first chunk stays where it
\* is; an uplink that served throughout a probe cycle is not reported as
\* failing for a warm pipe that had died, and a warm pipe has no request
\* outstanding (DeferredFailure, probe_all, keepalive_tick).
BlameIsFair ==
  /\ part = "retry" => Retry!OutageBlamesNobody /\ Retry!RescuedStays
  /\ part = "speaks" => Speaks!OutageBlamesNobody /\ Speaks!RescuedStays
  /\ part = "overflow" => Overflow!OutageBlamesNobody
  /\ part = "probe" => Probe!HealthyNotBlamed /\ Probe!SlotIsClean
  /\ part = "probe_bare" =>
       /\ ProbeBare!HealthyNotBlamed
       /\ ProbeBare!SlotIsClean

\* Dials that meet the same empty or dead slot share one handshake; a carrier
\* is of the family that was asked for and never above the rank; and a failure
\* recorded for a rank keeps later dials below it for its TTL
\* (shared_cache.rs, ws_mode_cache.rs).
DialsRemembered ==
  /\ part = "carriers" => CarriersPart!BurstSharesDial
  /\ part = "plan" => Plan!StreamAsAsked
  /\ part = "plan_legacy" => PlanLegacy!FailureRemembered

\* The peer of a carrier gets a Close after every message accepted before it
\* and nothing after it; a close() that returned in time has put them on the
\* socket; and the consumer hears how the carrier ended, after all its data
\* (frame_io_ws.rs).
CloseIsOrderly == part = "io" => Io!CloseAfterData /\ Io!ClosedIsTold /\ Io!EndIsTold

\* A bound or a count agrees with what it counts: the byte budget of a
\* carrier's queue over failed and aborted sends, the sessions and the resume
\* cache of the VLESS UDP mux, and the packets a loss estimate rests on, where
\* a wire with no carrier has no estimate.
ClientCountsExact ==
  /\ part = "io" => Io!BudgetExact
  /\ part = "udp_mux" => UdpMux!CapHolds /\ UdpMux!CacheExact
  /\ part = "loss" => Loss!CountedOnce /\ Loss!EmptyIsUnmeasured
  /\ part = "loss_alias" =>
       /\ LossAlias!CountedOnce
       /\ LossAlias!EmptyIsUnmeasured

\* In STARTUP and in the gain-up phase neither the loss cap nor the short-term
\* ceiling is in force, and the bandwidth estimate is at least the last sample
\* and at most the largest one of its window (bbr.rs).
PacingSound ==
  /\ part = "bbr_rates" =>
       /\ Filtering!ProbesUncapped
       /\ Filtering!FilterSound
  /\ part = "ceiling" => Ceiling!ProbesUncapped /\ Ceiling!FilterSound

\* A decision rests on what is in force when it takes effect: an address is in
\* the merged ranges exactly when a configured prefix covers it, a cached
\* verdict that passes for current is the live table's, a flow that starts
\* after an apply uses the registry it installed, and a warm carrier was
\* dialled on the wire the flow wants.
DecisionsFresh ==
  /\ part = "rules" => RulesPart!MatchExact /\ RulesPart!CacheFresh
  /\ part = "flows" => FlowsPart!NewFlowsUseLive
  /\ part = "pool" => Pool!HandedOnWanted /\ Pool!PoolUniform

\* Whoever is about to write the configuration edits the document that is on
\* disk, so that no other edit is lost; between two applies every live rule
\* names a live group; and the state file is at every moment one that was
\* written whole (handlers of the control API, write_atomic).
ConfigSound ==
  /\ part = "edits" => Edits!WriterSeesDisk /\ Edits!LiveRoutesResolve
  /\ part = "edits_fail" => EditsFail!WriterSeesDisk
  /\ part = "state" => State!FileIsWhole

\* Rotation goes where it should: repeating the selection with nothing new
\* known reaches an uplink it keeps, where no two of its rules are set against
\* each other (Undisputed); an uplink is given up after a pass only when each of
\* its wires was active and failed; and two nodes take the same uplink in a
\* calendar slot, which fires once unless its window overlaps another one's, and
\* is not missed (strict_transport_candidates, record_wire_outcome, sync_pick).
RotationSound ==
  /\ part = "settle" => Settle!SelectionSettles
  /\ part = "settle_back" => SettleBack!SelectionSettles
  /\ part = "settle_equal" => SettleEqual!SelectionSettles
  /\ part = "round" => Round!RoundCoversWires
  /\ part = "calendar" =>
       /\ Calendar!SlotAgreement
       /\ Calendar!SlotFiresOnce
       /\ Calendar!SlotNotMissed
  /\ part = "overlap" => Overlap!SlotAgreement /\ Overlap!SlotFiresOnce

\* A step moves a choice only on the evidence for it: in a probed global group
\* a dial that finishes leaves the active uplink alone, a failure never lifts
\* a carrier, and a cap returns within its grace time only after min_failures
\* triggers (confirm_selected_uplink_for, apply_descent_trigger).
EvidenceMoves ==
  [][/\ part = "dial" => Dialled!DialMovesNothing
     /\ part = "cap" => CapPart!NotLifted /\ CapPart!NoCapInGrace
     /\ part = "timer" => Timer!NotLifted /\ Timer!NoCapInGrace]_vars

\* A step never takes away what is in use: only the reaper drops an open
\* carrier and it keeps the warm ones, a success clears the penalty of its own
\* rank only, the janitor spares a session in use, and an edit by index hits
\* the rule its client saw.
LiveIsKept ==
  [][/\ part = "carriers" =>
          /\ CarriersPart!OnlyReaperDropsOpen
          /\ CarriersPart!ReapKeepsWarm
     /\ part = "plan" => Plan!LowerKeepsPenalty
     /\ part = "udp_mux" => ~UdpMux!RemovesActive
     /\ part = "udp_mux_slow" => ~UdpMuxSlow!RemovesActive
     /\ part = "edits" => Edits!HitsSeenRule
     /\ part = "edits_fail" => EditsFail!HitsSeenRule]_vars

\* A behaviour stays in its part, so that one leads-to states that of several
\* parts; a part with two has one for each n.
Transport == <<"tcp", "udp">>
Bad(n) ==
  \/ part = "active" /\ Active!BadActive(Transport[n])
  \/ part = "wires" /\ WiresPart!StuckOn(0)
  \/ part = "dead" /\ DeadPart!DeadRegistered(n)
  \/ part = "fin" /\ FinPart!Closed(1)
  \/ part = "tun_tcp" /\ TunTcp!Closed(1)
Left(n) ==
  \/ part = "active" /\ ~Active!BadActive(Transport[n])
  \/ part = "wires" /\ ~WiresPart!StuckOn(0)
  \/ part = "dead" /\ DeadPart!Unregistered(n)
  \/ part = "fin" /\ FinPart!FinSent(1)
  \/ part = "tun_tcp" /\ TunTcp!IsDropped(1)

\* What is bad or closed is left: an active uplink that is disabled or fails
\* its probes while another works, a wire that carries no data, a dead shared
\* carrier in the registry, and a closed TUN flow; and measuring a carrier's
\* losses does not keep its FIN from going out.
BadIsLeft == \A n \in {1, 2} : Bad(n) ~> Left(n)

Behind ==
  \/ part = "first" /\ First!AwaitsFirstChunk
  \/ part = "follow" /\ Follow!LeftByActive
  \/ part = "tun_udp" /\ TunUdpPart!LeftByActive(1)
  \/ part = "assoc" /\ Assoc!ReadsReplaced
MovedOn ==
  \/ part = "first" /\ First!FirstChunkSettled
  \/ part = "follow" /\ Follow!FollowedOrOver
  \/ part = "tun_udp" /\ TunUdpPart!FollowedOrDone(1)
  \/ part = "assoc" /\ Assoc!ReaderMoved

\* A session that is left behind moves on: a first chunk is answered, retried
\* or given up, SOCKS and TUN UDP sessions follow the active uplink or end,
\* and the reader of a UDP association follows its carrier.
SessionsFollow == Behind ~> MovedOn

Owed(n) ==
  \/ part = "refill" /\ Refill!Short
  \/ part = "probe_bare" /\ ProbeBare!Attempting
  \/ part = "save" /\ Save!Stored("active", n - 1)
  \/ part = "close" /\ n = 1 /\ ClosePart!Sending
  \/ part = "close" /\ n = 2 /\ ClosePart!Closing
Done(n) ==
  \/ part = "refill" /\ ~Refill!Short
  \/ part = "probe_bare" /\ ProbeBare!Reported
  \/ part = "save" /\ Save!SavedOrMoved("active", n - 1)
  \/ part = "close" /\ n = 1 /\ ClosePart!SendDone
  \/ part = "close" /\ n = 2 /\ ClosePart!CloseReturned

\* Maintenance gets done: the standby pool is refilled, a probe attempt is
\* reported, a stored value reaches the disk, the sends and the close of a
\* carrier return, and a degraded dial returns to the configured mode once the
\* network is sound.
RepairsHappen ==
  /\ \A n \in {1, 2} : Owed(n) ~> Done(n)
  /\ \/ []<>(part # "recover" \/ Recover!NetworkFaulty)
     \/ []<>(part # "recover" \/ Recover!ConfiguredServes)

\* The fairness of the congestion controller: acknowledgements, sends and the clock.
ceilingVars == <<v1, v2, v3, v4>>
CeilingSpec ==
  /\ MCSpec
  /\ WF_ceilingVars(Ceiling!Send) /\ WF_ceilingVars(Ceiling!Tick)
  /\ Ceiling!FairAcked

\* "lifted back up by a clean PROBE_BW gain-up phase" (state_machine/types.rs 331):
\* once the path has stopped losing, the long-term ceiling of bbr.rs is lifted.
HiIsLifted ==
  (part = "ceiling" /\ Ceiling!CeilingSet) ~> (part = "ceiling" /\ ~Ceiling!CeilingSet)
=============================================================================
