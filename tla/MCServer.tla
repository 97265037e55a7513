------------------------------- MODULE MCServer -------------------------------
(*****************************************************************************)
(* The server: the park registry, the UDP NAT, the replay filter, the        *)
(* control plane, the resolver and the pool of source addresses; the replay  *)
(* rings, the mesh relay, VLESS sessions and VLESS mux, the XHTTP uplink and *)
(* downlink and HTTP/3 datagrams. The parts do not interact: a behaviour is  *)
(* one of a single part, and the parts share the variables v1, v2 ...        *)
(*****************************************************************************)
EXTENDS OrphanRegistry, TLC

CONSTANTS Parts,  \* the parts of a run
          s1, s2, alice, bob

VARIABLES part,  \* the instance this behaviour is of
          v1, v2, v3, v4, v5, v6, v7, v8, v9, v10, v11, v12, v13, v14, v15,
          v16, v17, v18, v19, v20, v21, v22, v23, v24, v25, v26  \* the state of that instance

allVars == <<part, v1, v2, v3, v4, v5, v6, v7, v8, v9, v10, v11, v12, v13, v14,
             v15, v16, v17, v18, v19, v20, v21, v22, v23, v24, v25, v26, vars>>

\* Two sessions of one user; a redial presents the first one's ID as its owner.
AllAlices == [i \in {s1, s2} |-> alice]
Redials == {<<s1, alice>>}
\* The two takers, callers or requests of a part may do the same: the safety
\* run takes them as interchangeable.
Pair == Takers
PairSymmetry == Permutations(Pair)
\* s1 is a TCP session, s2 one of UDP, whose TTL is longer.
TcpShorter == [i \in {s1, s2} |-> IF i = s1 THEN 1 ELSE 2]

\* Streams b and c both ask to resume session A, or neither resumes anything.
OneUser == [s \in {"a", "b", "c"} |-> "u"]
Offer(i, r) == [issued |-> i, resume |-> r]
BothResume == {("b" :> Offer("B", "A")) @@ ("c" :> Offer("C", "A")),
               ("b" :> Offer(None, None)) @@ ("c" :> Offer(None, None))}
FreshStream == {"a" :> Offer("B", None)}

\* A document with a user a, and requests that create, change and delete users
\* and patch every section.
Missing == [absent |-> TRUE]
Entry(pw, v, en, al) == [password |-> pw, vless |-> v, enabled |-> en, alias |-> al]
Doc(shape) ==
  [shape |-> shape,
   users |-> ("a" :> Entry(TRUE, "none", TRUE, "none")) @@ ("b" :> Missing) @@ ("x" :> Missing),
   cluster |-> [enabled |-> TRUE, shard |-> 1, psk |-> "key", mesh_listen |-> "addr"],
   server |-> [listen |-> "addr", cert |-> TRUE, key |-> TRUE],
   resumption |-> [enabled |-> FALSE],
   outbound |-> [prefix |-> TRUE, interface |-> FALSE, refresh |-> 30],
   padding |-> [min |-> 0, max |-> 2],
   fallback |-> [backend |-> "url", timeout |-> 30, h1 |-> TRUE, h3 |-> FALSE, proxy |-> ""],
   sni |-> [backend |-> "host", backends |-> <<>>, match |-> {"name"}],
   profile |-> "large",
   endpoints |-> ("/p" :> FALSE)]
Files == {Doc("tables"), Doc("inline")}
Patch(section, fields) == [kind |-> "patch", section |-> section, fields |-> fields]
UserRequests ==
  {[kind |-> "create", id |-> "b", entry |-> Entry(FALSE, "u1", TRUE, "none")],
   [kind |-> "create", id |-> "x", entry |-> Entry(TRUE, "none", TRUE, "a")],
   [kind |-> "create", id |-> "x", entry |-> Entry(TRUE, "none", FALSE, "none")],
   [kind |-> "update", id |-> "a", patch |-> [vless |-> "u1"]],
   [kind |-> "delete", id |-> "b"],
   [kind |-> "enable", id |-> "a", enabled |-> FALSE],
   [kind |-> "enable", id |-> "x", enabled |-> TRUE]}
Patches ==
  {Patch("cluster", [shard |-> 2]), Patch("cluster", [psk |-> "new"]),
   Patch("server", [listen |-> "bad"]), Patch("resumption", [enabled |-> TRUE]),
   Patch("outbound", [refresh |-> 60]), Patch("padding", [min |-> 1, max |-> 2]),
   Patch("fallback", [proxy |-> "v2"]), Patch("sni", [backends |-> <<"name", "all">>]),
   Patch("profile", [profile |-> "small"]), Patch("endpoints", "/p" :> TRUE)}
ControlRequests == UserRequests \cup Patches

\* Answers of the resolver: one address; or several of both families with a
\* repetition, one, or none.
Addr(six, i) == [v6 |-> six, id |-> i]
OneAnswer == {<<Addr(FALSE, 1)>>}
ManyAnswers ==
  {<<Addr(TRUE, 1), Addr(TRUE, 2), Addr(TRUE, 1), Addr(FALSE, 3)>>, <<Addr(TRUE, 1)>>, <<>>}
OneLiteral == {Addr(TRUE, 2)}
TwoSources == {<<1, 1>>, <<2, 1>>}

\* One session, presented by two redials, each as its owner or as somebody else.
Alices == [i \in {"s1"} |-> "alice"]
AnyClaim == {"s1"} \X {"alice", "bob"}

\* A stream that asks to resume session A, or resumes nothing.
SoloUser == [s \in {"b"} |-> "user"]
Solo == {"b" :> [issued |-> "B", resume |-> "A"], "b" :> [issued |-> None, resume |-> None]}

\* Two streams race to resume a parked session while its entries are swept.
NatResume == INSTANCE UdpNat WITH
    table <- v1, ent <- v2, per_user <- v3, sweep <- v4, stream <- v5,
    task <- v6, parked <- v7, offer <- v8,
    Streams <- {"b", "c"}, Tasks <- {1}, Targets <- {"t"},
    EntryIds <- {11, 12}, UserOf <- OneUser, Offers <- BothResume,
    Earlier <- {"t"}, MaxInFlight <- 2, MaxEntries <- 2, MaxPerUser <- 2,
    Floor <- 1

\* Two datagram tasks of one stream race for a table of one entry.
NatRace == INSTANCE UdpNat WITH
    table <- v1, ent <- v2, per_user <- v3, sweep <- v4, stream <- v5,
    task <- v6, parked <- v7, offer <- v8,
    Streams <- {"a"}, Tasks <- {1, 2}, Targets <- {"t", "w"},
    EntryIds <- {11, 12}, UserOf <- OneUser, Offers <- FreshStream,
    Earlier <- {}, MaxInFlight <- 2, MaxEntries <- 1, MaxPerUser <- 2,
    Floor <- 1

\* Two callers of the replay filter, one user, three packet ids around the
\* window.
Filter == INSTANCE ReplayFilter WITH
    windows <- v1, win <- v2, salts <- v3, tcp_salts <- v4, quota <- v5,
    owed <- v6, retaining <- v7, call <- v8, fresh <- v9,
    open <- v10,
    Calls <- Pair, Users <- {"u"}, Sids <- {"x"}, Pids <- {0, 1, 5},
    Salts <- {"z"}, WindowIds <- {1, 2, 3}, WordBits <- 2, Words <- 2,
    MaxSessions <- 1, MaxPerUser <- 2

\* One caller whose packet ids are shifted from word to word and out of the
\* window.
WindowPart == INSTANCE ReplayFilter WITH
    windows <- v1, win <- v2, salts <- v3, tcp_salts <- v4, quota <- v5,
    owed <- v6, retaining <- v7, call <- v8, fresh <- v9,
    open <- v10,
    Calls <- {1}, Users <- {"u"}, Sids <- {"x"}, Pids <- {0, 1, 2, 6},
    Salts <- {"z"}, WindowIds <- {1, 2}, WordBits <- 2, Words <- 2,
    MaxSessions <- 1, MaxPerUser <- 2

\* Two salts for stores that keep one.
Full == INSTANCE ReplayFilter WITH
    windows <- v1, win <- v2, salts <- v3, tcp_salts <- v4, quota <- v5,
    owed <- v6, retaining <- v7, call <- v8, fresh <- v9,
    open <- v10,
    Calls <- Pair, Users <- {"u"}, Sids <- {}, Pids <- {0},
    Salts <- {"y", "z"}, WindowIds <- {1}, WordBits <- 2, Words <- 2,
    MaxSessions <- 1, MaxPerUser <- 2

\* The control plane serving one request at a time.
Control == INSTANCE ServerControl WITH
    disk <- v1, tmp <- v2, mem <- v3, routes <- v4, auth <- v5, lock <- v6,
    req <- v7, up <- v8, may <- v9, served <- v10, faults <- v11,
    Requests <- {"r"}, Ops <- ControlRequests, Files <- Files, Extra <- {"x"},
    Serial <- TRUE, MaxOps <- 3, MaxFaults <- 1

\* Two callers and two hosts over a cache of one slot.
Resolve == INSTANCE Resolver WITH
    slots <- v1, index <- v2, lru <- v3, flight <- v4, load <- v5, call <- v6,
    now <- v7, calls <- v8,
    Keys <- {"k", "l"}, Callers <- Pair, Loads <- {1, 2, 3},
    Capacity <- 1, Sample <- 2, Ttl <- 1, Grace <- 1, PreferV4 <- FALSE,
    Answers <- OneAnswer, Literals <- {}, Reachable <- {1}, MaxNow <- 2,
    MaxCalls <- 3, Faults <- {"dns"}

\* One caller: cancellation, empty answers, literals, both families.
Connect == INSTANCE Resolver WITH
    slots <- v1, index <- v2, lru <- v3, flight <- v4, load <- v5, call <- v6,
    now <- v7, calls <- v8,
    Keys <- {"k", "l"}, Callers <- {"a"}, Loads <- {1, 2}, Capacity <- 1,
    Sample <- 2, Ttl <- 1, Grace <- 1, PreferV4 <- FALSE,
    Answers <- ManyAnswers, Literals <- OneLiteral, Reachable <- {2},
    MaxNow <- 2, MaxCalls <- 2, Faults <- {"dns", "cancel"}

\* Two callers of one destination over a pool that changes once.
Pins == INSTANCE OutboundIpv6 WITH
    kind <- v1, iface <- v2, pool <- v3, left <- v4, mode <- v5, tries <- v6,
    pins <- v7, call <- v8, now <- v9, changes <- v10,
    Addrs <- TwoSources, Kinds <- {"interface"}, Static <- 1, Sticky <- TRUE,
    Ttl <- 2, Cap <- 1, Callers <- Pair, Dests <- {"d"}, Attempts <- 2,
    MaxNow <- 2, MaxChanges <- 1

\* One caller and two destinations, every kind of pool.
Sources == INSTANCE OutboundIpv6 WITH
    kind <- v1, iface <- v2, pool <- v3, left <- v4, mode <- v5, tries <- v6,
    pins <- v7, call <- v8, now <- v9, changes <- v10,
    Addrs <- TwoSources, Kinds <- {"prefix", "interface", "derived"},
    Static <- 1, Sticky <- TRUE, Ttl <- 2, Cap <- 1, Callers <- {"a"},
    Dests <- {"d", "e"}, Attempts <- 2, MaxNow <- 2, MaxChanges <- 1

\* Both rings, four bytes of capacity and chunks of up to six.
Rings == INSTANCE ReplayRing WITH
    up <- v1, down <- v2,
    Capacity <- 4, MaxChunk <- 6, MaxTotal <- 9

\* Two redials take one parked session.
TakesPart == INSTANCE OrphanRegistry WITH
    by_id <- v1, reservations <- v2, per_user <- v3, deadline <- v4,
    clock <- v5, park <- v6, victim <- v7, take <- v8, sweep <- v9, gone <- v10,
    Ids <- {"s1"}, Users <- {"alice", "bob"}, Owner <- Alices,
    Takers <- Pair, Claims <- AnyClaim, PerUserCap <- 1, GlobalCap <- 2,
    Ttl <- [i \in {"s1"} |-> 1], MaxClock <- 1

\* A session relayed by two edges in turn, with every fault.
Mesh == INSTANCE MeshRelay WITH
    b <- v1, rl <- v2, cl <- v3,
    Relays <- 2, Shapes <- {"tcp", "socket", "mux", "udp"}, Up <- 2, Down <- 2,
    FrameLen <- 2, Ring <- 2, HomePermits <- 2,
    Faults <- {"ackwait", "userwait", "mesh", "budget", "upstream", "eof", "ttl"}

\* A TCP or UDP session over two carriers.
Vless == INSTANCE VlessSession WITH
    shape <- v1, client <- v2, wire <- v3, broken <- v4, srv <- v5, conn <- v6,
    parked <- v7, seen <- v8,
    Carriers <- {1, 2}, Shapes <- {"tcp", "udp"}, Up <- 2, Down <- 2,
    Ring <- 2, ChanCap <- 1,
    Faults <- {"connect", "upstream", "eof", "ttl", "timeout"}

\* A UDP session whose carriers stall, whose frames are cut in two.
VlessUdp == INSTANCE VlessSession WITH
    shape <- v1, client <- v2, wire <- v3, broken <- v4, srv <- v5, conn <- v6,
    parked <- v7, seen <- v8,
    Carriers <- {1, 2}, Shapes <- {"udp"}, Up <- 2, Down <- 2, Ring <- 2,
    ChanCap <- 1, Faults <- {"stall", "connect", "split"}

\* Two sub-connections over two carriers.
Mux == INSTANCE VlessMux WITH
    phase <- v1, carrier <- v2, subs <- v3, held <- v4, relay <- v5,
    chan <- v6, writer <- v7, seen <- v8, frames <- v9, todo <- v10,
    kept <- v11,
    Ids <- {"a", "b"}, MaxSubs <- 2, Units <- 1, ChanCap <- 1,
    MaxCarriers <- 2, MaxFrames <- 2,
    Faults <- {"connect", "write", "eof", "junk"}

\* Three messages through a window of two, with two faults.
Uplink == INSTANCE XhttpUplink WITH
    carrier <- v1, cl <- v2, post <- v3, srv <- v4, rd <- v5, faults <- v6,
    Carriers <- {"h1", "h2", "one"}, Total <- 3, Window <- 2, MaxGap <- 1,
    ReadyCap <- 1, ReorderCap <- 1, WaitCap <- 1,
    Faults <- {"abort", "timeout", "lost", "cancel", "evict", "body", "dup"},
    MaxFaults <- 2

\* Two requests race for one session, which is dropped and re-created.
SessionsPart == INSTANCE XhttpSessions WITH
    table <- v1, obj <- v2, req <- v3, perIp <- v4, permits <- v5, count <- v6,
    got <- v7,
    Ids <- {"x"}, Requests <- Pair, Kinds <- {"get", "h3fin0"},
    Objects <- {1, 2}, MaxRequests <- 3, MaxSessions <- 1, MaxPerIp <- 2,
    MaxRelays <- 1, RingCap <- 1, Chunks <- 2, Idle <- 1,
    Events <- {"drop", "end"}

\* Two requests of one connection, the second without an uplink of its own.
Datagrams == INSTANCE H3Datagram WITH
    policy <- v1, slot <- v2, rq <- v3, demux <- v4, anchor <- v5, link <- v6,
    relay <- v7, cl <- v8, missed <- v9,
    Requests <- {1, 2}, OneShot <- {2},
    Policies <- {"immediate", "after", "decline"}, QueueCap <- 1,
    TotalCap <- 1, MaxUp <- 2, Faults <- {"dead", "end"}

\* One session and one redial.
Redial == INSTANCE OrphanRegistry WITH
    by_id <- v1, reservations <- v2, per_user <- v3, deadline <- v4,
    clock <- v5, park <- v6, victim <- v7, take <- v8, sweep <- v9, gone <- v10,
    Ids <- {"s1"}, Users <- {"alice", "bob"}, Owner <- Alices, Takers <- {"t"},
    Claims <- AnyClaim, PerUserCap <- 1, GlobalCap <- 2,
    Ttl <- [i \in {"s1"} |-> 1], MaxClock <- 1

\* A byte and a FIN from the client, so that the pump may be asleep after a send
\* that failed; one migration.
Migration == INSTANCE CarrierMigration WITH
    status <- v1, written <- v2, taken <- v3, replay <- v4, session_id <- v5,
    carrier_epoch <- v6, phase <- v7, attempts <- v8,
    client_acked_offset <- v9, permit <- v10, carrier <- v11, pump <- v12,
    reader <- v13, dials <- v14, net <- v15, uplink <- v16, downlink <- v17,
    request <- v18, session <- v19, attached <- v20, parked <- v21,
    relay <- v22, upstream_bytes_acked <- v23, downlink_ring <- v24,
    torn_up <- v25, torn_down <- v26,
    MaxUp <- 1, MaxDown <- 0, MaxDials <- 1, UpCap <- 1, DownCap <- 1,
    MaxAttempts <- 2, SymmetricReplay <- TRUE, SoftSwitches <- FALSE

\* A FIN from the client, with planned switches.
SoftMigration == INSTANCE CarrierMigration WITH
    status <- v1, written <- v2, taken <- v3, replay <- v4, session_id <- v5,
    carrier_epoch <- v6, phase <- v7, attempts <- v8,
    client_acked_offset <- v9, permit <- v10, carrier <- v11, pump <- v12,
    reader <- v13, dials <- v14, net <- v15, uplink <- v16, downlink <- v17,
    request <- v18, session <- v19, attached <- v20, parked <- v21,
    relay <- v22, upstream_bytes_acked <- v23, downlink_ring <- v24,
    torn_up <- v25, torn_down <- v26,
    MaxUp <- 0, MaxDown <- 0, MaxDials <- 1, UpCap <- 1, DownCap <- 1,
    MaxAttempts <- 2, SymmetricReplay <- TRUE, SoftSwitches <- TRUE

\* One stream that may resume.
NatEnd == INSTANCE UdpNat WITH
    table <- v1, ent <- v2, per_user <- v3, sweep <- v4, stream <- v5,
    task <- v6, parked <- v7, offer <- v8,
    Streams <- {"b"}, Tasks <- {1}, Targets <- {"t1"}, EntryIds <- {11, 12},
    UserOf <- SoloUser, Offers <- Solo, Earlier <- {"t1"}, MaxInFlight <- 2,
    MaxEntries <- 2, MaxPerUser <- 2, Floor <- 1

\* One byte each way, relayed by two edges in turn.
MeshBack == INSTANCE MeshRelay WITH
    b <- v1, rl <- v2, cl <- v3,
    Relays <- 2, Shapes <- {"tcp", "mux"}, Up <- 1, Down <- 1, FrameLen <- 2,
    Ring <- 2, HomePermits <- 2,
    Faults <- {"ackwait", "userwait", "mesh", "budget", "upstream", "eof", "ttl"}

\* A UDP session whose carriers stall.
VlessPark == INSTANCE VlessSession WITH
    shape <- v1, client <- v2, wire <- v3, broken <- v4, srv <- v5, conn <- v6,
    parked <- v7, seen <- v8,
    Carriers <- {1, 2}, Shapes <- {"udp"}, Up <- 1, Down <- 2, Ring <- 2,
    ChanCap <- 1, Faults <- {"stall", "connect"}

\* Two sub-connections over one carrier.
MuxHarvest == INSTANCE VlessMux WITH
    phase <- v1, carrier <- v2, subs <- v3, held <- v4, relay <- v5,
    chan <- v6, writer <- v7, seen <- v8, frames <- v9, todo <- v10,
    kept <- v11,
    Ids <- {"a", "b"}, MaxSubs <- 2, Units <- 1, ChanCap <- 1,
    MaxCarriers <- 1, MaxFrames <- 2, Faults <- {"eof"}

\* Three messages and no fault.
Upload == INSTANCE XhttpUplink WITH
    carrier <- v1, cl <- v2, post <- v3, srv <- v4, rd <- v5, faults <- v6,
    Carriers <- {"h2", "h3", "one"}, Total <- 3, Window <- 2, MaxGap <- 1,
    ReadyCap <- 1, ReorderCap <- 1, WaitCap <- 1, Faults <- {}, MaxFaults <- 0

\* One session whose client goes away.
SessionEnd == INSTANCE XhttpSessions WITH
    table <- v1, obj <- v2, req <- v3, perIp <- v4, permits <- v5, count <- v6,
    got <- v7,
    Ids <- {"x"}, Requests <- {"r"}, Kinds <- {"get", "one", "post0", "fin0"},
    Objects <- {1}, MaxRequests <- 2, MaxSessions <- 1, MaxPerIp <- 2,
    MaxRelays <- 2, RingCap <- 1, Chunks <- 2, Idle <- 1,
    Events <- {"quiet", "drop", "datagram"}

\* Two requests and no fault.
DatagramUpdate == INSTANCE H3Datagram WITH
    policy <- v1, slot <- v2, rq <- v3, demux <- v4, anchor <- v5, link <- v6,
    relay <- v7, cl <- v8, missed <- v9,
    Requests <- {1, 2}, OneShot <- {}, Policies <- {"immediate", "after"},
    QueueCap <- 1, TotalCap <- 1, MaxUp <- 1, Faults <- {}

\* Two callers of one host.
Lookup == INSTANCE Resolver WITH
    slots <- v1, index <- v2, lru <- v3, flight <- v4, load <- v5, call <- v6,
    now <- v7, calls <- v8,
    Keys <- {"k"}, Callers <- {"a", "b"}, Loads <- {1, 2}, Capacity <- 1,
    Sample <- 2, Ttl <- 1, Grace <- 1, PreferV4 <- FALSE, Answers <- OneAnswer,
    Literals <- {}, Reachable <- {1}, MaxNow <- 1, MaxCalls <- 3,
    Faults <- {"dns", "cancel"}

Spare2 ==     v3 = 0 /\ v4 = 0 /\ v5 = 0 /\ v6 = 0 /\ v7 = 0 /\ v8 = 0 /\ v9 = 0 /\ v10 = 0 /\
              v11 = 0 /\ v12 = 0 /\ v13 = 0 /\ v14 = 0 /\ v15 = 0 /\ v16 = 0 /\ v17 = 0 /\
              v18 = 0 /\ v19 = 0 /\ v20 = 0 /\ v21 = 0 /\ v22 = 0 /\ v23 = 0 /\ v24 = 0 /\
              v25 = 0 /\ v26 = 0
Keep2 == UNCHANGED <<v3, v4, v5, v6, v7, v8, v9, v10, v11, v12, v13, v14, v15, v16, v17, v18, v19, v20, v21, v22, v23, v24, v25, v26>>
Spare3 ==     v4 = 0 /\ v5 = 0 /\ v6 = 0 /\ v7 = 0 /\ v8 = 0 /\ v9 = 0 /\ v10 = 0 /\ v11 = 0 /\
              v12 = 0 /\ v13 = 0 /\ v14 = 0 /\ v15 = 0 /\ v16 = 0 /\ v17 = 0 /\ v18 = 0 /\
              v19 = 0 /\ v20 = 0 /\ v21 = 0 /\ v22 = 0 /\ v23 = 0 /\ v24 = 0 /\ v25 = 0 /\
              v26 = 0
Keep3 == UNCHANGED <<v4, v5, v6, v7, v8, v9, v10, v11, v12, v13, v14, v15, v16, v17, v18, v19, v20, v21, v22, v23, v24, v25, v26>>
Spare6 ==     v7 = 0 /\ v8 = 0 /\ v9 = 0 /\ v10 = 0 /\ v11 = 0 /\ v12 = 0 /\ v13 = 0 /\
              v14 = 0 /\ v15 = 0 /\ v16 = 0 /\ v17 = 0 /\ v18 = 0 /\ v19 = 0 /\ v20 = 0 /\
              v21 = 0 /\ v22 = 0 /\ v23 = 0 /\ v24 = 0 /\ v25 = 0 /\ v26 = 0
Keep6 == UNCHANGED <<v7, v8, v9, v10, v11, v12, v13, v14, v15, v16, v17, v18, v19, v20, v21, v22, v23, v24, v25, v26>>
Spare7 ==     v8 = 0 /\ v9 = 0 /\ v10 = 0 /\ v11 = 0 /\ v12 = 0 /\ v13 = 0 /\ v14 = 0 /\
              v15 = 0 /\ v16 = 0 /\ v17 = 0 /\ v18 = 0 /\ v19 = 0 /\ v20 = 0 /\ v21 = 0 /\
              v22 = 0 /\ v23 = 0 /\ v24 = 0 /\ v25 = 0 /\ v26 = 0
Keep7 == UNCHANGED <<v8, v9, v10, v11, v12, v13, v14, v15, v16, v17, v18, v19, v20, v21, v22, v23, v24, v25, v26>>
Spare8 ==     v9 = 0 /\ v10 = 0 /\ v11 = 0 /\ v12 = 0 /\ v13 = 0 /\ v14 = 0 /\ v15 = 0 /\
              v16 = 0 /\ v17 = 0 /\ v18 = 0 /\ v19 = 0 /\ v20 = 0 /\ v21 = 0 /\ v22 = 0 /\
              v23 = 0 /\ v24 = 0 /\ v25 = 0 /\ v26 = 0
Keep8 == UNCHANGED <<v9, v10, v11, v12, v13, v14, v15, v16, v17, v18, v19, v20, v21, v22, v23, v24, v25, v26>>
Spare9 ==     v10 = 0 /\ v11 = 0 /\ v12 = 0 /\ v13 = 0 /\ v14 = 0 /\ v15 = 0 /\ v16 = 0 /\
              v17 = 0 /\ v18 = 0 /\ v19 = 0 /\ v20 = 0 /\ v21 = 0 /\ v22 = 0 /\ v23 = 0 /\
              v24 = 0 /\ v25 = 0 /\ v26 = 0
Keep9 == UNCHANGED <<v10, v11, v12, v13, v14, v15, v16, v17, v18, v19, v20, v21, v22, v23, v24, v25, v26>>
Spare10 ==    v11 = 0 /\ v12 = 0 /\ v13 = 0 /\ v14 = 0 /\ v15 = 0 /\ v16 = 0 /\ v17 = 0 /\
              v18 = 0 /\ v19 = 0 /\ v20 = 0 /\ v21 = 0 /\ v22 = 0 /\ v23 = 0 /\ v24 = 0 /\
              v25 = 0 /\ v26 = 0
Keep10 == UNCHANGED <<v11, v12, v13, v14, v15, v16, v17, v18, v19, v20, v21, v22, v23, v24, v25, v26>>
Spare11 ==    v12 = 0 /\ v13 = 0 /\ v14 = 0 /\ v15 = 0 /\ v16 = 0 /\ v17 = 0 /\ v18 = 0 /\
              v19 = 0 /\ v20 = 0 /\ v21 = 0 /\ v22 = 0 /\ v23 = 0 /\ v24 = 0 /\ v25 = 0 /\
              v26 = 0
Keep11 == UNCHANGED <<v12, v13, v14, v15, v16, v17, v18, v19, v20, v21, v22, v23, v24, v25, v26>>
Blank == v1 = 0 /\ v2 = 0 /\ v3 = 0 /\ v4 = 0 /\ v5 = 0 /\ v6 = 0 /\ v7 = 0 /\ v8 = 0 /\ v9 = 0 /\ v10 = 0 /\ v11 = 0 /\ v12 = 0 /\ v13 = 0 /\ v14 = 0 /\ v15 = 0 /\ v16 = 0 /\ v17 = 0 /\ v18 = 0 /\ v19 = 0 /\ v20 = 0 /\ v21 = 0 /\ v22 = 0 /\ v23 = 0 /\ v24 = 0 /\ v25 = 0 /\ v26 = 0
KeepAll == UNCHANGED <<v1, v2, v3, v4, v5, v6, v7, v8, v9, v10, v11, v12, v13, v14, v15, v16, v17, v18, v19, v20, v21, v22, v23, v24, v25, v26>>

MCInit ==
  /\ part \in Parts
  /\ \/ part = "registry" /\ Init /\ Blank
     \/ part = "nat_resume" /\ NatResume!Init /\ Spare8 /\ Init
     \/ part = "nat_race" /\ NatRace!Init /\ Spare8 /\ Init
     \/ part = "filter" /\ Filter!Init /\ Spare10 /\ Init
     \/ part = "window" /\ WindowPart!Init /\ Spare10 /\ Init
     \/ part = "full" /\ Full!Init /\ Spare10 /\ Init
     \/ part = "control" /\ Control!Init /\ Spare11 /\ Init
     \/ part = "resolve" /\ Resolve!Init /\ Spare8 /\ Init
     \/ part = "connect" /\ Connect!Init /\ Spare8 /\ Init
     \/ part = "pins" /\ Pins!Init /\ Spare10 /\ Init
     \/ part = "sources" /\ Sources!Init /\ Spare10 /\ Init
     \/ part = "rings" /\ Rings!Init /\ Spare2 /\ Init
     \/ part = "takes" /\ TakesPart!Init /\ Spare10 /\ Init
     \/ part = "mesh" /\ Mesh!Init /\ Spare3 /\ Init
     \/ part = "vless" /\ Vless!Init /\ Spare8 /\ Init
     \/ part = "vless_udp" /\ VlessUdp!Init /\ Spare8 /\ Init
     \/ part = "mux" /\ Mux!Init /\ Spare11 /\ Init
     \/ part = "uplink" /\ Uplink!Init /\ Spare6 /\ Init
     \/ part = "sessions" /\ SessionsPart!Init /\ Spare7 /\ Init
     \/ part = "datagrams" /\ Datagrams!Init /\ Spare9 /\ Init
     \/ part = "redial" /\ Redial!Init /\ Spare10 /\ Init
     \/ part = "migration" /\ Migration!Init /\ Init
     \/ part = "migration_soft" /\ SoftMigration!Init /\ Init
     \/ part = "nat_end" /\ NatEnd!Init /\ Spare8 /\ Init
     \/ part = "mesh_back" /\ MeshBack!Init /\ Spare3 /\ Init
     \/ part = "vless_park" /\ VlessPark!Init /\ Spare8 /\ Init
     \/ part = "mux_harvest" /\ MuxHarvest!Init /\ Spare11 /\ Init
     \/ part = "upload" /\ Upload!Init /\ Spare6 /\ Init
     \/ part = "session_end" /\ SessionEnd!Init /\ Spare7 /\ Init
     \/ part = "datagram_update" /\ DatagramUpdate!Init /\ Spare9 /\ Init
     \/ part = "lookup" /\ Lookup!Init /\ Spare8 /\ Init

MCNext ==
  /\ UNCHANGED part
  /\ \/ part = "registry" /\ Next /\ KeepAll
     \/ part = "nat_resume" /\ NatResume!Next /\ Keep8 /\ UNCHANGED vars
     \/ part = "nat_race" /\ NatRace!Next /\ Keep8 /\ UNCHANGED vars
     \/ part = "filter" /\ Filter!Next /\ Keep10 /\ UNCHANGED vars
     \/ part = "window" /\ WindowPart!Next /\ Keep10 /\ UNCHANGED vars
     \/ part = "full" /\ Full!Next /\ Keep10 /\ UNCHANGED vars
     \/ part = "control" /\ Control!Next /\ Keep11 /\ UNCHANGED vars
     \/ part = "resolve" /\ Resolve!Next /\ Keep8 /\ UNCHANGED vars
     \/ part = "connect" /\ Connect!Next /\ Keep8 /\ UNCHANGED vars
     \/ part = "pins" /\ Pins!Next /\ Keep10 /\ UNCHANGED vars
     \/ part = "sources" /\ Sources!Next /\ Keep10 /\ UNCHANGED vars
     \/ part = "rings" /\ Rings!Next /\ Keep2 /\ UNCHANGED vars
     \/ part = "takes" /\ TakesPart!Next /\ Keep10 /\ UNCHANGED vars
     \/ part = "mesh" /\ Mesh!Next /\ Keep3 /\ UNCHANGED vars
     \/ part = "vless" /\ Vless!Next /\ Keep8 /\ UNCHANGED vars
     \/ part = "vless_udp" /\ VlessUdp!Next /\ Keep8 /\ UNCHANGED vars
     \/ part = "mux" /\ Mux!Next /\ Keep11 /\ UNCHANGED vars
     \/ part = "uplink" /\ Uplink!Next /\ Keep6 /\ UNCHANGED vars
     \/ part = "sessions" /\ SessionsPart!Next /\ Keep7 /\ UNCHANGED vars
     \/ part = "datagrams" /\ Datagrams!Next /\ Keep9 /\ UNCHANGED vars
     \/ part = "redial" /\ Redial!Next /\ Keep10 /\ UNCHANGED vars
     \/ part = "migration" /\ Migration!Next /\ UNCHANGED vars
     \/ part = "migration_soft" /\ SoftMigration!Next /\ UNCHANGED vars
     \/ part = "nat_end" /\ NatEnd!Next /\ Keep8 /\ UNCHANGED vars
     \/ part = "mesh_back" /\ MeshBack!Next /\ Keep3 /\ UNCHANGED vars
     \/ part = "vless_park" /\ VlessPark!Next /\ Keep8 /\ UNCHANGED vars
     \/ part = "mux_harvest" /\ MuxHarvest!Next /\ Keep11 /\ UNCHANGED vars
     \/ part = "upload" /\ Upload!Next /\ Keep6 /\ UNCHANGED vars
     \/ part = "session_end" /\ SessionEnd!Next /\ Keep7 /\ UNCHANGED vars
     \/ part = "datagram_update" /\ DatagramUpdate!Next /\ Keep9 /\ UNCHANGED vars
     \/ part = "lookup" /\ Lookup!Next /\ Keep8 /\ UNCHANGED vars

MCSpec == MCInit /\ [][MCNext]_allVars

\* Each part has the fairness its module states. A behaviour stays in its part,
\* so weak fairness of a disjunction with one action of each part is weak
\* fairness of each of these actions.
Fair1 ==
  \/ part = "redial" /\ (Redial!AbandonPark("s1") \/ Redial!ParkStep("s1")) /\ Keep10 /\ UNCHANGED vars /\ UNCHANGED part
  \/ part = "migration" /\ Migration!PumpStep /\ UNCHANGED vars /\ UNCHANGED part
  \/ part = "migration_soft" /\ SoftMigration!PumpStep /\ UNCHANGED vars /\ UNCHANGED part
  \/ part = "nat_end" /\ NatEnd!TaskStep(1) /\ Keep8 /\ UNCHANGED vars /\ UNCHANGED part
  \/ part = "mesh_back" /\ MeshBack!Home(1) /\ Keep3 /\ UNCHANGED vars /\ UNCHANGED part
  \/ part = "vless_park" /\ VlessPark!TaskStep(1) /\ Keep8 /\ UNCHANGED vars /\ UNCHANGED part
  \/ part = "mux_harvest" /\ MuxHarvest!SenderStep("a") /\ Keep11 /\ UNCHANGED vars /\ UNCHANGED part
  \/ part = "upload" /\ Upload!Driver /\ Keep6 /\ UNCHANGED vars /\ UNCHANGED part
  \/ part = "session_end" /\ SessionEnd!Tick /\ Keep7 /\ UNCHANGED vars /\ UNCHANGED part
  \/ part = "datagram_update" /\ DatagramUpdate!Relay /\ Keep9 /\ UNCHANGED vars /\ UNCHANGED part
  \/ part = "lookup" /\ Lookup!CallerStep("a") /\ Keep8 /\ UNCHANGED vars /\ UNCHANGED part

Fair2 ==
  \/ part = "redial" /\ Redial!TakeStep("t") /\ Keep10 /\ UNCHANGED vars /\ UNCHANGED part
  \/ part = "migration" /\ Migration!MigrationStep /\ UNCHANGED vars /\ UNCHANGED part
  \/ part = "migration_soft" /\ SoftMigration!MigrationStep /\ UNCHANGED vars /\ UNCHANGED part
  \/ part = "nat_end" /\ NatEnd!Teardown("b") /\ Keep8 /\ UNCHANGED vars /\ UNCHANGED part
  \/ part = "mesh_back" /\ MeshBack!Home(2) /\ Keep3 /\ UNCHANGED vars /\ UNCHANGED part
  \/ part = "vless_park" /\ VlessPark!TaskStep(2) /\ Keep8 /\ UNCHANGED vars /\ UNCHANGED part
  \/ part = "mux_harvest" /\ MuxHarvest!SenderStep("b") /\ Keep11 /\ UNCHANGED vars /\ UNCHANGED part
  \/ part = "upload" /\ Upload!Reader /\ Keep6 /\ UNCHANGED vars /\ UNCHANGED part
  \/ part = "session_end" /\ SessionEnd!Handler("r") /\ Keep7 /\ UNCHANGED vars /\ UNCHANGED part
  \/ part = "datagram_update" /\ DatagramUpdate!Handler(1) /\ Keep9 /\ UNCHANGED vars /\ UNCHANGED part
  \/ part = "lookup" /\ Lookup!CallerStep("b") /\ Keep8 /\ UNCHANGED vars /\ UNCHANGED part

Fair3 ==
  \/ part = "nat_end" /\ NatEnd!ReaderMoves(11) /\ Keep8 /\ UNCHANGED vars /\ UNCHANGED part
  \/ part = "mux_harvest" /\ MuxHarvest!SenderStep(MuxHarvest!Relay) /\ Keep11 /\ UNCHANGED vars /\ UNCHANGED part
  \/ part = "upload" /\ Upload!Handler(0) /\ Keep6 /\ UNCHANGED vars /\ UNCHANGED part
  \/ part = "session_end" /\ SessionEnd!Relay(1) /\ Keep7 /\ UNCHANGED vars /\ UNCHANGED part
  \/ part = "datagram_update" /\ DatagramUpdate!Handler(2) /\ Keep9 /\ UNCHANGED vars /\ UNCHANGED part
  \/ part = "lookup" /\ Lookup!LoadStep(1) /\ Keep8 /\ UNCHANGED vars /\ UNCHANGED part

Fair4 ==
  \/ part = "nat_end" /\ NatEnd!ReaderMoves(12) /\ Keep8 /\ UNCHANGED vars /\ UNCHANGED part
  \/ part = "mux_harvest" /\ (MuxHarvest!ReadCancelled("a") \/ MuxHarvest!StopOne("a") \/ MuxHarvest!JoinOne("a")) /\ Keep11 /\ UNCHANGED vars /\ UNCHANGED part
  \/ part = "upload" /\ Upload!Handler(1) /\ Keep6 /\ UNCHANGED vars /\ UNCHANGED part
  \/ part = "session_end" /\ SessionEnd!Sweep("x") /\ Keep7 /\ UNCHANGED vars /\ UNCHANGED part
  \/ part = "lookup" /\ Lookup!LoadStep(2) /\ Keep8 /\ UNCHANGED vars /\ UNCHANGED part

Fair5 ==
  \/ part = "mux_harvest" /\ (MuxHarvest!ReadCancelled("b") \/ MuxHarvest!StopOne("b") \/ MuxHarvest!JoinOne("b")) /\ Keep11 /\ UNCHANGED vars /\ UNCHANGED part
  \/ part = "upload" /\ Upload!Handler(2) /\ Keep6 /\ UNCHANGED vars /\ UNCHANGED part

Fair6 ==
  \/ part = "mux_harvest" /\ MuxHarvest!WriterSends /\ Keep11 /\ UNCHANGED vars /\ UNCHANGED part
  \/ part = "upload" /\ Upload!Handler(Upload!Fin) /\ Keep6 /\ UNCHANGED vars /\ UNCHANGED part

Fair7 ==
  \/ part = "mux_harvest" /\ MuxHarvest!HarvestEnds /\ Keep11 /\ UNCHANGED vars /\ UNCHANGED part

MCFairSpec ==
  /\ MCSpec
  /\ WF_allVars(Fair1) /\ WF_allVars(Fair2) /\ WF_allVars(Fair3) /\ WF_allVars(Fair4) /\ WF_allVars(Fair5) /\ WF_allVars(Fair6) /\ WF_allVars(Fair7)

-----------------------------------------------------------------------------
\* A replay from an offset a ring still holds gives exactly the bytes from
\* there on and is refused only when one of them is gone, the eviction loop of
\* a push never meets an empty deque, and both rings answer as the windows of
\* offsets do that the session models keep in their place (uplink_replay.rs,
\* downlink_ring.rs).
RingsExact == part = "rings" =>
       /\ Rings!ReplayExact
       /\ Rings!EvictionTerminates
       /\ Rings!ReplayImplementsWindow

\* What a relay hands on is a prefix of what it was given, each byte or
\* message once and in order, over any sequence of carriers: mesh and VLESS
\* streams in both directions, the messages of an XHTTP upload whose POSTs are
\* served out of order or retried, and the chunks of an XHTTP downlink over
\* its GETs, with a gap only where a GET was dropped. An upload that closed in
\* order was read whole, and a client that keeps to its window is never
\* refused for a gap (write_uplink_chunk, replay_from,
\* UplinkState::expected_seq).
RelayedExact ==
  /\ part = "mesh" => Mesh!UplinkExact /\ Mesh!DownlinkExact
  /\ part = "vless" => Vless!StreamExact
  /\ part = "uplink" =>
       /\ Uplink!UplinkInOrder
       /\ Uplink!OrderlyCloseIsWhole
       /\ Uplink!WindowPreventsGap
  /\ part = "sessions" => SessionsPart!DownlinkInOrder

\* Nothing reaches a peer before the header that makes sense of it: the VLESS
\* response header opens every carrier, once, whichever writer comes first; a
\* VLESS client gets no HTTP/3 datagram before it has read that header; and a
\* packet sent after its anchor attached finds the anchor in force
\* (LinkPolicy::AfterUplink, the select of the relay loops).
HeaderFirst ==
  /\ part = "vless" => Vless!HeaderOpensCarrier
  /\ part = "vless_udp" => VlessUdp!HeaderOpensCarrier
  /\ part = "mux" => Mux!HeaderLeads
  /\ part = "datagrams" =>
       /\ Datagrams!AttachBeforePacket
       /\ Datagrams!NoEarlyDatagram

\* A resource is used by the session that holds it and by no other: of two
\* redials one gets the park, a NAT entry answers the stream of its own
\* session and never one that has left, a parked scope is resumed by one
\* stream, a parked sub-connection of a mux has no reader left, a UDP session
\* whose carrier goes away keeps its socket, and the datagram relay goes
\* through the request that was anchored last (take_for_resume, NatTable,
\* release_anchor).
SessionsKeepTheirOwn ==
  /\ part = "takes" => TakesPart!OneHitPerPark
  /\ part = "nat_resume" =>
       /\ NatResume!ResponderMatchesSession
       /\ NatResume!ScopeExclusive
       /\ NatResume!NoDepartedResponder
  /\ part = "nat_race" =>
       /\ NatRace!ResponderMatchesSession
       /\ NatRace!NoDepartedResponder
  /\ part = "mux" => Mux!ParkedAreQuiet
  /\ part = "vless_udp" => VlessUdp!DropKeepsSocket
  /\ part = "datagrams" => Datagrams!AnchorInForce

\* A count that admission is decided on is that of what it counts, the slots a
\* task has reserved or still owes included: NAT entries and replay records
\* per user, the keys of the DNS cache, bytes held by POSTs, XHTTP sessions
\* per source address, and bytes of datagrams queued on a connection.
ServerCountsExact ==
  /\ part = "nat_resume" => NatResume!PerUserExact
  /\ part = "nat_race" => NatRace!PerUserExact
  /\ part = "filter" => Filter!QuotaExact
  /\ part = "window" => WindowPart!QuotaExact
  /\ part = "full" => Full!QuotaExact
  /\ part = "resolve" => Resolve!IndexExact
  /\ part = "connect" => Connect!IndexExact
  /\ part = "uplink" => Uplink!HeldBytesExact
  /\ part = "sessions" => SessionsPart!PerIpExact
  /\ part = "datagrams" => Datagrams!QueuedExact

\* The bitmap of a replay window is exactly the ids that passed within its
\* width, so an id in the window passes once and a fresh one is never refused;
\* and while a salt is recorded, one caller that presented it has passed,
\* however many did at once (replay.rs), but for a TCP salt that a full store
\* has let through (fail-open, tcp.rs 1058).
FilterPassesOnce ==
  /\ part = "filter" => Filter!WindowExact /\ Filter!SaltPassesOnce
  /\ part = "window" => WindowPart!WindowExact /\ WindowPart!SaltPassesOnce
  /\ part = "full" => Full!SaltPassesOnce

\* Concurrent misses of a host share one lookup, a failure reaches the waiters
\* only if no answer is cached, a connect fails only if no resolved address
\* accepts, and the source a socket is bound to is in the pool or left it less
\* than the sticky TTL before.
LookupsSound ==
  /\ part = "resolve" =>
       /\ Resolve!OneLookup
       /\ Resolve!StaleBeatsError
       /\ Resolve!ReachableIsReached
  /\ part = "connect" => Connect!ReachableIsReached
  /\ part = "pins" => Pins!SourceFresh
  /\ part = "sources" => Sources!SourceFresh

\* Each push to a ring takes its window of offsets where RingWindow says
\* (uplink_replay.rs 147-174, downlink_ring.rs 163-213).
PushImplementsWindow == [][part = "rings" => Rings!PushesWindow]_allVars

\* A user change the API reported as done is in the file, whatever crash or
\* write error came since; no user is live before it was saved; and saving a
\* form that shows the cluster secret as a mask leaves the secret as it is
\* (handlers.rs, persist.rs).
ControlSaves ==
  /\ [](part = "control" => Control!AckedOnDisk)
  /\ [][part = "control" => Control!SavesFirst /\ Control!KeepsSecret]_allVars

\* What a part waits for, and the end of the wait. A behaviour stays in its
\* part, so that one leads-to states that of every part; a part with two waits
\* has one for each n.
Resuming(n) ==
  \/ part = "redial" /\ Redial!TakeBegun("t")
  \/ part = "migration" /\ n = 1 /\ Migration!Migrating
  \/ part = "migration_soft" /\ n = 1 /\ SoftMigration!Migrating
  \/ part = "migration" /\ n = 2 /\ Migration!PumpSleeps
  \/ part = "migration_soft" /\ n = 2 /\ SoftMigration!PumpSleeps
  \/ part = "mesh_back" /\ MeshBack!CarrierGone(n)
  \/ part = "vless_park" /\ VlessPark!Parking(n)
  \/ part = "mux_harvest" /\ MuxHarvest!Harvesting
Answered(n) ==
  \/ part = "redial" /\ Redial!TakeDone("t")
  \/ part = "migration" /\ n = 1 /\ ~Migration!Migrating
  \/ part = "migration_soft" /\ n = 1 /\ ~SoftMigration!Migrating
  \/ part = "migration" /\ n = 2 /\ ~Migration!PumpSleeps
  \/ part = "migration_soft" /\ n = 2 /\ ~SoftMigration!PumpSleeps
  \/ part = "mesh_back" /\ MeshBack!BackOrBroken
  \/ part = "vless_park" /\ VlessPark!ParkDone(n)
  \/ part = "mux_harvest" /\ MuxHarvest!Harvested

\* Whoever waits for a session to come back gets an answer: a redial that
\* waits for a park, a flow that migrates and the pump asleep on it, a mesh
\* session whose carrier is gone, a VLESS session that is being parked and a
\* mux whose sub-connections are being harvested.
ResumptionEnds == \A n \in {1, 2} : Resuming(n) ~> Answered(n)

Caller == <<"a", "b">>
Waiting(n) ==
  \/ part = "nat_end" /\ NatEnd!Drains("b")
  \/ part = "upload"
  \/ part = "session_end" /\ SessionEnd!Pushing(1)
  \/ part = "datagram_update" /\ DatagramUpdate!UpdatePending
  \/ part = "lookup" /\ Lookup!Waits(Caller[n])
Served(n) ==
  \/ part = "nat_end" /\ ~NatEnd!SenderHeld("b")
  \/ part = "upload" /\ Upload!Uploaded
  \/ part = "session_end" /\ ~SessionEnd!Pushing(1)
  \/ part = "datagram_update" /\ ~DatagramUpdate!UpdatePending
  \/ part = "lookup" /\ ~Lookup!Waits(Caller[n])

\* Nobody waits for ever on the server: the sender of a departed stream is
\* released, an upload without faults is read whole, a push into a full XHTTP
\* downlink ends, an anchor update is applied, and the waiters of a DNS lookup
\* are served.
WaitsEnd == \A n \in {1, 2} : Waiting(n) ~> Served(n)
=============================================================================
