-------------------------------- MODULE MCTun ---------------------------------
(*****************************************************************************)
(* The TUN engine: the flow scheduler, TCP receive, scoreboard and send      *)
(* sides, the TCP and UDP flow tables and the reassembler. The parts do not  *)
(* interact; a behaviour is one of a single part, and the parts share the    *)
(* variables v1, v2 ...                                                      *)
(*****************************************************************************)
EXTENDS FlowScheduler, Sequences, TLC

VARIABLES part,  \* the instance this behaviour is of
          v1, v2, v3, v4, v5, v6, v7, v8, v9, v10, v11, v12, v13  \* the state of that instance

allVars == <<part, v1, v2, v3, v4, v5, v6, v7, v8, v9, v10, v11, v12, v13, vars>>

OneKey == [o \in Objects |-> "k"]
EveryRule == <<"group", "drop", "direct">>
FragmentKeys == {[family |-> "v4", id |-> 1], [family |-> "v6", id |-> 1], [family |-> "v6", id |-> 2]}

\* Four bytes from a sequence number just before the wrap.
Receive == INSTANCE TunTcpReceive WITH
    status <- v1, rcv_nxt <- v2, segments <- v3, data <- v4, capacity <- v5,
    owed <- v6, armed <- v7, told <- v8, pump <- v9, was_closed <- v10,
    permit <- v11, fed <- v12, eof <- v13,
    SeqSpace <- 16, Total <- 4, Isn <- 13, InitialWindow <- 4, MaxBytes <- 5,
    MaxSegments <- 2, WindowUnit <- 2

\* Three segments across the wrap.
Scoreboard == INSTANCE TunTcpScoreboard WITH
    server_seq <- v1, unacked <- v2, scoreboard <- v3, last_ack <- v4,
    dup <- v5, recovery_end <- v6, epoch <- v7, pipe_bytes <- v8,
    pipe_segments <- v9, earliest <- v10, reordered <- v11, finned <- v12,
    now <- v13,
    SeqSpace <- 16, Isn <- 14, Total <- 3, Mss <- 1, MaxTime <- 1,
    MaxEpoch <- 1, MaxStale <- 1

\* Two bytes to a client that closes its window, one lost packet.
Send == INSTANCE TunTcpSend WITH
    srv <- v1, fed <- v2, eof <- v3, down <- v4, up <- v5, rcv <- v6,
    held <- v7, gotFin <- v8, sentFin <- v9, edge <- v10, losses <- v11,
    SeqSpace <- 16, Total <- 2, Isn <- 3, Closes <- TRUE, Room <- 1,
    MaxWire <- 2, MaxLoss <- 1

\* Two five-tuples over a table of one flow.
Tcp == INSTANCE TunTcpEngine WITH
    flows <- v1, flow <- v2, index <- v3, carriers <- v4, used <- v5,
    pending_server_bytes_global <- v6, removed <- v7, loop <- v8, conn <- v9,
    reader <- v10, pump <- v11, expired <- v12,
    Keys <- {"k1", "k2"}, Ids <- {1, 2}, MaxFlows <- 1, CarrierCap <- 1,
    Permits <- 1, MaxPending <- 0, Budget <- 0, RouteBySni <- TRUE

\* Two five-tuples over tables of one flow.
Udp == INSTANCE TunUdp WITH
    flows <- v1, index <- v2, direct_flows <- v3, direct_index <- v4,
    flow <- v5, used <- v6, drained <- v7, version <- v8,
    drop_route_cache <- v9, loop <- v10, clock <- v11, active <- v12,
    Keys <- {"k1", "k2"}, Ids <- {1, 2}, MaxDatagrams <- 2, MaxCarriers <- 2,
    CarrierCap <- 1, MaxDirect <- 1, QueueCap <- 1, DialCap <- 1,
    Rules <- EveryRule

\* Three datagrams in both families.
Fragments == INSTANCE Defrag WITH
    sets <- v1, total_buffered_bytes <- v2, next_cleanup <- v3, out <- v4,
    Keys <- FragmentKeys, Versions <- {1, 2}, MaxOffset <- 2, MaxLen <- 1,
    MaxSets <- 2, MaxPerSet <- 3, MaxBytesPerSet <- 3, MaxTotal <- 4,
    Timeout <- 1

Spare4 ==     v5 = 0 /\ v6 = 0 /\ v7 = 0 /\ v8 = 0 /\ v9 = 0 /\ v10 = 0 /\ v11 = 0 /\
              v12 = 0 /\ v13 = 0
Keep4 == UNCHANGED <<v5, v6, v7, v8, v9, v10, v11, v12, v13>>
Spare11 ==    v12 = 0 /\ v13 = 0
Keep11 == UNCHANGED <<v12, v13>>
Spare12 ==    v13 = 0
Keep12 == UNCHANGED <<v13>>
Blank == v1 = 0 /\ v2 = 0 /\ v3 = 0 /\ v4 = 0 /\ v5 = 0 /\ v6 = 0 /\ v7 = 0 /\ v8 = 0 /\ v9 = 0 /\ v10 = 0 /\ v11 = 0 /\ v12 = 0 /\ v13 = 0
KeepAll == UNCHANGED <<v1, v2, v3, v4, v5, v6, v7, v8, v9, v10, v11, v12, v13>>

MCInit ==
  \/ part = "scheduler" /\ Init /\ Blank
  \/ part = "receive" /\ Receive!Init /\ Init /\ now = 0
  \/ part = "scoreboard" /\ Scoreboard!Init /\ Init /\ now = 0
  \/ part = "send" /\ Send!Init /\ Spare11 /\ Init /\ now = 0
  \/ part = "tcp" /\ Tcp!Init /\ Spare12 /\ Init /\ now = 0
  \/ part = "udp" /\ Udp!Init /\ Spare12 /\ Init /\ now = 0
  \/ part = "defrag" /\ Fragments!Init /\ Spare4 /\ Init /\ now = 0

MCNext ==
  /\ UNCHANGED part
  /\ \/ part = "scheduler" /\ Next /\ KeepAll
     \/ part = "receive" /\ Receive!Next /\ UNCHANGED vars
     \/ part = "scoreboard" /\ Scoreboard!Next /\ UNCHANGED vars
     \/ part = "send" /\ Send!Next /\ Keep11 /\ UNCHANGED vars
     \/ part = "tcp" /\ Tcp!Next /\ Keep12 /\ UNCHANGED vars
     \/ part = "udp" /\ Udp!Next /\ Keep12 /\ UNCHANGED vars
     \/ part = "defrag" /\ Fragments!Next /\ Keep4 /\ UNCHANGED vars

MCSpec == MCInit /\ [][MCNext]_allVars

-----------------------------------------------------------------------------
\* Bytes are delivered once and in order: what the client of a TUN flow sent
\* to upstream, over reordered, repeated and cut segments; what upstream sent
\* to the client, over retransmissions and probes; and the fragments of a
\* datagram (recv.rs, deliver.rs, defrag/mod.rs).
TunStreamsExact ==
  /\ part = "receive" => Receive!StreamExact /\ Receive!QueueOrdered
  /\ part = "send" => Send!ClientStreamExact
  /\ part = "defrag" => Fragments!ReassemblyExact

\* What TCP owes is owed by somebody: what was consumed is acknowledged or a
\* delayed ACK is armed, a parked pump has taken all there is, fast recovery
\* is open only while its data is outstanding, and the flow stops waiting for
\* the ACK of its FIN only when the client has the FIN.
DutiesKept ==
  /\ part = "receive" => Receive!AckSentOrArmed /\ Receive!NoLostWakeup
  /\ part = "scoreboard" => Scoreboard!RecoveryOpen
  /\ part = "send" => Send!FinAckIsReal

\* The sums the engine decides on are those of its tables: the cached pipe of
\* the scoreboard, the window edge the client gave across the wrap of the
\* sequence space, carrier slots and backlog bytes, the eviction records of
\* TCP and UDP flows, and bytes held by the reassembler.
TunCountsExact ==
  /\ part = "scoreboard" => Scoreboard!AccountingExact
  /\ part = "send" => Send!WindowRespected
  /\ part = "tcp" =>
       /\ Tcp!SlotsExact
       /\ Tcp!BudgetExact
       /\ Tcp!TableIsEvictable
  /\ part = "udp" => Udp!TablesIndexed
  /\ part = "defrag" => Fragments!BytesAccounted

\* A running reader reads the carrier its UDP flow sends on, but for the moment
\* a fail-over waits to bind the next one and sends nothing; and the datagrams
\* of a flow leave in the order the client sent them, once at most, across the
\* dial buffer, a migration and a fail-over.
FlowOnItsCarrier ==
  /\ [](part = "udp" => Udp!ReaderOnCarrier)
  /\ [][part = "udp" => Udp!NewerOnly]_allVars
=============================================================================
