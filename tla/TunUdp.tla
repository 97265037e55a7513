------------------------------- MODULE TunUdp -------------------------------
(***************************************************************************)
(* The TUN UDP engine: the packet loop with its two flow tables, drop      *)
(* memory and routing decision, the uplink task of a tunnelled flow (dial, *)
(* strict-active verdict, migration, fail-over), its downlink reader, the  *)
(* idle sweep and the background closer.                                   *)
(*                                                                         *)
(* A routing decision awaits, and so does every dial; the rules and the    *)
(* active uplink may change meanwhile.  Both tables are changed only under *)
(* their write lock, one step each.  Carriers of a flow are numbered in    *)
(* the order it dialled them.                                              *)
(*                                                                         *)
(* Left out: addresses and payloads (a datagram is its number), GSO        *)
(* batching, ICMP too-big replies, the SNI memory, which of several flows  *)
(* is the least recently seen (any may be), and the wait for a dial permit *)
(* (max_concurrent_upstream_dials), in which the task buffers datagrams as *)
(* it does in the dial: both are "dial" here.                              *)
(***************************************************************************)
EXTENDS Integers, Sequences, FiniteSets, FiniteSetsExt

CONSTANTS Keys,        \* five-tuples
          Ids,         \* flow ids, 1..n in the order they are given out
          MaxDatagrams,\* bound on the client's datagrams
          MaxCarriers, \* bound on the carriers one flow dials
          CarrierCap,  \* CarrierSlots::cap
          MaxDirect,   \* max_flows, of the direct table
          QueueCap,    \* UDP_OUTBOUND_QUEUE_CAP
          DialCap,     \* UDP_PENDING_DIAL_BUFFER_CAP
          Rules        \* what the routing table says, one verdict per version

VARIABLES flows, index,                \* tunnelled table and its eviction index
          direct_flows, direct_index,  \* the direct ones
          flow,      \* id -> the flow object
          used,      \* CarrierSlots::used
          drained,   \* flows the idle sweep took out, still indexed
          version,   \* RoutingTable::version
          drop_route_cache, \* key -> version a drop verdict is tagged with, -1
          loop,      \* the packet loop
          clock,     \* number of the last datagram of the client
          active     \* strict active uplink: [uplink, migrates]

vars == <<flows, index, direct_flows, direct_index, flow, used, drained, version,
          drop_route_cache, loop, clock, active>>
routing == <<version, drop_route_cache>>
tunnelled == <<flows, index>>
direct == <<direct_flows, direct_index>>

Uplinks == {0, 1}
Versions == DOMAIN Rules
Empty == [k \in Keys |-> 0]
Fresh == [key |-> CHOOSE k \in Keys : TRUE, status |-> "free", task |-> "none",
          queue |-> <<>>, pending |-> <<>>, held |-> 0, uplink |-> 0, carrier |-> 0,
          reader |-> 0, sent |-> 0]
Waiting == [pc |-> "idle", key |-> CHOOSE k \in Keys : TRUE, route |-> "drop"]

Init ==
    /\ flows = Empty /\ index = Empty
    /\ direct_flows = Empty /\ direct_index = Empty
    /\ flow = [i \in Ids |-> Fresh]
    /\ used = 0
    /\ drained = {}
    /\ version = Min(Versions)
    /\ drop_route_cache = [k \in Keys |-> -1]
    /\ loop = Waiting
    /\ clock = 0
    /\ active = [uplink |-> 0, migrates |-> TRUE]

-----------------------------------------------------------------------------
(* FlowEvictionIndex: a record is replaced only by a younger flow's and    *)
(* removed only on behalf of the flow it names.                            *)
Upserted(ix, k, i) == IF ix[k] > i THEN ix ELSE [ix EXCEPT ![k] = i]
Removed(ix, k, i) == IF ix[k] = i THEN [ix EXCEPT ![k] = 0] ELSE ix

(* queue_client_datagram: try_send, a full queue drops the datagram.       *)
Queued(f, d) ==
    IF Len(f.queue) < QueueCap THEN [f EXCEPT !.queue = Append(@, d)] ELSE f

(* The closer gets the handle; the object, its task and its slot live on   *)
(* until it is done with it.                                               *)
Closing(i) == [flow EXCEPT ![i].status = "closing"]

-----------------------------------------------------------------------------
(* The packet loop.                                                        *)

(* handle_packet: the direct table first, then the tunnelled one, then the *)
(* drop memory; only a datagram none of them knows is routed.              *)
handle_packet(k) ==
    /\ loop.pc = "idle"
    /\ clock < MaxDatagrams
    /\ clock' = clock + 1
    /\ IF direct_flows[k] # 0
       THEN /\ flow' = [flow EXCEPT ![direct_flows[k]] = Queued(@, clock + 1)]
            /\ UNCHANGED <<routing, loop>>
       ELSE IF flows[k] # 0
       THEN /\ flow' = [flow EXCEPT ![flows[k]] = Queued(@, clock + 1)]
            /\ UNCHANGED <<routing, loop>>
       ELSE /\ loop' = IF drop_route_cache[k] = version
                       THEN loop
                       ELSE [loop EXCEPT !.pc = "resolve", !.key = k]
            /\ drop_route_cache' = IF drop_route_cache[k] = version
                                   THEN drop_route_cache
                                   ELSE [drop_route_cache EXCEPT ![k] = -1]
            /\ UNCHANGED <<flow, version>>
    /\ UNCHANGED <<tunnelled, direct, used, drained, active>>

resolve_udp ==
    /\ loop.pc = "resolve"
    /\ loop' = [loop EXCEPT !.pc = "apply", !.route = Rules[version]]
    /\ UNCHANGED <<tunnelled, direct, flow, used, drained, routing, clock, active>>

(* remember_dropped_route: tagged with the version current by now.         *)
remember_dropped_route ==
    /\ loop.pc = "apply"
    /\ loop.route = "drop"
    /\ drop_route_cache' = [drop_route_cache EXCEPT ![loop.key] = version]
    /\ loop' = Waiting
    /\ UNCHANGED <<tunnelled, direct, flow, used, drained, version, clock, active>>

FreeIds == {i \in Ids : flow[i].status = "free"}
NewFlow(t) == [Fresh EXCEPT !.key = loop.key, !.status = "live", !.task = t,
                            !.queue = <<clock>>]

(* handle_direct_packet: a full table evicts its oldest flow first.        *)
handle_direct_packet ==
    LET i == Min(FreeIds)
        full == Cardinality({k \in Keys : direct_flows[k] # 0}) >= MaxDirect IN
    /\ loop.pc = "apply"
    /\ loop.route = "direct"
    /\ FreeIds # {}
    /\ \/ /\ ~full \/ \A k \in Keys : direct_index[k] = 0 \/ direct_flows[k] = 0
          /\ flow' = [flow EXCEPT ![i] = NewFlow("direct")]
          /\ direct_flows' = [direct_flows EXCEPT ![loop.key] = i]
          /\ direct_index' = Upserted(direct_index, loop.key, i)
       \/ /\ full
          /\ \E v \in Keys :
                /\ direct_index[v] # 0
                /\ direct_flows[v] # 0
                /\ flow' = [Closing(direct_flows[v]) EXCEPT ![i] = NewFlow("direct")]
                /\ direct_flows' = [direct_flows EXCEPT ![v] = 0, ![loop.key] = i]
                /\ direct_index' = Upserted([direct_index EXCEPT ![v] = 0], loop.key, i)
    /\ loop' = Waiting
    /\ UNCHANGED <<tunnelled, used, drained, routing, clock, active>>

(* spawn_tunnel_flow: a slot if there is one, else the oldest tunnelled    *)
(* flow makes room, else the datagram is dropped.                          *)
spawn_tunnel_flow ==
    LET i == Min(FreeIds)
        k == loop.key
        victims == {v \in Keys : index[v] # 0 /\ flows[v] # 0} IN
    /\ loop.pc = "apply"
    /\ loop.route = "group"
    /\ FreeIds # {}
    /\ \/ /\ used < CarrierCap
          /\ flow' = [flow EXCEPT ![i] = NewFlow("dial")]
          /\ flows' = [flows EXCEPT ![k] = i]
          /\ index' = Upserted(index, k, i)
          /\ used' = used + 1
       \/ /\ used >= CarrierCap
          /\ \E v \in victims :
                /\ flow' = [Closing(flows[v]) EXCEPT ![i] = NewFlow("dial")]
                /\ flows' = [flows EXCEPT ![v] = 0, ![k] = i]
                /\ index' = Upserted([index EXCEPT ![v] = 0], k, i)
          /\ used' = used + 1
       \/ /\ used >= CarrierCap
          /\ victims = {}
          /\ index' = Empty
          /\ UNCHANGED <<flow, flows, used>>
    /\ loop' = Waiting
    /\ UNCHANGED <<direct, drained, routing, clock, active>>

-----------------------------------------------------------------------------
(* Ends of a flow.                                                         *)

Current(i) == flows[flow[i].key] = i

(* close_flow_if_current, by the uplink task or the reader of flow i.      *)
CloseIfCurrent(i) ==
    IF Current(i)
    THEN /\ flows' = [flows EXCEPT ![flow[i].key] = 0]
         /\ index' = Removed(index, flow[i].key, i)
    ELSE UNCHANGED tunnelled

(* The object after its uplink task ended with close_flow_if_current: the  *)
(* task is over and its reader, an AbortOnDrop local, with it.             *)
TaskEnds(i) == [flow EXCEPT ![i].task = "done", ![i].reader = 0,
                            ![i].status = IF Current(i) THEN "closing" ELSE @]

(* The closer drops the handle: the task is aborted, its reader with it,   *)
(* the slot returns.                                                       *)
close_udp_flow(i) ==
    /\ flow[i].status = "closing"
    /\ i \notin drained
    /\ flow' = [flow EXCEPT ![i].status = "gone", ![i].task = "done", ![i].reader = 0]
    /\ used' = IF flow[i].task = "direct" THEN used ELSE used - 1
    /\ UNCHANGED <<tunnelled, direct, drained, routing, loop, clock, active>>

(* cleanup_idle_flows: a quiet flow leaves its table, and in a later step  *)
(* its record leaves the index and the closer gets it.                     *)
drain_idle_flows(k) ==
    /\ drained = {}
    /\ \/ /\ flows[k] # 0
          /\ drained' = {flows[k]}
          /\ flow' = Closing(flows[k])
          /\ flows' = [flows EXCEPT ![k] = 0]
          /\ UNCHANGED direct_flows
       \/ /\ direct_flows[k] # 0
          /\ drained' = {direct_flows[k]}
          /\ flow' = Closing(direct_flows[k])
          /\ direct_flows' = [direct_flows EXCEPT ![k] = 0]
          /\ UNCHANGED flows
    /\ UNCHANGED <<index, direct_index, used, routing, loop, clock, active>>

SweepIndex(i) ==
    LET k == flow[i].key IN
    /\ i \in drained
    /\ drained' = {}
    /\ IF flow[i].task = "direct"
       THEN direct_index' = Removed(direct_index, k, i) /\ UNCHANGED index
       ELSE index' = Removed(index, k, i) /\ UNCHANGED direct_index
    /\ UNCHANGED <<flows, direct_flows, flow, used, routing, loop, clock, active>>

-----------------------------------------------------------------------------
(* The uplink task of a tunnelled flow.                                    *)

TaskStep(i, f) ==
    /\ flow' = [flow EXCEPT ![i] = f]
    /\ UNCHANGED <<tunnelled, direct, used, drained, routing, loop, clock, active>>

TaskCloses(i) ==
    /\ CloseIfCurrent(i)
    /\ flow' = TaskEnds(i)
    /\ UNCHANGED <<direct, used, drained, routing, loop, clock, active>>

(* While it dials, the task takes datagrams off the queue into a bounded   *)
(* buffer.                                                                 *)
BufferWhileDialling(i) ==
    LET f == flow[i] IN
    /\ f.task = "dial"
    /\ f.queue # <<>>
    /\ TaskStep(i, [f EXCEPT !.queue = Tail(@),
                             !.pending = IF Len(@) < DialCap THEN Append(@, Head(f.queue))
                                                             ELSE @])

(* A carrier to uplink u was dialled for a flow without a reader:          *)
(* bind_flow_uplink, and its reader starts.                                *)
Bound(f, u) == [f EXCEPT !.task = "run", !.uplink = u, !.carrier = @ + 1,
                         !.reader = f.carrier + 1]

(* The first dial: the strict active uplink as it is now; bind_flow_uplink *)
(* ends the task when the flow is no longer the key's.                     *)
Dialled(i) ==
    LET f == flow[i] IN
    /\ f.task = "dial"
    /\ \/ TaskStep(i, IF Current(i) THEN Bound(f, active.uplink)
                                    ELSE [f EXCEPT !.task = "done", !.reader = 0])
       \/ TaskCloses(i)

(* udp_active_uplink_verdict says Abort.                                   *)
VerdictAbort(i) ==
    /\ flow[i].task = "run"
    /\ flow[i].held = 0
    /\ active.uplink # flow[i].uplink
    /\ ~active.migrates
    /\ TaskCloses(i)

\* Mutant: the old reader is left running while the carrier is replaced.
ReaderLeftRunning(i) ==
    /\ flow[i].task = "run"
    /\ flow[i].held = 0
    /\ active.uplink # flow[i].uplink
    /\ active.migrates
    /\ TaskStep(i, [flow[i] EXCEPT !.task = "migrate"])
(* migrate_udp_flow, first half: the reader dies, then the carrier.        *)
MigrateStarts(i) ==
    /\ flow[i].task = "run"
    /\ flow[i].held = 0
    /\ active.uplink # flow[i].uplink
    /\ active.migrates
    /\ TaskStep(i, [flow[i] EXCEPT !.task = "migrate", !.reader = 0])

(* Second half: the redial to the target of the verdict.                   *)
migrate_udp_flow(i) ==
    LET f == flow[i] IN
    /\ f.task = "migrate"
    /\ \/ f.carrier < MaxCarriers /\ Current(i) /\ TaskStep(i, Bound(f, 1 - f.uplink))
       \/ TaskCloses(i)

(* The next datagram: what waited for the dial first, then the queue.      *)
TakeDatagram(i) ==
    LET f == flow[i] IN
    /\ f.task = "run"
    /\ f.held = 0
    /\ active.uplink = f.uplink
    /\ f.pending \o f.queue # <<>>
    /\ TaskStep(i, IF f.pending # <<>>
                   THEN [f EXCEPT !.held = Head(f.pending), !.pending = Tail(@)]
                   ELSE [f EXCEPT !.held = Head(f.queue), !.queue = Tail(@)])

Sent(f) == [f EXCEPT !.sent = f.held, !.held = 0]

(* send_packet: it goes out, or is oversized and dropped, or the carrier   *)
(* failed and the task dials again with the datagram in hand.              *)
SendPacket(i) ==
    LET f == flow[i] IN
    /\ f.task = "run"
    /\ f.held # 0
    /\ \/ TaskStep(i, Sent(f))
       \/ TaskStep(i, [f EXCEPT !.held = 0])
       \/ TaskStep(i, [f EXCEPT !.task = "redial"])

(* The fail-over dial ended: the transport is replaced while the old       *)
(* reader still runs.                                                      *)
Redialled(i) ==
    LET f == flow[i] IN
    /\ f.task = "redial"
    /\ \/ /\ f.carrier < MaxCarriers
          /\ TaskStep(i, [f EXCEPT !.task = "bind", !.uplink = active.uplink,
                                    !.carrier = @ + 1])
       \/ TaskCloses(i)

(* bind_flow_uplink has the lock: the flow is still the key's, and the new *)
(* carrier's reader replaces the old one, or the task ends.                *)
Rebind(i) ==
    LET f == flow[i] IN
    /\ f.task = "bind"
    /\ TaskStep(i, IF Current(i) THEN [f EXCEPT !.task = "resend", !.reader = f.carrier]
                                 ELSE [f EXCEPT !.task = "done", !.reader = 0])

(* The datagram in hand is tried once more.                                *)
Resend(i) ==
    LET f == [flow[i] EXCEPT !.task = "run"] IN
    /\ flow[i].task = "resend"
    /\ TaskStep(i, Sent(f)) \/ TaskStep(i, [f EXCEPT !.held = 0])

(* The reader fails, or sees the Abort verdict, and closes the flow, also  *)
(* when the carrier it reads has been replaced.                            *)
ReaderStops(i) ==
    /\ flow[i].reader # 0
    /\ flow' = [flow EXCEPT ![i].reader = 0,
                            ![i].status = IF Current(i) THEN "closing" ELSE @]
    /\ CloseIfCurrent(i)
    /\ UNCHANGED <<direct, used, drained, routing, loop, clock, active>>

(* The direct flow's sender drains its queue.                              *)
DirectSend(i) ==
    LET f == flow[i] IN
    /\ f.task = "direct"
    /\ f.status # "gone"
    /\ f.queue # <<>>
    /\ TaskStep(i, [f EXCEPT !.sent = Head(f.queue), !.queue = Tail(@)])

-----------------------------------------------------------------------------
(* The routing table is reloaded; the group repoints its active uplink.    *)
Reload ==
    /\ version + 1 \in Versions
    /\ version' = version + 1
    /\ UNCHANGED <<tunnelled, direct, flow, used, drained, drop_route_cache, loop, clock, active>>

Repoint(m) ==
    /\ active.uplink = 0
    /\ active' = [uplink |-> 1, migrates |-> m]
    /\ UNCHANGED <<tunnelled, direct, flow, used, drained, routing, loop, clock>>

LoopStep == resolve_udp \/ remember_dropped_route \/ handle_direct_packet \/ spawn_tunnel_flow

UplinkTask(i) ==
    \/ BufferWhileDialling(i) \/ Dialled(i) \/ VerdictAbort(i) \/ MigrateStarts(i)
    \/ migrate_udp_flow(i) \/ TakeDatagram(i) \/ SendPacket(i) \/ Redialled(i)
    \/ Rebind(i) \/ Resend(i)

Next ==
    \/ \E k \in Keys : handle_packet(k) \/ drain_idle_flows(k)
    \/ LoopStep
    \/ \E i \in Ids : close_udp_flow(i) \/ SweepIndex(i) \/ UplinkTask(i)
                        \/ ReaderStops(i) \/ DirectSend(i)
    \/ Reload
    \/ \E m \in BOOLEAN : Repoint(m)

Spec == Init /\ [][Next]_vars

(* The uplink task is scheduled, every dial and send ends.                 *)
Fairness ==
    \A i \in Ids : /\ WF_vars(UplinkTask(i))
                   /\ WF_vars(close_udp_flow(i))
                   /\ WF_vars(SweepIndex(i))

FairSpec == Spec /\ Fairness

-----------------------------------------------------------------------------
(* Every flow in a table can be evicted: its key's record names it.  The   *)
(* sweep removes the record of a flow already out of the table, perhaps    *)
(* after the same five-tuple started a new flow.                           *)
TablesIndexed ==
    \A k \in Keys : /\ flows[k] # 0 => index[k] = flows[k]
                    /\ direct_flows[k] # 0 => direct_index[k] = direct_flows[k]

(* A running reader reads the carrier its flow sends on, except while a    *)
(* fail-over waits to bind the next one, when nothing is sent: a reader    *)
(* left on a replaced carrier would close the flow when that carrier dies. *)
ReaderOnCarrier ==
    \A i \in Ids : flow[i].reader # 0 =>
        \/ flow[i].reader = flow[i].carrier /\ flow[i].task # "migrate"
        \/ flow[i].reader = flow[i].carrier - 1 /\ flow[i].task = "bind"

(* The datagrams of a flow leave in the order the client sent them and at  *)
(* most once, across the dial buffer, a migration and a fail-over.         *)
NewerOnly ==
  \A i \in Ids : flow'[i].sent # flow[i].sent => flow'[i].sent > flow[i].sent
SendsInOrder == [][NewerOnly]_vars

LeftByActive(i) == flow[i].task = "run" /\ flow[i].uplink # active.uplink
FollowedOrDone(i) == flow[i].uplink = active.uplink \/ flow[i].task = "done"

(* A tunnelled flow does not stay on an uplink the group repointed away    *)
(* from: its task moves it or the flow ends.                               *)
FollowsActive == \A i \in Ids : LeftByActive(i) ~> FollowedOrDone(i)
=============================================================================
