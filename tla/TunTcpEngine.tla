---------------------------- MODULE TunTcpEngine ----------------------------
(***************************************************************************)
(* The flow table of the TUN TCP engine and the tasks that share it: the   *)
(* packet loop that admits flows, the connect task that dials for one, its *)
(* upstream reader and pump, the idle collector.                           *)
(*                                                                         *)
(* A flow is an object behind an Arc: it leaves the table in one step and  *)
(* is closed in a later one, its tasks keep it alive after that, and what  *)
(* it owns (a carrier slot, its share of the downlink budget) goes back    *)
(* when the last reference is dropped.  The packet loop is the only one    *)
(* that inserts; everyone else removes by key.                             *)
(*                                                                         *)
(* Left out: what the packets say (TunTcpReceive, TunTcpSend), timers      *)
(* (FlowScheduler), addresses tried by a dial, which of several entries of *)
(* an eviction index is the oldest (any of them may be).                   *)
(***************************************************************************)
EXTENDS Naturals, FiniteSets, FiniteSetsExt

CONSTANTS Keys,        \* four-tuples a client uses
          Ids,         \* flow ids, 1..n in the order they are given out
          MaxFlows,    \* max_flows
          CarrierCap,  \* CarrierSlots::cap
          Permits,     \* max_concurrent_upstream_dials
          MaxPending,  \* max_pending_server_bytes
          Budget,      \* pending_server_budget_bytes
          RouteBySni   \* route_by_sni

VARIABLES flows,      \* key -> id of the object in the table, 0 when absent
          flow,       \* id -> the object
          index,      \* eviction_index: key -> id, 0 when absent
          carriers,   \* carrier_eviction_index, likewise
          used,       \* CarrierSlots::used
          pending_server_bytes_global,
          removed,    \* ids taken out of the table, not closed yet
          loop,       \* the packet loop
          conn,       \* id -> where its connect task is
          reader,     \* id -> where its upstream reader is
          pump,       \* ids whose upstream pump runs
          expired     \* keys the idle collector has found

vars == <<flows, flow, index, carriers, used, pending_server_bytes_global,
          removed, loop, conn, reader, pump, expired>>
tables == <<flows, index, carriers, removed>>
tasks == <<conn, reader, pump>>

Routes == {"tunnel", "direct"}

Idle == [pc |-> "idle", id |-> 0, victim |-> 0, back |-> "idle"]

Init ==
    /\ flows = [k \in Keys |-> 0]
    /\ flow = [i \in Ids |-> [key |-> CHOOSE k \in Keys : TRUE, status |-> "free",
                              route |-> "direct", slot |-> FALSE, bytes |-> 0,
                              alive |-> TRUE]]
    /\ index = [k \in Keys |-> 0]
    /\ carriers = [k \in Keys |-> 0]
    /\ used = 0
    /\ pending_server_bytes_global = 0
    /\ removed = {}
    /\ loop = Idle
    /\ conn = [i \in Ids |-> "none"]
    /\ reader = [i \in Ids |-> "none"]
    /\ pump = {}
    /\ expired = {}

-----------------------------------------------------------------------------
(* The eviction index: at most one record per key, and a record is replaced*)
(* or removed only on behalf of the flow it names or of a younger one.     *)

Upserted(ix, k, i) == IF ix[k] > i THEN ix ELSE [ix EXCEPT ![k] = i]

Dropped(ix, k, i) == IF ix[k] = i THEN [ix EXCEPT ![k] = 0] ELSE ix

(* Who still holds the Arc of flow i.                                      *)
Referenced(i) ==
    \/ flows[flow[i].key] = i
    \/ loop.id = i
    \/ i \in removed
    \/ conn[i] \notin {"none", "done"}
    \/ reader[i] \notin {"none", "done"}
    \/ i \in pump

Live(i) == flow[i].status = "open"
Closed(i) == flow[i].status = "closed"

-----------------------------------------------------------------------------
(* Removing a flow.                                                        *)

(* flows.remove(key), the first step of close_flow and of every abort; the *)
(* caller then waits for the flow's lock.                                  *)
Remove(k) ==
    /\ flows' = [flows EXCEPT ![k] = 0]
    /\ removed' = IF flows[k] = 0 THEN removed ELSE removed \cup {flows[k]}

(* The rest of abort_removed_flow_with_rst and close_flow: under the lock  *)
(* the flow turns Closed and both indexes forget it; the close signal      *)
(* follows.                                                                *)
CloseRemoved(i) ==
    /\ i \in removed
    /\ flow' = [flow EXCEPT ![i].status = "closed"]
    /\ index' = Dropped(index, flow[i].key, i)
    /\ carriers' = Dropped(carriers, flow[i].key, i)
    /\ removed' = removed \ {i}
    /\ UNCHANGED <<flows, used, pending_server_bytes_global, loop, tasks, expired>>

(* The last reference goes: Drop for TcpFlowState returns the flow's share *)
(* of the budget and Drop for CarrierSlot the slot.                        *)
DropFlow(i) ==
    /\ flow[i].status \in {"open", "closed"}
    /\ ~Referenced(i)
    /\ flow' = [flow EXCEPT ![i].status = "dropped", ![i].slot = FALSE, ![i].bytes = 0]
    /\ used' = IF flow[i].slot THEN used - 1 ELSE used
    /\ pending_server_bytes_global' = pending_server_bytes_global - flow[i].bytes
    /\ UNCHANGED <<tables, loop, tasks, expired>>

-----------------------------------------------------------------------------
(* The packet loop.                                                        *)

NextId == Min({i \in Ids : flow[i].status = "free"})

(* handle_new_flow for a SYN whose key has no flow: the object is built.   *)
handle_new_flow(k, r, a) ==
    /\ loop.pc = "idle"
    /\ flows[k] = 0
    /\ \E i \in Ids : flow[i].status = "free"
    /\ flow' = [flow EXCEPT ![NextId] = [key |-> k, status |-> "open", route |-> r,
                                         slot |-> FALSE, bytes |-> 0, alive |-> a]]
    /\ loop' = [Idle EXCEPT !.pc = "evict", !.id = NextId]
    /\ UNCHANGED <<tables, used, pending_server_bytes_global, tasks, expired>>

Occupied == {k \in Keys : flows[k] # 0}

(* insert_flow, while the table is full: pop a record, or give up.         *)
EvictOldest ==
    /\ loop.pc = "evict"
    /\ Cardinality(Occupied) >= MaxFlows
    /\ IF \A k \in Keys : index[k] = 0
       THEN loop' = Idle /\ UNCHANGED index
       ELSE \E k \in Keys :
              /\ index[k] # 0
              /\ index' = [index EXCEPT ![k] = 0]
              /\ loop' = [loop EXCEPT !.pc = "abort", !.victim = index[k], !.back = "evict"]
    /\ UNCHANGED <<flows, flow, carriers, used, pending_server_bytes_global, removed, tasks, expired>>

(* abort_flow_with_rst_if_id: only the very flow the record named goes.    *)
abort_flow_with_rst_if_id ==
    LET v == loop.victim
        k == flow[v].key IN
    /\ loop.pc = "abort"
    /\ IF flows[k] = v
       THEN Remove(k) /\ UNCHANGED <<index, carriers>>
       ELSE /\ index' = Dropped(index, k, v)
            /\ carriers' = Dropped(carriers, k, v)
            /\ UNCHANGED <<flows, removed>>
    /\ loop' = [loop EXCEPT !.pc = "aborting"]
    /\ UNCHANGED <<flow, used, pending_server_bytes_global, tasks, expired>>

AbortDone ==
    /\ loop.pc = "aborting"
    /\ loop.victim \notin removed
    /\ loop' = [loop EXCEPT !.pc = loop.back, !.victim = 0]
    /\ UNCHANGED <<tables, flow, used, pending_server_bytes_global, tasks, expired>>

(* The flow takes slot: try_acquire with room, acquire_evicted without.    *)
Acquire(i) ==
    /\ used' = used + 1
    /\ flow' = [flow EXCEPT ![i].slot = TRUE]
    /\ carriers' = Upserted(carriers, flow[i].key, i)

(* insert_flow's carrier budget: only tunnelled flows take part.           *)
TakeSlot ==
    LET i == loop.id IN
    /\ loop.pc = "evict"
    /\ Cardinality(Occupied) < MaxFlows
    /\ \/ /\ flow[i].route = "direct"
          /\ loop' = [loop EXCEPT !.pc = "insert"]
          /\ UNCHANGED <<flow, used, carriers>>
       \/ /\ flow[i].route = "tunnel"
          /\ used < CarrierCap
          /\ Acquire(i)
          /\ loop' = [loop EXCEPT !.pc = "insert"]
       \/ /\ flow[i].route = "tunnel"
          /\ used >= CarrierCap
          /\ \A k \in Keys : carriers[k] = 0
          /\ loop' = Idle
          /\ UNCHANGED <<flow, used, carriers>>
       \/ /\ flow[i].route = "tunnel"
          /\ used >= CarrierCap
          /\ \E k \in Keys :
                /\ carriers[k] # 0
                /\ carriers' = [carriers EXCEPT ![k] = 0]
                /\ loop' = [loop EXCEPT !.pc = "abort", !.victim = carriers[k],
                                        !.back = "evicted"]
          /\ UNCHANGED <<flow, used>>
    /\ UNCHANGED <<flows, index, removed, pending_server_bytes_global, tasks, expired>>

acquire_evicted ==
    /\ loop.pc = "evicted"
    /\ Acquire(loop.id)
    /\ loop' = [loop EXCEPT !.pc = "insert"]
    /\ UNCHANGED <<flows, index, removed, pending_server_bytes_global, tasks, expired>>

InsertFlow ==
    /\ loop.pc = "insert"
    /\ flows' = [flows EXCEPT ![flow[loop.id].key] = loop.id]
    /\ loop' = [loop EXCEPT !.pc = "index"]
    /\ UNCHANGED <<flow, index, carriers, used, pending_server_bytes_global, removed, tasks, expired>>

IndexFlow ==
    /\ loop.pc = "index"
    /\ index' = Upserted(index, flow[loop.id].key, loop.id)
    /\ loop' = [loop EXCEPT !.pc = "synack"]
    /\ UNCHANGED <<flows, flow, carriers, used, pending_server_bytes_global, removed, tasks, expired>>

(* The SYN-ACK is written and the connect task starts, or the write fails  *)
(* and the flow is closed.                                                 *)
SynAck ==
    LET i == loop.id IN
    /\ loop.pc = "synack"
    /\ \/ /\ conn' = [conn EXCEPT ![i] = "sniff"]
          /\ UNCHANGED <<flows, removed>>
       \/ /\ Remove(flow[i].key)
          /\ UNCHANGED conn
    /\ loop' = Idle
    /\ UNCHANGED <<flow, index, carriers, used, pending_server_bytes_global, reader, pump, expired>>

(* handle_existing_flow ends a flow: a RST or the last ACK of a close.     *)
ClientEnds(k) ==
    /\ loop.pc = "idle"
    /\ flows[k] # 0
    /\ Remove(k)
    /\ UNCHANGED <<flow, index, carriers, used, pending_server_bytes_global, loop, tasks, expired>>

(* record_flow_activity, with the flow's lock held.                        *)
record_flow_activity(i) == Upserted(index, flow[i].key, i)

(* A packet of the client: it is seen, and may acknowledge a byte.         *)
ClientPacket(i) ==
    /\ loop.pc = "idle"
    /\ flows[flow[i].key] = i
    /\ Live(i)
    /\ index' = record_flow_activity(i)
    /\ \/ /\ flow[i].alive
          /\ flow[i].bytes > 0
          /\ flow' = [flow EXCEPT ![i].bytes = @ - 1]
          /\ pending_server_bytes_global' = pending_server_bytes_global - 1
       \/ UNCHANGED <<flow, pending_server_bytes_global>>
    /\ UNCHANGED <<flows, carriers, used, removed, loop, tasks, expired>>

-----------------------------------------------------------------------------
(* The connect task.                                                       *)

ConnGoes(i, pc) == conn' = [conn EXCEPT ![i] = pc]

(* abort_flow_with_rst(&key, ..): whatever flow has the key goes.          *)
ConnAborts(i) ==
    /\ Remove(flow[i].key)
    /\ ConnGoes(i, "done")
    /\ UNCHANGED <<flow, index, carriers, used, pending_server_bytes_global, loop, reader, pump, expired>>

(* sniff_and_override_target: None when the flow is closed.                *)
sniff_and_override_target(i) ==
    /\ conn[i] = "sniff"
    /\ ConnGoes(i, IF Closed(i) THEN "done" ELSE IF RouteBySni THEN "resolve" ELSE "admit")
    /\ UNCHANGED <<tables, flow, used, pending_server_bytes_global, loop, reader, pump, expired>>

(* The verdict of resolve_sni is published: a flow that changes sides      *)
(* takes a slot or gives its slot back.                                    *)
Publish(i, r) ==
    IF flow[i].route = r
    THEN UNCHANGED <<flow, used, carriers>>
    ELSE /\ flow' = [flow EXCEPT ![i].route = r, ![i].slot = (r = "tunnel")]
         /\ IF r = "tunnel"
            THEN /\ used' = used + 1
                 /\ carriers' = Upserted(carriers, flow[i].key, i)
            ELSE /\ used' = IF flow[i].slot THEN used - 1 ELSE used
                 /\ carriers' = Dropped(carriers, flow[i].key, i)

resolve_sni(i) ==
    /\ conn[i] = "resolve"
    /\ \/ ConnAborts(i)
       \/ /\ \E r \in Routes : Publish(i, r)
          /\ ConnGoes(i, "admit")
          /\ UNCHANGED <<flows, index, removed, pending_server_bytes_global, loop, reader, pump,
                         expired>>

Dialling == {i \in Ids : conn[i] = "dial"}

(* acquire_dial_admission: a free permit is taken at once, whatever became *)
(* of the flow; a queued task leaves when its flow closes, and looks again *)
(* when it gets a permit.                                                  *)
acquire_dial_admission(i) ==
    /\ \/ /\ conn[i] = "admit"
          /\ ConnGoes(i, IF Cardinality(Dialling) < Permits THEN "dial" ELSE "queued")
       \/ /\ conn[i] = "queued"
          /\ Closed(i)
          /\ ConnGoes(i, "done")
       \/ /\ conn[i] = "queued"
          /\ ~Closed(i)
          /\ Cardinality(Dialling) < Permits
          /\ ConnGoes(i, "dial")
    /\ UNCHANGED <<tables, flow, used, pending_server_bytes_global, loop, reader, pump, expired>>

(* The dial: a tunnel dial is abandoned when the flow closes, any dial may *)
(* fail or time out, and one that succeeds gives its permit back.          *)
Dial(i) ==
    /\ conn[i] = "dial"
    /\ \/ ConnAborts(i)
       \/ /\ flow[i].route = "tunnel"
          /\ Closed(i)
          /\ ConnGoes(i, "done")
          /\ UNCHANGED <<tables, flow, used, pending_server_bytes_global, loop, reader, pump,
                         expired>>
       \/ /\ ConnGoes(i, "connected")
          /\ UNCHANGED <<tables, flow, used, pending_server_bytes_global, loop, reader, pump,
                         expired>>

(* The carrier is handed to the flow and its reader and pump start, unless *)
(* the flow closed meanwhile.                                              *)
Connected(i) ==
    /\ conn[i] = "connected"
    /\ ConnGoes(i, "done")
    /\ IF Closed(i)
       THEN UNCHANGED <<reader, pump>>
       ELSE /\ reader' = [reader EXCEPT ![i] = "gate"]
            /\ pump' = pump \cup {i}
    /\ UNCHANGED <<tables, flow, used, pending_server_bytes_global, loop, expired>>

-----------------------------------------------------------------------------
(* The upstream reader and the pump.                                       *)

ReaderGoes(i, pc) == reader' = [reader EXCEPT ![i] = pc]

\* Mutant: the park loop does not look at the flow's state.
GateForgetsClose(i) ==
    /\ reader[i] = "gate"
    /\ flow[i].bytes <= MaxPending
    /\ pending_server_bytes_global <= Budget
    /\ ReaderGoes(i, "read")
    /\ UNCHANGED <<tables, flow, used, pending_server_bytes_global, loop, conn, pump, expired>>
(* await_downlink_backlog_room: the reader goes on when neither the flow   *)
(* nor the engine is over its limit, stops when the flow is closed, and    *)
(* resets a flow that is over its own limit and makes no progress.         *)
await_downlink_backlog_room(i) ==
    /\ reader[i] = "gate"
    /\ \/ /\ Closed(i)
          /\ ReaderGoes(i, "done")
          /\ UNCHANGED <<flows, removed>>
       \/ /\ ~Closed(i)
          /\ flow[i].bytes <= MaxPending
          /\ pending_server_bytes_global <= Budget
          /\ ReaderGoes(i, "read")
          /\ UNCHANGED <<flows, removed>>
       \/ /\ ~Closed(i)
          /\ flow[i].bytes > MaxPending
          /\ ~flow[i].alive
          /\ Remove(flow[i].key)
          /\ ReaderGoes(i, "done")
    /\ UNCHANGED <<flow, index, carriers, used, pending_server_bytes_global, loop, conn, pump,
                   expired>>

charge_pending_server(i) ==
    /\ flow' = [flow EXCEPT ![i].bytes = @ + 1]
    /\ pending_server_bytes_global' = pending_server_bytes_global + 1

(* A chunk is read: discarded when the flow is closed, else buffered.      *)
ReadChunk(i) ==
    /\ reader[i] = "read"
    /\ \/ /\ Closed(i)
          /\ ReaderGoes(i, "done")
          /\ UNCHANGED <<flow, index, pending_server_bytes_global>>
       \/ /\ ~Closed(i)
          /\ charge_pending_server(i)
          /\ index' = record_flow_activity(i)
          /\ ReaderGoes(i, "gate")
    /\ UNCHANGED <<flows, carriers, used, removed, loop, conn, pump, expired>>

(* The read ends: the origin's end of stream leaves the flow to finish,    *)
(* an error or the verdict of a strict active uplink removes it.           *)
ReadEnds(i) ==
    /\ reader[i] = "read"
    /\ ReaderGoes(i, "done")
    /\ \/ Remove(flow[i].key)
       \/ UNCHANGED <<flows, removed>>
    /\ UNCHANGED <<flow, index, carriers, used, pending_server_bytes_global, loop, conn, pump,
                   expired>>

(* The pump stops with its flow or after the client's half-close, or fails *)
(* to write and aborts the flow.                                           *)
PumpStops(i) ==
    /\ i \in pump
    /\ pump' = pump \ {i}
    /\ \/ UNCHANGED <<flows, removed>>
       \/ ~Closed(i) /\ Remove(flow[i].key)
    /\ UNCHANGED <<flow, index, carriers, used, pending_server_bytes_global, loop, conn, reader,
                   expired>>

-----------------------------------------------------------------------------
(* cleanup_idle_flows: the keys of quiet flows are collected first and     *)
(* aborted, by key, afterwards.                                            *)

GcScan ==
    /\ expired = {}
    /\ \E S \in SUBSET Occupied :
          /\ {k \in Occupied : Live(flows[k]) /\ ~flow[flows[k]].alive} \subseteq S
          /\ S # {}
          /\ expired' = S
    /\ UNCHANGED <<tables, flow, used, pending_server_bytes_global, loop, tasks>>

GcAbort(k) ==
    /\ k \in expired
    /\ expired' = expired \ {k}
    /\ Remove(k)
    /\ UNCHANGED <<flow, index, carriers, used, pending_server_bytes_global, loop, tasks>>

-----------------------------------------------------------------------------
LoopStep ==
    \/ EvictOldest \/ abort_flow_with_rst_if_id \/ AbortDone \/ TakeSlot
    \/ acquire_evicted \/ InsertFlow \/ IndexFlow \/ SynAck

ConnStep(i) ==
    \/ sniff_and_override_target(i) \/ resolve_sni(i) \/ acquire_dial_admission(i)
    \/ Dial(i) \/ Connected(i)

ReaderStep(i) == await_downlink_backlog_room(i) \/ ReadChunk(i) \/ ReadEnds(i)

Next ==
    \/ \E k \in Keys, r \in Routes, a \in BOOLEAN : handle_new_flow(k, r, a)
    \/ LoopStep
    \/ \E k \in Keys : ClientEnds(k) \/ GcAbort(k)
    \/ \E i \in Ids : CloseRemoved(i) \/ DropFlow(i) \/ ClientPacket(i)
                        \/ ConnStep(i) \/ ReaderStep(i) \/ PumpStops(i)
    \/ GcScan

Spec == Init /\ [][Next]_vars

(* Every task is scheduled; a dial and a read come back (the dial is timed,*)
(* the read is raced against the close signal, so only a closed flow's     *)
(* read is sure to end).                                                   *)
Fairness ==
    /\ WF_vars(LoopStep)
    /\ WF_vars(GcScan)
    /\ \A k \in Keys : WF_vars(GcAbort(k))
    /\ \A i \in Ids : /\ WF_vars(CloseRemoved(i))
                      /\ WF_vars(DropFlow(i))
                      /\ WF_vars(ConnStep(i))
                      /\ WF_vars(await_downlink_backlog_room(i))
                      /\ WF_vars(Closed(i) /\ ReadChunk(i))
                      /\ WF_vars(Closed(i) /\ PumpStops(i))

FairSpec == Spec /\ Fairness

-----------------------------------------------------------------------------
(* The carrier counter is the number of flow objects that own a slot,      *)
(* whatever path a flow takes: admitted with room, admitted by eviction,   *)
(* re-routed by its SNI in either direction, refused, closed while its     *)
(* tasks still run.  A drift would wedge the cap or lift it.               *)
SlotsExact == used = Cardinality({i \in Ids : flow[i].slot})

(* The engine-wide downlink total is the sum over the flows that exist:    *)
(* charge, discharge and the drop of a flow that still had bytes cancel.   *)
BudgetExact ==
    pending_server_bytes_global = MapThenSumSet(LAMBDA i : flow[i].bytes, Ids)

(* Every flow in the table can be found by the eviction that a full table  *)
(* needs: its key's record names it, unless the packet loop is just about  *)
(* to write that record or has just taken it out to evict this very flow.  *)
(* Aborts by key, by the tasks of an earlier flow with the same key, and   *)
(* late activity of a flow already out of the table cannot take it away.   *)
TableIsEvictable ==
    \A k \in Keys : flows[k] # 0 =>
        \/ index[k] = flows[k]
        \/ loop.pc = "index" /\ loop.id = flows[k]
        \/ loop.pc = "abort" /\ loop.victim = flows[k]

IsDropped(i) == flow[i].status = "dropped"

(* A flow that was closed is dropped in the end: its connect task, reader  *)
(* and pump all notice, so the slot and the budget share come back.        *)
ClosedIsDropped == \A i \in Ids : Closed(i) ~> IsDropped(i)
=============================================================================
