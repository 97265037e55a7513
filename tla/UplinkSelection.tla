---------------------------- MODULE UplinkSelection ----------------------------
(***************************************************************************)
(* Strict (active_passive) selection of an uplink group of the client:     *)
(* UplinkManager of crates/outline-uplink.  Sessions, the probe loop, the  *)
(* reselect timer and the operator all move one shared pointer, `active',  *)
(* through set_active_uplink_index_for_transport: take the write lock and  *)
(* store, take the read lock for a snapshot, send the snapshot to the       *)
(* flows.  No lock covers the whole of it, so each is a step of its own.   *)
(* The state file it also updates is module UplinkState.                   *)
(*                                                                         *)
(* An uplink's index is its position in the configuration.  Latency scores *)
(* and what remains of a cooldown are small numbers, "degraded for longer  *)
(* than the threshold" is a flag the environment raises and lowers.  The pinned *)
(* sticky route a strict selection also stores is never read by it and is  *)
(* left out, and all uplinks have one transport, so that                   *)
(* group_candidates_by_transport has nothing to regroup.                   *)
(***************************************************************************)
EXTENDS Integers, Sequences, FiniteSets, FiniteSetsExt

CONSTANTS Uplinks,       \* indices of the configured uplinks (a set of naturals)
          Weight,        \* [Uplinks -> Nat]
          UdpCapable,    \* uplinks that carry UDP
          HasFallback,   \* uplinks with fallback wires
          Global,        \* routing_scope: TRUE global, FALSE per_uplink
          ProbeEnabled, AutoFailback, SharedResume, UdpStrict,
          MinFailures,   \* probe.min_failures
          Cooldown,      \* failure_cooldown, in ticks
          StateFiles,    \* what the state file may hold at start: records of the uplink
                         \* it names as active (None: no name) and the disabled ones
          Sessions,      \* proxied connections that select and dial
          Events,        \* the kinds of event the environment produces
          MaxEvents      \* bound on them

VARIABLES st,         \* [Uplinks -> UplinkStatus]
          enabled,    \* admin_enabled
          active,     \* ActiveUplinks, by slot
          published,  \* the watch channel: snapshot and intent
          task,       \* the tasks inside the manager
          booted,     \* initialize_strict_active_selection has returned
          events

vars == <<st, enabled, active, published, task, booted, events>>
status == <<st, enabled>>

None == 0
Transports == {"tcp", "udp"}
Slots == IF Global THEN {"global"} ELSE Transports
SlotOf(t) == IF Global THEN "global" ELSE t
Tasks == {"probe", "op"} \cup Sessions

-----------------------------------------------------------------------------
\* Status of one uplink, and what selection reads of it

Fresh == [healthy |-> [t \in Transports |-> "none"], cool |-> [t \in Transports |-> 0],
          streak |-> [t \in Transports |-> 0], degraded |-> FALSE, lossy |-> FALSE,
          wire |-> [t \in Transports |-> "none"], score |-> 1]

cooldown_remaining(u, t) == st[u].cool[t]

cooldown_active(u, t) == cooldown_remaining(u, t) > 0

effective_health(u, t) == st[u].healthy[t] = "up" /\ ~cooldown_active(u, t)

any_wire_recent_success(u, t) == u \in HasFallback /\ st[u].wire[t] = "recent"

fallback_bootstrap_allowed(u, t) ==
  u \in HasFallback /\ ~cooldown_active(u, t) /\ st[u].wire[t] = "none"

supports_transport_for_scope(u, t) == t = "tcp" \/ u \in UdpCapable

PlaneUsable(u, t) ==
  effective_health(u, t) \/ any_wire_recent_success(u, t) \/ fallback_bootstrap_allowed(u, t)

selection_health(u, t) ==
  IF Global
  THEN /\ PlaneUsable(u, "tcp")
       /\ (UdpStrict /\ u \in UdpCapable) =>
            st[u].healthy["udp"] # "down" /\ ~cooldown_active(u, "udp")
  ELSE PlaneUsable(u, t)

strict_gate_transport(t) == IF Global THEN "tcp" ELSE t

selection_score(u) == st[u].score

build_candidate_states(t) ==
  {u \in Uplinks : enabled[u] /\ supports_transport_for_scope(u, t)}

-----------------------------------------------------------------------------
\* The sort orders, as keys compared component by component

Before(a, b) ==
  \E i \in 1..Len(a) : a[i] < b[i] /\ \A j \in 1..(i - 1) : a[j] = b[j]

First(S, Key(_)) == CHOOSE u \in S : \A v \in S \ {u} : Before(Key(u), Key(v))

Flag(b) == IF b THEN 0 ELSE 1

primary_order(u, t) == <<Flag(selection_health(u, t)), -Weight[u], selection_score(u), u>>

initial_strict_order(u, t) == <<Flag(selection_health(u, t)), -Weight[u], selection_score(u), u>>

failover_order(u, t) ==
  LET gate == strict_gate_transport(t)
  IN <<Flag(selection_health(u, t)), cooldown_remaining(u, gate), -Weight[u],
       selection_score(u), u>>

-----------------------------------------------------------------------------
\* strict_transport_candidates: what one call decides, given the active
\* uplink it read and the uplink its caller saw fail

strict_active_failure_details(u, t) ==
  LET planes == {strict_gate_transport(t)} \cup (IF Global /\ u \in UdpCapable THEN {"udp"} ELSE {})
      probed == {p \in planes : ProbeEnabled /\ st[u].healthy[p] = "down"}
  IN [probe |-> probed # {}, cool |-> \E p \in planes \ probed : cooldown_active(u, p)]

ShouldKeep(u, t) ==
  LET details == strict_active_failure_details(u, t)
  IN /\ ~details.probe
     /\ (Global /\ ProbeEnabled) \/ ~details.cool

\* The uplinks that may take over from an active that still works
Cleaner(S, u, t) ==
  {v \in S \ {u} : /\ selection_health(v, t)
                   /\ Weight[v] >= Weight[u]
                   /\ st[v].streak[strict_gate_transport(t)] >= MinFailures}

carrier_degraded_switch_target(S, u, t) ==
  IF st[u].degraded THEN {v \in Cleaner(S, u, t) : ~st[v].degraded} ELSE {}

loss_failover_switch_target(S, u, t) ==
  IF st[u].lossy THEN {v \in Cleaner(S, u, t) : ~st[v].lossy} ELSE {}

HigherPriority(v, u) == Weight[v] > Weight[u] \/ (Weight[v] = Weight[u] /\ v < u)

FailbackReady(S, u, t) ==
  LET gate == strict_gate_transport(t)
      better == {v \in S : HigherPriority(v, u) /\ st[v].healthy[gate] = "up"}
  IN /\ better # {}
     /\ \E b \in better : /\ \A v \in better \ {b} : HigherPriority(b, v)
                          /\ st[b].streak[gate] >= MinFailures

strict_transport_candidates(t, u, failed) ==
  LET S == build_candidate_states(t)
      Primary(v) == primary_order(v, t)
      Initial(v) == initial_strict_order(v, t)
      Failover(v) == failover_order(v, t)
      clean == carrier_degraded_switch_target(S, u, t)
      calm == loss_failover_switch_target(S, u, t)
  IN IF u = None THEN [pick |-> First(S, Initial), move |-> "initial"]
     ELSE IF u \notin S \/ ~ShouldKeep(u, t) \/ failed = u
       THEN [pick |-> First(S, Failover), move |-> "failover"]
     ELSE IF clean # {} THEN [pick |-> First(clean, Primary), move |-> "degraded"]
     ELSE IF calm # {} THEN [pick |-> First(calm, Primary), move |-> "loss"]
     ELSE IF AutoFailback /\ FailbackReady(S, u, t)
       THEN [pick |-> First(S, Primary), move |-> "failback"]
     ELSE [pick |-> u, move |-> "keep"]

-----------------------------------------------------------------------------
\* Tasks.  `queue' holds the transports still to be dealt with, each with the
\* uplink to install there (None: strict_transport_candidates decides).

Idle == [pc |-> "idle", queue |-> <<>>, seen |-> None, failed |-> None, pick |-> None,
         intent |-> "Failover", snap |-> [s \in Slots |-> None]]

Select(ts) == [i \in 1..Len(ts) |-> [t |-> ts[i], pick |-> None]]
Install(ts, u) == [i \in 1..Len(ts) |-> [t |-> ts[i], pick |-> u]]
AllSlots == IF Global THEN <<"tcp">> ELSE <<"tcp", "udp">>

\* A task turns to the head of its queue
Entered(r) ==
  IF Head(r.queue).pick # None
  THEN [r EXCEPT !.pc = "write", !.pick = Head(r.queue).pick]
  ELSE [r EXCEPT !.pc = "read", !.pick = None]

Begin(k, queue, intent) ==
  task' = [task EXCEPT ![k] = Entered([Idle EXCEPT !.queue = queue, !.intent = intent])]

\* What follows when the head of the queue is dealt with
Advanced(k, r) ==
  IF Len(r.queue) > 1 THEN Entered([r EXCEPT !.queue = Tail(@), !.seen = None, !.snap = Idle.snap])
  ELSE IF k \in Sessions /\ Head(r.queue).pick = None
    THEN [r EXCEPT !.pc = "dial", !.seen = None, !.snap = Idle.snap]
  ELSE Idle

\* tcp_candidates_for, udp_candidates_for: a session asks for an uplink
BeginSession(k, t) ==
  /\ booted /\ task[k].pc = "idle"
  /\ Begin(k, Select(<<t>>), "Failover")
  /\ UNCHANGED <<status, active, published, booted, events>>

\* reselect_strict_active_after_probe, at the end of probe_all
ProbeCycleEnds ==
  /\ ProbeEnabled /\ booted /\ task["probe"].pc = "idle"
  /\ Begin("probe", Select(AllSlots), "Failover")
  /\ UNCHANGED <<status, active, published, booted, events>>

\* initialize_strict_active_selection: only the slots nothing was restored for
initialize_strict_active_selection ==
  /\ ~booted
  /\ booted' = TRUE
  /\ LET empty == SelectSeq(AllSlots, LAMBDA t : active[SlotOf(t)] = None)
     IN IF empty = <<>> THEN UNCHANGED task ELSE Begin("probe", Select(empty), "Failover")
  /\ UNCHANGED <<status, active, published, events>>

\* The active uplink is read, under the read lock
ReadActive(k) ==
  /\ task[k].pc = "read"
  /\ task' = [task EXCEPT ![k].pc = "decide", ![k].seen = active[SlotOf(Head(task[k].queue).t)]]
  /\ UNCHANGED <<status, active, published, booted, events>>

\* The uplink a session that saw `failed' fail dials next, from the list
\* tcp_failover_candidates_for gave it
Untried(t, d, failed) ==
  LET S == build_candidate_states(t) \ {failed}
      Key(v) == IF d.move = "failover" THEN failover_order(v, t) ELSE primary_order(v, t)
  IN IF d.move \in {"keep", "degraded", "loss"} THEN {d.pick} \ {failed}
     ELSE IF S = {} THEN {} ELSE {First(S, Key)}

\* The statuses are read and the choice is made
Decide(k) ==
  /\ task[k].pc = "decide"
  /\ LET r == task[k]
         t == Head(r.queue).t
         d == strict_transport_candidates(t, r.seen, r.failed)
     IN task' = [task EXCEPT ![k] =
          IF build_candidate_states(t) = {} THEN Idle
          ELSE IF r.failed # None
            THEN IF Untried(t, d, r.failed) = {} THEN Idle
                 ELSE [r EXCEPT !.pc = "dial", !.seen = None, !.pick = Min(Untried(t, d, r.failed))]
          ELSE IF d.move = "keep" THEN Advanced(k, [r EXCEPT !.pick = d.pick])
          ELSE [r EXCEPT !.pc = "write", !.seen = None, !.pick = d.pick]]
  /\ UNCHANGED <<status, active, published, booted, events>>

\* set_active_uplink_index_for_transport: the pointer, under the write lock
WriteActive(k) ==
  /\ task[k].pc = "write"
  /\ active' = [active EXCEPT ![SlotOf(Head(task[k].queue).t)] = task[k].pick]
  /\ task' = [task EXCEPT ![k].pc = "snapshot"]
  /\ UNCHANGED <<status, published, booted, events>>

\* ... the snapshot, under the read lock
Snapshot(k) ==
  /\ task[k].pc = "snapshot"
  /\ task' = [task EXCEPT ![k].pc = "send", ![k].snap = active]
  /\ UNCHANGED <<status, active, published, booted, events>>

\* ... and its publication
Send(k) ==
  /\ task[k].pc = "send"
  /\ published' = [active |-> task[k].snap, intent |-> task[k].intent]
  /\ task' = [task EXCEPT ![k] = Advanced(k, task[k])]
  /\ UNCHANGED <<status, active, booted, events>>

\* A probed global group leaves the pointer to the selection that committed it
owns_active == ~(Global /\ ProbeEnabled)

\* confirm_selected_uplink_for, confirm_runtime_failover_uplink_for
DialSucceeds(k) ==
  /\ k \in Sessions /\ task[k].pc = "dial"
  /\ LET r == task[k]
     IN task' = [task EXCEPT ![k] =
                   IF owns_active
                   THEN [r EXCEPT !.pc = "write", !.queue = Install(<<Head(@).t>>, r.pick)]
                   ELSE Idle]
  /\ UNCHANGED <<status, active, published, booted, events>>

\* A streak of failures condemns the plane of a probed global group
RuntimeFailure(s, t, streak) ==
  [s EXCEPT !.cool[t] = Cooldown,
            !.healthy[t] = IF ~ProbeEnabled \/ (Global /\ streak) THEN "down" ELSE @]

\* The dial or the connection breaks: report_runtime_failure, then the next
\* candidate (one failover in this model)
DialFails(k) ==
  /\ "fail" \in Events /\ events < MaxEvents
  /\ k \in Sessions /\ task[k].pc = "dial"
  /\ events' = events + 1
  /\ LET r == task[k]
         t == Head(r.queue).t
     IN /\ \E streak \in BOOLEAN : st' = [st EXCEPT ![r.pick] = RuntimeFailure(@, t, streak)]
        /\ task' = [task EXCEPT ![k] =
                      IF r.failed # None THEN Idle
                      ELSE [r EXCEPT !.pc = "read", !.failed = r.pick]]
  /\ UNCHANGED <<enabled, active, published, booted>>

-----------------------------------------------------------------------------
\* The operator and the reselect timer

Event(kind) == kind \in Events /\ events < MaxEvents /\ events' = events + 1

from_operator_soft(soft) == IF soft /\ SharedResume THEN "OperatorSoft" ELSE "OperatorHard"

\* set_active_uplink_by_name: every status is reset, then the pointer is
\* installed for the transports asked for
set_active_uplink_by_name(u, ts, soft) ==
  /\ booted /\ task["op"].pc = "idle" /\ Event("manual")
  /\ st' = [v \in Uplinks |-> Fresh]
  /\ Begin("op", Install(ts, u), from_operator_soft(soft))
  /\ UNCHANGED <<enabled, active, published, booted>>

\* set_uplink_enabled_by_name: disabling an uplink re-runs the selection
set_uplink_enabled_by_name(u, on) ==
  /\ booted /\ task["op"].pc = "idle" /\ Event("admin")
  /\ enabled[u] # on
  /\ enabled' = [enabled EXCEPT ![u] = on]
  /\ IF on THEN UNCHANGED task ELSE Begin("op", Select(<<"tcp", "udp">>), "Failover")
  /\ UNCHANGED <<st, active, published, booted>>

draw_reselect_candidate(t, current) ==
  LET gate == strict_gate_transport(t)
  IN {u \in build_candidate_states(gate) \ {current} :
        selection_health(u, gate) /\ ~cooldown_active(u, gate)}

\* reselect_global, reselect_per_uplink: every slot with another eligible
\* uplink gets one drawn at random
reselect_active_uplink(soft) ==
  /\ booted /\ task["op"].pc = "idle" /\ Event("reselect")
  /\ LET Drawn(t) == draw_reselect_candidate(t, active[SlotOf(t)])
         moving == SelectSeq(AllSlots, LAMBDA t : Drawn(t) # {})
     IN \E f \in [Transports -> Uplinks] :
          /\ \A i \in 1..Len(moving) : f[moving[i]] \in Drawn(moving[i])
          /\ IF moving = <<>> THEN UNCHANGED task
             ELSE Begin("op", [i \in 1..Len(moving) |-> [t |-> moving[i], pick |-> f[moving[i]]]],
                        from_operator_soft(soft))
  /\ UNCHANGED <<status, active, published, booted>>

-----------------------------------------------------------------------------
\* The environment: what probes, traffic and time do to the statuses

\* record_transport_success, record_transport_failure of one probed plane.
\* The verdict changes only when the result counts: enough failures in a
\* row, or a success with no runtime failure in the window before it.
ProbeResult(u, t, ok, counts) ==
  /\ ProbeEnabled /\ enabled[u] /\ supports_transport_for_scope(u, t)
  /\ Event("probe")
  /\ st' = [st EXCEPT ![u] =
              IF ok
              THEN [@ EXCEPT !.healthy[t] = IF counts THEN "up" ELSE @,
                             !.cool[t] = IF counts THEN 0 ELSE @,
                             !.streak[t] = IF @ < MinFailures THEN @ + 1 ELSE @]
              ELSE [@ EXCEPT !.healthy[t] = IF counts THEN "down" ELSE @, !.streak[t] = 0]]
  /\ UNCHANGED <<enabled, active, published, task, booted>>

\* Time passes: every cooldown gets shorter
Tick ==
  /\ Event("cool")
  /\ \E u \in Uplinks, t \in Transports : cooldown_active(u, t)
  /\ st' = [u \in Uplinks |->
              [st[u] EXCEPT !.cool = [t \in Transports |-> IF @[t] > 0 THEN @[t] - 1 ELSE 0]]]
  /\ UNCHANGED <<enabled, active, published, task, booted>>

\* Carriers descend and recover, losses rise and fall, a fallback wire works
\* and its success ages, latencies move
Drift(u, kind, s) ==
  /\ s # st[u]
  /\ Event(kind)
  /\ st' = [st EXCEPT ![u] = s]
  /\ UNCHANGED <<enabled, active, published, task, booted>>

Drifts(u) ==
  \/ Drift(u, "degrade", [st[u] EXCEPT !.degraded = ~@])
  \/ Drift(u, "loss", [st[u] EXCEPT !.lossy = ~@])
  \/ Drift(u, "score", [st[u] EXCEPT !.score = 1 - @])
  \/ /\ u \in HasFallback
     /\ \E t \in Transports :
          Drift(u, "wire", [st[u] EXCEPT !.wire[t] = IF @ = "recent" THEN "old" ELSE "recent"])

-----------------------------------------------------------------------------
\* new_with_state: whatever the state file named is active, its disabled
\* uplinks are disabled, every status is fresh
Init ==
  /\ st = [u \in Uplinks |-> Fresh]
  /\ \E f \in StateFiles : /\ enabled = [u \in Uplinks |-> u \notin f.disabled]
                          /\ active = [s \in Slots |-> f.active]
  /\ published = [active |-> active, intent |-> "OperatorHard"]
  /\ task = [k \in Tasks |-> Idle]
  /\ booted = FALSE /\ events = 0

TaskStep(k) ==
  ReadActive(k) \/ Decide(k) \/ WriteActive(k) \/ Snapshot(k) \/ Send(k)

Requested == IF Global THEN {<<"tcp">>} ELSE {<<"tcp">>, <<"udp">>, <<"tcp", "udp">>}

Next ==
  \/ initialize_strict_active_selection
  \/ ProbeCycleEnds
  \/ \E k \in Tasks : TaskStep(k)
  \/ \E k \in Sessions : (\E t \in Transports : BeginSession(k, t)) \/ DialSucceeds(k) \/ DialFails(k)
  \/ \E u \in Uplinks, ts \in Requested, soft \in BOOLEAN : set_active_uplink_by_name(u, ts, soft)
  \/ \E u \in Uplinks, on \in BOOLEAN : set_uplink_enabled_by_name(u, on)
  \/ \E soft \in BOOLEAN : reselect_active_uplink(soft)
  \/ \E u \in Uplinks, t \in Transports, ok, counts \in BOOLEAN : ProbeResult(u, t, ok, counts)
  \/ Tick
  \/ \E u \in Uplinks : Drifts(u)

Spec == Init /\ [][Next]_vars

\* The runtime runs every task that can run; the probe loop's timer fires.
\* Nothing obliges operators, sessions or probes to act.
FairSpec ==
  /\ Spec
  /\ \A k \in Tasks : WF_vars(TaskStep(k))
  /\ WF_vars(initialize_strict_active_selection) /\ WF_vars(ProbeCycleEnds)

-----------------------------------------------------------------------------
\* Properties

\* What the selection must get away from: the active uplink is disabled, or
\* its probe says it is down on the plane that decides, while an enabled
\* uplink that works is there
BadActive(t) ==
  LET u == active[SlotOf(t)]
      gate == strict_gate_transport(t)
  IN /\ u # None
     /\ ~enabled[u] \/ st[u].healthy[gate] = "down"
     /\ \E v \in build_candidate_states(t) : effective_health(v, gate)

\* A disabled or probe-condemned active uplink is left as soon as another one
\* works, whatever the tasks that were moving the pointer had read before:
\* a late write by one of them is put right by the next probe cycle
\* (strict_transport_candidates, reselect_strict_active_after_probe).
BadActiveIsLeft == \A t \in Transports : BadActive(t) ~> ~BadActive(t)

\* No rule of the selection asks for what another one takes back.  Failback
\* does not look at cooldowns, which failover leaves an uplink for; a move to a
\* cleaner uplink needs only its health, which a fallback wire can vouch for
\* while the probe condemns it; and between equal weights the moves for
\* quality and failback, or the two moves for quality, undo each other.
Undisputed(t) ==
  LET S == build_candidate_states(t)
      gate == strict_gate_transport(t)
  IN /\ AutoFailback => \A u \in S : ~cooldown_active(u, gate)
     /\ \/ \A u \in S : ~st[u].degraded /\ ~st[u].lossy
        \/ /\ \A u \in S : selection_health(u, t) => ShouldKeep(u, t)
           /\ \/ \A u, v \in S : u # v => Weight[u] # Weight[v]
              \/ /\ ~AutoFailback
                 /\ (\A u \in S : ~st[u].degraded) \/ (\A u \in S : ~st[u].lossy)

\* Repeating the selection with nothing new known does not move the pointer
\* for ever: where no two rules are set against each other, a few calls of
\* strict_transport_candidates reach, from whatever is active, an uplink they
\* keep.
Again(t, u) == strict_transport_candidates(t, u, None).pick
SelectionSettles ==
  \A t \in Transports :
    (build_candidate_states(t) # {} /\ Undisputed(t)) =>
      LET u == Again(t, Again(t, Again(t, active[SlotOf(t)]))) IN Again(t, u) = u

\* In a probed global group a session that finishes its dial does not move
\* the pointer, so one that began before an operator's switch cannot take it
\* back (confirm_selected_uplink_for).
DialMovesNothing ==
  \A k \in Sessions :
    (Global /\ ProbeEnabled /\ WriteActive(k)) => Head(task[k].queue).pick = None
DialLeavesActive == [][DialMovesNothing]_vars

=============================================================================
