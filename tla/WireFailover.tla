------------------------------ MODULE WireFailover ------------------------------
(***************************************************************************)
(* The failover inside one uplink, on one transport plane: which wire (the *)
(* primary 0 or a fallback) new sessions use, which carrier (HTTP/3, 2, 1: *)
(* rank 2, 1, 0) a wire is capped to, and when the uplink as a whole is    *)
(* called unhealthy.  Translated from manager/active_wire.rs, failures.rs, *)
(* mode_downgrade.rs, carrier_descent_state.rs, wire_dial.rs and           *)
(* probe/{outcome,wire,h3_recovery,endpoint}.rs.                           *)
(*                                                                         *)
(* Every status change happens under the uplink's status lock, so the      *)
(* operations are functions of the status record; what interleaves is who  *)
(* applies them: dials, sessions, the probe of the primary, the probe of a *)
(* fallback wire, the recovery probe and the shuffle timer, each acting on *)
(* a carrier or a wire it read before its awaits.  Instants are kept as    *)
(* the ticks they have left.                                               *)
(***************************************************************************)
EXTENDS Integers, Sequences, FiniteSets

CONSTANTS N,                \* wires: 0 .. N - 1
          Configured,       \* per wire: the rank of its configured carrier
          Shuffle,          \* shuffle_wires
          ShuffleTimer,     \* shuffle_timer is set
          CarrierDowngrade,
          ProbeEnabled, Escalates,  \* a probe is configured; ... in strict global
          MinFailures,      \* probe.min_failures
          Window,           \* mode_downgrade_duration, in ticks
          RuntimeWindow,    \* runtime_failure_window
          Cooldown,         \* failure_cooldown
          Dead,             \* wires that complete the handshake and deliver nothing
          ProbeResults,     \* results a probe may have
          Dense             \* no tick passes while the active wire is dead

VARIABLES s,          \* PerTransportStatus
          order,      \* the wires a dial has left to try
          sessions,   \* wires with an open session
          probe,      \* the probe of the primary: idle, run, recover
          wprobe      \* the probe of a fallback wire: idle, run

vars == <<s, order, sessions, probe, wprobe>>

Wires == 0 .. N - 1
NoCap == -1
None == -1
AtMost(n, m) == IF n > m THEN m ELSE n
Min1 == IF MinFailures < 1 THEN 1 ELSE MinFailures

NoDescent == [left |-> 0, cap |-> NoCap, rcool |-> 0, grace |-> 0, attempts |-> 0,
              streak |-> 0, pf |-> 0, ps |-> 0]

active_cap(slot) == IF slot.left > 0 THEN slot.cap ELSE NoCap

\* effective_tcp_mode_for_wire
Effective(st, w) ==
  IF active_cap(st.d[w]) # NoCap THEN active_cap(st.d[w]) ELSE Configured[w]

\* wire_is_at_carrier_floor
AtFloor(st, w) == ~CarrierDowngrade \/ Effective(st, w) = 0

RoundActive(st) == Shuffle /\ N > 1 /\ st.round < N

-----------------------------------------------------------------------------
\* CarrierDescentState

\* Inside a window the cap only goes down, and a probe of the capped carrier
\* lowers it only with min_failures failures in a row
UpdatedCap(slot, t) ==
  IF /\ slot.cap # NoCap /\ slot.left > 0
     /\ \/ t.probe /\ t.fails < Min1 /\ t.failed <= slot.cap
        \/ slot.cap < t.new_cap
  THEN slot.cap
  ELSE t.new_cap

\* Mutant: the budget of the grace window is one trigger short
GraceShort(slot) == slot.cap = NoCap /\ slot.grace > 0 /\ slot.attempts + 1 < Min1

GraceGate(slot) == slot.cap = NoCap /\ slot.grace > 0 /\ slot.attempts < Min1

apply_descent_trigger(slot, t) ==
  LET cap == UpdatedCap(slot, t)
      changed == cap # slot.cap
  IN  IF GraceGate(slot)
      THEN [slot EXCEPT !.attempts = @ + 1, !.grace = 2 * Window]
      ELSE [slot EXCEPT !.left = Window, !.cap = cap,
                        !.attempts = IF changed THEN 0 ELSE @,
                        !.streak = IF changed \/ t.recovery THEN 0 ELSE @,
                        !.rcool = IF t.recovery THEN Window ELSE @]

\* What a trigger asks of a carrier that `failed`
Trigger(kind, failed, fails) ==
  [new_cap |-> failed - 1, failed |-> failed, probe |-> kind = "probe",
   recovery |-> kind = "recovery", fails |-> fails]

\* No rank below the carrier, or not below the configured one
NoDescentFrom(w, failed) == failed = 0 \/ failed - 1 >= Configured[w]

\* The primary wire.  A trigger that names no carrier failed on the configured
\* one
extend_mode_downgrade(st, kind, mode) ==
  LET failed == IF mode # None THEN mode ELSE Configured[0]
      slot == apply_descent_trigger(st.d[0], Trigger(kind, failed, st.fails))
  IN  IF ~CarrierDowngrade \/ NoDescentFrom(0, failed) THEN st
      ELSE [st EXCEPT !.d[0] = slot, !.succ = IF slot.cap # st.d[0].cap THEN 0 ELSE @]

\* A fallback wire has its own streaks; a trigger that names no carrier failed
\* on the one in force
extend_mode_downgrade_for_wire(st, w, kind, mode) ==
  LET failed == IF mode # None THEN mode ELSE Effective(st, w)
      slot == apply_descent_trigger(st.d[w], Trigger(kind, failed, st.d[w].pf))
  IN  IF w = 0 THEN extend_mode_downgrade(st, kind, mode)
      ELSE IF ~CarrierDowngrade \/ NoDescentFrom(w, failed) THEN st
      ELSE [st EXCEPT !.d[w] = IF slot.cap # st.d[w].cap THEN [slot EXCEPT !.ps = 0] ELSE slot]

\* One rank up after min_failures successes on the capped carrier, never onto
\* the configured one
walk_up(slot, w, successes) ==
  IF \/ slot.cap = NoCap \/ slot.left = 0 \/ successes < Min1
     \/ slot.cap + 1 >= Configured[w]
  THEN slot
  ELSE [slot EXCEPT !.cap = @ + 1, !.left = Window]

walk_up_mode_downgrade(st) ==
  LET slot == walk_up(st.d[0], 0, st.succ)
  IN  [st EXCEPT !.d[0] = slot, !.succ = IF slot.cap # st.d[0].cap THEN 0 ELSE @]

walk_up_mode_downgrade_for_wire(st, w) ==
  LET slot == walk_up(st.d[w], w, st.d[w].ps)
  IN  IF w = 0 THEN walk_up_mode_downgrade(st)
      ELSE [st EXCEPT !.d[w] = IF slot.cap # st.d[w].cap THEN [slot EXCEPT !.ps = 0] ELSE slot]

clear_and_open_grace(slot) ==
  [slot EXCEPT !.left = 0, !.cap = NoCap, !.rcool = 0, !.grace = 2 * Window,
               !.attempts = 0, !.streak = 0]

reset_window_for_wire_change(slot) ==
  [slot EXCEPT !.left = 0, !.cap = NoCap, !.streak = 0, !.rcool = 0]

renew_grace_if_active(slot) ==
  IF slot.grace > 0 THEN [slot EXCEPT !.attempts = 0, !.grace = 2 * Window] ELSE slot

\* note_recovery_probe_success: two in a row clear the cap and open the grace
note_recovery_probe_success(st) ==
  LET slot == st.d[0]
      streak == slot.streak + 1
  IN  [st EXCEPT !.d[0] =
        IF slot.cap = NoCap THEN [slot EXCEPT !.streak = 0]
        ELSE IF streak >= 2 /\ ~Shuffle
        THEN clear_and_open_grace(slot)
        ELSE [slot EXCEPT !.streak = AtMost(streak, 2)]]

\* needs_carrier_recovery
NeedsRecovery(st, mode) == st.d[0].left > 0 /\ st.d[0].rcool = 0 /\ mode < Configured[0]

-----------------------------------------------------------------------------
\* The active wire

\* active_wire(): an expired pin is dropped, the wire stays
Unpin(st) == IF st.pin = 0 THEN [st EXCEPT !.pin = None, !.streak = 0] ELSE st

RoundComplete(st) == st.round + 1 >= N

\* The active wire gives way to the next; with shuffle_wires a full pass
\* without success condemns the uplink
AdvanceWire(st, next) ==
  LET moved == [st EXCEPT !.wire = next, !.streak = 0,
                          !.pin = IF next = 0 THEN None ELSE Window,
                          !.tried = @ \cup {st.wire}]
  IN  IF ~Shuffle THEN moved
      ELSE IF RoundComplete(st)
      THEN [moved EXCEPT !.fails = 0, !.rt = 0, !.round = 0, !.healthy = FALSE,
                         !.cool = Cooldown, !.tried = {},
                         !.sound = @ /\ moved.tried = Wires]
      ELSE [moved EXCEPT !.fails = 0, !.rt = 0, !.round = @ + 1]

record_wire_outcome(st, w, ok) ==
  IF N = 1 \/ w # st.wire THEN st
  ELSE IF ok THEN [st EXCEPT !.streak = 0]
  ELSE IF st.streak + 1 < Min1 THEN [st EXCEPT !.streak = @ + 1]
  ELSE IF Shuffle /\ ~AtFloor(st, w) THEN [st EXCEPT !.streak = 0]
  ELSE AdvanceWire(st, (st.wire + 1) % N)

mark_wire_data_proven(st) ==
  [st EXCEPT !.proven = RuntimeWindow, !.streak = 0, !.round = 0, !.tried = {}]

-----------------------------------------------------------------------------
\* Failures and liveness reported by sessions

\* A streak older than runtime_failure_window starts again
RuntimeStreak(st) ==
  IF RuntimeWindow > 0 /\ st.rt > 0 /\ st.rtRecent = 0 THEN 1 ELSE AtMost(st.rt + 1, Min1)

\* A session that names a wire which is no longer the active one is not counted
Suppressed(st, w) == w # None /\ N > 1 /\ w # st.wire

\* The status lock of report_runtime_failure_inner
RuntimeFailed(st, try_again) ==
  LET rt == RuntimeStreak(st)
  IN  [st EXCEPT
         !.cool = IF @ = 0 /\ ~try_again THEN Cooldown ELSE @,
         !.rt = rt, !.rtRecent = RuntimeWindow,
         !.healthy = @ /\ ProbeEnabled
                       /\ ~(Escalates /\ rt >= Min1 /\ ~RoundActive(st))]

\* report_runtime_failure(_for_wire): w is None for a caller that names no wire
report_runtime_failure(st0, w, try_again) ==
  LET st == IF w # None /\ N > 1 THEN Unpin(st0) ELSE st0
      a  == RuntimeFailed(st, try_again)
      b  == IF try_again THEN a
            ELSE extend_mode_downgrade_for_wire(a, IF w # None THEN w ELSE 0, "runtime", None)
      c  == Unpin(b)
  IN  IF Suppressed(st, w) THEN st
      ELSE IF Shuffle /\ N > 1
      THEN record_wire_outcome(c, IF w # None THEN w ELSE c.wire, FALSE)
      ELSE b

\* report_active_traffic (a relayed session), report_downlink_delivery (TUN)
report_liveness(st, session) ==
  [st EXCEPT !.rt = IF session THEN 0 ELSE @,
             !.healthy = @ \/ ~ProbeEnabled,
             !.fails = IF session /\ ~ProbeEnabled THEN 0 ELSE @,
             !.cool = IF session /\ ~ProbeEnabled THEN 0 ELSE @]

-----------------------------------------------------------------------------
\* Probe outcomes

record_transport_failure(st) ==
  [st EXCEPT !.succ = 0, !.fails = AtMost(@ + 1, Min1),
             !.healthy = @ /\ (st.fails + 1 < MinFailures \/ RoundActive(st))]

\* advance_active_wire_on_probe_failure: only ever off the primary
AdvanceOnProbe(st0) ==
  LET st == Unpin(st0)
  IN  IF N = 1 THEN st0
      ELSE IF st.wire # 0 \/ st.fails < Min1 \/ (Shuffle /\ ~AtFloor(st, 0)) THEN st
      ELSE AdvanceWire(st, 1)

\* data_plane_recently_failed
DataPlaneFailed(st) == RuntimeWindow > 0 /\ st.rtRecent > 0

record_transport_success(st) ==
  LET a == [st EXCEPT !.fails = 0, !.succ = AtMost(@ + 1, Min1)]
      b == [a EXCEPT !.healthy = TRUE, !.rt = 0, !.round = 0, !.tried = {}, !.cool = 0,
                     !.d[0] = renew_grace_if_active(@)]
  IN  IF DataPlaneFailed(st) THEN a
      ELSE IF ~ShuffleTimer /\ b.wire # 0 /\ b.succ >= Min1
      THEN [b EXCEPT !.wire = 0, !.pin = None, !.streak = 0]
      ELSE b

\* should_skip_primary_probe_escalation
SkipEscalation(st) == st.wire # 0 /\ RuntimeWindow > 0 /\ st.proven > 0

Reached(r) == r \in {"ok", "silent"}
CarrierUp(r) == r \in {"ok", "silent", "site"}

\* process_probe_ok; "silent" is a dial that fell back to a lower carrier
process_probe_ok(st, r, mode) ==
  LET skip == SkipEscalation(st)
      a == IF Reached(r) THEN record_transport_success(st)
           ELSE IF skip THEN st ELSE AdvanceOnProbe(record_transport_failure(st))
      b == IF CarrierUp(r) THEN walk_up_mode_downgrade(a) ELSE a
      c == IF ~CarrierUp(r) /\ ~skip THEN extend_mode_downgrade(b, "probe", mode) ELSE b
  IN  [status  |-> IF r = "silent" THEN extend_mode_downgrade(c, "silent", mode) ELSE c,
       recover |-> CarrierUp(r) /\ NeedsRecovery(b, mode)]

process_probe_err(st, mode) ==
  IF SkipEscalation(st) THEN st
  ELSE extend_mode_downgrade(AdvanceOnProbe(record_transport_failure(st)), "probe", mode)

\* note_fallback_wire_carrier_outcome, then the outcome for the wire itself
fallback_wire_outcome(st, w, r, mode) ==
  LET bad  == [st EXCEPT !.d[w].ps = 0, !.d[w].pf = AtMost(@ + 1, Min1)]
      good == [st EXCEPT !.d[w].pf = 0, !.d[w].ps = AtMost(@ + 1, Min1)]
      a == CASE r = "silent"   -> extend_mode_downgrade_for_wire(bad, w, "silent", mode)
             [] ~CarrierUp(r)  -> extend_mode_downgrade_for_wire(bad, w, "probe", mode)
             [] r = "ok"       -> walk_up_mode_downgrade_for_wire(good, w)
             [] OTHER          -> st
  IN  IF Reached(r) THEN mark_wire_data_proven(a) ELSE record_wire_outcome(a, w, FALSE)

\* note_endpoint_unreachable, condemn_plane
EndpointUnreachable(st) ==
  IF st.ep + 1 < Min1 THEN [st EXCEPT !.ep = @ + 1]
  ELSE [st EXCEPT !.ep = AtMost(@ + 1, Min1), !.healthy = FALSE, !.succ = 0,
                  !.fails = AtMost(@ + 1, Min1), !.cool = Cooldown,
                  !.round = 0, !.tried = {}, !.proven = 0]

\* rotate_active_wire: the shuffle timer re-rolls the wire
rotate_active_wire(st, w) ==
  LET a == [st EXCEPT !.wire = w, !.pin = IF w = 0 THEN None ELSE Window]
  IN  IF st.proven = 0 \/ RuntimeWindow = 0 THEN a
      ELSE [a EXCEPT !.streak = 0, !.round = 0, !.tried = {}, !.fails = 0, !.rt = 0,
                     !.d = [v \in Wires |-> IF v = 0 THEN reset_window_for_wire_change(@[0])
                                            ELSE NoDescent]]

-----------------------------------------------------------------------------
\* Who applies them

Idle == [pc |-> "idle", wire |-> 0, mode |-> 0]

\* dial_over_wires with wire_dial_order: from the active wire around
DialStart ==
  LET st == Unpin(s)
  IN  /\ order = <<>>
      /\ order' = [i \in 1..N |-> (st.wire + i - 1) % N]
      /\ s' = st
      /\ UNCHANGED <<sessions, probe, wprobe>>

DialOk ==
  /\ order # <<>> /\ order' = <<>>
  /\ s' = record_wire_outcome(s, Head(order), TRUE)
  /\ sessions' = sessions \cup {Head(order)}
  /\ UNCHANGED <<probe, wprobe>>

\* After the last wire the caller reports the failure without naming a wire
DialFails ==
  /\ order # <<>> /\ Head(order) \notin Dead
  /\ order' = Tail(order)
  /\ LET st == record_wire_outcome(s, Head(order), FALSE)
     IN  s' = IF Tail(order) = <<>> THEN report_runtime_failure(st, None, FALSE) ELSE st
  /\ UNCHANGED <<sessions, probe, wprobe>>

SessionFails(w, try_again) ==
  /\ w \in sessions /\ sessions' = sessions \ {w}
  /\ s' = report_runtime_failure(s, w, try_again)
  /\ UNCHANGED <<order, probe, wprobe>>

SessionDelivers(w, session) ==
  /\ w \in sessions \ Dead
  /\ s' = report_liveness(s, session)
  /\ UNCHANGED <<order, sessions, probe, wprobe>>

ProbeStarts ==
  /\ ProbeEnabled /\ probe.pc = "idle"
  /\ probe' = [Idle EXCEPT !.pc = "run", !.mode = Effective(s, 0)]
  /\ UNCHANGED <<s, order, sessions, wprobe>>

ProbeEnds(r) ==
  /\ probe.pc = "run"
  /\ IF r = "error"
     THEN s' = process_probe_err(s, probe.mode) /\ probe' = Idle
     ELSE LET out == process_probe_ok([s EXCEPT !.ep = 0], r, probe.mode)
          IN  /\ s' = out.status
              /\ probe' = IF out.recover THEN [Idle EXCEPT !.pc = "recover"] ELSE Idle
  /\ UNCHANGED <<order, sessions, wprobe>>

\* run_h3_recovery_probes dials the configured carrier
RecoveryEnds(ok) ==
  /\ probe.pc = "recover" /\ probe' = Idle
  /\ s' = IF ok THEN note_recovery_probe_success(s)
          ELSE extend_mode_downgrade(s, "recovery", None)
  /\ UNCHANGED <<order, sessions, wprobe>>

\* target_wire_for_fallback_probe
WireProbeStarts ==
  LET w == IF s.wire = 0 THEN 1 ELSE s.wire
  IN  /\ ProbeEnabled /\ N > 1 /\ wprobe.pc = "idle"
      /\ wprobe' = [pc |-> "run", wire |-> w, mode |-> Effective(s, w)]
      /\ UNCHANGED <<s, order, sessions, probe>>

WireProbeEnds(r) ==
  /\ wprobe.pc = "run" /\ wprobe' = Idle
  /\ wprobe.wire \in Dead => ~Reached(r)
  /\ s' = IF r = "error" THEN record_wire_outcome(s, wprobe.wire, FALSE)
          ELSE fallback_wire_outcome(s, wprobe.wire, r, wprobe.mode)
  /\ UNCHANGED <<order, sessions, probe>>

EndpointFails ==
  /\ probe.pc = "run" /\ "endpoint" \in ProbeResults
  /\ s' = EndpointUnreachable(s) /\ probe' = Idle
  /\ UNCHANGED <<order, sessions, wprobe>>

TimerRolls(w) ==
  /\ ShuffleTimer /\ w # s.wire
  /\ s' = rotate_active_wire(s, w)
  /\ UNCHANGED <<order, sessions, probe, wprobe>>

Less(n) == IF n > 0 THEN n - 1 ELSE n

Tick ==
  /\ ~(Dense /\ s.wire \in Dead)
  /\ s' = [s EXCEPT !.pin = Less(@), !.cool = Less(@), !.rtRecent = Less(@),
                    !.proven = Less(@),
                    !.d = [w \in Wires |-> [@[w] EXCEPT !.left = Less(@),
                             !.rcool = Less(@), !.grace = Less(@)]]]
  /\ UNCHANGED <<order, sessions, probe, wprobe>>

Init ==
  /\ s = [wire |-> 0, pin |-> None, streak |-> 0, round |-> 0, healthy |-> TRUE,
          cool |-> 0, fails |-> 0, succ |-> 0, rt |-> 0, rtRecent |-> 0, proven |-> 0,
          ep |-> 0, d |-> [w \in Wires |-> NoDescent], tried |-> {}, sound |-> TRUE]
  /\ order = <<>> /\ sessions = {} /\ probe = Idle /\ wprobe = Idle

Dials == DialStart \/ DialOk \/ DialFails

Next ==
  \/ Dials
  \/ \E w \in Wires, b \in BOOLEAN : SessionFails(w, b) \/ SessionDelivers(w, b)
  \/ ProbeStarts \/ EndpointFails \/ WireProbeStarts
  \/ \E r \in ProbeResults \ {"endpoint"} : ProbeEnds(r) \/ WireProbeEnds(r)
  \/ \E ok \in BOOLEAN : RecoveryEnds(ok)
  \/ \E w \in Wires : TimerRolls(w)
  \/ Tick

Spec == Init /\ [][Next]_vars

\* Clients keep dialling, a handshake on the active wire completes, and a
\* session on a wire that delivers nothing ends in a failure.
FairSpec ==
  /\ Spec
  /\ WF_vars(DialStart) /\ WF_vars(DialOk)
  /\ \A w \in Dead : WF_vars(SessionFails(w, FALSE))

-----------------------------------------------------------------------------
\* The uplink is given up after a pass of shuffle_wires only when every wire was
\* active and failed since the last success: dials, sessions and the two probes
\* move the active wire and reset the pass independently of one another
\* (record_wire_outcome, advance_active_wire_on_probe_failure).
RoundCoversWires == s.sound

\* A failure never lifts a carrier: whatever arrives, and however late, the
\* carrier in force on a wire rises only with a walk-up, a cleared cap, an
\* expired window or a re-rolled wire (apply_descent_trigger).
NotLifted ==
  (\E w \in Wires, b \in BOOLEAN : SessionFails(w, b))
    \/ (\E r \in {"carrier", "error"} : ProbeEnds(r) \/ WireProbeEnds(r))
    \/ RecoveryEnds(FALSE)
  => \A w \in Wires : Effective(s, w)' <= Effective(s, w)
FailureNeverLifts == [][NotLifted]_vars

\* After a recovery cleared the cap it takes min_failures triggers without a
\* success between them to install one again inside the grace window.
NoCapInGrace ==
  s.d[0].cap = NoCap /\ s.d[0].grace > 0 /\ s.d[0].attempts < MinFailures
    => s'.d[0].cap = NoCap
GraceHolds == [][NoCapInGrace]_vars

StuckOn(w) == s.wire = w /\ s.healthy

\* A wire that completes handshakes and delivers nothing does not stay the active
\* wire of a healthy uplink: new sessions move to another wire, or selection is
\* told to move to another uplink (failures.rs: rotation advances on data-plane
\* errors the same way it advances on dial and probe errors).
DataDeadIsLeft == \A w \in Dead : StuckOn(w) ~> ~StuckOn(w)
=============================================================================
