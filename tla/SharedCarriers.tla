--------------------------- MODULE SharedCarriers ---------------------------
(***************************************************************************)
(* The client's pools of shared carriers: the registry of open HTTP/2,     *)
(* HTTP/3 and XHTTP-over-HTTP/3 connections, the reuse-or-dial path that   *)
(* every stream goes through, the driver task of each connection and the   *)
(* maintenance sweep that forgets dead carriers and closes idle ones.      *)
(*                                                                         *)
(* A dial is a task that parks at every await, so the registry may change  *)
(* between any two of its steps.  A WebSocket stream is counted on its     *)
(* carrier once it is open; an XHTTP session is counted from the moment it *)
(* is given the carrier.                                                   *)
(***************************************************************************)
EXTENDS Naturals, FiniteSets, Sequences

CONSTANTS
    Kinds,      \* subset of {"h2", "h3", "xhttp"}: which pool is modelled
    Dials,      \* the tasks that ask for a stream, once each
    Slots,      \* carrier slots of one server: 0 .. MAX - 1 (h2 uses slot 0)
    Min, Cap,   \* H3_CARRIER_MIN and H3_CARRIER_CAP
    Ids,        \* connection ids, a bound on the handshakes of a behaviour
    Sweeps,     \* REAP_AFTER_SWEEPS
    KeepWarm,   \* REAP_KEEP_WARM
    Addrs,      \* resolved addresses an h3 dial may try
    Faults,     \* subset of {"die", "open", "dial", "cancel", "probe"}
    MaxFaults

VARIABLES
    kind,   \* the pool of this behaviour
    reg,    \* slot -> the registered connection id, 0 when none
    car,    \* id -> the connection
    dial,   \* dial -> its progress
    lock,   \* slot -> holder of the per-key connect lock, 0 when free
    gc,     \* the maintenance sweep
    faults

vars == <<kind, reg, car, dial, lock, gc, faults>>

NoCarrier == [slot |-> 0, made |-> FALSE, alive |-> FALSE, closed |-> FALSE,
              idle |-> 0, driver |-> "none", cached |-> TRUE, reaped |-> FALSE]

NoDial == [pc |-> "idle", slot |-> 0, id |-> 0, locked |-> FALSE,
           fresh |-> FALSE, retry |-> FALSE, probe |-> FALSE, loads |-> <<>>, tries |-> 0]

Ws == kind # "xhttp"

\* is_open: h2 only knows the flag its driver or a failed open has set.
is_open(i) == car[i].made /\ ~car[i].closed /\ (kind = "h2" \/ car[i].alive)

\* Streams counted on a carrier: CarrierActiveGuard and PooledSession.
Counts(d) == \/ d.pc \in {"insert", "live"} /\ (Ws \/ d.pc = "live")
             \/ d.pc = "opening" /\ ~Ws

active(i) == Cardinality({d \in Dials : dial[d].id = i /\ Counts(dial[d])})

Fault(f) ==
    /\ f \in Faults /\ faults < MaxFaults
    /\ faults' = faults + 1

Init ==
    /\ kind \in Kinds
    /\ reg = [s \in Slots |-> 0]
    /\ car = [i \in Ids |-> NoCarrier]
    /\ dial = [d \in Dials |-> NoDial]
    /\ lock = [s \in Slots |-> 0]
    /\ gc = [pc |-> "idle", keys |-> {}, reap |-> <<>>, lost |-> FALSE]
    /\ faults = 0

(***************************************************************************)
(* The registry                                                            *)
(***************************************************************************)

\* An entry another task removes while a sweep is under way.
Lost == [gc EXCEPT !.lost = TRUE]

invalidate_if_current(s, i) == IF reg[s] = i THEN [reg EXCEPT ![s] = 0] ELSE reg

insert(s, i) ==
    IF reg[s] # 0 /\ is_open(reg[s]) THEN reg ELSE [reg EXCEPT ![s] = i]

SlotLoad(s) == IF reg[s] # 0 /\ is_open(reg[s]) THEN <<active(reg[s])>> ELSE <<>>

\* The slot a dial is sent to, from what it read of every slot: `loads[s + 1]`
\* is <<active>> for an open carrier and <<>> otherwise.
choose_slot(loads) ==
    LET open  == {s \in Slots : loads[s + 1] # <<>>}
        empty == Slots \ open
        load(s) == loads[s + 1][1]
        lowest(S) == CHOOSE s \in S : \A t \in S : s <= t
        least(S) == lowest({s \in S : \A t \in S : load(s) <= load(t)})
        room  == {s \in open : load(s) < Cap}
    IN  IF Cardinality(open) < Min /\ empty # {} THEN lowest(empty)
        ELSE IF room # {} THEN least(room)
        ELSE IF empty # {} THEN lowest(empty)
        ELSE least(open)

(***************************************************************************)
(* A dial                                                                  *)
(***************************************************************************)

At(d, pc) == dial[d].pc = pc
Goes(d, r) == dial' = [dial EXCEPT ![d] = r]
Ended == [NoDial EXCEPT !.pc = "end"]

\* The guard of the connect lock goes with the future that holds it.
Unlocked(d) == IF dial[d].locked THEN [lock EXCEPT ![dial[d].slot] = 0] ELSE lock

\* connect_websocket_h2 has one carrier per server; the others pick a slot.
\* A probe's dial is never shared.
FirstStep(probe) == IF kind # "h2" THEN "peek" ELSE IF probe THEN "dial" ELSE "cached"

\* connect_websocket_h2, connect_websocket_h3 and connect_xhttp_h3 begin.
Begin(d, probe) ==
    /\ At(d, "idle")
    /\ probe => "probe" \in Faults /\ Ws
    /\ Goes(d, [NoDial EXCEPT !.probe = probe, !.pc = FirstStep(probe)])
    /\ UNCHANGED <<kind, reg, car, lock, gc, faults>>

\* pick_h3_carrier_slot: one read-locked look at every slot, then the policy.
Peek(d) ==
    /\ At(d, "peek")
    /\ LET loads == Append(dial[d].loads, SlotLoad(Len(dial[d].loads)))
       IN  Goes(d, IF Len(loads) < Cardinality(Slots)
                   THEN [dial[d] EXCEPT !.loads = loads]
                   ELSE [dial[d] EXCEPT !.loads = <<>>, !.slot = choose_slot(loads),
                                        !.pc = IF dial[d].probe THEN "dial" ELSE "cached"])
    /\ UNCHANGED <<kind, reg, car, lock, gc, faults>>

\* Where a lookup that finds nothing leads: the lock, or, under it, the dial.
Missed(d) == [dial[d] EXCEPT !.id = 0, !.pc = IF dial[d].locked THEN "dial" ELSE "lock"]

\* Mutant: under the lock the registry is not looked at again.
CachedOnce(d) ==
    /\ At(d, "cached")
    /\ Goes(d, IF dial[d].locked \/ reg[dial[d].slot] = 0 THEN Missed(d)
               ELSE [dial[d] EXCEPT !.id = reg[dial[d].slot],
                       !.pc = IF is_open(reg[dial[d].slot]) THEN "open" ELSE "evict"])
    /\ UNCHANGED <<kind, reg, car, lock, gc, faults>>

\* cached: the read-locked lookup.
Cached(d) ==
    /\ At(d, "cached")
    /\ LET i == reg[dial[d].slot]
       IN  Goes(d, IF i = 0 THEN Missed(d)
                   ELSE [dial[d] EXCEPT !.id = i, !.pc = IF is_open(i) THEN "open" ELSE "evict"])
    /\ UNCHANGED <<kind, reg, car, lock, gc, faults>>

\* cached: a stale entry leaves under the write lock unless it was replaced.
EvictStale(d) ==
    /\ At(d, "evict")
    /\ reg' = invalidate_if_current(dial[d].slot, dial[d].id)
    /\ gc' = Lost
    /\ Goes(d, Missed(d))
    /\ UNCHANGED <<kind, car, lock, faults>>

\* The stream's first step on a carrier.  open_websocket refuses one that has
\* closed meanwhile; session_on counts the XHTTP session and, the function
\* returning, lets the connect lock go.
OpenStarts(d) ==
    /\ At(d, "open")
    /\ \/ /\ Ws /\ is_open(dial[d].id)
          /\ Goes(d, [dial[d] EXCEPT !.pc = "opening"])
          /\ UNCHANGED <<car, lock>>
       \/ /\ Ws /\ ~is_open(dial[d].id)
          /\ car' = [car EXCEPT ![dial[d].id].closed = TRUE]
          /\ Goes(d, [dial[d] EXCEPT !.pc = "failed"])
          /\ UNCHANGED lock
       \/ /\ ~Ws
          /\ Goes(d, [dial[d] EXCEPT !.pc = "opening", !.locked = FALSE])
          /\ lock' = Unlocked(d)
          /\ UNCHANGED car
    /\ UNCHANGED <<kind, reg, gc, faults>>

\* The peer answers.  A fresh WebSocket carrier is registered after its first
\* stream has opened; every other stream is handed out now.
OpenOk(d) ==
    /\ At(d, "opening") /\ car[dial[d].id].alive
    /\ LET shared == Ws /\ dial[d].fresh /\ ~dial[d].probe
       IN  /\ Goes(d, IF shared THEN [dial[d] EXCEPT !.pc = "insert"]
                      ELSE [dial[d] EXCEPT !.pc = "live", !.locked = FALSE])
           /\ lock' = IF shared THEN lock ELSE Unlocked(d)
    /\ UNCHANGED <<kind, reg, car, gc, faults>>

\* What makes an open fail: the connection is dead, or the open is refused,
\* times out, or answers with what the client does not implement.
OpenFault(d) ==
    \/ ~car[dial[d].id].alive /\ UNCHANGED faults
    \/ car[dial[d].id].alive /\ Fault("open")

\* open_websocket fails: the carrier is soft-closed.
OpenFailsWs(d) ==
    /\ At(d, "opening") /\ Ws
    /\ OpenFault(d)
    /\ car' = [car EXCEPT ![dial[d].id].closed = TRUE]
    /\ Goes(d, [dial[d] EXCEPT !.pc = "failed"])
    /\ UNCHANGED <<kind, reg, lock, gc>>

\* with_reuse on a failed open: a shared carrier is invalidated by its id and
\* the dial goes on to the lock; a fresh one is dropped and resolve_and_dial
\* tries the next address, or gives up.
AfterFailure(d) ==
    /\ At(d, "failed")
    /\ IF ~dial[d].fresh
       THEN /\ reg' = invalidate_if_current(dial[d].slot, dial[d].id)
            /\ gc' = Lost
            /\ Goes(d, Missed(d))
            /\ UNCHANGED lock
       ELSE /\ Goes(d, IF dial[d].tries < Addrs
                       THEN [dial[d] EXCEPT !.pc = "dial", !.id = 0, !.fresh = FALSE]
                       ELSE Ended)
            /\ lock' = IF dial[d].tries < Addrs THEN lock ELSE Unlocked(d)
            /\ UNCHANGED <<reg, gc>>
    /\ UNCHANGED <<kind, car, faults>>

\* connect_xhttp_h3: an error on a reused carrier whose connection is alive is
\* the dial's error, and so is any error on a fresh or redialed one.
OpenFailsXhttp(d) ==
    /\ At(d, "opening") /\ ~Ws
    /\ OpenFault(d)
    /\ dial[d].fresh \/ dial[d].retry \/ car[dial[d].id].alive
    /\ Goes(d, Ended)
    /\ UNCHANGED <<kind, reg, car, lock, gc>>

\* redial: a reused carrier that is dead, or has not answered within its
\* budget, is soft-closed and invalidated, and the dial takes the slot's lock.
Redial(d) ==
    /\ At(d, "opening") /\ ~Ws /\ ~dial[d].fresh /\ ~dial[d].retry
    /\ OpenFault(d)
    /\ car' = [car EXCEPT ![dial[d].id].closed = TRUE]
    /\ reg' = invalidate_if_current(dial[d].slot, dial[d].id)
    /\ gc' = Lost
    /\ Goes(d, [dial[d] EXCEPT !.pc = "lock", !.id = 0, !.retry = TRUE])
    /\ UNCHANGED <<kind, lock>>

\* The per-key connect lock, then the registry again.
TakeLock(d) ==
    /\ At(d, "lock") /\ lock[dial[d].slot] = 0
    /\ lock' = [lock EXCEPT ![dial[d].slot] = d]
    /\ Goes(d, [dial[d] EXCEPT !.pc = "cached", !.locked = TRUE])
    /\ UNCHANGED <<kind, reg, car, gc, faults>>

\* connect_h2_connection, connect_h3_connection, h3_pool::dial: the handshake
\* succeeds and the connection's driver task starts.
Establish(d) ==
    /\ At(d, "dial")
    /\ \E i \in Ids :
         /\ ~car[i].made /\ \A j \in Ids : ~car[j].made => i <= j
         /\ car' = [car EXCEPT ![i] = [NoCarrier EXCEPT !.slot = dial[d].slot, !.made = TRUE,
                              !.alive = TRUE, !.driver = "run", !.cached = ~dial[d].probe]]
         /\ Goes(d, [dial[d] EXCEPT !.id = i, !.fresh = TRUE, !.tries = @ + 1,
                                    !.pc = IF Ws THEN "open" ELSE "insert"])
    /\ UNCHANGED <<kind, reg, lock, gc, faults>>

\* The handshake fails or times out: the next address, or the dial's error.
DialFails(d) ==
    /\ At(d, "dial")
    /\ IF \A i \in Ids : car[i].made THEN UNCHANGED faults ELSE Fault("dial")
    /\ LET more == kind = "h3" /\ dial[d].tries + 1 < Addrs
       IN  /\ Goes(d, IF more THEN [dial[d] EXCEPT !.tries = @ + 1] ELSE Ended)
           /\ lock' = IF more THEN lock ELSE Unlocked(d)
    /\ UNCHANGED <<kind, reg, car, gc>>

\* registry.insert; the WebSocket dial returns its stream and unlocks, the
\* XHTTP dial goes on to session_on.
Insert(d) ==
    /\ At(d, "insert")
    /\ reg' = insert(dial[d].slot, dial[d].id)
    /\ Goes(d, IF Ws THEN [dial[d] EXCEPT !.pc = "live", !.locked = FALSE]
               ELSE [dial[d] EXCEPT !.pc = "open"])
    /\ lock' = IF Ws THEN Unlocked(d) ELSE lock
    /\ UNCHANGED <<kind, car, gc, faults>>

\* The caller drops the dial, or the timeout around it does.
Cancel(d) ==
    /\ dial[d].pc \notin {"idle", "live", "end"}
    /\ Fault("cancel")
    /\ lock' = Unlocked(d)
    /\ Goes(d, Ended)
    /\ UNCHANGED <<kind, reg, car, gc>>

\* The stream is dropped, and its count with it.
StreamEnds(d) ==
    /\ At(d, "live")
    /\ Goes(d, Ended)
    /\ UNCHANGED <<kind, reg, car, lock, gc, faults>>

(***************************************************************************)
(* A connection                                                            *)
(***************************************************************************)

\* Somebody holds the Arc; the driver is aborted with the last one.
Referenced(i) ==
    \/ \E s \in Slots : reg[s] = i
    \/ \E d \in Dials : dial[d].id = i

Die(i) ==
    /\ car[i].alive /\ Fault("die")
    /\ car' = [car EXCEPT ![i].alive = FALSE]
    /\ gc' = Lost
    /\ UNCHANGED <<kind, reg, dial, lock>>

\* The driver task sees the connection end.  The h2 driver sets the flag.
DriverEnds(i) ==
    /\ car[i].driver = "run" /\ ~car[i].alive /\ Referenced(i)
    /\ car' = [car EXCEPT ![i].driver = IF car[i].cached THEN "invalidate" ELSE "done",
                          ![i].closed = @ \/ kind = "h2"]
    /\ UNCHANGED <<kind, reg, dial, lock, gc, faults>>

DriverInvalidates(i) ==
    /\ car[i].driver = "invalidate" /\ Referenced(i)
    /\ reg' = invalidate_if_current(car[i].slot, i)
    /\ gc' = Lost
    /\ car' = [car EXCEPT ![i].driver = "done"]
    /\ UNCHANGED <<kind, dial, lock, faults>>

(***************************************************************************)
(* The sweep: gc, then, for h3 and xhttp, the census and the reaper        *)
(***************************************************************************)

Stale(s) == reg[s] # 0 /\ ~is_open(reg[s])

GcReads ==
    /\ gc.pc = "idle"
    /\ gc' = [gc EXCEPT !.pc = "evict", !.keys = {s \in Slots : Stale(s)}]
    /\ UNCHANGED <<kind, reg, car, dial, lock, faults>>

GcEvicts ==
    /\ gc.pc = "evict"
    /\ reg' = [s \in Slots |-> IF s \in gc.keys /\ Stale(s) THEN 0 ELSE reg[s]]
    /\ gc' = [gc EXCEPT !.pc = IF kind = "h2" THEN "idle" ELSE "census", !.keys = {}]
    /\ UNCHANGED <<kind, car, dial, lock, faults>>

\* The slots to close, longest idle first, leaving the warm floor.
carriers_to_reap(idle) ==
    LET busy == {s \in Slots : reg[s] # 0 /\ active(reg[s]) > 0}
        young == {s \in Slots : reg[s] # 0 /\ active(reg[s]) = 0 /\ idle[reg[s]] < Sweeps}
        eligible == {s \in Slots : reg[s] # 0} \ (busy \cup young)
        before(s, t) == \/ idle[reg[s]] > idle[reg[t]]
                        \/ idle[reg[s]] = idle[reg[t]] /\ s < t
        order == CHOOSE q \in [1..Cardinality(eligible) -> eligible] :
                   \A m, n \in DOMAIN q : m < n => before(q[m], q[n])
        others == Cardinality(busy \cup young)
        keep == IF others < KeepWarm THEN KeepWarm - others ELSE 0
        count == IF Cardinality(eligible) > keep THEN Cardinality(eligible) - keep ELSE 0
    IN  SubSeq(order, 1, count)

\* One step of the idle counters over the entries, then the census.  The
\* counter saturates: only its comparison with Sweeps is read.
Census ==
    /\ gc.pc = "census"
    /\ LET idle == [i \in Ids |->
                      IF \A s \in Slots : reg[s] # i THEN car[i].idle
                      ELSE IF active(i) > 0 THEN 0
                      ELSE IF car[i].idle < Sweeps THEN car[i].idle + 1 ELSE Sweeps]
       IN  /\ car' = [i \in Ids |-> [car[i] EXCEPT !.idle = idle[i]]]
           /\ gc' = [gc EXCEPT !.reap = carriers_to_reap(idle), !.lost = FALSE,
                               !.pc = IF carriers_to_reap(idle) = <<>> THEN "idle" ELSE "reap"]
    /\ UNCHANGED <<kind, reg, dial, lock, faults>>

\* remove_if, by key: what the slot now holds leaves if nothing is counted
\* on it.
Reap ==
    /\ gc.pc = "reap"
    /\ LET s == Head(gc.reap)
           drop == reg[s] # 0 /\ active(reg[s]) = 0
       IN  /\ reg' = IF drop THEN [reg EXCEPT ![s] = 0] ELSE reg
           /\ car' = IF drop THEN [car EXCEPT ![reg[s]].reaped = TRUE] ELSE car
    /\ gc' = [gc EXCEPT !.reap = Tail(@), !.pc = IF Len(gc.reap) = 1 THEN "idle" ELSE "reap"]
    /\ UNCHANGED <<kind, dial, lock, faults>>

DialSteps(d) ==
    \/ Peek(d) \/ Cached(d) \/ EvictStale(d) \/ OpenStarts(d) \/ OpenOk(d)
    \/ OpenFailsWs(d) \/ AfterFailure(d) \/ OpenFailsXhttp(d) \/ Redial(d)
    \/ TakeLock(d) \/ Establish(d) \/ DialFails(d) \/ Insert(d)

GcSteps == GcReads \/ GcEvicts \/ Census \/ Reap

Next ==
    \/ \E d \in Dials : \/ DialSteps(d) \/ Cancel(d) \/ StreamEnds(d)
                        \/ \E p \in BOOLEAN : Begin(d, p)
    \/ \E i \in Ids : Die(i) \/ DriverEnds(i) \/ DriverInvalidates(i)
    \/ GcSteps

Spec == Init /\ [][Next]_vars

\* The maintenance loop sweeps for ever and the runtime polls every task; the
\* environment's faults and the end of a stream are not promised.
FairSpec ==
    /\ Spec
    /\ WF_vars(GcSteps)
    /\ \A d \in Dials : WF_vars(DialSteps(d))
    /\ \A i \in Ids : WF_vars(DriverEnds(i) \/ DriverInvalidates(i))

(***************************************************************************)
(* Properties                                                              *)
(***************************************************************************)

\* Only the reaper takes a carrier that is still open out of the registry: a
\* failed open, a late driver or a sweep that works from an earlier look never
\* removes the connection that has meanwhile replaced the one it looked at.
OnlyReaperDropsOpen ==
    \A s \in Slots :
        (reg[s] # 0 /\ is_open(reg[s]) /\ reg'[s] # reg[s]) =>
            (car'[reg[s]].reaped \/ car'[reg[s]].closed)
OnlyReaperDrops == [][OnlyReaperDropsOpen]_vars

\* Dials that meet the same empty or dead slot share one handshake: two
\* carriers of a slot are never open at once, except after the reaper has
\* dropped one of them that a stream was about to use.
BurstSharesDial ==
    \A i, j \in Ids :
        (i # j /\ \A k \in {i, j} : car[k].cached /\ ~car[k].reaped /\ Referenced(k) /\ is_open(k))
            => car[i].slot # car[j].slot

\* The reaper leaves a warm carrier: it empties the pool only if a carrier of
\* its census died or was invalidated by a dial during the sweep.
ReapKeepsWarm ==
    (gc.pc = "reap" /\ gc' # gc /\ reg' # reg /\ \A s \in Slots : reg'[s] = 0) => gc.lost
WarmKept == [][ReapKeepsWarm]_vars

DeadRegistered(i) == \E s \in Slots : reg[s] = i /\ ~car[i].alive
Unregistered(i) == \A s \in Slots : reg[s] # i

\* A dead carrier does not stay registered, even when its driver had run out
\* before the carrier was inserted.
DeadLeaves == \A i \in Ids : DeadRegistered(i) ~> Unregistered(i)

=============================================================================
