------------------------------ MODULE StandbyPool ------------------------------
(***************************************************************************)
(* The warm-standby pool of one uplink and one transport: carriers dialled *)
(* ahead of need on the wire the uplink is using, taken by flows, swept by *)
(* the maintenance and keepalive loops outside the pool's lock, cleared on *)
(* failures, and refilled by coalesced background tasks while the active   *)
(* wire moves underneath all of them.  Translated from                     *)
(* crates/outline-uplink/src/manager/standby_pool.rs and                   *)
(* manager/standby/{ctx,refill,keepalive,mod}.rs.                          *)
(*                                                                         *)
(* Every step that holds the pool's mutex is one action; what happens      *)
(* between two of them (a dial, a peek, a ping) is not.                    *)
(***************************************************************************)
EXTENDS Integers, Sequences, SequencesExt

CONSTANTS Wires,          \* 0 is the primary, i is fallbacks[i - 1]
          TunWireDial,    \* load_balancing.tun_wire_dial
          Desired,        \* warm_standby_tcp / warm_standby_udp
          Takes,          \* flows that ask the pool, once each
          Sweeps,         \* loops: "validate", "keepalive"
          Refills,        \* refill tasks that may exist at a time
          MaxSweeps,      \* rounds of a loop
          MaxEvents,      \* rotations, clears and failed dials
          Events          \* which of "rotate", "clear", "die", "fail" happen

VARIABLES pool,     \* [wire, entries]; an entry is [wire, alive]
          active,   \* the uplink's active wire
          gate,     \* RefillGate::queued
          lock,     \* holder of the refill mutex, 0 if free
          take,     \* the flows
          task,     \* the refill tasks
          sweep,    \* the loops
          events

vars == <<pool, active, gate, lock, take, task, sweep, events>>

Free == 0

\* standby_ctx: the wire the pool should prewarm
CtxWire == IF TunWireDial THEN active ELSE 0

NoTask == [pc |-> "off", wire |-> 0]
NoSweep == [pc |-> "sleep", wire |-> 0, held |-> <<>>, rounds |-> 0]

OnWire(entries, w) == SelectSeq(entries, LAMBDA c : c.wire = w)
Alive(entries) == SelectSeq(entries, LAMBDA c : c.alive)

-----------------------------------------------------------------------------
\* The pool under its guard

claim_wire(p, w) == [wire |-> w, entries |-> OnWire(p.entries, w)]

\* Mutant: the front entry is handed out as it is
PopBlind(p, w) ==
  IF p.entries = <<>> THEN [found |-> FALSE, pool |-> p, carrier |-> [wire |-> w, alive |-> FALSE]]
  ELSE [found |-> TRUE, pool |-> [p EXCEPT !.entries = Tail(@)], carrier |-> Head(p.entries)]

\* Entries of another wire that precede the first match are dropped
pop_front_for_wire(p, w) ==
  LET at == SelectInSeq(p.entries, LAMBDA c : c.wire = w)
  IN  IF at = 0
      THEN [found |-> FALSE, pool |-> [p EXCEPT !.entries = <<>>],
            carrier |-> [wire |-> w, alive |-> FALSE]]
      ELSE [found |-> TRUE, carrier |-> p.entries[at],
            pool |-> [p EXCEPT !.entries = SubSeq(@, at + 1, Len(@))]]

push_for_wire(p, w) ==
  IF p.wire # w \/ Len(p.entries) >= Desired THEN p
  ELSE [p EXCEPT !.entries = Append(@, [wire |-> w, alive |-> TRUE])]

restore(p, held) == [p EXCEPT !.entries = @ \o OnWire(held, p.wire)]

-----------------------------------------------------------------------------
\* Refill tasks

\* RefillGate::try_claim: one queued task at most
Claimed == ~gate

\* spawn_refill, with popped the pool's new value
Spawn ==
  IF Claimed
  THEN LET i == CHOOSE j \in Refills : task[j].pc = "off"
       IN  gate' = TRUE /\ task' = [task EXCEPT ![i] = [NoTask EXCEPT !.pc = "queued"]]
  ELSE UNCHANGED <<gate, task>>

HasRoom == Claimed => \E j \in Refills : task[j].pc = "off"

\* The task releases the gate first, then resolves its context
RefillStarts(i) ==
  /\ task[i].pc = "queued"
  /\ gate' = FALSE
  /\ task' = [task EXCEPT ![i].pc = "lock", ![i].wire = CtxWire]
  /\ UNCHANGED <<pool, active, lock, take, sweep, events>>

\* The refill mutex, then the length, claiming an empty pool for this wire
Looked(w) == IF pool.entries = <<>> THEN claim_wire(pool, w) ELSE pool

RefillLocks(i) ==
  /\ task[i].pc = "lock" /\ lock = Free
  /\ pool' = Looked(task[i].wire)
  /\ IF Len(pool.entries) >= Desired
     THEN task' = [task EXCEPT ![i].pc = "end"]
     ELSE task' = [task EXCEPT ![i].pc = "dial"]
  /\ lock' = i
  /\ UNCHANGED <<active, gate, take, sweep, events>>

\* The dial returned and its stream is offered to the pool
Pooled(w) == push_for_wire(pool, w) # pool

RefillDialed(i) ==
  /\ task[i].pc = "dial"
  /\ pool' = push_for_wire(pool, task[i].wire)
  /\ IF Pooled(task[i].wire) /\ Len(pool'.entries) < Desired
     THEN UNCHANGED task
     ELSE task' = [task EXCEPT ![i].pc = "end"]
  /\ UNCHANGED <<active, gate, lock, take, sweep, events>>

RefillEnds(i) ==
  /\ task[i].pc = "end"
  /\ task' = [task EXCEPT ![i] = NoTask] /\ lock' = Free
  /\ UNCHANGED <<pool, active, gate, take, sweep, events>>

\* The dial failed, or fell back to HTTP/1 under another mode
RefillFails(i) ==
  /\ "fail" \in Events /\ events > 0 /\ task[i].pc = "dial"
  /\ task' = [task EXCEPT ![i] = NoTask] /\ lock' = Free
  /\ events' = events - 1
  /\ UNCHANGED <<pool, active, gate, take, sweep>>

-----------------------------------------------------------------------------
\* A flow: try_take_alive

\* The caller's wire was resolved earlier; another one than the pool's is a miss
TakeStarts(t, wanted) ==
  /\ take[t].pc = "idle"
  /\ take' = [take EXCEPT ![t] = [pc |-> IF wanted = CtxWire THEN "check" ELSE "miss",
                                  wire |-> CtxWire, wanted |-> wanted, popped |-> FALSE,
                                  got |-> CtxWire]]
  /\ UNCHANGED <<pool, active, gate, lock, task, sweep, events>>

\* A pool filled on another wire is drained and restamped in one transaction
TakeChecks(t) ==
  /\ take[t].pc = "check" /\ HasRoom
  /\ IF pool.wire = take[t].wire
     THEN take' = [take EXCEPT ![t].pc = "pop"] /\ UNCHANGED <<pool, gate, task>>
     ELSE /\ take' = [take EXCEPT ![t].pc = "miss"]
          /\ pool' = claim_wire(pool, take[t].wire)
          /\ IF Len(pool'.entries) < Len(pool.entries) THEN Spawn ELSE UNCHANGED <<gate, task>>
  /\ UNCHANGED <<active, lock, sweep, events>>

\* The pop and the peek that follows it; a dead carrier is passed over
TakePops(t) ==
  LET popped == pop_front_for_wire(pool, take[t].wire)
      any == take[t].popped \/ Len(popped.pool.entries) < Len(pool.entries)
  IN  /\ take[t].pc = "pop" /\ HasRoom
      /\ pool' = popped.pool
      /\ IF popped.found /\ ~popped.carrier.alive
         THEN take' = [take EXCEPT ![t].popped = TRUE] /\ UNCHANGED <<gate, task>>
         ELSE /\ take' = [take EXCEPT ![t].pc = IF popped.found THEN "hit" ELSE "miss",
                                      ![t].got = IF popped.found THEN popped.carrier.wire ELSE @]
              /\ IF any THEN Spawn ELSE UNCHANGED <<gate, task>>
      /\ UNCHANGED <<active, lock, sweep, events>>

-----------------------------------------------------------------------------
\* The loops: maintain_pool (validate, refill) and keepalive_tcp_pool

\* The carriers leave the pool for as long as the probes take
SweepDrains(s) ==
  /\ sweep[s].pc = "sleep" /\ sweep[s].rounds < MaxSweeps
  /\ sweep' = [sweep EXCEPT ![s].pc = "probe", ![s].wire = CtxWire,
                            ![s].held = pool.entries, ![s].rounds = @ + 1]
  /\ pool' = [pool EXCEPT !.entries = <<>>]
  /\ UNCHANGED <<active, gate, lock, take, task, events>>

SweepRestores(s) ==
  /\ sweep[s].pc = "probe"
  /\ pool' = restore(pool, Alive(sweep[s].held))
  /\ sweep' = [sweep EXCEPT ![s].pc = "lock", ![s].held = <<>>]
  /\ UNCHANGED <<active, gate, lock, take, task, events>>

\* refill under the context resolved before the sweep
SweepLocks(s) ==
  /\ sweep[s].pc = "lock" /\ lock = Free
  /\ pool' = Looked(sweep[s].wire)
  /\ IF Len(pool.entries) >= Desired
     THEN sweep' = [sweep EXCEPT ![s].pc = "sleep"] /\ UNCHANGED lock
     ELSE sweep' = [sweep EXCEPT ![s].pc = "dial"] /\ lock' = s
  /\ UNCHANGED <<active, gate, take, task, events>>

SweepDialed(s) ==
  /\ sweep[s].pc = "dial"
  /\ pool' = push_for_wire(pool, sweep[s].wire)
  /\ IF Pooled(sweep[s].wire) /\ Len(pool'.entries) < Desired
     THEN UNCHANGED <<sweep, lock>>
     ELSE sweep' = [sweep EXCEPT ![s].pc = "sleep"] /\ lock' = Free
  /\ UNCHANGED <<active, gate, take, task, events>>

-----------------------------------------------------------------------------
\* The rest of the uplink

\* The active wire moves
Rotate(w) ==
  /\ "rotate" \in Events /\ events > 0 /\ w # active
  /\ active' = w /\ events' = events - 1
  /\ UNCHANGED <<pool, gate, lock, take, task, sweep>>

\* clear_standby after a failure, drain_standby_pool after a transition
clear_standby ==
  /\ "clear" \in Events /\ events > 0
  /\ pool' = [pool EXCEPT !.entries = <<>>] /\ events' = events - 1
  /\ UNCHANGED <<active, gate, lock, take, task, sweep>>

\* A probe cycle that found the uplink healthy
ProbeRefills ==
  /\ "probe" \in Events /\ events > 0 /\ HasRoom
  /\ Spawn /\ events' = events - 1
  /\ UNCHANGED <<pool, active, lock, take, sweep>>

\* The server closes a pooled carrier
Die(k) ==
  /\ "die" \in Events /\ events > 0 /\ k \in DOMAIN pool.entries /\ pool.entries[k].alive
  /\ pool' = [pool EXCEPT !.entries[k].alive = FALSE] /\ events' = events - 1
  /\ UNCHANGED <<active, gate, lock, take, task, sweep>>

Init ==
  /\ active = 0
  /\ pool = [wire |-> 0, entries |-> [k \in 1 .. Desired |-> [wire |-> 0, alive |-> TRUE]]]
  /\ gate = FALSE /\ lock = Free
  /\ take = [t \in Takes |-> [pc |-> "idle", wire |-> 0, wanted |-> 0, popped |-> FALSE, got |-> 0]]
  /\ task = [i \in Refills |-> NoTask]
  /\ sweep = [s \in Sweeps |-> NoSweep]
  /\ events = MaxEvents

TaskSteps ==
  \/ \E i \in Refills : RefillStarts(i) \/ RefillLocks(i) \/ RefillDialed(i) \/ RefillEnds(i)
  \/ \E s \in Sweeps : SweepRestores(s) \/ SweepLocks(s) \/ SweepDialed(s)
  \/ \E t \in Takes : TakeChecks(t) \/ TakePops(t)

Next ==
  \/ TaskSteps
  \/ \E i \in Refills : RefillFails(i)
  \/ \E t \in Takes, w \in Wires : TakeStarts(t, w)
  \/ \E s \in Sweeps : SweepDrains(s)
  \/ \E w \in Wires : Rotate(w)
  \/ clear_standby \/ ProbeRefills
  \/ \E k \in 1 .. Len(pool.entries) : Die(k)

Spec == Init /\ [][Next]_vars

\* Spawned tasks, flows and loops that started run to their end
FairSpec == Spec /\ WF_vars(TaskSteps)

-----------------------------------------------------------------------------
\* A carrier handed to a flow was dialled on the wire the flow wants, wherever the
\* active wire moved between the resolution of the context, the check of the pool
\* and the pop (try_take_alive, pop_front_for_wire).
HandedOnWanted == \A t \in Takes : take[t].pc = "hit" => take[t].got = take[t].wanted

\* The pool never mixes wires: what it holds was dialled on the wire it is marked
\* with, through dials and sweeps that started before a rotation (claim_wire,
\* push_for_wire, restore).
PoolUniform == \A k \in DOMAIN pool.entries : pool.entries[k].wire = pool.wire

Short == Len(pool.entries) < Desired

\* A slot emptied by a flow is refilled without waiting for a maintenance sweep:
\* the gate never swallows the request of a take that popped after the running
\* refill read the length (RefillGate).
SlotsRefilled == Short ~> ~Short

=============================================================================
