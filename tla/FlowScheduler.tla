--------------------------- MODULE FlowScheduler ---------------------------
(***************************************************************************)
(* The deadline heap of the TUN TCP engine and its one maintenance task    *)
(* (maintenance.rs, engine/scheduler.rs, engine/tasks/maintenance.rs).     *)
(*                                                                         *)
(* Every commit of a flow recomputes its canonical deadline and pushes a   *)
(* heap entry only when the deadline moved earlier.  The task drains the   *)
(* due entries, looks each flow up by its key, plans it under its lock,    *)
(* drops the lock around every packet it writes, and goes to sleep on the  *)
(* heap's minimum.  A flow object is what an Arc points to: the task may   *)
(* still hold one whose key has been given to a successor.                 *)
(*                                                                         *)
(* Deadlines are instants of an abstract clock.  Which timer a deadline    *)
(* comes from is left open: next_flow_deadline is any instant from now on. *)
(***************************************************************************)
EXTENDS Integers, FiniteSets

CONSTANTS Keys,         \* five-tuples
          Objects,      \* flow objects
          KeyOf,        \* the five-tuple an object was created for
          Ids,          \* numbers that tell equal heap entries apart
          Instants,     \* instants of the clock
          None

ASSUME FlowAssumption == /\ KeyOf \in [Objects -> Keys]
                         /\ Instants \subseteq Nat /\ Ids \subseteq Nat
                         /\ None \notin Nat /\ None \notin Objects

VARIABLES now,
          table,        \* the flow table: key -> object
          closed,       \* objects whose status is Closed
          opening,      \* objects in the table whose opener has not committed
          next,         \* next_scheduled_deadline of an object
          heap,         \* FlowScheduler::heap
          permit,       \* the Notify permit of FlowScheduler::wake
          pc,           \* where the maintenance task stands
          due,          \* entries it drained and has not looked at
          cur,          \* the flow object it works on
          target        \* the heap minimum it sleeps on

vars == <<now, table, closed, opening, next, heap, permit, pc, due, cur, target>>

---------------------------------------------------------------------------
\* rearmed: pushed by the Wait arm for an entry that was popped, not by a commit.
Entries == [key : Keys, at : Instants, id : Ids, rearmed : BOOLEAN]

Live(o) == table[KeyOf[o]] = o

Init == /\ now \in Instants
        /\ table = [k \in Keys |-> None] /\ closed = {} /\ opening = {}
        /\ next = [o \in Objects |-> None]
        /\ heap = {} /\ permit = FALSE
        /\ pc = "drain" /\ due = {} /\ cur = None /\ target = None

\* FlowScheduler::schedule: one more entry, and a wake-up.
schedule(k, d, rearmed) ==
  /\ \E i \in Ids : /\ \A e \in heap \cup due : e.id # i
                    /\ \A j \in Ids : j < i => \E e \in heap \cup due : e.id = j
                    /\ heap' = heap \cup {[key |-> k, at |-> d, id |-> i, rearmed |-> rearmed]}
  /\ permit' = TRUE

\* Whether reschedule_flow pushes: there was no deadline, or it moved earlier.
Pushes(o, d) == next[o] = None \/ d < next[o]

\* commit_flow_changes -> reschedule_flow, under the flow's lock.
reschedule_flow(o, d) ==
  /\ next' = [next EXCEPT ![o] = d]
  /\ IF Pushes(o, d) THEN schedule(KeyOf[o], d, FALSE) ELSE UNCHANGED <<heap, permit>>

\* insert_flow: a new flow enters the table, with no deadline yet.
Open(o) ==
  /\ table[KeyOf[o]] = None /\ o \notin closed \cup opening /\ next[o] = None /\ o # cur
  /\ table' = [table EXCEPT ![KeyOf[o]] = o]
  /\ opening' = opening \cup {o}
  /\ UNCHANGED <<now, closed, next, heap, permit, pc, due, cur, target>>

\* Its opener takes the lock and commits the first deadline, unless the flow
\* has been closed meanwhile.
FirstCommit(o) ==
  /\ o \in opening
  /\ opening' = opening \ {o}
  /\ \/ /\ o \in closed
        /\ next' = [next EXCEPT ![o] = None]
        /\ UNCHANGED <<heap, permit>>
     \/ /\ o \notin closed
        /\ \E d \in Instants : now <= d /\ reschedule_flow(o, d)
  /\ UNCHANGED <<now, table, closed, pc, due, cur, target>>

\* The read loop, the reader or the pump changes a flow and commits it.
Commit(o) ==
  /\ Live(o) /\ o \notin closed
  /\ \E d \in Instants : now <= d /\ reschedule_flow(o, d)
  /\ UNCHANGED <<opening, now, table, closed, pc, due, cur, target>>

\* abort_flow_with_rst and close_flow go by the key: whatever object is there
\* is closed and leaves the table; its heap entries stay behind.
RemoveKey(k) ==
  /\ table' = [table EXCEPT ![k] = None]
  /\ closed' = IF table[k] = None THEN closed ELSE closed \cup {table[k]}

Close(k) ==
  /\ table[k] # None
  /\ RemoveKey(k)
  /\ UNCHANGED <<opening, now, next, heap, permit, pc, due, cur, target>>

\* The filter of the maintenance loop.
IsCurrent(e, o) == next[o] # None /\ e.at <= next[o]

---------------------------------------------------------------------------
\* spawn_maintenance_loop

DrainDue ==
  /\ pc = "drain"
  /\ due' = {e \in heap : e.at <= now}
  /\ heap' = {e \in heap : e.at > now}
  /\ pc' = "flows"
  /\ UNCHANGED <<opening, now, table, closed, next, permit, cur, target>>

\* One drained entry: no flow under its key, a stale entry, or a flow to plan.
TakeEntry(e) ==
  /\ pc = "flows" /\ e \in due
  /\ due' = due \ {e}
  /\ IF table[e.key] # None /\ IsCurrent(e, table[e.key])
     THEN pc' = "plan" /\ cur' = table[e.key]
     ELSE UNCHANGED <<pc, cur>>
  /\ UNCHANGED <<opening, now, table, closed, next, heap, permit, target>>

\* The flow was closed while its lock was free.
PlanClosed ==
  /\ pc = "plan" /\ cur \in closed
  /\ next' = [next EXCEPT ![cur] = None]
  /\ pc' = "flows" /\ cur' = None
  /\ UNCHANGED <<opening, now, table, closed, heap, permit, due, target>>

\* Mutant: a deadline that did not change is not pushed again.
RearmIfEarlier(d) == reschedule_flow(cur, d)

\* The Wait arm: the deadline is set and always pushed.
Rearm(d) == next' = [next EXCEPT ![cur] = d] /\ schedule(KeyOf[cur], d, TRUE)

PlanWait ==
  /\ pc = "plan" /\ cur \notin closed
  /\ \E d \in Instants : now <= d /\ Rearm(d)
  /\ pc' = "flows" /\ cur' = None
  /\ UNCHANGED <<opening, now, table, closed, due, target>>

\* A timer is due: its packet is built, the flow committed, the lock dropped
\* for the write.
PlanSend ==
  /\ pc = "plan" /\ cur \notin closed
  /\ \E d \in Instants : now <= d /\ reschedule_flow(cur, d)
  /\ pc' = "writing"
  /\ UNCHANGED <<opening, now, table, closed, due, cur, target>>

\* Idle, handshake, half-close, TIME_WAIT, budget or keepalive expiry.
PlanRemove ==
  /\ pc = "plan" /\ cur \notin closed
  /\ RemoveKey(KeyOf[cur])
  /\ pc' = "flows" /\ cur' = None
  /\ UNCHANGED <<opening, now, next, heap, permit, due, target>>

Written ==
  /\ pc = "writing"
  /\ \/ pc' = "plan" /\ UNCHANGED <<table, closed, cur>>
     \/ RemoveKey(KeyOf[cur]) /\ pc' = "flows" /\ cur' = None
  /\ UNCHANGED <<opening, now, next, heap, permit, due, target>>

\* peek_deadline: sleep until the heap minimum, or spin when it is past.
GoToSleep ==
  /\ pc = "flows" /\ due = {}
  /\ \/ heap = {} /\ target' = None /\ pc' = "sleep"
     \/ \E e \in heap : /\ \A f \in heap : e.at <= f.at
                        /\ IF e.at > now THEN target' = e.at /\ pc' = "sleep"
                           ELSE pc' = "drain" /\ UNCHANGED target
  /\ UNCHANGED <<opening, now, table, closed, next, heap, permit, due, cur>>

Wake ==
  /\ pc = "sleep"
  /\ \/ permit /\ permit' = FALSE
     \/ target # None /\ target <= now /\ UNCHANGED permit
  /\ pc' = "drain"
  /\ UNCHANGED <<opening, now, table, closed, next, heap, due, cur, target>>

Tick ==
  /\ \E t \in Instants : now < t /\ now' = t
  /\ UNCHANGED <<opening, table, closed, next, heap, permit, pc, due, cur, target>>

Next == \/ \E o \in Objects : Open(o) \/ FirstCommit(o) \/ Commit(o)
        \/ \E k \in Keys : Close(k)
        \/ DrainDue \/ (\E e \in due : TakeEntry(e))
        \/ PlanClosed \/ PlanWait \/ PlanSend \/ PlanRemove \/ Written
        \/ GoToSleep \/ Wake \/ Tick

Spec == Init /\ [][Next]_vars

---------------------------------------------------------------------------
TypeOK ==
  /\ now \in Instants
  /\ table \in [Keys -> Objects \cup {None}]
  /\ closed \subseteq Objects /\ opening \subseteq Objects
  /\ next \in [Objects -> Instants \cup {None}]
  /\ heap \subseteq Entries /\ due \subseteq Entries
  /\ permit \in BOOLEAN
  /\ pc \in {"drain", "flows", "plan", "writing", "sleep"}
  /\ cur \in Objects \cup {None}
  /\ target \in Instants \cup {None}

\* "every live flow whose canonical deadline is Some(d) has a heap entry at
\* or before d" (reschedule_flow): every flow of the table that the task is
\* not working on has a deadline, once its opener has committed it, and an
\* entry, in the heap or just drained, that comes no later, although most
\* commits push nothing.
Covered ==
  \A o \in Objects :
    Live(o) /\ o # cur =>
      IF next[o] = None THEN o \in opening
      ELSE \E e \in heap \cup due : e.key = KeyOf[o] /\ e.at <= next[o]

\* "the loop's sleep target (the heap minimum) is still valid": while the
\* task sleeps with no wake-up pending, its target comes no later than any
\* live flow's deadline, so no retransmission, probe or timeout is late; a flow
\* has one from its opener's commit on.
SleepIsSound ==
  pc = "sleep" /\ ~ permit =>
    \A o \in Objects : Live(o) =>
      IF next[o] = None THEN o \in opening
      ELSE target # None /\ target <= next[o]

=============================================================================
