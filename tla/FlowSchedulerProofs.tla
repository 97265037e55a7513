------------------------ MODULE FlowSchedulerProofs ------------------------
(***************************************************************************)
(* Proofs that the maintenance task never sleeps past a flow's deadline,   *)
(* for any number of flows, objects, heap entries and instants.            *)
(***************************************************************************)
EXTENDS FlowScheduler, TLAPS

\* Where the task holds a flow object, and where it holds drained entries.
TaskOK == /\ cur # None <=> pc \in {"plan", "writing"}
          /\ pc \in {"drain", "sleep"} => due = {}

\* The table is keyed by its objects' own five-tuples and holds no closed one;
\* a flow that is being opened is in it, or closed.
TableOK == /\ \A k \in Keys : table[k] # None => KeyOf[table[k]] = k /\ table[k] \notin closed
           /\ \A o \in opening : Live(o) \/ o \in closed

IInv == TypeOK /\ TaskOK /\ TableOK /\ Covered /\ SleepIsSound

---------------------------------------------------------------------------
\* The initial state has no flow, no entry and a task about to drain.
LEMMA InitIInv == Init => IInv
  BY FlowAssumption, Zenon DEF Init, IInv, TypeOK, TaskOK, TableOK, Covered, SleepIsSound, Live

\* A push adds one entry, for the given key and instant, and leaves a permit.
LEMMA ScheduleAdds ==
  ASSUME NEW k \in Keys, NEW d \in Instants, NEW r \in BOOLEAN, TypeOK, schedule(k, d, r)
  PROVE  /\ heap' \subseteq Entries /\ heap \subseteq heap' /\ permit' = TRUE
         /\ \E e \in heap' : e.key = k /\ e.at = d
  <1>1. PICK i \in Ids : heap' = heap \cup {[key |-> k, at |-> d, id |-> i, rearmed |-> r]}
    BY DEF schedule
  <1>2. [key |-> k, at |-> d, id |-> i, rearmed |-> r] \in Entries
    BY DEF Entries
  <1> QED
    BY <1>1, <1>2 DEF schedule, TypeOK

\* A commit sets the deadline and keeps every entry; it leaves the flow
\* covered if it was covered before, and a commit that pushes nothing only
\* moves the deadline later.
LEMMA RescheduleCovers ==
  ASSUME NEW o \in Objects, NEW d \in Instants, TypeOK, reschedule_flow(o, d)
  PROVE  /\ next' = [next EXCEPT ![o] = d]
         /\ heap' \subseteq Entries /\ heap \subseteq heap' /\ permit' \in BOOLEAN
         /\ \/ permit' = TRUE /\ \E e \in heap' : e.key = KeyOf[o] /\ e.at = d
            \/ heap' = heap /\ permit' = permit /\ next[o] # None /\ next[o] <= d
  <1>1. KeyOf[o] \in Keys /\ next[o] \in Instants \cup {None} /\ Instants \subseteq Nat
    BY FlowAssumption DEF TypeOK
  <1>2. CASE Pushes(o, d)
    <2>1. schedule(KeyOf[o], d, FALSE)
      BY <1>2, Zenon DEF reschedule_flow
    <2> QED
      BY <1>1, <2>1, ScheduleAdds, Zenon DEF reschedule_flow
  <1>3. CASE ~ Pushes(o, d)
    <2>1. next' = [next EXCEPT ![o] = d] /\ heap' = heap /\ permit' = permit
      BY <1>3 DEF reschedule_flow
    <2>2. next[o] # None /\ next[o] \in Nat /\ d \in Nat /\ ~ (d < next[o])
      BY <1>1, <1>3 DEF Pushes
    <2>3. next[o] <= d
      BY <2>2
    <2>4. heap' \subseteq Entries /\ permit' \in BOOLEAN
      BY <2>1, Zenon DEF TypeOK
    <2> QED
      BY <2>1, <2>2, <2>3, <2>4, Zenon
  <1> QED
    BY <1>2, <1>3, Zenon

\* A commit of a live flow keeps the heap covering.
LEMMA RescheduleKeepsCovered ==
  ASSUME NEW o \in Objects, NEW d \in Instants, TypeOK, Covered, reschedule_flow(o, d),
         UNCHANGED <<table, due, cur>>, opening \ {o} \subseteq opening', Live(o)
  PROVE  Covered'
  <1> SUFFICES ASSUME NEW p \in Objects, Live(p)', p # cur'
               PROVE  IF next'[p] = None THEN p \in opening'
                      ELSE \E e \in heap' \cup due' : e.key = KeyOf[p] /\ e.at <= next'[p]
    BY DEF Covered
  <1>0. Instants \subseteq Nat /\ None \notin Nat /\ next \in [Objects -> Instants \cup {None}]
    BY FlowAssumption DEF TypeOK
  <1>1. CASE p # o
    <2>1. Live(p) /\ p # cur
      BY DEF Live
    <2>2. IF next[p] = None THEN p \in opening
          ELSE \E e \in heap \cup due : e.key = KeyOf[p] /\ e.at <= next[p]
      BY <2>1 DEF Covered
    <2>3. next'[p] = next[p] /\ heap \subseteq heap'
      BY <1>0, <1>1, RescheduleCovers, Zenon
    <2> QED
      BY <1>1, <2>2, <2>3
  <1>2. CASE p = o
    <2>0. next' = [next EXCEPT ![o] = d]
      BY RescheduleCovers, Zenon
    <2>1. next'[o] = d /\ d \in Nat /\ d # None
      BY <1>0, <2>0
    <2>2. CASE \E e \in heap' : e.key = KeyOf[o] /\ e.at = d
      BY <1>2, <2>1, <2>2
    <2>3. CASE heap' = heap /\ next[o] # None /\ next[o] <= d
      <3>1. PICK e \in heap \cup due : e.key = KeyOf[o] /\ e.at <= next[o]
        BY <1>2, <2>3 DEF Covered
      <3>2. e.at \in Nat /\ next[o] \in Nat
        BY <1>0, <2>3, <3>1, Zenon DEF TypeOK, Entries
      <3> QED
        BY <1>2, <2>1, <2>3, <3>1, <3>2
    <2> QED
      BY <2>2, <2>3, RescheduleCovers, Zenon
  <1> QED
    BY <1>1, <1>2

\* A commit while the task sleeps either wakes it or moves a deadline later.
LEMMA RescheduleKeepsSleep ==
  ASSUME NEW o \in Objects, NEW d \in Instants, TypeOK, SleepIsSound, reschedule_flow(o, d),
         UNCHANGED <<table, pc, target>>, opening \ {o} \subseteq opening', Live(o)
  PROVE  SleepIsSound'
  <1> SUFFICES ASSUME pc' = "sleep", ~ permit', NEW p \in Objects, Live(p)'
               PROVE  IF next'[p] = None THEN p \in opening'
                      ELSE target' # None /\ target' <= next'[p]
    BY DEF SleepIsSound
  <1>0. /\ Instants \subseteq Nat /\ None \notin Nat
        /\ next \in [Objects -> Instants \cup {None}] /\ target \in Instants \cup {None}
    BY FlowAssumption DEF TypeOK
  <1>1. permit' = permit /\ next[o] # None /\ next[o] <= d /\ next' = [next EXCEPT ![o] = d]
    BY RescheduleCovers, Zenon
  <1>2. Live(p) /\ pc = "sleep" /\ ~ permit
    BY <1>1 DEF Live
  <1>3. IF next[p] = None THEN p \in opening ELSE target # None /\ target <= next[p]
    BY <1>2 DEF SleepIsSound
  <1>4. CASE p = o
    <2>0. target # None /\ target <= next[o]
      BY <1>1, <1>3, <1>4
    <2>1. target \in Nat /\ next[o] \in Nat /\ d \in Nat /\ d # None /\ next'[p] = d
      BY <1>0, <1>1, <2>0, <1>4, Zenon
    <2> QED
      BY <1>1, <1>4, <2>0, <2>1
  <1>5. CASE p # o
    <2>1. next'[p] = next[p]
      BY <1>0, <1>1, <1>5
    <2> QED
      BY <1>3, <1>5, <2>1
  <1> QED
    BY <1>4, <1>5

---------------------------------------------------------------------------
\* Steps of the flows: the read loop, the reader, the pump and removals.

LEMMA OpenStep == ASSUME IInv, NEW o \in Objects, Open(o) PROVE IInv'
  <1>1. KeyOf[o] \in Keys /\ o # None /\ table[KeyOf[o]] = None /\ next[o] = None
    BY FlowAssumption DEF Open
  <1>2. /\ table' = [table EXCEPT ![KeyOf[o]] = o] /\ opening' = opening \cup {o}
        /\ UNCHANGED <<now, closed, next, heap, permit, pc, due, cur, target>>
    BY DEF Open
  <1>3. TypeOK' /\ TaskOK'
    BY <1>1, <1>2 DEF IInv, TypeOK, TaskOK
  <1>4. \A p \in Objects : Live(p)' <=> Live(p) \/ p = o
    BY <1>1, <1>2, FlowAssumption DEF IInv, TypeOK, Live
  <1>5. TableOK'
    <2>1. \A k \in Keys : table'[k] # None => KeyOf[table'[k]] = k /\ table'[k] \notin closed
      BY <1>1, <1>2 DEF IInv, TableOK, TypeOK, Open
    <2>2. \A p \in opening' : Live(p)' \/ p \in closed
      BY <1>2, <1>4 DEF IInv, TableOK, TypeOK
    <2> QED
      BY <1>2, <2>1, <2>2 DEF TableOK
  <1>6. Covered' /\ SleepIsSound'
    BY <1>1, <1>2, <1>4 DEF IInv, Covered, SleepIsSound
  <1> QED
    BY <1>3, <1>5, <1>6 DEF IInv

\* The opener commits the flow, or finds it closed.
LEMMA FirstCommitStep == ASSUME IInv, NEW o \in Objects, FirstCommit(o) PROVE IInv'
  <1>1. /\ UNCHANGED <<now, table, closed, pc, due, cur, target>>
        /\ o \in opening /\ opening' = opening \ {o}
    BY DEF FirstCommit
  <1>2. TaskOK' /\ TableOK'
    BY <1>1 DEF IInv, TaskOK, TableOK, Live
  <1>3. CASE o \in closed
    <2>1. next' = [next EXCEPT ![o] = None] /\ UNCHANGED <<heap, permit>>
      BY <1>3 DEF FirstCommit
    <2>2. TypeOK'
      BY <1>1, <2>1 DEF IInv, TypeOK
    <2>3. ~ Live(o)
      BY <1>3, FlowAssumption DEF IInv, TableOK, Live
    <2>4. \A p \in Objects : Live(p)' => Live(p) /\ p # o /\ next'[p] = next[p]
      BY <1>1, <2>1, <2>3 DEF IInv, TypeOK, Live
    <2>5. Covered' /\ SleepIsSound'
      BY <1>1, <2>1, <2>4 DEF IInv, Covered, SleepIsSound
    <2> QED
      BY <1>2, <2>2, <2>5 DEF IInv
  <1>4. CASE o \notin closed
    <2>1. PICK d \in Instants : reschedule_flow(o, d)
      BY <1>4 DEF FirstCommit
    <2>2. Live(o)
      BY <1>1, <1>4 DEF IInv, TableOK
    <2>3. TypeOK'
      BY <1>1, <2>1, RescheduleCovers, Zenon DEF IInv, TypeOK
    <2>4. Covered' /\ SleepIsSound'
      BY <1>1, <2>1, <2>2, RescheduleKeepsCovered, RescheduleKeepsSleep DEF IInv
    <2> QED
      BY <1>2, <2>3, <2>4 DEF IInv
  <1> QED
    BY <1>3, <1>4

LEMMA CommitStep == ASSUME IInv, NEW o \in Objects, Commit(o) PROVE IInv'
  <1>1. PICK d \in Instants : reschedule_flow(o, d)
    BY DEF Commit
  <1>2. UNCHANGED <<opening, now, table, closed, pc, due, cur, target>> /\ Live(o)
    BY DEF Commit
  <1>3. TypeOK'
    BY <1>1, <1>2, RescheduleCovers, Zenon DEF IInv, TypeOK
  <1>4. TaskOK' /\ TableOK'
    BY <1>2 DEF IInv, TaskOK, TableOK, Live
  <1>5. Covered' /\ SleepIsSound'
    BY <1>1, <1>2, RescheduleKeepsCovered, RescheduleKeepsSleep DEF IInv
  <1> QED
    BY <1>3, <1>4, <1>5 DEF IInv

\* Taking a key out of the table only shrinks the set of live flows.
LEMMA RemoveShrinks ==
  ASSUME IInv, NEW k \in Keys, RemoveKey(k), UNCHANGED opening
  PROVE  /\ table' \in [Keys -> Objects \cup {None}] /\ closed' \subseteq Objects /\ TableOK'
         /\ \A o \in Objects : Live(o)' => Live(o) /\ KeyOf[o] # k
  <1>1. table' = [table EXCEPT ![k] = None] /\ table \in [Keys -> Objects \cup {None}]
    BY DEF RemoveKey, IInv, TypeOK
  <1>2. closed' \subseteq Objects
    BY <1>1 DEF RemoveKey, IInv, TypeOK
  <1>3. TableOK'
    <2>1. \A j \in Keys : table'[j] # None => KeyOf[table'[j]] = j /\ table'[j] \notin closed'
      BY <1>1 DEF RemoveKey, IInv, TableOK
    <2>2. \A o \in opening : Live(o)' \/ o \in closed'
      BY <1>1, FlowAssumption DEF RemoveKey, IInv, TableOK, TypeOK, Live
    <2> QED
      BY <2>1, <2>2 DEF TableOK
  <1>4. \A o \in Objects : Live(o)' => Live(o) /\ KeyOf[o] # k
    BY <1>1, FlowAssumption DEF Live
  <1> QED
    BY <1>1, <1>2, <1>3, <1>4

LEMMA CloseStep == ASSUME IInv, NEW k \in Keys, Close(k) PROVE IInv'
  <1>1. UNCHANGED <<opening, now, next, heap, permit, pc, due, cur, target>> /\ RemoveKey(k)
    BY DEF Close
  <1>2. TypeOK' /\ TaskOK' /\ TableOK'
    BY <1>1, RemoveShrinks DEF IInv, TypeOK, TaskOK
  <1>3. Covered' /\ SleepIsSound'
    BY <1>1, RemoveShrinks DEF IInv, Covered, SleepIsSound
  <1> QED
    BY <1>2, <1>3 DEF IInv

---------------------------------------------------------------------------
\* Steps of the maintenance task.

LEMMA DrainStep == ASSUME IInv, DrainDue PROVE IInv'
  <1>1. UNCHANGED <<opening, now, table, closed, next, permit, cur, target>> /\ pc' = "flows"
    BY DEF DrainDue
  <1>2. heap' \subseteq Entries /\ due' \subseteq Entries /\ cur = None
    BY DEF DrainDue, IInv, TypeOK, TaskOK
  <1>3. heap' \cup due' = heap \cup due
    <2>1. due = {} /\ \A e \in heap : e.at \in Nat /\ now \in Nat
      BY FlowAssumption, Zenon DEF DrainDue, IInv, TypeOK, TaskOK, Entries
    <2> QED
      BY <2>1 DEF DrainDue
  <1>4. TypeOK' /\ TaskOK' /\ TableOK' /\ SleepIsSound'
    BY <1>1, <1>2 DEF IInv, TypeOK, TaskOK, TableOK, SleepIsSound, Live
  <1>5. Covered'
    BY <1>1, <1>3 DEF IInv, Covered, Live
  <1> QED
    BY <1>4, <1>5 DEF IInv

LEMMA TakeStep == ASSUME IInv, NEW e \in due, TakeEntry(e) PROVE IInv'
  <1>0. e.key \in Keys /\ e.at \in Nat /\ cur = None /\ pc = "flows"
    BY FlowAssumption, Zenon DEF TakeEntry, IInv, TypeOK, TaskOK, Entries
  <1>1. UNCHANGED <<opening, now, table, closed, next, heap, permit, target>> /\ due' = due \ {e}
    BY DEF TakeEntry
  <1>2. CASE table[e.key] # None /\ IsCurrent(e, table[e.key])
    <2>1. pc' = "plan" /\ cur' = table[e.key] /\ cur' \in Objects
      BY <1>0, <1>2 DEF TakeEntry, IInv, TypeOK
    <2>2. TypeOK' /\ TaskOK' /\ TableOK' /\ SleepIsSound'
      BY <1>1, <2>1, FlowAssumption DEF IInv, TypeOK, TaskOK, TableOK, SleepIsSound, Live
    <2>3. \A o \in Objects : Live(o)' /\ o # cur' => Live(o) /\ o # cur /\ KeyOf[o] # e.key
      BY <1>0, <1>1, <2>1, FlowAssumption DEF Live
    <2>4. Covered'
      BY <1>1, <2>3 DEF IInv, Covered
    <2> QED
      BY <2>2, <2>4 DEF IInv
  <1>3. CASE ~ (table[e.key] # None /\ IsCurrent(e, table[e.key]))
    <2>1. UNCHANGED <<pc, cur>>
      BY <1>3 DEF TakeEntry
    <2>2. TypeOK' /\ TaskOK' /\ TableOK' /\ SleepIsSound'
      BY <1>0, <1>1, <2>1 DEF IInv, TypeOK, TaskOK, TableOK, SleepIsSound, Live
    <2>3. Covered'
      <3> SUFFICES ASSUME NEW o \in Objects, Live(o)', o # cur'
                   PROVE  IF next'[o] = None THEN o \in opening'
                          ELSE \E f \in heap' \cup due' : f.key = KeyOf[o] /\ f.at <= next'[o]
        BY DEF Covered
      <3>1. Live(o) /\ o # cur /\ o # None
        BY <1>1, <2>1, FlowAssumption DEF Live
      <3>2. CASE next[o] = None
        BY <1>1, <3>1, <3>2 DEF IInv, Covered
      <3>3. CASE next[o] # None
        <4>1. PICK f \in heap \cup due : f.key = KeyOf[o] /\ f.at <= next[o]
          BY <3>1, <3>3 DEF IInv, Covered
        <4>2. f # e
          BY <1>3, <3>1, <3>3, <4>1 DEF IsCurrent, Live
        <4> QED
          BY <1>1, <3>3, <4>1, <4>2
      <3> QED
        BY <3>2, <3>3
    <2> QED
      BY <2>2, <2>3 DEF IInv
  <1> QED
    BY <1>2, <1>3

LEMMA PlanClosedStep == ASSUME IInv, PlanClosed PROVE IInv'
  <1>1. /\ UNCHANGED <<opening, now, table, closed, heap, permit, due, target>>
        /\ pc' = "flows" /\ cur' = None /\ next' = [next EXCEPT ![cur] = None]
    BY DEF PlanClosed
  <1>2. cur \in Objects /\ ~ Live(cur)
    <2>1. cur \in Objects /\ cur \in closed /\ cur # None
      BY DEF PlanClosed, IInv, TypeOK, TaskOK
    <2> QED
      BY <2>1, FlowAssumption DEF IInv, TableOK, Live
  <1>3. TypeOK' /\ TaskOK' /\ TableOK' /\ SleepIsSound'
    BY <1>1, <1>2 DEF PlanClosed, IInv, TypeOK, TaskOK, TableOK, SleepIsSound, Live
  <1>4. \A o \in Objects : Live(o)' => Live(o) /\ o # cur /\ next'[o] = next[o]
    BY <1>1, <1>2 DEF IInv, TypeOK, Live
  <1>5. Covered'
    BY <1>1, <1>4 DEF IInv, Covered
  <1> QED
    BY <1>3, <1>5 DEF IInv

LEMMA PlanWaitStep == ASSUME IInv, PlanWait PROVE IInv'
  <1>1. PICK d \in Instants : next' = [next EXCEPT ![cur] = d] /\ schedule(KeyOf[cur], d, TRUE)
    BY Zenon DEF PlanWait, Rearm
  <1>2. /\ UNCHANGED <<opening, now, table, closed, due, target>>
        /\ pc = "plan" /\ pc' = "flows" /\ cur' = None
    BY DEF PlanWait
  <1>3. cur \in Objects /\ KeyOf[cur] \in Keys /\ TypeOK
    BY <1>2, FlowAssumption DEF IInv, TypeOK, TaskOK
  <1>4. /\ heap' \subseteq Entries /\ heap \subseteq heap' /\ permit' = TRUE
        /\ \E e \in heap' : e.key = KeyOf[cur] /\ e.at = d
    BY <1>1, <1>3, ScheduleAdds, Zenon
  <1>5. TypeOK' /\ TaskOK' /\ TableOK' /\ SleepIsSound'
    BY <1>1, <1>2, <1>3, <1>4 DEF IInv, TypeOK, TaskOK, TableOK, SleepIsSound, Live
  <1>6. Covered'
    <2> SUFFICES ASSUME NEW o \in Objects, Live(o)'
                 PROVE  IF next'[o] = None THEN o \in opening'
                        ELSE \E e \in heap' \cup due' : e.key = KeyOf[o] /\ e.at <= next'[o]
      BY DEF Covered
    <2>0. d \in Nat /\ d # None /\ next \in [Objects -> Instants \cup {None}]
      BY FlowAssumption, <1>3 DEF TypeOK
    <2>1. CASE o = cur
      BY <1>1, <1>3, <1>4, <2>0, <2>1
    <2>2. CASE o # cur
      <3>1. Live(o) /\ next'[o] = next[o]
        BY <1>1, <1>2, <2>0, <2>2 DEF Live
      <3> QED
        BY <1>2, <1>4, <2>2, <3>1 DEF IInv, Covered
    <2> QED
      BY <2>1, <2>2
  <1> QED
    BY <1>5, <1>6 DEF IInv

LEMMA PlanSendStep == ASSUME IInv, PlanSend PROVE IInv'
  <1>1. PICK d \in Instants : reschedule_flow(cur, d)
    BY DEF PlanSend
  <1>2. UNCHANGED <<opening, now, table, closed, due, cur, target>> /\ pc = "plan" /\ pc' = "writing"
    BY DEF PlanSend
  <1>3. cur \in Objects /\ TypeOK
    BY <1>2 DEF IInv, TypeOK, TaskOK
  <1>4. TypeOK' /\ TaskOK' /\ TableOK' /\ SleepIsSound'
    <2>1. TypeOK'
      BY <1>1, <1>2, <1>3, RescheduleCovers, Zenon DEF TypeOK
    <2> QED
      BY <1>2, <2>1 DEF IInv, TaskOK, TableOK, SleepIsSound, Live
  <1>5. heap \subseteq heap' /\ \A o \in Objects : o # cur => next'[o] = next[o]
    BY <1>1, <1>3, RescheduleCovers, Zenon DEF TypeOK
  <1>6. Covered'
    BY <1>2, <1>5 DEF IInv, Covered, Live
  <1> QED
    BY <1>4, <1>6 DEF IInv

\* The task gives up the flow it works on and takes its key out of the table.
LEMMA GiveUpStep ==
  ASSUME IInv, pc \in {"plan", "writing"}, RemoveKey(KeyOf[cur]), pc' = "flows", cur' = None,
         UNCHANGED <<opening, now, next, heap, permit, due, target>>
  PROVE  IInv'
  <1>1. cur \in Objects /\ KeyOf[cur] \in Keys
    BY FlowAssumption DEF IInv, TypeOK, TaskOK
  <1>2. TypeOK' /\ TaskOK' /\ TableOK' /\ SleepIsSound'
    BY <1>1, RemoveShrinks DEF IInv, TypeOK, TaskOK, SleepIsSound
  <1>3. \A o \in Objects : Live(o)' => Live(o) /\ o # cur
    BY <1>1, RemoveShrinks
  <1>4. Covered'
    BY <1>3 DEF IInv, Covered
  <1> QED
    BY <1>2, <1>4 DEF IInv

LEMMA WrittenStep == ASSUME IInv, Written PROVE IInv'
  <1>1. CASE pc' = "plan" /\ UNCHANGED <<table, closed, cur>>
    BY <1>1 DEF Written, IInv, TypeOK, TaskOK, TableOK, Covered, SleepIsSound, Live
  <1>2. CASE RemoveKey(KeyOf[cur]) /\ pc' = "flows" /\ cur' = None
    BY <1>2, GiveUpStep DEF Written
  <1> QED
    BY <1>1, <1>2 DEF Written

LEMMA GoToSleepStep == ASSUME IInv, GoToSleep PROVE IInv'
  <1>0. /\ UNCHANGED <<opening, now, table, closed, next, heap, permit, due, cur>>
        /\ pc = "flows" /\ due = {} /\ cur = None
    BY DEF GoToSleep, IInv, TaskOK
  <1>1. TaskOK' /\ TableOK' /\ Covered'
    BY <1>0 DEF GoToSleep, IInv, TaskOK, TableOK, Covered, Live
  <1>2. \A o \in Objects : Live(o) =>
          IF next[o] = None THEN o \in opening
          ELSE \E e \in heap : e.key = KeyOf[o] /\ e.at <= next[o]
    BY <1>0, FlowAssumption DEF IInv, Covered
  <1>3. CASE heap = {} /\ target' = None /\ pc' = "sleep"
    BY <1>0, <1>1, <1>2, <1>3 DEF IInv, TypeOK, SleepIsSound, Live
  <1>4. ASSUME NEW e \in heap, \A f \in heap : e.at <= f.at,
               IF e.at > now THEN target' = e.at /\ pc' = "sleep"
               ELSE pc' = "drain" /\ UNCHANGED target
        PROVE  IInv'
    <2>1. TypeOK'
      BY <1>0, <1>4 DEF IInv, TypeOK, Entries
    <2>2. CASE target' = e.at /\ pc' = "sleep"
      <3>1. \A f \in heap : f.at \in Nat /\ f.at # None
        BY FlowAssumption, Zenon DEF IInv, TypeOK, Entries
      <3>2. \A o \in Objects : next[o] \in Nat \cup {None}
        BY FlowAssumption, Zenon DEF IInv, TypeOK
      <3>3. SleepIsSound'
        BY <1>0, <1>2, <1>4, <2>2, <3>1, <3>2 DEF SleepIsSound, Live
      <3> QED
        BY <1>1, <2>1, <3>3 DEF IInv
    <2>3. CASE pc' = "drain" /\ UNCHANGED target
      BY <1>1, <2>1, <2>3 DEF IInv, SleepIsSound
    <2> QED
      BY <1>4, <2>2, <2>3
  <1> QED
    BY <1>3, <1>4 DEF GoToSleep

LEMMA WakeStep == ASSUME IInv, Wake PROVE IInv'
  BY Zenon DEF Wake, IInv, TypeOK, TaskOK, TableOK, Covered, SleepIsSound, Live

LEMMA TickStep == ASSUME IInv, Tick PROVE IInv'
  BY DEF Tick, IInv, TypeOK, TaskOK, TableOK, Covered, SleepIsSound, Live

---------------------------------------------------------------------------
\* One step of any actor, or none, keeps the inductive invariant.
LEMMA NextIInv == IInv /\ [Next]_vars => IInv'
  <1> SUFFICES ASSUME IInv, [Next]_vars PROVE IInv'
    OBVIOUS
  <1>1. ASSUME NEW o \in Objects, Open(o) \/ FirstCommit(o) \/ Commit(o) PROVE IInv'
    BY <1>1, OpenStep, FirstCommitStep, CommitStep
  <1>2. ASSUME NEW k \in Keys, Close(k) PROVE IInv'
    BY <1>2, CloseStep
  <1>3. CASE DrainDue
    BY <1>3, DrainStep
  <1>4. ASSUME NEW e \in due, TakeEntry(e) PROVE IInv'
    BY <1>4, TakeStep
  <1>5. CASE PlanClosed \/ PlanWait \/ PlanSend
    BY <1>5, PlanClosedStep, PlanWaitStep, PlanSendStep
  <1>6. CASE PlanRemove
    BY <1>6, GiveUpStep DEF PlanRemove
  <1>7. CASE Written \/ GoToSleep \/ Wake \/ Tick
    BY <1>7, WrittenStep, GoToSleepStep, WakeStep, TickStep
  <1>8. CASE UNCHANGED vars
    BY <1>8 DEF vars, IInv, TypeOK, TaskOK, TableOK, Covered, SleepIsSound, Live
  <1> QED
    BY <1>1, <1>2, <1>3, <1>4, <1>5, <1>6, <1>7, <1>8 DEF Next

\* The invariant reschedule_flow states in its comment: every live flow the
\* task is not working on has an entry at or before its canonical deadline.
THEOREM CoveredHolds == Spec => []Covered
  <1>1. IInv => Covered
    BY DEF IInv
  <1> QED
    BY InitIInv, NextIInv, <1>1, PTL DEF Spec

\* What that invariant is for: the maintenance task never sleeps past the
\* deadline of a live flow.
THEOREM SleepIsSoundHolds == Spec => []SleepIsSound
  <1>1. IInv => SleepIsSound
    BY DEF IInv
  <1> QED
    BY InitIInv, NextIInv, <1>1, PTL DEF Spec

=============================================================================
