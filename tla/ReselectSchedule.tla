--------------------------- MODULE ReselectSchedule ---------------------------
(***************************************************************************)
(* The wall-clock re-selection of manager/reselect.rs and the order shared *)
(* by independent nodes of manager/sync_order.rs (`reselect_sync`).  Nodes *)
(* share a configuration and a time zone, and exchange nothing.  Each      *)
(* polls the local clock, fires a slot when it is due, and takes the first *)
(* uplink of the slot's order it may use.  A node also takes the slot's    *)
(* decision when it starts and when an operator asks for a re-selection.   *)
(***************************************************************************)
EXTENDS Integers, Sequences, FiniteSets, FiniteSetsExt

CONSTANTS Nodes, Uplinks,
          Slots,              \* reselect_at: ascending seconds of the day
          SyncOrder(_, _),    \* the permutation seeded by (day_key, slot)
          DaySecs,            \* seconds in a day (86400)
          Tick,               \* WALL_CLOCK_TICK
          Tolerance,          \* RESELECT_SLOT_TOLERANCE_SECS
          YearDays,           \* days of the year the model starts in
          MaxNow, MaxEvents

VARIABLES now,        \* seconds since the first day of the model began
          node,       \* per node: up, wake, last_fired, active uplink
          usable,     \* per node: uplinks enabled, capable, healthy, not cooling
          steady,     \* per node: since when it has polled without a gap
          fired,      \* per node: the calendar slots its loop fired, in order
          decisions,  \* every decision taken: slot, usable set, uplink
          events

vars == <<now, node, usable, steady, fired, decisions, events>>

NoSlot == [day_key |-> 0, slot |-> 0]
None == 0

\* The model starts on the day before the last of the year YearZero
YearZero == 100
day == now \div DaySecs
secs_of_day == now % DaySecs
yday == YearDays - 2 + day

\* local_day_and_secs: tm_year * 366 + tm_yday
day_key ==
  IF yday < YearDays THEN YearZero * 366 + yday
  ELSE (YearZero + 1) * 366 + yday - YearDays

SlotDue(i) ==
  secs_of_day >= Slots[i] /\ secs_of_day - Slots[i] <= Tolerance

\* The slots due now that are not the one fired last; the first of them fires
due_slot(last) ==
  {i \in DOMAIN Slots : SlotDue(i) /\ last # [day_key |-> day_key, slot |-> i]}

\* Mutant: a starting node remembers nothing
NothingFired == NoSlot

\* A start inside a slot's window must not fire the slot again
initial_last_fired ==
  IF due_slot(NoSlot) = {} THEN NoSlot
  ELSE [day_key |-> day_key, slot |-> Min(due_slot(NoSlot))]

Passed == {i \in DOMAIN Slots : Slots[i] <= secs_of_day}

\* The slot in force: the last one passed, or the last one of the day before
current_slot_key ==
  IF Passed # {} THEN [day_key |-> day_key, slot |-> Max(Passed)]
  ELSE [day_key |-> day_key - 1, slot |-> Len(Slots)]

previous_slot_key(key) ==
  IF key.slot > 1 THEN [key EXCEPT !.slot = @ - 1]
  ELSE [day_key |-> key.day_key - 1, slot |-> Len(Slots)]

sync_order(key) == SyncOrder(key.day_key, key.slot)

first_eligible(order, S, exclude) ==
  LET fit == {i \in DOMAIN order : order[i] \in S /\ order[i] # exclude}
  IN  IF fit = {} THEN None ELSE order[Min(fit)]

\* sync_pick: the previous slot's winner is passed over unless it is alone
sync_pick(key, S) ==
  LET excluded == sync_order(previous_slot_key(key))[1]
      other    == first_eligible(sync_order(key), S, excluded)
  IN  IF other # None THEN other ELSE first_eligible(sync_order(key), S, None)

\* The slot in force by the calendar, counted from the first day of the model
CalendarSlot ==
  day * Len(Slots) + (IF Passed = {} THEN 0 ELSE Max(Passed))

\* reselect_active_uplink under reselect_sync: nothing happens when no uplink
\* may be used, or when the node is on the slot's uplink already
Decide(n, record) ==
  LET target == sync_pick(current_slot_key, usable[n])
  IN  /\ node' = [node EXCEPT ![n] =
                    IF target = None THEN record ELSE [record EXCEPT !.active = target]]
      /\ decisions' = decisions \cup
           {[slot |-> CalendarSlot, usable |-> usable[n], uplink |-> target]}

\* One turn of the wall-clock loop of spawn_reselect_timer_loops
Poll(n) ==
  LET slots == due_slot(node[n].last)
      slept == [node[n] EXCEPT !.wake = now + Tick]
  IN  /\ node[n].up /\ node[n].wake <= now
      /\ IF slots = {}
         THEN node' = [node EXCEPT ![n] = slept] /\ UNCHANGED <<fired, decisions>>
         ELSE LET key == [day_key |-> day_key, slot |-> Min(slots)]
              IN  /\ Decide(n, [slept EXCEPT !.last = key])
                  /\ fired' = [fired EXCEPT ![n] =
                       Append(@, day * Len(Slots) + Min(slots))]
      /\ UNCHANGED <<now, usable, steady, events>>

\* Time passes while no running node has a turn to take
Advance ==
  /\ now < MaxNow
  /\ \A n \in Nodes : node[n].up => node[n].wake > now
  /\ now' = now + 1
  /\ UNCHANGED <<node, usable, steady, fired, decisions, events>>

Event == events < MaxEvents /\ events' = events + 1

Stop(n) ==
  /\ Event /\ node[n].up
  /\ node' = [node EXCEPT ![n].up = FALSE]
  /\ UNCHANGED <<now, usable, steady, fired, decisions>>

\* initialize_strict_active_selection: the slot decides, not the state file
Start(n) ==
  /\ ~node[n].up
  /\ Decide(n, [up |-> TRUE, wake |-> now + Tick,
                last |-> initial_last_fired, active |-> None])
  /\ steady' = [steady EXCEPT ![n] = now]
  /\ UNCHANGED <<now, usable, fired, events>>

\* The host is suspended: the sleep returns late
Suspend(n) ==
  /\ Event /\ node[n].up
  /\ node' = [node EXCEPT ![n].wake = @ + Tolerance]
  /\ steady' = [steady EXCEPT ![n] = node[n].wake + Tolerance]
  /\ UNCHANGED <<now, usable, fired, decisions>>

\* POST /control/reselect
Reselect(n) ==
  /\ Event /\ node[n].up
  /\ Decide(n, node[n])
  /\ UNCHANGED <<now, usable, steady, fired>>

\* Health, cooldown and the administrative switch are local to a node
HealthMoves(n, u) ==
  /\ Event
  /\ usable' = [usable EXCEPT ![n] = IF u \in @ THEN @ \ {u} ELSE @ \cup {u}]
  /\ UNCHANGED <<now, node, steady, fired, decisions>>

Init ==
  /\ now = 0 /\ events = 0 /\ decisions = {}
  /\ node = [n \in Nodes |-> [up |-> TRUE, wake |-> 0, last |-> NoSlot, active |-> None]]
  /\ usable = [n \in Nodes |-> Uplinks]
  /\ steady = [n \in Nodes |-> 0]
  /\ fired = [n \in Nodes |-> <<>>]

Next ==
  \/ Advance
  \/ \E n \in Nodes : Poll(n) \/ Stop(n) \/ Start(n) \/ Suspend(n) \/ Reselect(n)
  \/ \E n \in Nodes, u \in Uplinks : HealthMoves(n, u)

Spec == Init /\ [][Next]_vars

-----------------------------------------------------------------------------
\* Two decisions of one slot over the same usable uplinks are the same, whichever
\* nodes take them and whether the loop, a start or an operator asked for them
\* (sync_pick; README: independent nodes choose the same uplink).
SlotAgreement ==
  \A d, e \in decisions : d.slot = e.slot /\ d.usable = e.usable => d.uplink = e.uplink

\* The window of the slot overlaps the one of another slot of the day
Crowded(i) ==
  \E j \in DOMAIN Slots \ {i} :
    Slots[i] - Slots[j] \in (-Tolerance)..Tolerance

\* A calendar slot fires at most once on a node, through restarts and late
\* wake-ups inside its window (last_fired, initial_last_fired).  Only the slot
\* fired last is remembered, so a slot whose window overlaps another one's may
\* fire again after that one has; it alone may.
SlotFiresOnce ==
  \A n \in Nodes : \A i, j \in DOMAIN fired[n] :
    fired[n][i] = fired[n][j] => i = j \/ Crowded(((fired[n][i] - 1) % Len(Slots)) + 1)

\* A node that polls without a gap from before a slot until a tick after it has
\* fired the slot (the tolerance is wider than the tick).
SlotNotMissed ==
  \A n \in Nodes, i \in DOMAIN Slots :
    /\ node[n].up
    /\ steady[n] < day * DaySecs + Slots[i]
    /\ Slots[i] + Tick < secs_of_day
    => \E k \in DOMAIN fired[n] : fired[n][k] = day * Len(Slots) + i
=============================================================================
