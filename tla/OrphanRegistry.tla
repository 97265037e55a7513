--------------------------- MODULE OrphanRegistry ---------------------------
(***************************************************************************)
(* The server's registry of parked sessions                                *)
(* (outline-ss-rust/src/server/resumption/registry.rs).                    *)
(*                                                                         *)
(* A session whose carrier ends reserves its Session ID, harvests its      *)
(* upstream reader (an await) and parks the upstream under the ID.  A      *)
(* client that redials presents the ID and takes the parked upstream; the  *)
(* home of a mesh relay, whose redial comes from another node, may put     *)
(* what it took back under the same ID.  A periodic task sweeps expired    *)
(* entries.  by_id, reservations and per_user                              *)
(* are three separate concurrent maps, so every map operation is a step of *)
(* its own here; only what the code does under one lock is one step.       *)
(*                                                                         *)
(* A session parks under an ID minted for it alone, so an ID also names    *)
(* the session, its teardown task and its Notify channel.  An entry's      *)
(* payload is its ID; Owner gives the user who authenticated the session.  *)
(***************************************************************************)
EXTENDS Integers, FiniteSets, Sequences, Functions

CONSTANTS Ids,         \* Session IDs the server has minted
          Users,       \* authenticated users
          Owner,       \* the user that owns each session
          Takers,      \* redialling connections calling take_for_resume
          Claims,      \* the (ID, user) pairs a redial may present
          PerUserCap,  \* orphan_per_user_cap
          GlobalCap,   \* orphan_global_cap
          Ttl,         \* ttl_for_kind: clock ticks for the kind of each session
          MaxClock,    \* bound: the clock stops here
          None         \* no ID

ASSUME RegistryAssumption ==
  /\ Owner \in [Ids -> Users]
  /\ Claims \subseteq Ids \X Users
  /\ PerUserCap \in Nat \ {0} /\ GlobalCap \in Nat \ {0}
  /\ Ttl \in [Ids -> Nat \ {0}] /\ MaxClock \in Nat
  /\ None \notin Ids /\ None \notin Users

VARIABLES
  by_id,         \* IDs with a committed entry
  reservations,  \* IDs with a park in flight
  per_user,      \* user -> IDs, oldest first
  deadline,      \* ID -> expiry time of its entry
  clock,         \* Instant::now()
  park,          \* ID -> where its teardown task is
  victim,        \* ID -> entry its park evicts for the global cap
  take,          \* taker -> where its take_for_resume call is
  sweep,         \* the maintenance task
  gone           \* history: IDs taken, evicted, expired or abandoned, and not
                 \* put back since

vars == <<by_id, reservations, per_user, deadline, clock, park, victim, take,
          sweep, gone>>

ParkPc == {"live", "harvest", "indexed", "evict", "detach", "insert",
           "release", "notify", "done"}
TakePc == {"idle", "fast", "lookup", "arm", "recheck", "wait", "final",
           "expired", "mismatch", "hit", "done"}
Outcome == {"none", "Hit", "Unknown", "Expired", "OwnerMismatch", "Returned"}

Idle == [pc |-> "idle", id |-> None, user |-> None, woken |-> FALSE,
         timed_out |-> FALSE, awaited |-> FALSE, outcome |-> "none"]

Init ==
  /\ by_id = {} /\ reservations = {}
  /\ per_user = [u \in Users |-> <<>>]
  /\ deadline = [i \in Ids |-> 0]
  /\ clock = 0
  /\ park = [i \in Ids |-> "live"]
  /\ victim = [i \in Ids |-> None]
  /\ take = [t \in Takers |-> Idle]
  /\ sweep = [todo |-> {}, removed |-> None]
  /\ gone = {}

-----------------------------------------------------------------------------
(* Vec::retain of the other IDs.  A list holds an ID once at most, so that
   what follows it moves up by one place. *)
Without(list, i) ==
  LET at == CHOOSE k \in DOMAIN list : list[k] = i
  IN IF i \notin Range(list) THEN list
     ELSE [k \in 1..(Len(list) - 1) |-> list[IF k < at THEN k ELSE k + 1]]

(* detach_from_per_user: unlist the ID in its owner's list.                *)
detach_from_per_user(i) ==
  [per_user EXCEPT ![Owner[i]] = Without(@, i)]

(* find_oldest_globally: an entry with the earliest deadline.              *)
find_oldest_globally ==
  {i \in by_id : \A j \in by_id : deadline[i] <= deadline[j]}

Expired(i) == deadline[i] <= clock

-----------------------------------------------------------------------------
(* Teardown of session i: reserve_park, harvest, park, guard drop.         *)

(* try_park_on_drop reserves before its first await. *)
ReservePark(i) ==
  /\ park[i] = "live"
  /\ park' = [park EXCEPT ![i] = "harvest"]
  /\ reservations' = reservations \cup {i}
  /\ UNCHANGED <<by_id, per_user, deadline, clock, victim, take, sweep, gone>>

(* The harvested reader is not parkable (upstream at EOF, relay error). *)
AbandonPark(i) ==
  /\ park[i] = "harvest"
  /\ park' = [park EXCEPT ![i] = "release"]
  /\ gone' = gone \cup {i}
  /\ UNCHANGED <<by_id, reservations, per_user, deadline, clock, victim, take,
                 sweep>>

(* The per-user section of park, under the lock of the owner's list: evict the
   oldest listed ID when the list is full, then list the new one. *)
ListEntry(i) ==
  LET u == Owner[i]
      full == Len(per_user[u]) >= PerUserCap
      oldest == Head(per_user[u])
  IN /\ park' = [park EXCEPT ![i] = "indexed"]
     /\ deadline' = [deadline EXCEPT ![i] = clock + Ttl[i]]
     /\ per_user' = [per_user EXCEPT
                       ![u] = Append(IF full THEN Tail(@) ELSE @, i)]
     /\ by_id' = IF full THEN by_id \ {oldest} ELSE by_id
     /\ gone' = IF full THEN gone \cup ({oldest} \cap by_id) ELSE gone
     /\ UNCHANGED <<reservations, clock, victim, sweep>>

ParkIndex(i) ==
  /\ park[i] = "harvest"
  /\ ListEntry(i)
  /\ UNCHANGED take

(* The global cap is checked, and a victim found, before it is removed. *)
ParkChooseVictim(i) ==
  /\ park[i] = "indexed"
  /\ \/ /\ Cardinality(by_id) >= GlobalCap
        /\ \E v \in find_oldest_globally :
             victim' = [victim EXCEPT ![i] = v]
        /\ park' = [park EXCEPT ![i] = "evict"]
     \/ /\ Cardinality(by_id) < GlobalCap
        /\ park' = [park EXCEPT ![i] = "insert"]
        /\ UNCHANGED victim
  /\ UNCHANGED <<by_id, reservations, per_user, deadline, clock, take, sweep,
                 gone>>

ParkEvict(i) ==
  /\ park[i] = "evict"
  /\ by_id' = by_id \ {victim[i]}
  /\ gone' = gone \cup ({victim[i]} \cap by_id)
  /\ park' = [park EXCEPT ![i] =
                IF victim[i] \in by_id THEN "detach" ELSE "insert"]
  /\ UNCHANGED <<reservations, per_user, deadline, clock, victim, take, sweep>>

ParkDetach(i) ==
  /\ park[i] = "detach"
  /\ per_user' = detach_from_per_user(victim[i])
  /\ park' = [park EXCEPT ![i] = "insert"]
  /\ UNCHANGED <<by_id, reservations, deadline, clock, victim, take, sweep,
                 gone>>

(* A re-park took no reservation and has none to release. *)
ParkInsert(i) ==
  /\ park[i] = "insert"
  /\ by_id' = by_id \cup {i}
  /\ gone' = gone \ {i}
  /\ park' = [park EXCEPT ![i] = IF i \in reservations THEN "release" ELSE "done"]
  /\ UNCHANGED <<reservations, per_user, deadline, clock, victim, take, sweep>>

(* ParkReservation::drop: clear the reservation, then wake the waiters. *)
ParkRelease(i) ==
  /\ park[i] = "release"
  /\ reservations' = reservations \ {i}
  /\ park' = [park EXCEPT ![i] = "notify"]
  /\ UNCHANGED <<by_id, per_user, deadline, clock, victim, take, sweep, gone>>

(* notify_waiters reaches the futures created so far and leaves no permit. *)
ParkNotify(i) ==
  /\ park[i] = "notify"
  /\ take' = [t \in Takers |->
                IF take[t].id = i /\ take[t].pc \in {"recheck", "wait"}
                THEN [take[t] EXCEPT !.woken = TRUE] ELSE take[t]]
  /\ park' = [park EXCEPT ![i] = "done"]
  /\ UNCHANGED <<by_id, reservations, per_user, deadline, clock, victim, sweep,
                 gone>>

-----------------------------------------------------------------------------
(* take_for_resume by redial t.                                            *)

Goto(t, pc) == [take EXCEPT ![t].pc = pc]

(* awaited records whether a park of the ID was in flight or had landed when
   the call was made. *)
TakeStart(t) ==
  /\ take[t].pc = "idle"
  /\ \E c \in Claims :
       take' = [take EXCEPT ![t] =
                  [Idle EXCEPT !.pc = "fast", !.id = c[1], !.user = c[2],
                     !.awaited = c[1] \in reservations \cup by_id]]
  /\ UNCHANGED <<by_id, reservations, per_user, deadline, clock, park, victim,
                 sweep, gone>>

(* try_take_committed removes the entry first and looks at it afterwards. *)
TakeRemoveReadsOnly(t) ==
  LET i == take[t].id
  IN /\ take[t].pc \in {"fast", "final"}
     /\ i \in by_id
     /\ take' = Goto(t, IF Expired(i) THEN "expired"
                        ELSE IF Owner[i] # take[t].user THEN "mismatch"
                        ELSE "hit")
     /\ UNCHANGED <<by_id, reservations, per_user, deadline, clock, park, victim,
                    sweep, gone>>

TakeRemove(t) ==
  LET i == take[t].id
  IN /\ take[t].pc \in {"fast", "final"}
     /\ i \in by_id
     /\ by_id' = by_id \ {i}
     /\ take' = Goto(t, IF Expired(i) THEN "expired"
                        ELSE IF Owner[i] # take[t].user THEN "mismatch"
                        ELSE "hit")
     /\ gone' = IF ~Expired(i) /\ Owner[i] # take[t].user THEN gone
                ELSE gone \cup {i}
     /\ UNCHANGED <<reservations, per_user, deadline, clock, park, victim,
                    sweep>>

(* Nothing committed: look for a reservation, or conclude the miss. *)
TakeAbsent(t) ==
  /\ take[t].id \notin by_id
  /\ \/ take[t].pc = "fast" /\ take' = Goto(t, "lookup")
     \/ take[t].pc = "final"
        /\ take' = [take EXCEPT ![t].pc = "done", ![t].outcome = "Unknown"]
  /\ UNCHANGED <<by_id, reservations, per_user, deadline, clock, park, victim,
                 sweep, gone>>

TakeLookupNeverWaits(t) ==
  /\ take[t].pc = "lookup"
  /\ take' = Goto(t, "final")
  /\ UNCHANGED <<by_id, reservations, per_user, deadline, clock, park, victim,
                 sweep, gone>>

TakeLookup(t) ==
  /\ take[t].pc = "lookup"
  /\ take' = Goto(t, IF take[t].id \in reservations THEN "arm" ELSE "final")
  /\ UNCHANGED <<by_id, reservations, per_user, deadline, clock, park, victim,
                 sweep, gone>>

(* The Notified future exists from here on. *)
TakeArm(t) ==
  /\ take[t].pc = "arm"
  /\ take' = Goto(t, "recheck")
  /\ UNCHANGED <<by_id, reservations, per_user, deadline, clock, park, victim,
                 sweep, gone>>

TakeRecheck(t) ==
  /\ take[t].pc = "recheck"
  /\ take' = Goto(t, IF take[t].id \in reservations THEN "wait" ELSE "final")
  /\ UNCHANGED <<by_id, reservations, per_user, deadline, clock, park, victim,
                 sweep, gone>>

TakeWoken(t) ==
  /\ take[t].pc = "wait" /\ take[t].woken
  /\ take' = Goto(t, "final")
  /\ UNCHANGED <<by_id, reservations, per_user, deadline, clock, park, victim,
                 sweep, gone>>

(* RESERVATION_WAIT runs out. *)
TakeTimeout(t) ==
  /\ take[t].pc = "wait" /\ ~take[t].woken
  /\ take' = [take EXCEPT ![t].pc = "final", ![t].timed_out = TRUE]
  /\ UNCHANGED <<by_id, reservations, per_user, deadline, clock, park, victim,
                 sweep, gone>>

TakeReinsert(t) ==
  /\ take[t].pc = "mismatch"
  /\ by_id' = by_id \cup {take[t].id}
  /\ take' = [take EXCEPT ![t].pc = "done", ![t].outcome = "OwnerMismatch"]
  /\ UNCHANGED <<reservations, per_user, deadline, clock, park, victim, sweep,
                 gone>>

TakeDetachOnHitOnly(t) ==
  /\ take[t].pc \in {"hit", "expired"}
  /\ per_user' = IF take[t].pc = "hit" THEN detach_from_per_user(take[t].id)
                                       ELSE per_user
  /\ take' = [take EXCEPT ![t].pc = "done",
                ![t].outcome = IF take[t].pc = "hit" THEN "Hit" ELSE "Expired"]
  /\ UNCHANGED <<by_id, reservations, deadline, clock, park, victim, sweep,
                 gone>>

TakeDetach(t) ==
  /\ take[t].pc \in {"hit", "expired"}
  /\ per_user' = detach_from_per_user(take[t].id)
  /\ take' = [take EXCEPT ![t].pc = "done",
                ![t].outcome = IF take[t].pc = "hit" THEN "Hit" ELSE "Expired"]
  /\ UNCHANGED <<by_id, reservations, deadline, clock, park, victim, sweep,
                 gone>>

(* The home of a mesh relay parks what its take was given under the same ID:
   the shape or the protocol does not fit, the mesh carrier is lost before
   either pump runs, or the relay ends with the upstream healthy.  No
   reservation is taken.  The guard of the session's first park has been dropped
   by then: it is dropped as park returns, and a relay has to answer its edge
   before it can end. *)
RePark(t) ==
  LET i == take[t].id
  IN /\ take[t].pc = "done" /\ take[t].outcome = "Hit"
     /\ park[i] = "done"
     /\ ListEntry(i)
     /\ take' = [take EXCEPT ![t].outcome = "Returned"]

-----------------------------------------------------------------------------
(* sweep_expired: collect the expired IDs, then remove them one by one.    *)

SweepCollect ==
  /\ sweep.todo = {} /\ sweep.removed = None
  /\ \E i \in by_id : Expired(i)
  /\ sweep' = [sweep EXCEPT !.todo = {i \in by_id : Expired(i)}]
  /\ UNCHANGED <<by_id, reservations, per_user, deadline, clock, park, victim,
                 take, gone>>

SweepRemove ==
  /\ sweep.removed = None
  /\ \E i \in sweep.todo :
       /\ sweep' = [todo |-> sweep.todo \ {i},
                    removed |-> IF i \in by_id THEN i ELSE None]
       /\ by_id' = by_id \ {i}
       /\ gone' = gone \cup ({i} \cap by_id)
  /\ UNCHANGED <<reservations, per_user, deadline, clock, park, victim, take>>

SweepDetach ==
  /\ sweep.removed # None
  /\ per_user' = detach_from_per_user(sweep.removed)
  /\ sweep' = [sweep EXCEPT !.removed = None]
  /\ UNCHANGED <<by_id, reservations, deadline, clock, park, victim, take, gone>>

Tick ==
  /\ clock < MaxClock
  /\ clock' = clock + 1
  /\ UNCHANGED <<by_id, reservations, per_user, deadline, park, victim, take,
                 sweep, gone>>

-----------------------------------------------------------------------------
(* Everything the teardown task does once it holds the reservation. *)
ParkStep(i) ==
  \/ ParkIndex(i) \/ ParkChooseVictim(i) \/ ParkEvict(i) \/ ParkDetach(i)
  \/ ParkInsert(i) \/ ParkRelease(i) \/ ParkNotify(i)

(* Everything a take does by itself; the timeout is the clock's doing. *)
TakeStep(t) ==
  \/ TakeRemove(t) \/ TakeAbsent(t) \/ TakeLookup(t) \/ TakeArm(t)
  \/ TakeRecheck(t) \/ TakeWoken(t) \/ TakeReinsert(t) \/ TakeDetach(t)

Next ==
  \/ \E i \in Ids : ReservePark(i) \/ AbandonPark(i) \/ ParkStep(i)
  \/ \E t \in Takers : TakeStart(t) \/ TakeStep(t) \/ TakeTimeout(t)
  \/ \E t \in Takers : RePark(t)
  \/ SweepCollect \/ SweepRemove \/ SweepDetach
  \/ Tick

Spec == Init /\ [][Next]_vars

(* Tasks are scheduled fairly, and a harvest (a cancel and one task join) ends;
   a wedged one is what RESERVATION_WAIT is for (registry.rs 22-27).  No fairness on TakeTimeout: a take must not need its timeout. *)
FairSpec ==
  /\ Spec
  /\ \A i \in Ids : WF_vars(AbandonPark(i) \/ ParkStep(i))
  /\ \A t \in Takers : WF_vars(TakeStep(t))

-----------------------------------------------------------------------------
TypeOK ==
  /\ by_id \subseteq Ids /\ reservations \subseteq Ids /\ gone \subseteq Ids
  /\ per_user \in [Users -> Seq(Ids)]
  /\ deadline \in [Ids -> Nat] /\ clock \in Nat
  /\ park \in [Ids -> ParkPc] /\ victim \in [Ids -> Ids \cup {None}]
  /\ take \in [Takers -> [pc : TakePc, id : Ids \cup {None},
                          user : Users \cup {None}, woken : BOOLEAN,
                          timed_out : BOOLEAN, awaited : BOOLEAN,
                          outcome : Outcome]]
  /\ sweep \in [todo : SUBSET Ids, removed : Ids \cup {None}]

(* Someone has the entry of i in hand and will unlist or reinsert it. *)
InHand(i) ==
  \/ \E t \in Takers : /\ take[t].id = i
                       /\ take[t].pc \in {"hit", "expired", "mismatch"}
  \/ \E j \in Ids : park[j] = "detach" /\ victim[j] = i
  \/ sweep.removed = i

(* No stale slot in the per-user index: a listed ID is committed, is being
   committed, or is in the hands of a task that is about to unlist it.  A slot
   that nobody will ever clear would use up the user's cap for good, because
   only park, take and sweep ever unlist (registry.rs 393-411, 509, 533). *)
NoStaleSlot ==
  \A u \in Users : \A i \in Range(per_user[u]) :
    \/ i \in by_id
    \/ park[i] \in {"indexed", "evict", "detach", "insert"}
    \/ InHand(i)

(* The promise of the caps: "`orphan_per_user_cap` (default 4) limits parked
   entries per user: parking one more evicts that user's oldest entry"
   (SESSION-RESUMPTION.md 489).  park lists an ID before it commits the entry, so
   that a park which finds the list full can evict an ID that is not in the map
   yet (registry.rs 398-410) and that is committed afterwards. *)
EntriesWithinCap ==
  \A u \in Users : Cardinality({i \in by_id : Owner[i] = u}) <= PerUserCap

(* The park-miss race is closed (registry.rs 455-471): a take that was called
   while a park of its ID was in flight or landed, and that did not run into
   RESERVATION_WAIT, concludes Unknown only if the entry is really gone: taken,
   evicted, expired, or the park abandoned ("A committed entry stays in `by_id`
   until taken, so this never misses a landed park", 467-468). *)
UnknownOnlyIfGone ==
  [][\A t \in Takers :
       /\ take'[t].outcome = "Unknown" /\ take[t].outcome # "Unknown"
       /\ take[t].awaited /\ ~take[t].timed_out
       => take[t].id \in gone]_vars

(* An entry is in the hands of one redial at most, whoever races for it and
   however often it is put back ("The take is atomic; the second one misses",
   SESSION-RESUMPTION.md 456), and never of a user that does not own it. *)
OneHitPerPark ==
  \A s, t \in Takers :
    /\ take[t].pc = "hit" \/ take[t].outcome = "Hit"
       => Owner[take[t].id] = take[t].user
    /\ /\ s # t /\ take[s].id = take[t].id
       /\ take[s].pc = "hit" \/ take[s].outcome = "Hit"
       => ~(take[t].pc = "hit" \/ take[t].outcome = "Hit")

TakeBegun(t) == take[t].pc # "idle"
TakeDone(t) == take[t].pc = "done"

(* No lost wakeup: a take that started ends without needing its timeout, since
   the guard's drop always wakes a take that waits on it. *)
TakeEnds == \A t \in Takers : TakeBegun(t) ~> TakeDone(t)

=============================================================================
