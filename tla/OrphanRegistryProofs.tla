------------------------ MODULE OrphanRegistryProofs ------------------------
(***************************************************************************)
(* The registry of parked sessions keeps its index, its caps and its       *)
(* hand-overs for every number of sessions, users, redials and every TTL.  *)
(***************************************************************************)
EXTENDS OrphanRegistry, SequenceTheorems, TLAPS

(* Where a session's teardown is before and after it inserts its entry.    *)
Early == {"live", "harvest", "indexed", "evict", "detach", "insert"}
Landed == {"release", "notify", "done"}

(* A running take carries a claim, and a park that evicts has a victim.    *)
ClaimsOK ==
  /\ \A t \in Takers : take[t].pc # "idle" => <<take[t].id, take[t].user>> \in Claims
  /\ \A i \in Ids : park[i] \in {"evict", "detach"} => victim[i] \in Ids

(* Before its insert an ID is not committed and nobody has it in hand.     *)
NotYetParked ==
  \A i \in Ids : park[i] \in Early => i \notin by_id /\ ~InHand(i)

(* An ID occupies one slot at most, in its owner's list, and no list outgrows
   orphan_per_user_cap. *)
SlotsWithinCap ==
  \A u \in Users :
    /\ Len(per_user[u]) <= PerUserCap
    /\ IsInjective(per_user[u])
    /\ \A i \in Range(per_user[u]) : Owner[i] = u

SlotInv == TypeOK /\ ClaimsOK /\ NotYetParked /\ SlotsWithinCap /\ NoStaleSlot

(* The take that removed an entry has it until it unlists it as expired, puts
   it back, or the relay it was taken for parks it again. *)
Holds(t) == take[t].pc \in {"mismatch", "hit", "expired"} \/ take[t].outcome = "Hit"

(* A park or the sweep has removed the entry and is about to unlist it.    *)
Removed(i) ==
  \/ \E j \in Ids : park[j] = "detach" /\ victim[j] = i
  \/ sweep.removed = i

HoldersAlone ==
  \A t \in Takers : Holds(t) =>
    /\ take[t].pc # "idle"
    /\ take[t].id \notin by_id
    /\ park[take[t].id] \in Landed
    /\ \A s \in Takers : s # t /\ Holds(s) => take[s].id # take[t].id

(* What is in the map, or with a take, is with nobody else.  A re-park lists
   an ID a second time: that it has no slot yet rests on this. *)
RemovedApart ==
  /\ \A i \in by_id : ~Removed(i)
  /\ \A t \in Takers : Holds(t) => ~Removed(take[t].id)

OwnersMatch ==
  \A t \in Takers :
    /\ take[t].pc = "hit" \/ take[t].outcome = "Hit"
         => Owner[take[t].id] = take[t].user
    /\ take[t].pc = "mismatch" => Owner[take[t].id] # take[t].user

HoldInv == HoldersAlone /\ RemovedApart /\ OwnersMatch

(* A parked entry is committed, gone, or out of the map for the comparison of
   its owner. *)
Accounted(i) ==
  \/ i \in by_id \/ i \in gone
  \/ \E s \in Takers : take[s].id = i /\ take[s].pc = "mismatch"

AwaitInv ==
  /\ \A i \in Ids : park[i] \in Landed => Accounted(i)
  /\ \A t \in Takers : take[t].pc # "idle" =>
       /\ take[t].awaited => take[t].id \in reservations \/ Accounted(take[t].id)
       /\ take[t].woken => Accounted(take[t].id)
       /\ take[t].pc = "final" /\ take[t].awaited /\ ~take[t].timed_out
            => Accounted(take[t].id)

IInv == SlotInv /\ HoldInv /\ AwaitInv

(* Every step but a re-park, which alone takes a teardown back. *)
Step ==
  \/ \E i \in Ids : ReservePark(i) \/ AbandonPark(i) \/ ParkStep(i)
  \/ \E t \in Takers : TakeStart(t) \/ TakeStep(t) \/ TakeTimeout(t)
  \/ SweepCollect \/ SweepRemove \/ SweepDetach
  \/ Tick
  \/ UNCHANGED vars

-----------------------------------------------------------------------------
(* Unlisting an ID (VecDeque::retain) keeps the others, in their order, and
   nothing else. *)
LEMMA WithoutProperties ==
  ASSUME NEW S, NEW list \in Seq(S), IsInjective(list), NEW i
  PROVE  /\ Without(list, i) \in Seq(S)
         /\ Len(Without(list, i)) <= Len(list)
         /\ IsInjective(Without(list, i))
         /\ Range(Without(list, i)) = Range(list) \ {i}
<1> DEFINE n == Len(list)
           at == CHOOSE k \in DOMAIN list : list[k] = i
           W == [k \in 1..(n - 1) |-> list[IF k < at THEN k ELSE k + 1]]
<1>1. n \in Nat /\ DOMAIN list = 1..n /\ \A k \in 1..n : list[k] \in S
  BY LenProperties, ElementOfSeq
<1>2. CASE i \notin Range(list)
  BY <1>2, <1>1 DEF Without
<1>3. CASE i \in Range(list)
  <2>1. at \in 1..n /\ list[at] = i
    BY <1>1, <1>3 DEF Range
  <2>2. Without(list, i) = W
    BY <1>3, Zenon DEF Without
  <2> HIDE DEF at
  <2>3. \A k \in 1..(n - 1) : /\ (IF k < at THEN k ELSE k + 1) \in 1..n
                              /\ (IF k < at THEN k ELSE k + 1) # at
    BY <1>1, <2>1
  <2>4. W \in [1..(n - 1) -> S] /\ n - 1 \in Nat
    BY <1>1, <2>1, <2>3
  <2>5. W \in Seq(S) /\ Len(W) = n - 1 /\ DOMAIN W = 1..(n - 1)
    BY <2>4
  <2>6. IsInjective(W)
    <3>1. \A a, b \in 1..n : list[a] = list[b] => a = b
      BY <1>1, Zenon DEF IsInjective
    <3>2. \A a, b \in 1..(n - 1) :
            (IF a < at THEN a ELSE a + 1) = (IF b < at THEN b ELSE b + 1) => a = b
      BY <1>1, <2>1
    <3>3. \A a, b \in 1..(n - 1) : W[a] = W[b] => a = b
      <4> SUFFICES ASSUME NEW a \in 1..(n - 1), NEW b \in 1..(n - 1), W[a] = W[b]
                   PROVE  a = b
        OBVIOUS
      <4> QED  BY <2>3, <3>1, <3>2
    <3> QED  BY <2>5, <3>3, Zenon DEF IsInjective
  <2>7. Range(W) = Range(list) \ {i}
    <3>1. \A x \in Range(W) : x \in Range(list) /\ x # i
      BY <1>1, <2>1, <2>3, <2>5 DEF IsInjective, Range
    <3>2. ASSUME NEW x \in Range(list), x # i
          PROVE  x \in Range(W)
      <4>1. PICK k \in 1..n : list[k] = x
        BY <1>1 DEF Range
      <4>2. CASE k < at
        <5>1. k \in 1..(n - 1) /\ W[k] = x
          BY <1>1, <2>1, <4>1, <4>2
        <5> QED  BY <5>1, <2>5, Zenon DEF Range
      <4>3. CASE k > at
        <5>1. k - 1 \in 1..(n - 1) /\ W[k - 1] = x
          BY <1>1, <2>1, <4>1, <4>3
        <5> QED  BY <5>1, <2>5, Zenon DEF Range
      <4> QED  BY <1>1, <2>1, <3>2, <4>1, <4>2, <4>3
    <3> QED  BY <3>1, <3>2
  <2> HIDE DEF W
  <2>8. Len(W) <= Len(list)
    BY <1>1, <2>5
  <2> QED  BY <2>2, <2>5, <2>6, <2>7, <2>8, Zenon
<1> QED  BY <1>2, <1>3

(* Evicting the oldest ID of a full list (pop_front).                      *)
LEMMA TailProperties ==
  ASSUME NEW S, NEW list \in Seq(S), IsInjective(list), list # <<>>
  PROVE  /\ Tail(list) \in Seq(S) /\ Len(Tail(list)) = Len(list) - 1
         /\ Head(list) \in Range(list)
         /\ IsInjective(Tail(list))
         /\ Range(Tail(list)) = Range(list) \ {Head(list)}
<1>1. Len(list) \in Nat \ {0} /\ DOMAIN list = 1..Len(list)
  BY LenProperties, EmptySeq
<1>2. /\ Tail(list) \in Seq(S) /\ Len(Tail(list)) = Len(list) - 1
      /\ DOMAIN Tail(list) = 1..(Len(list) - 1)
      /\ \A k \in 1..(Len(list) - 1) : Tail(list)[k] = list[k + 1]
      /\ Head(list) = list[1]
  BY <1>1, HeadTailProperties, LenProperties
<1>3. IsInjective(Tail(list))
  BY <1>1, <1>2 DEF IsInjective
<1>4. ASSUME NEW x \in Range(list), x # Head(list)
      PROVE  x \in Range(Tail(list))
  <2>1. PICK k \in 1..Len(list) : list[k] = x
    BY <1>1 DEF Range
  <2>2. k - 1 \in 1..(Len(list) - 1) /\ Tail(list)[k - 1] = x
    BY <1>1, <1>2, <1>4, <2>1
  <2> QED  BY <1>2, <2>2, Zenon DEF Range
<1>5. \A x \in Range(Tail(list)) : x \in Range(list) /\ x # Head(list)
  BY <1>1, <1>2 DEF Range, IsInjective
<1>6. Head(list) \in Range(list)
  BY <1>1, <1>2 DEF Range
<1>7. Range(Tail(list)) = Range(list) \ {Head(list)}
  BY <1>4, <1>5
<1> QED  BY <1>2, <1>3, <1>6, <1>7

(* Listing a new ID (push_back).                                           *)
LEMMA AppendKeeps ==
  ASSUME NEW S, NEW list \in Seq(S), IsInjective(list),
         NEW i \in S, i \notin Range(list)
  PROVE  /\ Append(list, i) \in Seq(S) /\ Len(Append(list, i)) = Len(list) + 1
         /\ IsInjective(Append(list, i))
         /\ Range(Append(list, i)) = Range(list) \cup {i}
<1> DEFINE n == Len(list)
           A == Append(list, i)
<1>1. n \in Nat /\ DOMAIN list = 1..n
  BY LenProperties
<1>2. /\ A \in Seq(S) /\ Len(A) = n + 1 /\ DOMAIN A = 1..(n + 1)
      /\ \A k \in 1..n : A[k] = list[k]
      /\ A[n + 1] = i
  BY <1>1, AppendProperties, LenProperties
<1> HIDE DEF A
<1>3. IsInjective(A)
  BY <1>1, <1>2 DEF IsInjective, Range
<1>4. Range(A) = Range(list) \cup {i}
  <2>1. \A x \in Range(A) : x \in Range(list) \cup {i}
    BY <1>1, <1>2 DEF Range
  <2>2. \A x \in Range(list) \cup {i} : x \in Range(A)
    BY <1>1, <1>2 DEF Range
  <2> QED  BY <2>1, <2>2
<1> QED  BY <1>2, <1>3, <1>4 DEF A

-----------------------------------------------------------------------------
(* What unlisting an ID does to the index, whoever does it.                *)
LEMMA DetachProperties ==
  ASSUME TypeOK, SlotsWithinCap, NEW i \in Ids,
         per_user' = detach_from_per_user(i)
  PROVE  /\ per_user' \in [Users -> Seq(Ids)]
         /\ SlotsWithinCap'
         /\ \A u \in Users : Range(per_user'[u]) \subseteq Range(per_user[u]) \ {i}
<1> DEFINE o == Owner[i]
<1>1. o \in Users /\ PerUserCap \in Nat
  BY RegistryAssumption
<1>2. \A u \in Users : per_user[u] \in Seq(Ids) /\ IsInjective(per_user[u])
  BY DEF TypeOK, SlotsWithinCap
<1>3. per_user' = [per_user EXCEPT ![o] = Without(per_user[o], i)]
  BY Zenon DEF detach_from_per_user
<1>4. /\ Without(per_user[o], i) \in Seq(Ids)
      /\ Len(Without(per_user[o], i)) <= Len(per_user[o])
      /\ IsInjective(Without(per_user[o], i))
      /\ Range(Without(per_user[o], i)) = Range(per_user[o]) \ {i}
  BY <1>1, <1>2, WithoutProperties
<1> HIDE DEF o
<1>5. per_user' \in [Users -> Seq(Ids)]
  BY <1>1, <1>3, <1>4 DEF TypeOK
<1>6. ASSUME NEW u \in Users
      PROVE  /\ Len(per_user'[u]) <= PerUserCap /\ IsInjective(per_user'[u])
             /\ Range(per_user'[u]) \subseteq Range(per_user[u]) \ {i}
  <2>1. CASE u = o
    <3>1. per_user'[u] = Without(per_user[o], i)
      BY <1>1, <1>3, <2>1 DEF TypeOK
    <3>2. Len(per_user[o]) \in Nat /\ Len(per_user[o]) <= PerUserCap
      BY <1>1, <1>2 DEF SlotsWithinCap
    <3>3. Len(Without(per_user[o], i)) \in Nat
      BY <1>4
    <3> QED  BY <1>1, <1>4, <2>1, <3>1, <3>2, <3>3
  <2>2. CASE u # o
    <3>1. per_user'[u] = per_user[u]
      BY <1>1, <1>3, <2>2 DEF TypeOK
    <3>2. i \notin Range(per_user[u])
      BY <2>2 DEF SlotsWithinCap, o
    <3> QED  BY <3>1, <3>2 DEF SlotsWithinCap
  <2> QED  BY <2>1, <2>2
<1>7. SlotsWithinCap'
  BY <1>6 DEF SlotsWithinCap
<1> QED  BY <1>5, <1>6, <1>7

(* What listing a new ID does to the index.                                *)
LEMMA IndexProperties ==
  ASSUME TypeOK, SlotsWithinCap, NEW i \in Ids, ListEntry(i),
         i \notin Range(per_user[Owner[i]])
  PROVE  /\ per_user' \in [Users -> Seq(Ids)]
         /\ SlotsWithinCap'
         /\ \A u \in Users : Range(per_user'[u]) \subseteq Range(per_user[u]) \cup {i}
         /\ \A u \in Users : Len(per_user[Owner[i]]) >= PerUserCap =>
              /\ Head(per_user[Owner[i]]) \in Ids
              /\ Head(per_user[Owner[i]]) \notin Range(per_user'[u])
<1> DEFINE o == Owner[i]
           list == per_user[o]
           full == Len(list) >= PerUserCap
           kept == IF full THEN Tail(list) ELSE list
<1>1. o \in Users /\ PerUserCap \in Nat \ {0}
  BY RegistryAssumption
<1>2. list \in Seq(Ids) /\ IsInjective(list) /\ Len(list) \in Nat /\ Len(list) <= PerUserCap
  BY <1>1 DEF TypeOK, SlotsWithinCap
<1>3. per_user' = [per_user EXCEPT ![o] = Append(kept, i)]
  BY Zenon DEF ListEntry
<1>4. full => list # <<>>
  BY <1>1, <1>2
<1>5. full => /\ Tail(list) \in Seq(Ids) /\ Len(Tail(list)) = Len(list) - 1
              /\ Head(list) \in Range(list) /\ IsInjective(Tail(list))
              /\ Range(Tail(list)) = Range(list) \ {Head(list)}
  BY <1>2, <1>4, TailProperties
<1> HIDE DEF full
<1>6. /\ kept \in Seq(Ids) /\ IsInjective(kept) /\ Range(kept) \subseteq Range(list)
      /\ full => Head(list) \notin Range(kept)
  BY <1>2, <1>5
<1>7. Len(kept) \in Nat /\ Len(kept) + 1 <= PerUserCap
  BY <1>1, <1>2, <1>5, <1>6 DEF full
<1>8. i \notin Range(kept)
  BY <1>6
<1> HIDE DEF kept
<1>9. /\ Append(kept, i) \in Seq(Ids) /\ Len(Append(kept, i)) = Len(kept) + 1
      /\ IsInjective(Append(kept, i))
      /\ Range(Append(kept, i)) = Range(kept) \cup {i}
  BY <1>6, <1>8, AppendKeeps
<1>10. per_user' \in [Users -> Seq(Ids)]
  BY <1>1, <1>3, <1>9 DEF TypeOK
<1>11. full => Head(list) \in Ids /\ Head(list) # i
  <2>1. Range(list) \subseteq Ids
    BY <1>2, RangeOfSeq
  <2> QED  BY <1>5, <2>1
<1>12. \A x \in Range(list) : Owner[x] = o
  BY <1>1 DEF SlotsWithinCap
<1>13. ASSUME NEW u \in Users
       PROVE  /\ Len(per_user'[u]) <= PerUserCap /\ IsInjective(per_user'[u])
              /\ \A x \in Range(per_user'[u]) : Owner[x] = u
              /\ Range(per_user'[u]) \subseteq Range(per_user[u]) \cup {i}
              /\ full => Head(list) \notin Range(per_user'[u])
  <2>1. CASE u = o
    <3>1. per_user'[u] = Append(kept, i)
      BY <1>1, <1>3, <2>1 DEF TypeOK
    <3>2. Len(Append(kept, i)) <= PerUserCap
      BY <1>7, <1>9
    <3>3. \A x \in Range(Append(kept, i)) : Owner[x] = u
      BY <1>6, <1>9, <1>12, <2>1
    <3>4. full => Head(list) \notin Range(Append(kept, i))
      BY <1>6, <1>9, <1>11
    <3> QED  BY <1>6, <1>9, <2>1, <3>1, <3>2, <3>3, <3>4
  <2>2. CASE u # o
    <3>1. per_user'[u] = per_user[u]
      BY <1>1, <1>3, <2>2 DEF TypeOK
    <3>2. /\ Len(per_user[u]) <= PerUserCap /\ IsInjective(per_user[u])
          /\ \A x \in Range(per_user[u]) : Owner[x] = u
      BY DEF SlotsWithinCap
    <3>3. full => Head(list) \notin Range(per_user[u])
      BY <1>5, <1>12, <2>2, <3>2
    <3> QED  BY <3>1, <3>2, <3>3
  <2> QED  BY <2>1, <2>2
<1>14. SlotsWithinCap'
  BY <1>13 DEF SlotsWithinCap
<1> QED  BY <1>10, <1>11, <1>13, <1>14 DEF full

(* A session that has not come to list its ID has no slot.                 *)
LEMMA NotListed ==
  ASSUME SlotInv, NEW i \in Ids, park[i] \in {"live", "harvest"}
  PROVE  \A u \in Users : i \notin Range(per_user[u])
BY DEF SlotInv, NotYetParked, NoStaleSlot, Early

-----------------------------------------------------------------------------
TakeRecord ==
  [pc : TakePc, id : Ids \cup {None}, user : Users \cup {None}, woken : BOOLEAN,
   timed_out : BOOLEAN, awaited : BOOLEAN, outcome : Outcome]

(* What the three forms of an update of a take's record leave as it was.   *)
LEMMA TakeUpdate ==
  ASSUME TypeOK, NEW t \in Takers, NEW p \in TakePc, NEW o \in Outcome,
         NEW x \in BOOLEAN,
         \/ take' = [take EXCEPT ![t].pc = p]
         \/ take' = [take EXCEPT ![t].pc = p, ![t].outcome = o]
         \/ take' = [take EXCEPT ![t].pc = p, ![t].timed_out = x]
  PROVE  /\ take' \in [Takers -> TakeRecord]
         /\ take'[t].pc = p
         /\ \A s \in Takers \ {t} : take'[s] = take[s]
         /\ \A s \in Takers : /\ take'[s].id = take[s].id
                               /\ take'[s].user = take[s].user
                               /\ take'[s].awaited = take[s].awaited
                               /\ take'[s].woken = take[s].woken
<1>1. take \in [Takers -> TakeRecord]
  BY DEF TypeOK, TakeRecord
<1>2. CASE take' = [take EXCEPT ![t].pc = p]
  BY <1>1, <1>2 DEF TakeRecord
<1>3. CASE take' = [take EXCEPT ![t].pc = p, ![t].outcome = o]
  <2> DEFINE m == [take EXCEPT ![t].pc = p]
  <2>1. /\ m \in [Takers -> TakeRecord] /\ m[t].pc = p /\ m[t].id = take[t].id
        /\ m[t].user = take[t].user /\ m[t].awaited = take[t].awaited
        /\ m[t].woken = take[t].woken
        /\ \A s \in Takers \ {t} : m[s] = take[s]
    BY <1>1 DEF TakeRecord
  <2> HIDE DEF m
  <2>2. take' = [m EXCEPT ![t].outcome = o]
    BY <1>3 DEF m
  <2> QED  BY <2>1, <2>2 DEF TakeRecord
<1>4. CASE take' = [take EXCEPT ![t].pc = p, ![t].timed_out = x]
  <2> DEFINE m == [take EXCEPT ![t].pc = p]
  <2>1. /\ m \in [Takers -> TakeRecord] /\ m[t].pc = p /\ m[t].id = take[t].id
        /\ m[t].user = take[t].user /\ m[t].awaited = take[t].awaited
        /\ m[t].woken = take[t].woken
        /\ \A s \in Takers \ {t} : m[s] = take[s]
    BY <1>1 DEF TakeRecord
  <2> HIDE DEF m
  <2>2. take' = [m EXCEPT ![t].timed_out = x]
    BY <1>4 DEF m
  <2> QED  BY <2>1, <2>2 DEF TakeRecord
<1> QED  BY <1>2, <1>3, <1>4

(* A step of a running take changes the record of that take alone, and of it
   only where the call is, how it ended and whether it timed out. *)
LEMMA TakeMoves ==
  ASSUME TypeOK, NEW t \in Takers, TakeStep(t) \/ TakeTimeout(t)
  PROVE  /\ take' \in [Takers -> TakeRecord]
         /\ take[t].pc # "idle" /\ take'[t].pc # "idle"
         /\ \A s \in Takers \ {t} : take'[s] = take[s]
         /\ \A s \in Takers : /\ take'[s].id = take[s].id
                               /\ take'[s].user = take[s].user
                               /\ take'[s].awaited = take[s].awaited
                               /\ take'[s].woken = take[s].woken
         /\ UNCHANGED <<reservations, deadline, clock, park, victim, sweep>>
<1>1. PICK p \in TakePc \ {"idle"}, o \in Outcome, x \in BOOLEAN :
        \/ take' = [take EXCEPT ![t].pc = p]
        \/ take' = [take EXCEPT ![t].pc = p, ![t].outcome = o]
        \/ take' = [take EXCEPT ![t].pc = p, ![t].timed_out = x]
  <2> USE DEF TakePc, Outcome
  <2>1. CASE TakeRemove(t)
    BY <2>1, ZenonT(60) DEF TakeRemove, Goto
  <2>2. CASE TakeAbsent(t)
    BY <2>2, ZenonT(60) DEF TakeAbsent, Goto
  <2>3. CASE TakeLookup(t)
    BY <2>3, ZenonT(60) DEF TakeLookup, Goto
  <2>4. CASE TakeArm(t)
    BY <2>4, ZenonT(60) DEF TakeArm, Goto
  <2>5. CASE TakeRecheck(t)
    BY <2>5, ZenonT(60) DEF TakeRecheck, Goto
  <2>6. CASE TakeWoken(t)
    BY <2>6, ZenonT(60) DEF TakeWoken, Goto
  <2>7. CASE TakeReinsert(t)
    BY <2>7, ZenonT(60) DEF TakeReinsert
  <2>8. CASE TakeDetach(t)
    BY <2>8, ZenonT(60) DEF TakeDetach
  <2>9. CASE TakeTimeout(t)
    BY <2>9, Zenon DEF TakeTimeout
  <2> QED  BY <2>1, <2>2, <2>3, <2>4, <2>5, <2>6, <2>7, <2>8, <2>9, ZenonT(60) DEF TakeStep
<1>2. /\ take[t].pc # "idle"
      /\ UNCHANGED <<reservations, deadline, clock, park, victim, sweep>>
  <2>1. CASE TakeRemove(t) \/ TakeReinsert(t) \/ TakeDetach(t)
    BY <2>1 DEF TakeRemove, TakeReinsert, TakeDetach
  <2>2. CASE TakeAbsent(t) \/ TakeLookup(t) \/ TakeArm(t)
    BY <2>2 DEF TakeAbsent, TakeLookup, TakeArm
  <2>3. CASE TakeRecheck(t) \/ TakeWoken(t) \/ TakeTimeout(t)
    BY <2>3, Zenon DEF TakeRecheck, TakeWoken, TakeTimeout
  <2> QED  BY <2>1, <2>2, <2>3 DEF TakeStep
<1> QED  BY SMTT(60), <1>1, <1>2, TakeUpdate

(* What a step of a running take does to the map, the lists and the entry's
   fate: it removes the entry, puts it back, unlists it, or touches none. *)
LEMMA TakeEffects ==
  ASSUME TypeOK, NEW t \in Takers, TakeStep(t) \/ TakeTimeout(t)
  PROVE  \/ /\ take[t].pc \in {"fast", "final"} /\ take[t].id \in by_id
            /\ by_id' = by_id \ {take[t].id} /\ gone' \in {gone, gone \cup {take[t].id}}
            /\ per_user' = per_user
         \/ /\ take[t].pc = "mismatch" /\ take'[t].pc = "done"
            /\ by_id' = by_id \cup {take[t].id} /\ UNCHANGED <<per_user, gone>>
         \/ /\ take[t].pc \in {"hit", "expired"} /\ take'[t].pc = "done"
            /\ per_user' = detach_from_per_user(take[t].id) /\ UNCHANGED <<by_id, gone>>
         \/ /\ take[t].pc \notin {"hit", "expired", "mismatch"}
            /\ take'[t].pc \notin {"hit", "expired", "mismatch"}
            /\ UNCHANGED <<by_id, per_user, gone>>
<1>1. CASE TakeRemove(t)
  BY <1>1, Zenon DEF TakeRemove
<1>2. CASE TakeReinsert(t)
  <2>1. "done" \in TakePc /\ "OwnerMismatch" \in Outcome
    BY DEF TakePc, Outcome
  <2>2. take' = [take EXCEPT ![t].pc = "done", ![t].outcome = "OwnerMismatch"]
    BY <1>2 DEF TakeReinsert
  <2>3. take'[t].pc = "done"
    BY <2>1, <2>2, TakeUpdate, Zenon
  <2> QED  BY <1>2, <2>3 DEF TakeReinsert
<1>3. CASE TakeDetach(t)
  <2>1. PICK o \in Outcome : take' = [take EXCEPT ![t].pc = "done", ![t].outcome = o]
    BY <1>3, Zenon DEF TakeDetach, Outcome
  <2>2. "done" \in TakePc
    BY DEF TakePc
  <2>3. take'[t].pc = "done"
    BY <2>1, <2>2, TakeUpdate, Zenon
  <2> QED  BY <1>3, <2>3 DEF TakeDetach
<1>4. ASSUME NEW p \in TakePc, NEW o \in Outcome, NEW x \in BOOLEAN,
             p \notin {"hit", "expired", "mismatch"},
             take[t].pc \notin {"hit", "expired", "mismatch"},
             UNCHANGED <<by_id, per_user, gone>>,
             \/ take' = [take EXCEPT ![t].pc = p]
             \/ take' = [take EXCEPT ![t].pc = p, ![t].outcome = o]
             \/ take' = [take EXCEPT ![t].pc = p, ![t].timed_out = x]
      PROVE  /\ take[t].pc \notin {"hit", "expired", "mismatch"}
             /\ take'[t].pc \notin {"hit", "expired", "mismatch"}
             /\ UNCHANGED <<by_id, per_user, gone>>
  <2>1. take'[t].pc = p
    BY SMTT(60), <1>4, TakeUpdate
  <2> QED  BY <1>4, <2>1
<1>5. /\ {"lookup", "arm", "recheck", "wait", "final", "done"} \subseteq TakePc
      /\ "Unknown" \in Outcome
  BY DEF TakePc, Outcome
<1>6. CASE TakeAbsent(t)
  BY <1>4, <1>5, <1>6, Zenon DEF TakeAbsent, Goto
<1>7. CASE TakeLookup(t)
  BY <1>4, <1>5, <1>7 DEF TakeLookup, Goto
<1>8. CASE TakeArm(t)
  BY <1>4, <1>5, <1>8 DEF TakeArm, Goto
<1>9. CASE TakeRecheck(t)
  BY <1>4, <1>5, <1>9 DEF TakeRecheck, Goto
<1>10. CASE TakeWoken(t)
  BY <1>4, <1>5, <1>10 DEF TakeWoken, Goto
<1>11. CASE TakeTimeout(t)
  BY <1>4, <1>5, <1>11, Zenon DEF TakeTimeout
<1> QED  BY <1>1, <1>2, <1>3, <1>6, <1>7, <1>8, <1>9, <1>10, <1>11, ZenonT(60) DEF TakeStep

(* The two branches of the global cap, without the count that decides.     *)
LEMMA ChooseMoves ==
  ASSUME TypeOK, NEW i \in Ids, ParkChooseVictim(i)
  PROVE  /\ park[i] = "indexed"
         /\ \/ park'[i] = "evict" /\ victim'[i] \in by_id
            \/ park'[i] = "insert" /\ victim'[i] = victim[i]
         /\ \A j \in Ids \ {i} : victim'[j] = victim[j]
         /\ victim' \in [Ids -> Ids \cup {None}]
         /\ UNCHANGED <<by_id, reservations, per_user, deadline, clock, take, sweep,
                        gone>>
<1>1. /\ park[i] = "indexed"
      /\ \/ /\ \E v \in by_id : victim' = [victim EXCEPT ![i] = v]
            /\ park' = [park EXCEPT ![i] = "evict"]
         \/ victim' = victim /\ park' = [park EXCEPT ![i] = "insert"]
      /\ UNCHANGED <<by_id, reservations, per_user, deadline, clock, take, sweep,
                     gone>>
  BY Zenon DEF ParkChooseVictim, find_oldest_globally
<1>2. CASE victim' = victim /\ park' = [park EXCEPT ![i] = "insert"]
  BY <1>1, <1>2 DEF TypeOK
<1>3. ASSUME NEW v \in by_id, victim' = [victim EXCEPT ![i] = v],
             park' = [park EXCEPT ![i] = "evict"]
      PROVE  /\ park'[i] = "evict" /\ victim'[i] \in by_id
             /\ \A j \in Ids \ {i} : victim'[j] = victim[j]
             /\ victim' \in [Ids -> Ids \cup {None}]
  BY <1>3 DEF TypeOK
<1> QED  BY <1>1, <1>2, <1>3

(* A step of a session's teardown moves that teardown alone, and never back. *)
LEMMA ParkMoves ==
  ASSUME TypeOK, NEW i \in Ids, ReservePark(i) \/ AbandonPark(i) \/ ParkStep(i)
  PROVE  /\ park' \in [Ids -> ParkPc]
         /\ \A j \in Ids \ {i} : park'[j] = park[j]
         /\ park[i] \in Landed => park'[i] \in Landed
<1>1. PICK q \in ParkPc :
        /\ park' = [park EXCEPT ![i] = q]
        /\ park[i] \in Landed => q \in Landed
  <2> USE DEF ParkPc, Landed
  <2>1. CASE ReservePark(i)
    BY <2>1 DEF ReservePark
  <2>2. CASE AbandonPark(i)
    BY <2>2 DEF AbandonPark
  <2>3. CASE ParkIndex(i)
    BY <2>3 DEF ParkIndex, ListEntry
  <2>4. CASE ParkChooseVictim(i)
    BY <2>4, Zenon DEF ParkChooseVictim
  <2>5. CASE ParkEvict(i)
    BY <2>5, Zenon DEF ParkEvict
  <2>6. CASE ParkDetach(i)
    BY <2>6 DEF ParkDetach
  <2>7. CASE ParkInsert(i)
    BY <2>7 DEF ParkInsert
  <2>8. CASE ParkRelease(i)
    BY <2>8 DEF ParkRelease
  <2>9. CASE ParkNotify(i)
    BY <2>9 DEF ParkNotify
  <2> QED  BY <2>1, <2>2, <2>3, <2>4, <2>5, <2>6, <2>7, <2>8, <2>9 DEF ParkStep
<1> QED  BY <1>1 DEF TypeOK

(* A take that starts carries a claim and a fresh record.                  *)
LEMMA StartMoves ==
  ASSUME TypeOK, NEW t \in Takers, TakeStart(t)
  PROVE  /\ take[t].pc = "idle" /\ take'[t].pc = "fast"
         /\ <<take'[t].id, take'[t].user>> \in Claims
         /\ take'[t].awaited = (take'[t].id \in reservations \cup by_id)
         /\ ~take'[t].woken /\ ~take'[t].timed_out /\ take'[t].outcome = "none"
         /\ take' \in [Takers -> TakeRecord]
         /\ \A s \in Takers \ {t} : take'[s] = take[s]
         /\ UNCHANGED <<by_id, reservations, per_user, deadline, clock, park, victim,
                        sweep, gone>>
<1>1. PICK c \in Claims :
        take' = [take EXCEPT ![t] =
                   [Idle EXCEPT !.pc = "fast", !.id = c[1], !.user = c[2],
                      !.awaited = c[1] \in reservations \cup by_id]]
  BY Zenon DEF TakeStart
<1> DEFINE b == c[1] \in reservations \cup by_id
           r == [Idle EXCEPT !.pc = "fast", !.id = c[1], !.user = c[2], !.awaited = b]
<1>2. b \in BOOLEAN
  OBVIOUS
<1>3. take' = [take EXCEPT ![t] = r]
  BY <1>1
<1> HIDE DEF b
<1>5. c[1] \in Ids /\ c[2] \in Users /\ c = <<c[1], c[2]>>
  BY RegistryAssumption
<1>6. take \in [Takers -> TakeRecord]
  BY DEF TypeOK, TakeRecord
<1>7. /\ r \in TakeRecord
      /\ r.pc = "fast" /\ r.id = c[1] /\ r.user = c[2] /\ r.awaited = b
      /\ ~r.woken /\ ~r.timed_out /\ r.outcome = "none"
  BY <1>2, <1>5, Zenon DEF Idle, TakeRecord, TakePc, Outcome
<1> HIDE DEF r
<1>8. /\ take' \in [Takers -> TakeRecord] /\ take'[t] = r
      /\ \A s \in Takers \ {t} : take'[s] = take[s]
  BY <1>3, <1>6, <1>7
<1>9. /\ take[t].pc = "idle"
      /\ UNCHANGED <<by_id, reservations, per_user, deadline, clock, park, victim,
                     sweep, gone>>
  BY DEF TakeStart
<1> QED  BY <1>5, <1>7, <1>8, <1>9, Zenon DEF b

(* Type correctness of a step.  The lists are the lemmas' above; the rest is
   each action's own. *)
LEMMA TypeStep ==
  ASSUME SlotInv, Step
  PROVE  TypeOK'
<1> USE RegistryAssumption DEF SlotInv
<1>0. ASSUME NEW i \in Ids, ReservePark(i) \/ AbandonPark(i) \/ ParkStep(i)
      PROVE  park' \in [Ids -> ParkPc]
  BY <1>0, ParkMoves
<1>1. ASSUME NEW i \in Ids,
             \/ ReservePark(i) \/ AbandonPark(i) \/ ParkInsert(i) \/ ParkRelease(i)
      PROVE  TypeOK'
  <2>1. park' \in [Ids -> ParkPc]
    BY <1>0, <1>1 DEF ParkStep
  <2>2. by_id' \subseteq Ids /\ reservations' \subseteq Ids /\ gone' \subseteq Ids
    BY <1>1 DEF TypeOK, ReservePark, AbandonPark, ParkInsert, ParkRelease
  <2>3. UNCHANGED <<per_user, deadline, clock, victim, take, sweep>>
    BY <1>1 DEF ReservePark, AbandonPark, ParkInsert, ParkRelease
  <2> QED  BY <2>1, <2>2, <2>3 DEF TypeOK
<1>2. ASSUME NEW i \in Ids, ParkIndex(i)
      PROVE  TypeOK'
  <2>1. i \notin Range(per_user[Owner[i]])
    BY <1>2, NotListed DEF ParkIndex
  <2>2. per_user' \in [Users -> Seq(Ids)]
    BY <1>2, <2>1, IndexProperties DEF ParkIndex
  <2>3. /\ by_id' \subseteq Ids /\ gone' \subseteq Ids
        /\ deadline' \in [Ids -> Nat]
        /\ UNCHANGED <<reservations, clock, victim, take, sweep>>
    BY <1>2, SMTT(60) DEF TypeOK, ParkIndex, ListEntry
  <2> QED  BY <1>0, <1>2, <2>2, <2>3, Zenon DEF TypeOK, ParkStep
<1>3. ASSUME NEW i \in Ids, ParkChooseVictim(i)
      PROVE  TypeOK'
  BY <1>0, <1>3, ChooseMoves, SMTT(60) DEF TypeOK, ParkStep
<1>4. ASSUME NEW i \in Ids, ParkEvict(i)
      PROVE  TypeOK'
  BY <1>0, <1>4, Zenon DEF TypeOK, ParkEvict, ParkStep
<1>5. ASSUME NEW i \in Ids, ParkDetach(i)
      PROVE  TypeOK'
  <2>1. victim[i] \in Ids
    BY <1>5 DEF ParkDetach, ClaimsOK
  <2>2. per_user' \in [Users -> Seq(Ids)]
    BY <1>5, <2>1, DetachProperties DEF ParkDetach
  <2> QED  BY <1>0, <1>5, <2>2, Zenon DEF TypeOK, ParkDetach, ParkStep
<1>6. ASSUME NEW i \in Ids, ParkNotify(i)
      PROVE  TypeOK'
  <2>1. take \in [Takers -> TakeRecord]
    BY DEF TypeOK, TakeRecord
  <2>2. \A r \in TakeRecord : [r EXCEPT !.woken = TRUE] \in TakeRecord
    BY Zenon DEF TakeRecord
  <2>3. take' \in [Takers -> TakeRecord]
    BY <1>6, <2>1, <2>2 DEF ParkNotify
  <2> QED  BY <1>0, <1>6, <2>3, Zenon DEF TypeOK, TakeRecord, ParkNotify, ParkStep
<1>7. ASSUME NEW t \in Takers, TakeStart(t)
      PROVE  TypeOK'
  <2>1. take' \in [Takers -> TakeRecord]
    BY <1>7, StartMoves, Zenon
  <2>2. UNCHANGED <<by_id, reservations, per_user, deadline, clock, park, victim,
                    sweep, gone>>
    BY <1>7, StartMoves, Zenon
  <2> QED  BY <2>1, <2>2 DEF TypeOK, TakeRecord
<1>8. ASSUME NEW t \in Takers, TakeStep(t) \/ TakeTimeout(t)
      PROVE  TypeOK'
  <2>1. take' \in [Takers -> TakeRecord]
    BY <1>8, TakeMoves
  <2>2. take[t].pc # "idle" => take[t].id \in Ids
    BY Zenon DEF ClaimsOK
  <2>3. /\ by_id' \subseteq Ids /\ gone' \subseteq Ids
        /\ UNCHANGED <<reservations, deadline, clock, park, victim, sweep>>
    <3>1. take[t].id \in Ids
      BY <1>8, <2>2, TakeMoves
    <3>2. /\ by_id' \in {by_id, by_id \ {take[t].id}, by_id \cup {take[t].id}}
          /\ gone' \in {gone, gone \cup {take[t].id}}
      BY <1>8, TakeEffects
    <3>3. UNCHANGED <<reservations, deadline, clock, park, victim, sweep>>
      BY <1>8, TakeMoves, Zenon
    <3> QED  BY <3>1, <3>2, <3>3, Zenon DEF TypeOK
  <2>4. per_user' \in [Users -> Seq(Ids)]
    <3>1. CASE per_user' = per_user
      BY <3>1 DEF TypeOK
    <3>2. CASE per_user' = detach_from_per_user(take[t].id) /\ take[t].pc # "idle"
      BY <2>2, <3>2, DetachProperties
    <3> QED  BY <1>8, <3>1, <3>2, TakeEffects
  <2> QED  BY <2>1, <2>3, <2>4 DEF TypeOK, TakeRecord
<1>9. CASE SweepCollect
  BY <1>9, Zenon DEF TypeOK, SweepCollect
<1>10. CASE SweepRemove
  BY <1>10, SMTT(60) DEF TypeOK, SweepRemove
<1>11. CASE SweepDetach
  <2>1. per_user' \in [Users -> Seq(Ids)]
    BY <1>11, DetachProperties, Zenon DEF SweepDetach, TypeOK
  <2> QED  BY <1>11, <2>1, Zenon DEF TypeOK, SweepDetach
<1>12. CASE Tick
  BY <1>12 DEF TypeOK, Tick
<1>13. CASE UNCHANGED vars
  BY <1>13 DEF TypeOK, vars
<1> QED  BY <1>1, <1>2, <1>3, <1>4, <1>5, <1>6, <1>7, <1>8, <1>9, <1>10, <1>11,
            <1>12, <1>13 DEF Step, ParkStep

(* A running take keeps its claim, and an eviction its victim.             *)
LEMMA ClaimsStep ==
  ASSUME SlotInv, Step
  PROVE  ClaimsOK'
<1> USE RegistryAssumption DEF SlotInv
<1>1. ASSUME NEW i \in Ids, ParkChooseVictim(i)
      PROVE  ClaimsOK'
  BY <1>1, ChooseMoves, ParkMoves, Zenon DEF TypeOK, ClaimsOK, ParkStep
<1>2. ASSUME NEW i \in Ids,
             \/ ReservePark(i) \/ AbandonPark(i) \/ ParkIndex(i) \/ ParkEvict(i)
             \/ ParkDetach(i) \/ ParkInsert(i) \/ ParkRelease(i)
      PROVE  ClaimsOK'
  <2>1. CASE ReservePark(i) \/ AbandonPark(i) \/ ParkIndex(i) \/ ParkRelease(i)
    BY <2>1, SMTT(60) DEF TypeOK, ClaimsOK, ReservePark, AbandonPark, ParkIndex, ListEntry, ParkRelease
  <2>2. CASE ParkEvict(i) \/ ParkDetach(i) \/ ParkInsert(i)
    BY <2>2, SMTT(60) DEF TypeOK, ClaimsOK, ParkEvict, ParkDetach, ParkInsert
  <2> QED  BY <1>2, <2>1, <2>2, Zenon
<1>3. CASE \E i \in Ids : ParkNotify(i)
  BY <1>3 DEF TypeOK, ClaimsOK, ParkNotify
<1>4. ASSUME NEW t \in Takers, TakeStart(t)
      PROVE  ClaimsOK'
  <2>1. <<take'[t].id, take'[t].user>> \in Claims
    BY <1>4, StartMoves
  <2>2. /\ \A s \in Takers \ {t} : take'[s] = take[s]
        /\ UNCHANGED <<park, victim>>
    BY <1>4, StartMoves, Zenon
  <2> QED  BY <2>1, <2>2 DEF ClaimsOK
<1>5. ASSUME NEW t \in Takers, TakeStep(t) \/ TakeTimeout(t)
      PROVE  ClaimsOK'
  BY <1>5, TakeMoves, Zenon DEF ClaimsOK
<1>6. CASE SweepCollect \/ SweepRemove \/ SweepDetach \/ Tick \/ UNCHANGED vars
  BY <1>6 DEF ClaimsOK, SweepCollect, SweepRemove, SweepDetach, Tick, vars
<1> QED  BY <1>1, <1>2, <1>3, <1>4, <1>5, <1>6 DEF Step, ParkStep

(* Of what a step does to the map of entries and to the hands: an entry that is
   nowhere is picked up by nobody, and only its own park commits it. *)
LEMMA NowhereStays ==
  ASSUME SlotInv, Step, NEW i \in Ids, i \notin by_id, ~InHand(i)
  PROVE  ~InHand(i)' /\ (i \in by_id' => ParkInsert(i))
<1> USE RegistryAssumption DEF SlotInv
<1>1. ASSUME NEW j \in Ids, ParkChooseVictim(j)
      PROVE  ~InHand(i)' /\ i \notin by_id'
  BY <1>1, ChooseMoves, ParkMoves DEF ParkStep, InHand
<1>2. ASSUME NEW j \in Ids, ParkEvict(j)
      PROVE  ~InHand(i)' /\ i \notin by_id'
  BY <1>2, Zenon DEF TypeOK, ParkEvict, InHand
<1>3. ASSUME NEW j \in Ids, ReservePark(j) \/ AbandonPark(j) \/ ParkIndex(j)
                            \/ ParkDetach(j) \/ ParkRelease(j)
      PROVE  ~InHand(i)' /\ i \notin by_id'
  BY <1>3, SMTT(60) DEF TypeOK, ReservePark, AbandonPark, ParkIndex, ListEntry, ParkDetach, ParkRelease, InHand
<1>4. ASSUME NEW j \in Ids, ParkInsert(j)
      PROVE  ~InHand(i)' /\ (i \in by_id' => ParkInsert(i))
  BY <1>4, Zenon DEF TypeOK, ParkInsert, InHand
<1>5. ASSUME NEW j \in Ids, ParkNotify(j)
      PROVE  ~InHand(i)' /\ i \notin by_id'
  <2>1. \A t \in Takers : take'[t].id = take[t].id /\ take'[t].pc = take[t].pc
    BY <1>5 DEF TypeOK, ParkNotify
  <2> QED  BY <1>5, <2>1 DEF TypeOK, ParkNotify, InHand
<1>6. ASSUME NEW t \in Takers, TakeStart(t)
      PROVE  ~InHand(i)' /\ i \notin by_id'
  <2>1. take'[t].pc = "fast"
    BY <1>6, StartMoves, Zenon
  <2>2. /\ \A s \in Takers \ {t} : take'[s] = take[s]
        /\ UNCHANGED <<by_id, park, victim, sweep>>
    BY <1>6, StartMoves, Zenon
  <2> QED  BY <2>1, <2>2 DEF InHand
<1>7. ASSUME NEW t \in Takers, TakeStep(t) \/ TakeTimeout(t)
      PROVE  ~InHand(i)' /\ i \notin by_id'
  <2>1. /\ \A s \in Takers \ {t} : take'[s] = take[s]
        /\ \A s \in Takers : take'[s].id = take[s].id
        /\ UNCHANGED <<park, victim, sweep>>
    BY <1>7, TakeMoves, Zenon
  <2>2. take[t].id = i => /\ take[t].pc \notin {"hit", "expired", "mismatch"}
                          /\ take'[t].pc \notin {"hit", "expired", "mismatch"}
    <3>1. take[t].id = i => take[t].pc \notin {"hit", "expired", "mismatch"}
      BY Zenon DEF InHand
    <3> QED  BY <1>7, <3>1, TakeEffects
  <2>3. i \notin by_id'
    BY <1>7, <2>2, TakeEffects, Zenon
  <2> QED  BY <2>1, <2>2, <2>3, Zenon DEF InHand
<1>8. CASE SweepRemove
  BY <1>8, SMTT(60) DEF TypeOK, SweepRemove, InHand
<1>9. CASE SweepCollect \/ SweepDetach
  BY <1>9, Zenon DEF TypeOK, SweepCollect, SweepDetach, InHand
<1>10. CASE Tick \/ UNCHANGED vars
  BY <1>10, Zenon DEF Tick, vars, InHand
<1> QED  BY <1>1, <1>2, <1>3, <1>4, <1>5, <1>6, <1>7, <1>8, <1>9, <1>10, Zenon
            DEF Step, ParkStep

(* A teardown that is before its insert was before it already.             *)
LEMMA EarlyStays ==
  ASSUME SlotInv, Step
  PROVE  \A i \in Ids : park'[i] \in Early => park[i] \in Early
<1> USE DEF SlotInv
<1>1. ASSUME NEW i \in Ids, ReservePark(i) \/ AbandonPark(i) \/ ParkStep(i)
      PROVE  \A j \in Ids : park'[j] \in Early => park[j] \in Early
  <2>1. /\ \A j \in Ids \ {i} : park'[j] = park[j]
        /\ park[i] \in Landed => park'[i] \in Landed
    BY <1>1, ParkMoves, Zenon
  <2>2. park[i] \in ParkPc
    BY DEF TypeOK
  <2>3. park'[i] \in Early => park[i] \in Early
    BY <2>1, <2>2 DEF ParkPc, Early, Landed
  <2> QED  BY <2>1, <2>3
<1>2. ASSUME NEW t \in Takers, TakeStart(t) \/ TakeStep(t) \/ TakeTimeout(t)
      PROVE  UNCHANGED park
  BY <1>2, StartMoves, TakeMoves, Zenon
<1>3. CASE SweepCollect \/ SweepRemove \/ SweepDetach \/ Tick \/ UNCHANGED vars
  BY <1>3 DEF SweepCollect, SweepRemove, SweepDetach, Tick, vars
<1> QED  BY <1>1, <1>2, <1>3 DEF Step

(* Before its insert an entry is still nowhere after a step.               *)
LEMMA NotYetParkedStep ==
  ASSUME SlotInv, Step
  PROVE  NotYetParked'
<1> SUFFICES ASSUME NEW i \in Ids, park'[i] \in Early
             PROVE  i \notin by_id' /\ ~InHand(i)'
  BY DEF NotYetParked
<1>1. i \notin by_id /\ ~InHand(i)
  BY EarlyStays DEF SlotInv, NotYetParked
<1>2. ~InHand(i)' /\ (i \in by_id' => ParkInsert(i))
  BY <1>1, NowhereStays
<1>3. ~ParkInsert(i)
  BY DEF ParkInsert, SlotInv, TypeOK, Early
<1> QED  BY <1>2, <1>3

(* Whoever changes a list lists an ID or unlists one.                      *)
LEMMA ListMoves ==
  ASSUME SlotInv, Step
  PROVE  \/ UNCHANGED per_user
         \/ \E i \in Ids : ParkIndex(i)
         \/ \E i \in Ids : per_user' = detach_from_per_user(i)
<1> USE DEF SlotInv
<1>1. ASSUME NEW i \in Ids, ReservePark(i) \/ AbandonPark(i) \/ ParkStep(i),
             ~ParkIndex(i), ~ParkDetach(i)
      PROVE  UNCHANGED per_user
  BY <1>1 DEF ReservePark, AbandonPark, ParkStep, ParkChooseVictim, ParkEvict,
              ParkInsert, ParkRelease, ParkNotify
<1>2. ASSUME NEW i \in Ids, ParkDetach(i)
      PROVE  \E j \in Ids : per_user' = detach_from_per_user(j)
  BY <1>2 DEF ParkDetach, ClaimsOK
<1>3. ASSUME NEW t \in Takers, TakeStart(t)
      PROVE  UNCHANGED per_user
  BY <1>3, StartMoves, Zenon
<1>4. ASSUME NEW t \in Takers, TakeStep(t) \/ TakeTimeout(t)
      PROVE  \/ UNCHANGED per_user
             \/ \E j \in Ids : per_user' = detach_from_per_user(j)
  <2>1. take[t].pc # "idle"
    BY <1>4, TakeMoves
  <2>2. take[t].id \in Ids
    BY <2>1, RegistryAssumption, Zenon DEF ClaimsOK
  <2> QED  BY <1>4, <2>2, TakeEffects, Zenon
<1>5. CASE SweepDetach
  <2>1. sweep.removed \in Ids
    BY <1>5 DEF SweepDetach, TypeOK
  <2> QED  BY <1>5, <2>1 DEF SweepDetach
<1>6. CASE SweepCollect \/ SweepRemove \/ Tick \/ UNCHANGED vars
  BY <1>6 DEF SweepCollect, SweepRemove, Tick, vars
<1> QED  BY <1>1, <1>2, <1>3, <1>4, <1>5, <1>6 DEF Step

(* No step takes a list over its cap or lists an ID twice.                 *)
LEMMA CapStep ==
  ASSUME SlotInv, Step
  PROVE  SlotsWithinCap'
<1> USE DEF SlotInv
<1>1. CASE UNCHANGED per_user
  BY <1>1 DEF SlotsWithinCap
<1>2. ASSUME NEW i \in Ids, ParkIndex(i)
      PROVE  SlotsWithinCap'
  <2>1. i \notin Range(per_user[Owner[i]])
    BY <1>2, NotListed, RegistryAssumption DEF ParkIndex
  <2>2. ListEntry(i)
    BY <1>2 DEF ParkIndex
  <2> QED  BY <2>1, <2>2, IndexProperties
<1>3. ASSUME NEW i \in Ids, per_user' = detach_from_per_user(i)
      PROVE  SlotsWithinCap'
  BY <1>3, DetachProperties, Zenon
<1> QED  BY <1>1, <1>2, <1>3, ListMoves

-----------------------------------------------------------------------------
(* What NoStaleSlot asks of a listed ID.                                   *)
Backed(i) ==
  i \in by_id \/ park[i] \in {"indexed", "evict", "detach", "insert"} \/ InHand(i)

(* A slot loses its backing only in the step that clears the slot: what a step
   takes out of the map is unlisted in that step or is in the hands of the task
   that will. *)
LEMMA BackedStays ==
  ASSUME SlotInv, Step, NEW i \in Ids, NEW u \in Users, Backed(i),
         i \in Range(per_user'[u])
  PROVE  Backed(i)'
<1> USE RegistryAssumption DEF SlotInv
<1>1. ASSUME NEW k \in Ids, ReservePark(k) \/ AbandonPark(k) \/ ParkRelease(k)
      PROVE  Backed(i)'
  <2>1. park[k] \notin {"indexed", "evict", "detach", "insert"}
    BY <1>1, Zenon DEF ReservePark, AbandonPark, ParkRelease
  <2>2. /\ \A j \in Ids \ {k} : park'[j] = park[j]
        /\ UNCHANGED <<by_id, victim, take, sweep>>
    BY <1>1, ParkMoves, Zenon DEF ReservePark, AbandonPark, ParkRelease, ParkStep
  <2> QED  BY <2>1, <2>2 DEF Backed, InHand
<1>2. ASSUME NEW k \in Ids, ParkIndex(k)
      PROVE  Backed(i)'
  <2>1. k \notin Range(per_user[Owner[k]])
    BY <1>2, NotListed, Zenon DEF ParkIndex
  <2>2. Len(per_user[Owner[k]]) >= PerUserCap => i # Head(per_user[Owner[k]])
    BY SMTT(60), <1>2, <2>1, IndexProperties DEF ParkIndex
  <2>3. i \in by_id => i \in by_id'
    BY <1>2, <2>2, Zenon DEF ParkIndex, ListEntry
  <2>4. /\ park[k] = "harvest" /\ park'[k] = "indexed"
        /\ \A j \in Ids \ {k} : park'[j] = park[j]
        /\ UNCHANGED <<victim, take, sweep>>
    BY <1>2, Zenon DEF ParkIndex, ListEntry, TypeOK
  <2> QED  BY <2>3, <2>4 DEF Backed, InHand
<1>3. ASSUME NEW k \in Ids, ParkChooseVictim(k)
      PROVE  Backed(i)'
  <2>1. /\ park[k] = "indexed" /\ park'[k] \in {"evict", "insert"}
        /\ \A j \in Ids \ {k} : park'[j] = park[j] /\ victim'[j] = victim[j]
        /\ UNCHANGED <<by_id, take, sweep>>
    BY <1>3, ChooseMoves, ParkMoves, Zenon DEF ParkStep
  <2> QED  BY <2>1, Zenon DEF Backed, InHand
<1>4. ASSUME NEW k \in Ids, ParkEvict(k)
      PROVE  Backed(i)'
  <2>1. /\ park[k] = "evict" /\ by_id' = by_id \ {victim[k]}
        /\ park'[k] \in {"detach", "insert"}
        /\ victim[k] \in by_id => park'[k] = "detach"
        /\ \A j \in Ids \ {k} : park'[j] = park[j]
        /\ UNCHANGED <<victim, take, sweep>>
    BY <1>4, Zenon DEF ParkEvict, TypeOK
  <2> QED  BY <2>1 DEF Backed, InHand
<1>5. ASSUME NEW k \in Ids, ParkDetach(k)
      PROVE  Backed(i)'
  <2>1. i # victim[k]
    BY <1>5, DetachProperties, Zenon DEF ParkDetach, ClaimsOK
  <2>2. /\ park[k] = "detach" /\ park'[k] = "insert"
        /\ \A j \in Ids \ {k} : park'[j] = park[j]
        /\ UNCHANGED <<by_id, victim, take, sweep>>
    BY <1>5, ZenonT(60) DEF ParkDetach, TypeOK
  <2> QED  BY <2>1, <2>2, Zenon DEF Backed, InHand
<1>6. ASSUME NEW k \in Ids, ParkInsert(k)
      PROVE  Backed(i)'
  <2>1. /\ by_id' = by_id \cup {k} /\ park[k] = "insert"
        /\ \A j \in Ids \ {k} : park'[j] = park[j]
        /\ UNCHANGED <<victim, take, sweep>>
    BY <1>6, Zenon DEF ParkInsert, TypeOK
  <2> QED  BY <2>1, Zenon DEF Backed, InHand
<1>7. ASSUME NEW k \in Ids, ParkNotify(k)
      PROVE  Backed(i)'
  <2>1. \A t \in Takers : take'[t].id = take[t].id /\ take'[t].pc = take[t].pc
    BY <1>7 DEF TypeOK, ParkNotify
  <2>2. /\ park[k] = "notify" /\ \A j \in Ids \ {k} : park'[j] = park[j]
        /\ UNCHANGED <<by_id, victim, sweep>>
    BY <1>7 DEF ParkNotify, TypeOK
  <2> QED  BY <2>1, <2>2, Zenon DEF Backed, InHand
<1>8. ASSUME NEW t \in Takers, TakeStart(t)
      PROVE  Backed(i)'
  <2>1. /\ take[t].pc = "idle" /\ \A s \in Takers \ {t} : take'[s] = take[s]
        /\ UNCHANGED <<by_id, park, victim, sweep>>
    BY <1>8, StartMoves, Zenon
  <2> QED  BY <2>1 DEF Backed, InHand
<1>9. ASSUME NEW t \in Takers, TakeStep(t) \/ TakeTimeout(t)
      PROVE  Backed(i)'
  <2>1. /\ \A s \in Takers \ {t} : take'[s] = take[s]
        /\ \A s \in Takers : take'[s].id = take[s].id
        /\ UNCHANGED <<park, victim, sweep>>
    BY <1>9, TakeMoves
  <2>2. CASE TakeRemove(t)
    <3>1. take \in [Takers -> TakeRecord]
      BY DEF TypeOK, TakeRecord
    <3>2. /\ by_id' = by_id \ {take[t].id}
          /\ take[t].pc \notin {"hit", "expired", "mismatch"}
          /\ \E p \in {"hit", "expired", "mismatch"} : take' = [take EXCEPT ![t].pc = p]
      BY <2>2, Zenon DEF TakeRemove, Goto
    <3>3. take'[t].pc \in {"hit", "expired", "mismatch"}
      BY <3>1, <3>2, SMTT(60) DEF TakeRecord
    <3> QED  BY <2>1, <3>2, <3>3, Zenon DEF Backed, InHand
  <2>3. CASE by_id' = by_id \cup {take[t].id}
    BY <2>1, <2>3, Zenon DEF Backed, InHand
  <2>4. CASE /\ take[t].pc \in {"hit", "expired"} /\ by_id' = by_id
             /\ per_user' = detach_from_per_user(take[t].id)
    <3>1. take[t].id \in Ids
      BY <2>4, Zenon DEF ClaimsOK
    <3>2. i # take[t].id
      BY <2>4, <3>1, DetachProperties, Zenon
    <3> QED  BY <2>1, <2>4, <3>2 DEF Backed, InHand
  <2>5. CASE take[t].pc \notin {"hit", "expired", "mismatch"} /\ by_id' = by_id
    BY <2>1, <2>5 DEF Backed, InHand
  <2>6. take[t].pc \in {"fast", "final"} /\ take[t].id \in by_id => TakeRemove(t)
    BY <1>9, Zenon DEF TakeStep, TakeAbsent, TakeLookup, TakeArm, TakeRecheck, TakeWoken,
                TakeReinsert, TakeDetach, TakeTimeout
  <2> QED  BY <1>9, <2>2, <2>3, <2>4, <2>5, <2>6, TakeEffects, ZenonT(60)
<1>10. CASE SweepRemove
  <2>1. PICK k \in sweep.todo : /\ sweep' = [todo |-> sweep.todo \ {k},
                                             removed |-> IF k \in by_id THEN k ELSE None]
                                /\ by_id' = by_id \ {k}
    BY <1>10, Zenon DEF SweepRemove
  <2>2. sweep.removed = None /\ UNCHANGED <<park, victim, take>>
    BY <1>10, ZenonT(60) DEF SweepRemove
  <2> QED  BY <2>1, <2>2, Zenon DEF Backed, InHand
<1>11. CASE SweepDetach
  <2>1. i # sweep.removed
    BY <1>11, DetachProperties, Zenon DEF SweepDetach, TypeOK
  <2>2. UNCHANGED <<by_id, park, victim, take>>
    BY <1>11, Zenon DEF SweepDetach
  <2> QED  BY <2>1, <2>2 DEF Backed, InHand
<1>12. CASE SweepCollect
  <2>1. sweep'.removed = sweep.removed /\ UNCHANGED <<by_id, park, victim, take>>
    BY <1>12, Zenon DEF SweepCollect, TypeOK
  <2> QED  BY <2>1 DEF Backed, InHand
<1>13. CASE Tick \/ UNCHANGED vars
  BY <1>13 DEF Tick, vars, Backed, InHand
<1> QED  BY <1>1, <1>2, <1>3, <1>4, <1>5, <1>6, <1>7, <1>8, <1>9, <1>10, <1>11,
            <1>12, <1>13 DEF Step, ParkStep

(* Every slot is backed after a step: one that was listed before stays so, and
   a new one is listed by a park that is about to insert. *)
LEMMA NoStaleSlotStep ==
  ASSUME SlotInv, Step
  PROVE  NoStaleSlot'
<1> SUFFICES ASSUME NEW u \in Users, NEW i \in Range(per_user'[u])
             PROVE  Backed(i)'
  BY Zenon DEF NoStaleSlot, Backed
<1>1. per_user' \in [Users -> Seq(Ids)] /\ per_user \in [Users -> Seq(Ids)]
  BY TypeStep DEF TypeOK, SlotInv
<1>2. i \in Ids
  BY <1>1, RangeOfSeq
<1>3. CASE i \in Range(per_user[u])
  <2>1. Backed(i)
    BY <1>3 DEF SlotInv, NoStaleSlot, Backed
  <2> QED  BY <1>2, <2>1, BackedStays
<1>4. CASE i \notin Range(per_user[u])
  <2>1. ParkIndex(i)
    <3>1. ASSUME NEW k \in Ids, ParkIndex(k)
          PROVE  i = k
      <4>1. k \notin Range(per_user[Owner[k]])
        BY <3>1, NotListed, RegistryAssumption DEF ParkIndex
      <4>2. ListEntry(k)
        BY <3>1 DEF ParkIndex
      <4> QED  BY <1>4, <4>1, <4>2, IndexProperties, Zenon DEF SlotInv
    <3>2. ASSUME NEW k \in Ids, per_user' = detach_from_per_user(k)
          PROVE  FALSE
      BY <1>4, <3>2, DetachProperties, Zenon DEF SlotInv
    <3> QED  BY <1>4, <3>1, <3>2, ListMoves, Zenon
  <2>2. park'[i] = "indexed"
    BY <1>2, <2>1, Zenon DEF ParkIndex, ListEntry, SlotInv, TypeOK
  <2> QED  BY <2>2 DEF Backed
<1> QED  BY <1>3, <1>4

LEMMA SlotStep ==
  ASSUME SlotInv, Step
  PROVE  SlotInv'
BY TypeStep, ClaimsStep, NotYetParkedStep, CapStep, NoStaleSlotStep, Zenon DEF SlotInv

-----------------------------------------------------------------------------
(* How a take comes to hold an entry: it removed a committed one and compared
   the owner; a Hit is answered for one it held. *)
LEMMA TakeHolds ==
  ASSUME SlotInv, NEW t \in Takers, TakeStep(t) \/ TakeTimeout(t)
  PROVE  /\ take'[t].pc \in {"hit", "mismatch", "expired"} =>
              take[t].id \in by_id /\ by_id' = by_id \ {take[t].id}
         /\ take'[t].pc = "hit" => Owner[take[t].id] = take[t].user
         /\ take'[t].pc = "mismatch" => Owner[take[t].id] # take[t].user
         /\ take'[t].outcome = "Hit" => take[t].outcome = "Hit" \/ take[t].pc = "hit"
         /\ by_id' \subseteq by_id \/ TakeReinsert(t)
<1>1. take \in [Takers -> TakeRecord]
  BY Zenon DEF SlotInv, TypeOK, TakeRecord
<1>2. CASE TakeRemove(t)
  <2>1. PICK p \in TakePc :
          /\ take' = [take EXCEPT ![t].pc = p]
          /\ p = "hit" => Owner[take[t].id] = take[t].user
          /\ p = "mismatch" => Owner[take[t].id] # take[t].user
    BY <1>2, Zenon DEF TakeRemove, Goto, TakePc
  <2>2. take'[t].pc = p /\ take'[t].outcome = take[t].outcome
    BY <1>1, <2>1 DEF TakeRecord
  <2> QED  BY <1>2, <2>1, <2>2, Zenon DEF TakeRemove
<1>3. CASE TakeLookup(t) \/ TakeArm(t) \/ TakeRecheck(t) \/ TakeWoken(t)
  <2>1. PICK p \in TakePc \ {"hit", "mismatch", "expired"} : take' = [take EXCEPT ![t].pc = p]
    BY <1>3 DEF TakeLookup, TakeArm, TakeRecheck, TakeWoken, Goto, TakePc
  <2>2. take'[t].pc = p /\ take'[t].outcome = take[t].outcome
    BY <1>1, <2>1 DEF TakeRecord
  <2>3. by_id' = by_id
    BY <1>3, Zenon DEF TakeLookup, TakeArm, TakeRecheck, TakeWoken
  <2> QED  BY <2>1, <2>2, <2>3
<1>4. CASE TakeAbsent(t) \/ TakeReinsert(t) \/ TakeDetach(t)
  <2>1. PICK p \in TakePc \ {"hit", "mismatch", "expired"}, o \in Outcome :
          /\ \/ take' = [take EXCEPT ![t].pc = p]
             \/ take' = [take EXCEPT ![t].pc = p, ![t].outcome = o]
          /\ o = "Hit" => take[t].pc = "hit"
    BY <1>4 DEF TakeAbsent, TakeReinsert, TakeDetach, Goto, TakePc, Outcome
  <2>2. /\ take'[t].pc = p
        /\ take'[t].outcome \in {take[t].outcome, o}
    <3>1. CASE take' = [take EXCEPT ![t].pc = p]
      BY <1>1, <3>1 DEF TakeRecord
    <3>2. CASE take' = [take EXCEPT ![t].pc = p, ![t].outcome = o]
      BY <1>1, <3>2 DEF TakeRecord
    <3> QED  BY <2>1, <3>1, <3>2
  <2>3. by_id' = by_id \/ TakeReinsert(t)
    BY <1>4 DEF TakeAbsent, TakeDetach
  <2> QED  BY <2>1, <2>2, <2>3, Zenon
<1>5. CASE TakeTimeout(t)
  <2>1. take'[t].pc = "final" /\ take'[t].outcome = take[t].outcome
    BY <1>1, <1>5, Zenon DEF TakeTimeout, TakeRecord
  <2> QED  BY <1>5, <2>1 DEF TakeTimeout
<1> QED  BY <1>2, <1>3, <1>4, <1>5, Zenon DEF TakeStep

(* A step that is no take's leaves every take where it is, commits no entry
   but one that is being parked, and takes no landed park back. *)
LEMMA OthersLeaveTakes ==
  ASSUME SlotInv, Step,
         \A t \in Takers : ~TakeStart(t) /\ ~TakeStep(t) /\ ~TakeTimeout(t)
  PROVE  /\ \A s \in Takers :
              /\ take'[s].pc = take[s].pc /\ take'[s].outcome = take[s].outcome
              /\ take'[s].id = take[s].id /\ take'[s].user = take[s].user
              /\ take'[s].awaited = take[s].awaited
              /\ take'[s].timed_out = take[s].timed_out
         /\ \A i \in Ids : /\ park[i] \in Landed => park'[i] \in Landed
                           /\ i \in by_id' => i \in by_id \/ park[i] = "insert"
                           /\ i \in by_id => i \in by_id' \/ i \in gone'
                           /\ i \in gone => i \in gone' \/ i \in by_id'
<1> USE DEF SlotInv
<1>1. ASSUME NEW k \in Ids, ReservePark(k) \/ AbandonPark(k) \/ ParkIndex(k)
                            \/ ParkEvict(k) \/ ParkDetach(k)
                            \/ ParkInsert(k) \/ ParkRelease(k)
      PROVE  /\ UNCHANGED take
             /\ \A i \in Ids : /\ i \in by_id' => i \in by_id \/ park[i] = "insert"
                               /\ i \in by_id => i \in by_id' \/ i \in gone'
                               /\ i \in gone => i \in gone' \/ i \in by_id'
  <2>1. CASE ReservePark(k) \/ AbandonPark(k) \/ ParkDetach(k) \/ ParkRelease(k)
    BY <2>1, ZenonT(60) DEF ReservePark, AbandonPark, ParkDetach, ParkRelease
  <2>2. CASE ParkIndex(k)
    BY <2>2, Zenon DEF ParkIndex, ListEntry
  <2>3. CASE ParkEvict(k)
    BY <2>3, Zenon DEF ParkEvict
  <2>4. CASE ParkInsert(k)
    BY <2>4 DEF ParkInsert
  <2> QED  BY <1>1, <2>1, <2>2, <2>3, <2>4, Zenon
<1>2. ASSUME NEW k \in Ids, ParkChooseVictim(k)
      PROVE  UNCHANGED <<take, by_id, gone>>
  BY <1>2, ChooseMoves, Zenon
<1>3. ASSUME NEW k \in Ids, ParkNotify(k)
      PROVE  /\ UNCHANGED <<by_id, gone>>
             /\ \A s \in Takers :
                  /\ take'[s].pc = take[s].pc /\ take'[s].outcome = take[s].outcome
                  /\ take'[s].id = take[s].id /\ take'[s].user = take[s].user
                  /\ take'[s].awaited = take[s].awaited
                  /\ take'[s].timed_out = take[s].timed_out
  BY <1>3 DEF ParkNotify, TypeOK
<1>4. CASE SweepCollect \/ SweepRemove \/ SweepDetach \/ Tick \/ UNCHANGED vars
  <2>1. UNCHANGED <<take, park>>
    BY <1>4 DEF SweepCollect, SweepRemove, SweepDetach, Tick, vars
  <2>2. \A i \in Ids : /\ i \in by_id' => i \in by_id
                       /\ i \in by_id => i \in by_id' \/ i \in gone'
                       /\ i \in gone => i \in gone'
    BY <1>4 DEF SweepCollect, SweepRemove, SweepDetach, Tick, vars
  <2> QED  BY <2>1, <2>2
<1>5. ASSUME NEW k \in Ids, ReservePark(k) \/ AbandonPark(k) \/ ParkStep(k)
      PROVE  \A i \in Ids : park[i] \in Landed => park'[i] \in Landed
  BY <1>5, ParkMoves
<1> QED  BY <1>1, <1>2, <1>3, <1>4, <1>5, ZenonT(60) DEF Step, ParkStep

(* One holder per entry, and the right one, after a step.                  *)
LEMMA HolderStep ==
  ASSUME SlotInv, HoldInv, Step
  PROVE  HoldersAlone' /\ OwnersMatch'
<1> USE DEF HoldInv
<1>1. ASSUME NEW t \in Takers, TakeStart(t)
      PROVE  HoldersAlone' /\ OwnersMatch'
  <2>1. ~Holds(t)' /\ take'[t].pc = "fast" /\ take'[t].outcome = "none"
    BY <1>1, StartMoves, Zenon DEF Holds, SlotInv
  <2>2. /\ \A s \in Takers \ {t} : take'[s] = take[s]
        /\ UNCHANGED <<by_id, park>>
    BY <1>1, StartMoves, Zenon DEF SlotInv
  <2>3. \A s \in Takers : Holds(s)' => s # t /\ Holds(s) /\ take'[s] = take[s]
    BY <2>1, <2>2, Zenon DEF Holds
  <2>4. HoldersAlone'
    BY <2>2, <2>3, Zenon DEF HoldersAlone
  <2>5. OwnersMatch'
    BY <2>1, <2>2, Zenon DEF OwnersMatch
  <2> QED  BY <2>4, <2>5
<1>2. ASSUME NEW t \in Takers, TakeStep(t) \/ TakeTimeout(t)
      PROVE  HoldersAlone' /\ OwnersMatch'
  <2>1. /\ take[t].pc # "idle" /\ take'[t].pc # "idle" /\ park' = park
        /\ \A s \in Takers \ {t} : take'[s] = take[s]
        /\ \A s \in Takers : take'[s].id = take[s].id /\ take'[s].user = take[s].user
    BY <1>2, TakeMoves, Zenon DEF SlotInv
  <2>2. /\ take'[t].pc \in {"hit", "mismatch", "expired"} =>
             take[t].id \in by_id /\ by_id' = by_id \ {take[t].id}
        /\ take'[t].pc = "hit" => Owner[take[t].id] = take[t].user
        /\ take'[t].pc = "mismatch" => Owner[take[t].id] # take[t].user
        /\ take'[t].outcome = "Hit" => take[t].outcome = "Hit" \/ take[t].pc = "hit"
        /\ by_id' \subseteq by_id \/ TakeReinsert(t)
    BY <1>2, TakeHolds
  <2>3. take[t].id \in Ids
    BY <2>1, RegistryAssumption, Zenon DEF SlotInv, ClaimsOK
  <2>4. OwnersMatch'
    BY <2>1, <2>2 DEF OwnersMatch
  <2>5. CASE TakeReinsert(t)
    <3>1. /\ take[t].pc = "mismatch" /\ by_id' = by_id \cup {take[t].id}
          /\ take'[t].pc = "done"
      BY <1>2, <2>5, TakeUpdate, Zenon DEF TakeReinsert, SlotInv, TakePc, Outcome
    <3>2. take[t].outcome # "Hit"
      BY <3>1, Zenon DEF OwnersMatch
    <3>3. Holds(t) /\ ~Holds(t)'
      BY <2>2, <3>1, <3>2 DEF Holds
    <3>4. \A s \in Takers : Holds(s)' => s # t /\ Holds(s)
      <4>1. \A s \in Takers \ {t} : Holds(s)' => Holds(s)
        BY <2>1, Zenon DEF Holds
      <4> QED  BY <3>3, <4>1
    <3>5. \A s \in Takers : Holds(s)' => take[s].id # take[t].id
      BY <3>3, <3>4, Zenon DEF HoldersAlone
    <3>6. HoldersAlone'
      <4> SUFFICES ASSUME NEW s \in Takers, Holds(s)'
                   PROVE  /\ take'[s].pc # "idle" /\ take'[s].id \notin by_id'
                          /\ park'[take'[s].id] \in Landed
                          /\ \A r \in Takers : r # s /\ Holds(r)' => take'[r].id # take'[s].id
        BY Zenon DEF HoldersAlone
      <4>1. s # t /\ Holds(s)
        BY <3>4, Zenon
      <4>2. /\ take[s].pc # "idle" /\ take[s].id \notin by_id /\ park[take[s].id] \in Landed
            /\ \A r \in Takers : r # s /\ Holds(r) => take[r].id # take[s].id
        BY <4>1, Zenon DEF HoldersAlone
      <4>3. take'[s] = take[s] /\ take[s].id # take[t].id
        BY <2>1, <3>5, <4>1, Zenon
      <4>4. take'[s].id \notin by_id'
        BY <3>1, <4>2, <4>3, Zenon
      <4>5. \A r \in Takers : r # s /\ Holds(r)' => take'[r].id # take'[s].id
        BY <2>1, <3>4, <4>2, Zenon
      <4> QED  BY <2>1, <4>2, <4>3, <4>4, <4>5, ZenonT(60)
    <3> QED  BY <2>4, <3>6
  <2>6. CASE take'[t].pc \in {"hit", "mismatch", "expired"}
    <3>1. take[t].id \in by_id /\ by_id' = by_id \ {take[t].id}
      BY <2>2, <2>6, Zenon
    <3>2. park[take[t].id] \in Landed
      BY <2>3, <3>1, Zenon DEF SlotInv, NotYetParked, TypeOK, ParkPc, Early, Landed
    <3>3. \A s \in Takers \ {t} : Holds(s)' => Holds(s) /\ take[s].id # take[t].id
      BY <2>1, <3>1, ZenonT(60) DEF Holds, HoldersAlone
    <3>4. HoldersAlone'
      <4> SUFFICES ASSUME NEW s \in Takers, Holds(s)'
                   PROVE  /\ take'[s].pc # "idle" /\ take'[s].id \notin by_id'
                          /\ park'[take'[s].id] \in Landed
                          /\ \A r \in Takers : r # s /\ Holds(r)' => take'[r].id # take'[s].id
        BY DEF HoldersAlone
      <4>1. CASE s = t
        <5>1. \A r \in Takers : r # s /\ Holds(r)' => take'[r].id # take'[s].id
          BY <2>1, <3>3, <4>1, Zenon
        <5> QED  BY <2>1, <3>1, <3>2, <4>1, <5>1, Zenon
      <4>2. CASE s # t
        <5>1. Holds(s) /\ take[s].id # take[t].id /\ take'[s] = take[s]
          BY <2>1, <3>3, <4>2, Zenon
        <5>2. /\ take[s].pc # "idle" /\ take[s].id \notin by_id
              /\ park[take[s].id] \in Landed
              /\ \A r \in Takers : r # s /\ Holds(r) => take[r].id # take[s].id
          BY <5>1, Zenon DEF HoldersAlone
        <5>3. \A r \in Takers : r # s /\ Holds(r)' => take'[r].id # take'[s].id
          BY <2>1, <3>3, <5>1, <5>2, Zenon
        <5> QED  BY <2>1, <3>1, <5>1, <5>2, <5>3, Zenon
      <4> QED  BY <4>1, <4>2, Zenon
    <3> QED  BY <2>4, <3>4
  <2>7. CASE take'[t].pc \notin {"hit", "mismatch", "expired"} /\ ~TakeReinsert(t)
    <3>1. \A s \in Takers : Holds(s)' => Holds(s)
      BY <2>1, <2>2, <2>7, Zenon DEF Holds
    <3>2. HoldersAlone'
      <4> SUFFICES ASSUME NEW s \in Takers, Holds(s)'
                   PROVE  /\ take'[s].pc # "idle" /\ take'[s].id \notin by_id'
                          /\ park'[take'[s].id] \in Landed
                          /\ \A r \in Takers : r # s /\ Holds(r)' => take'[r].id # take'[s].id
        BY DEF HoldersAlone
      <4>1. Holds(s) /\ take'[s].id = take[s].id /\ by_id' \subseteq by_id
        BY <2>1, <2>2, <2>7, <3>1, ZenonT(60)
      <4>2. /\ take[s].pc # "idle" /\ take[s].id \notin by_id /\ park[take[s].id] \in Landed
            /\ \A r \in Takers : r # s /\ Holds(r) => take[r].id # take[s].id
        BY <4>1, Zenon DEF HoldersAlone
      <4>3. take'[s].pc # "idle"
        BY <2>1, <4>2, Zenon
      <4>4. \A r \in Takers : r # s /\ Holds(r)' => take'[r].id # take'[s].id
        BY <2>1, <3>1, <4>2
      <4> QED  BY <2>1, <4>1, <4>2, <4>3, <4>4, Zenon
    <3> QED  BY <2>4, <3>2
  <2> QED  BY <2>5, <2>6, <2>7, Zenon
<1>3. CASE \A t \in Takers : ~TakeStart(t) /\ ~TakeStep(t) /\ ~TakeTimeout(t)
  <2>1. /\ \A s \in Takers :
             /\ take'[s].pc = take[s].pc /\ take'[s].outcome = take[s].outcome
             /\ take'[s].id = take[s].id /\ take'[s].user = take[s].user
        /\ \A i \in Ids : /\ park[i] \in Landed => park'[i] \in Landed
                          /\ i \in by_id' => i \in by_id \/ park[i] = "insert"
    BY <1>3, OthersLeaveTakes, Zenon
  <2>2. \A s \in Takers : Holds(s)' <=> Holds(s)
    BY <2>1 DEF Holds
  <2>3. \A s \in Takers : take[s].pc # "idle" => take[s].id \in Ids
    BY RegistryAssumption, Zenon DEF SlotInv, ClaimsOK
  <2>4. HoldersAlone'
    <3> SUFFICES ASSUME NEW s \in Takers, Holds(s)'
                 PROVE  /\ take'[s].pc # "idle" /\ take'[s].id \notin by_id'
                        /\ park'[take'[s].id] \in Landed
                        /\ \A r \in Takers : r # s /\ Holds(r)' => take'[r].id # take'[s].id
      BY Zenon DEF HoldersAlone
    <3>1. Holds(s) /\ take'[s].id = take[s].id /\ take'[s].pc = take[s].pc
      BY <2>1, <2>2, Zenon
    <3>2. /\ take[s].pc # "idle" /\ take[s].id \notin by_id /\ park[take[s].id] \in Landed
          /\ \A r \in Takers : r # s /\ Holds(r) => take[r].id # take[s].id
      BY <3>1, Zenon DEF HoldersAlone
    <3>3. take[s].id \in Ids
      BY <2>3, <3>2, Zenon
    <3>4. take'[s].id \notin by_id' /\ park'[take'[s].id] \in Landed
      BY <2>1, <3>1, <3>2, <3>3, ZenonT(60) DEF Landed
    <3>5. \A r \in Takers : r # s /\ Holds(r)' => take'[r].id # take'[s].id
      BY <2>1, <2>2, <3>2, Zenon
    <3> QED  BY <3>1, <3>2, <3>4, <3>5, Zenon
  <2>5. OwnersMatch'
    BY <2>1, ZenonT(60) DEF OwnersMatch
  <2> QED  BY <2>4, <2>5, Zenon
<1> QED  BY <1>1, <1>2, <1>3

(* A park or the sweep gets hold of an entry by removing it from the map.  *)
LEMMA RemovedMoves ==
  ASSUME SlotInv, Step, NEW i \in Ids, Removed(i)'
  PROVE  Removed(i) \/ (i \in by_id /\ i \notin by_id' /\ UNCHANGED take)
<1> USE DEF SlotInv
<1>1. ASSUME NEW k \in Ids, ParkChooseVictim(k)
      PROVE  Removed(i)
  BY <1>1, ChooseMoves, ParkMoves, Zenon DEF ParkStep, Removed
<1>2. ASSUME NEW k \in Ids, ParkEvict(k)
      PROVE  Removed(i) \/ (i \in by_id /\ i \notin by_id' /\ UNCHANGED take)
  <2>1. /\ by_id' = by_id \ {victim[k]} /\ UNCHANGED <<victim, take, sweep>>
        /\ park'[k] = "detach" => victim[k] \in by_id
        /\ \A j \in Ids \ {k} : park'[j] = park[j]
    BY <1>2, Zenon DEF ParkEvict, TypeOK
  <2> QED  BY <2>1, Zenon DEF Removed
<1>3. ASSUME NEW k \in Ids, ReservePark(k) \/ AbandonPark(k) \/ ParkIndex(k)
                            \/ ParkDetach(k) \/ ParkInsert(k) \/ ParkRelease(k)
                            \/ ParkNotify(k)
      PROVE  Removed(i)
  <2>1. /\ park'[k] # "detach" /\ UNCHANGED <<victim, sweep>>
        /\ \A j \in Ids \ {k} : park'[j] = park[j]
    <3>1. CASE ReservePark(k) \/ AbandonPark(k) \/ ParkIndex(k)
      BY <3>1, SMTT(60) DEF TypeOK, ReservePark, AbandonPark, ParkIndex, ListEntry
    <3>2. CASE ParkDetach(k) \/ ParkInsert(k) \/ ParkRelease(k) \/ ParkNotify(k)
      BY <3>2, SMTT(60) DEF TypeOK, ParkDetach, ParkInsert, ParkRelease, ParkNotify
    <3> QED  BY <1>3, <3>1, <3>2, Zenon
  <2> QED  BY <2>1, Zenon DEF Removed
<1>4. ASSUME NEW t \in Takers, TakeStart(t) \/ TakeStep(t) \/ TakeTimeout(t)
      PROVE  Removed(i)
  <2>1. UNCHANGED <<park, victim, sweep>>
    BY <1>4, StartMoves, TakeMoves, Zenon
  <2> QED  BY <2>1, Zenon DEF Removed
<1>5. CASE SweepRemove
  <2>1. PICK k \in sweep.todo : /\ sweep' = [todo |-> sweep.todo \ {k},
                                             removed |-> IF k \in by_id THEN k ELSE None]
                                /\ by_id' = by_id \ {k}
    BY <1>5, Zenon DEF SweepRemove
  <2>2. UNCHANGED <<park, victim, take>>
    BY <1>5, Zenon DEF SweepRemove
  <2>3. sweep'.removed = i => i = k /\ k \in by_id
    BY <2>1, RegistryAssumption, Zenon
  <2> QED  BY <2>1, <2>2, <2>3, Zenon DEF Removed
<1>6. CASE SweepDetach
  <2>1. sweep'.removed = None /\ UNCHANGED <<park, victim>>
    BY <1>6, Zenon DEF SweepDetach, TypeOK
  <2> QED  BY <2>1, RegistryAssumption, Zenon DEF Removed
<1>7. CASE SweepCollect
  <2>1. sweep'.removed = sweep.removed /\ UNCHANGED <<park, victim>>
    BY <1>7, Zenon DEF SweepCollect, TypeOK
  <2> QED  BY <2>1, Zenon DEF Removed
<1>8. CASE Tick \/ UNCHANGED vars
  BY <1>8, Zenon DEF Tick, vars, Removed
<1> QED  BY <1>1, <1>2, <1>3, <1>4, <1>5, <1>6, <1>7, <1>8, Zenon DEF Step, ParkStep

(* Where an entry of the map, and one that a take has, came from.          *)
LEMMA EntryMoves ==
  ASSUME SlotInv, Step
  PROVE  /\ \A i \in Ids : i \in by_id' =>
              \/ i \in by_id \/ park[i] = "insert"
              \/ \E t \in Takers : take[t].pc = "mismatch" /\ take[t].id = i
         /\ \A t \in Takers : Holds(t)' =>
              take'[t].id = take[t].id /\ (Holds(t) \/ take[t].id \in by_id)
<1>1. ASSUME NEW t \in Takers, TakeStart(t)
      PROVE  /\ by_id' = by_id
             /\ \A s \in Takers : Holds(s)' => Holds(s) /\ take'[s].id = take[s].id
  <2>1. /\ ~Holds(t)' /\ by_id' = by_id
        /\ \A s \in Takers \ {t} : take'[s] = take[s]
    BY <1>1, StartMoves, Zenon DEF Holds, SlotInv
  <2> QED  BY <2>1, Zenon DEF Holds
<1>2. ASSUME NEW t \in Takers, TakeStep(t) \/ TakeTimeout(t)
      PROVE  /\ \A i \in by_id' : i \in by_id \/ (take[t].pc = "mismatch" /\ take[t].id = i)
             /\ \A s \in Takers : Holds(s)' =>
                  take'[s].id = take[s].id /\ (Holds(s) \/ take[s].id \in by_id)
  <2>1. /\ \A s \in Takers \ {t} : take'[s] = take[s]
        /\ \A s \in Takers : take'[s].id = take[s].id
    BY <1>2, TakeMoves, Zenon DEF SlotInv
  <2>2. \A i \in by_id' : i \in by_id \/ (take[t].pc = "mismatch" /\ take[t].id = i)
    BY <1>2, TakeEffects, Zenon DEF SlotInv
  <2>3. Holds(t)' => Holds(t) \/ take[t].id \in by_id
    BY <1>2, TakeHolds, Zenon DEF Holds
  <2> QED  BY <2>1, <2>2, <2>3, Zenon DEF Holds
<1>3. CASE \A t \in Takers : ~TakeStart(t) /\ ~TakeStep(t) /\ ~TakeTimeout(t)
  <2>1. /\ \A s \in Takers :
             /\ take'[s].pc = take[s].pc /\ take'[s].outcome = take[s].outcome
             /\ take'[s].id = take[s].id
        /\ \A i \in Ids : i \in by_id' => i \in by_id \/ park[i] = "insert"
    BY <1>3, OthersLeaveTakes, Zenon
  <2> QED  BY <2>1, Zenon DEF Holds
<1> QED  BY <1>1, <1>2, <1>3, ZenonT(60)

(* What is in the map, or with a take, is still with nobody else.          *)
LEMMA ApartStep ==
  ASSUME SlotInv, HoldInv, Step
  PROVE  RemovedApart'
<1>1. ASSUME NEW i \in Ids, i \in by_id', Removed(i)'
      PROVE  FALSE
  <2>1. Removed(i)
    BY <1>1, RemovedMoves, Zenon
  <2>2. i \notin by_id
    BY <2>1, Zenon DEF HoldInv, RemovedApart
  <2>3. park[i] # "insert"
    BY <2>1 DEF SlotInv, NotYetParked, Early, InHand, Removed
  <2>4. \A t \in Takers : take[t].pc = "mismatch" => take[t].id # i
    BY <2>1, Zenon DEF HoldInv, RemovedApart, Holds
  <2> QED  BY <1>1, <2>2, <2>3, <2>4, EntryMoves, Zenon
<1>2. ASSUME NEW t \in Takers, Holds(t)'
      PROVE  take'[t].id \in Ids /\ (Holds(t) \/ take[t].id \in by_id)
  <2>1. take'[t].id = take[t].id /\ (Holds(t) \/ take[t].id \in by_id)
    BY <1>2, EntryMoves, Zenon
  <2>2. CASE take[t].id \in by_id
    BY <2>1, <2>2, Zenon DEF SlotInv, TypeOK
  <2>3. CASE Holds(t)
    BY <2>1, <2>3, RegistryAssumption, Zenon DEF HoldInv, HoldersAlone, SlotInv, ClaimsOK
  <2> QED  BY <2>1, <2>2, <2>3
<1>3. ASSUME NEW t \in Takers, Holds(t)', NEW i \in Ids, take'[t].id = i, Removed(i)'
      PROVE  FALSE
  <2>1. take[t].id = i /\ (Holds(t) \/ i \in by_id)
    BY <1>3, EntryMoves, Zenon
  <2>2. ~Removed(i)
    BY <2>1, Zenon DEF HoldInv, RemovedApart
  <2>3. i \in by_id /\ UNCHANGED take
    BY <1>3, <2>2, RemovedMoves, Zenon
  <2>4. Holds(t)
    BY <1>3, <2>3, Zenon DEF Holds
  <2> QED  BY <2>1, <2>3, <2>4, Zenon DEF HoldInv, HoldersAlone
<1>4. by_id' \subseteq Ids
  BY TypeStep, Zenon DEF TypeOK
<1>5. \A t \in Takers : Holds(t)' => ~Removed(take[t].id)'
  <2> SUFFICES ASSUME NEW t \in Takers, Holds(t)', Removed(take[t].id)'
               PROVE  FALSE
    OBVIOUS
  <2>1. PICK i \in Ids : take'[t].id = i
    BY <1>2, Zenon
  <2>2. Removed(i)'
    BY <2>1, Zenon DEF Removed
  <2> QED  BY <1>3, <2>1, <2>2, Zenon
<1> QED  BY <1>1, <1>4, <1>5, Zenon DEF RemovedApart

LEMMA HoldStep ==
  ASSUME SlotInv, HoldInv, Step
  PROVE  HoldInv'
BY HolderStep, ApartStep, Zenon DEF HoldInv

-----------------------------------------------------------------------------
(* What a take step does to the entry it is about, and to no other.        *)
LEMMA TakeAccounts ==
  ASSUME SlotInv, NEW t \in Takers, TakeStep(t) \/ TakeTimeout(t)
  PROVE  \/ TakeRemove(t) /\ (take[t].id \in gone' \/ take'[t].pc = "mismatch")
            /\ by_id' = by_id \ {take[t].id} /\ gone \subseteq gone'
            /\ take[t].pc # "mismatch"
         \/ by_id' = by_id \cup {take[t].id} /\ gone' = gone
         \/ by_id' = by_id /\ gone' = gone /\ take[t].pc # "mismatch"
<1>1. CASE TakeRemove(t)
  BY <1>1 DEF TakeRemove, Goto, SlotInv, TypeOK
<1>2. CASE TakeReinsert(t)
  BY <1>2 DEF TakeReinsert
<1>3. CASE ~TakeRemove(t) /\ ~TakeReinsert(t)
  BY <1>3 DEF TakeStep, TakeAbsent, TakeLookup, TakeArm, TakeRecheck, TakeWoken,
              TakeDetach, TakeTimeout
<1> QED  BY <1>1, <1>2, <1>3, Zenon

(* An entry that is accounted for stays so: out of the map it is gone, or with
   a take that will put it back. *)
LEMMA AccountedStays ==
  ASSUME SlotInv, Step, NEW i \in Ids, Accounted(i)
  PROVE  Accounted(i)'
<1>1. ASSUME NEW t \in Takers, TakeStart(t)
      PROVE  Accounted(i)'
  <2>1. /\ take[t].pc = "idle" /\ \A s \in Takers \ {t} : take'[s] = take[s]
        /\ UNCHANGED <<by_id, gone>>
    BY <1>1, StartMoves, Zenon DEF SlotInv
  <2> QED  BY <2>1 DEF Accounted
<1>2. ASSUME NEW t \in Takers, TakeStep(t) \/ TakeTimeout(t)
      PROVE  Accounted(i)'
  <2>1. /\ \A s \in Takers \ {t} : take'[s] = take[s]
        /\ \A s \in Takers : take'[s].id = take[s].id
    BY <1>2, TakeMoves, Zenon DEF SlotInv
  <2> QED  BY <1>2, <2>1, TakeAccounts, ZenonT(60) DEF Accounted
<1>3. CASE \A t \in Takers : ~TakeStart(t) /\ ~TakeStep(t) /\ ~TakeTimeout(t)
  <2>1. /\ \A s \in Takers : take'[s].pc = take[s].pc /\ take'[s].id = take[s].id
        /\ i \in by_id => i \in by_id' \/ i \in gone'
        /\ i \in gone => i \in gone' \/ i \in by_id'
    BY <1>3, OthersLeaveTakes, ZenonT(60)
  <2> QED  BY <2>1, Zenon DEF Accounted
<1> QED  BY <1>1, <1>2, <1>3, Zenon

(* A park that has landed is accounted for.                                *)
LEMMA LandedStep ==
  ASSUME SlotInv, AwaitInv, Step, NEW i \in Ids, park'[i] \in Landed
  PROVE  Accounted(i)'
<1>1. CASE park[i] \in Landed
  BY <1>1, AccountedStays, Zenon DEF AwaitInv
<1>2. CASE park[i] \notin Landed
  <2>1. ASSUME NEW k \in Ids, ReservePark(k) \/ AbandonPark(k) \/ ParkStep(k)
        PROVE  AbandonPark(i) \/ ParkInsert(i)
    <3>1. k = i
      BY <1>2, <2>1, ParkMoves, Zenon DEF SlotInv
    <3>2. CASE ParkChooseVictim(i)
      BY <1>2, <3>2, ChooseMoves, Zenon DEF SlotInv, Landed
    <3>3. CASE ~ParkChooseVictim(i)
      BY <1>2, <2>1, <3>1, <3>3, Zenon
         DEF ReservePark, ParkStep, ParkIndex, ListEntry, ParkEvict, ParkDetach, ParkRelease,
             ParkNotify, SlotInv, TypeOK, Landed
    <3> QED  BY <3>2, <3>3, Zenon
  <2>2. ASSUME NEW t \in Takers, TakeStart(t) \/ TakeStep(t) \/ TakeTimeout(t)
        PROVE  FALSE
    BY <1>2, <2>2, StartMoves, TakeMoves, Zenon DEF SlotInv
  <2>3. ASSUME SweepCollect \/ SweepRemove \/ SweepDetach \/ Tick \/ UNCHANGED vars
        PROVE  FALSE
    BY <1>2, <2>3 DEF SweepCollect, SweepRemove, SweepDetach, Tick, vars
  <2>4. AbandonPark(i) \/ ParkInsert(i)
    BY <2>1, <2>2, <2>3 DEF Step
  <2> QED  BY <2>4, Zenon DEF AbandonPark, ParkInsert, Accounted
<1> QED  BY <1>1, <1>2, Zenon

(* A reservation is released by a park that has landed.                    *)
LEMMA ReservedStays ==
  ASSUME SlotInv, AwaitInv, Step, NEW i \in reservations
  PROVE  i \in reservations' \/ Accounted(i)'
<1>0. i \in Ids
  BY Zenon DEF SlotInv, TypeOK
<1>1. CASE ParkRelease(i)
  BY <1>0, <1>1, AccountedStays, Zenon DEF ParkRelease, AwaitInv, Landed
<1>2. CASE ~ParkRelease(i)
  <2>1. ASSUME NEW k \in Ids, ReservePark(k) \/ AbandonPark(k) \/ ParkStep(k)
        PROVE  i \in reservations'
    BY <1>2, <2>1, Zenon DEF ReservePark, AbandonPark, ParkStep, ParkIndex, ListEntry, ParkChooseVictim,
                      ParkEvict, ParkDetach, ParkInsert, ParkRelease, ParkNotify
  <2>2. ASSUME NEW t \in Takers, TakeStart(t) \/ TakeStep(t) \/ TakeTimeout(t)
        PROVE  i \in reservations'
    BY <2>2, StartMoves, TakeMoves, ZenonT(60) DEF SlotInv
  <2>3. CASE SweepCollect \/ SweepRemove \/ SweepDetach \/ Tick \/ UNCHANGED vars
    BY <2>3 DEF SweepCollect, SweepRemove, SweepDetach, Tick, vars
  <2> QED  BY <2>1, <2>2, <2>3, Zenon DEF Step
<1> QED  BY <1>1, <1>2

(* The last look at the map is taken after the reservation was seen released,
   after the wakeup, or after the timeout. *)
LEMMA FinalLook ==
  ASSUME SlotInv, NEW t \in Takers, TakeStep(t) \/ TakeTimeout(t),
         take'[t].pc = "final", ~take'[t].timed_out
  PROVE  take[t].id \notin reservations \/ take[t].woken
<1>1. take \in [Takers -> TakeRecord]
  BY Zenon DEF SlotInv, TypeOK, TakeRecord
<1>2. CASE TakeLookup(t) \/ TakeRecheck(t) \/ TakeWoken(t)
  BY <1>1, <1>2 DEF TakeLookup, TakeRecheck, TakeWoken, Goto, TakeRecord
<1>3. CASE TakeArm(t)
  BY <1>1, <1>3, Zenon DEF TakeArm, Goto, TakeRecord
<1>4. CASE TakeTimeout(t)
  <2> DEFINE m == [take EXCEPT ![t].pc = "final"]
  <2>1. m \in [Takers -> TakeRecord]
    BY <1>1 DEF TakeRecord, TakePc
  <2> HIDE DEF m
  <2>2. take' = [m EXCEPT ![t].timed_out = TRUE]
    BY <1>4 DEF TakeTimeout, m
  <2>3. take'[t].timed_out = TRUE
    BY <2>1, <2>2 DEF TakeRecord
  <2> QED  BY <2>3, Zenon
<1>5. CASE TakeRemove(t)
  BY <1>1, <1>5 DEF TakeRemove, Goto, TakeRecord
<1>6. CASE TakeAbsent(t) \/ TakeReinsert(t) \/ TakeDetach(t)
  <2>1. PICK p \in TakePc \ {"final"}, o \in Outcome :
          \/ take' = [take EXCEPT ![t].pc = p]
          \/ take' = [take EXCEPT ![t].pc = p, ![t].outcome = o]
    BY <1>6 DEF TakeAbsent, TakeReinsert, TakeDetach, Goto, TakePc, Outcome
  <2>2. take'[t].pc = p
    <3>1. CASE take' = [take EXCEPT ![t].pc = p]
      BY <1>1, <3>1 DEF TakeRecord
    <3>2. CASE take' = [take EXCEPT ![t].pc = p, ![t].outcome = o]
      BY <1>1, <3>2, Zenon DEF TakeRecord
    <3> QED  BY <2>1, <3>1, <3>2
  <2> QED  BY <2>1, <2>2, Zenon
<1> QED  BY <1>2, <1>3, <1>4, <1>5, <1>6, Zenon DEF TakeStep

(* What a redial may rely on after a step.                                 *)
LEMMA AwaitStep ==
  ASSUME SlotInv, AwaitInv, Step
  PROVE  AwaitInv'
<1>1. \A i \in Ids : park'[i] \in Landed => Accounted(i)'
  BY LandedStep
<1>2. \A t \in Takers : take[t].pc # "idle" => take[t].id \in Ids
  BY RegistryAssumption, Zenon DEF SlotInv, ClaimsOK
<1> DEFINE Served(t) ==
      /\ take[t].awaited => take[t].id \in reservations \/ Accounted(take[t].id)
      /\ take[t].woken => Accounted(take[t].id)
      /\ take[t].pc = "final" /\ take[t].awaited /\ ~take[t].timed_out
           => Accounted(take[t].id)
<1>3. \A t \in Takers : take[t].pc # "idle" => Served(t)
  BY Zenon DEF AwaitInv
<1>4. ASSUME NEW s \in Takers, take[s].pc # "idle", take'[s].id = take[s].id
      PROVE  /\ Accounted(take[s].id) => Accounted(take[s].id)'
             /\ take[s].id \in reservations
                  => (take[s].id \in reservations \/ Accounted(take[s].id))'
  <2>1. PICK i \in Ids : take[s].id = i /\ take'[s].id = i
    BY <1>2, <1>4
  <2>2. Accounted(i) => Accounted(i)'
    BY AccountedStays
  <2>3. i \in reservations => i \in reservations' \/ Accounted(i)'
    BY ReservedStays, Zenon
  <2> QED  BY <2>1, <2>2, <2>3, ZenonT(60) DEF Accounted
<1>5. SUFFICES ASSUME NEW s \in Takers, take'[s].pc # "idle"
               PROVE  Served(s)'
  BY <1>1, ZenonT(60) DEF AwaitInv
<1>6. CASE take'[s] = take[s]
  BY <1>3, <1>4, <1>5, <1>6, Zenon
<1>7. CASE TakeStart(s)
  <2>1. /\ take'[s].pc = "fast" /\ ~take'[s].woken
        /\ take'[s].awaited = (take'[s].id \in reservations \cup by_id)
        /\ UNCHANGED <<reservations, by_id>>
    BY <1>7, StartMoves, Zenon DEF SlotInv
  <2> QED  BY <2>1, Zenon DEF Accounted
<1>8. CASE TakeStep(s) \/ TakeTimeout(s)
  <2>1. /\ take[s].pc # "idle" /\ take'[s].id = take[s].id
        /\ take'[s].awaited = take[s].awaited /\ take'[s].woken = take[s].woken
    BY <1>8, TakeMoves, ZenonT(60) DEF SlotInv
  <2>2. take'[s].pc = "final" /\ ~take'[s].timed_out
          => take[s].id \notin reservations \/ take[s].woken
    BY <1>8, FinalLook, ZenonT(60)
  <2>3. Served(s)
    BY <1>3, <2>1, Zenon
  <2> QED  BY <1>4, <2>1, <2>2, <2>3, ZenonT(60)
<1>9. ASSUME NEW i \in Ids, ParkNotify(i)
      PROVE  Served(s)'
  <2>1. /\ take'[s].id = take[s].id /\ take'[s].pc = take[s].pc
        /\ take'[s].awaited = take[s].awaited /\ take'[s].timed_out = take[s].timed_out
        /\ take'[s].woken => take[s].woken \/ take[s].id = i
    BY <1>9 DEF ParkNotify, SlotInv, TypeOK
  <2>2. Accounted(i)
    BY <1>9, Zenon DEF ParkNotify, AwaitInv, Landed
  <2>3. Served(s)
    BY <1>3, <1>5, <2>1, Zenon
  <2>4. take[s].id = i => Accounted(take[s].id)
    BY <2>2
  <2> QED  BY <1>4, <1>5, <2>1, <2>3, <2>4, Zenon
<1>10. \/ take'[s] = take[s] \/ TakeStart(s) \/ TakeStep(s) \/ TakeTimeout(s)
       \/ \E i \in Ids : ParkNotify(i)
  <2>1. ASSUME NEW t \in Takers, TakeStart(t) \/ TakeStep(t) \/ TakeTimeout(t), s # t
        PROVE  take'[s] = take[s]
    BY <2>1, StartMoves, TakeMoves, Zenon DEF SlotInv
  <2>2. ASSUME NEW i \in Ids, ReservePark(i) \/ AbandonPark(i) \/ ParkStep(i), ~ParkNotify(i)
        PROVE  UNCHANGED take
    BY <2>2, Zenon DEF ReservePark, AbandonPark, ParkStep, ParkIndex, ListEntry, ParkChooseVictim,
                ParkEvict, ParkDetach, ParkInsert, ParkRelease
  <2>3. ASSUME SweepCollect \/ SweepRemove \/ SweepDetach \/ Tick \/ UNCHANGED vars
        PROVE  UNCHANGED take
    BY <2>3 DEF SweepCollect, SweepRemove, SweepDetach, Tick, vars
  <2> QED  BY <2>1, <2>2, <2>3, Zenon DEF Step
<1> QED  BY <1>6, <1>7, <1>8, <1>9, <1>10, Zenon

-----------------------------------------------------------------------------
(* A re-park finds the entry with its take alone: neither committed nor in
   anybody's hand nor listed. *)
LEMMA ReParkAlone ==
  ASSUME IInv, NEW t \in Takers, RePark(t), NEW i, i = take[t].id
  PROVE  /\ i \in Ids /\ i \notin by_id /\ ~InHand(i) /\ ~Removed(i)
         /\ \A s \in Takers : Holds(s) /\ s # t => take[s].id # i
         /\ \A u \in Users : i \notin Range(per_user[u])
<1>1. take[t].pc = "done" /\ take[t].outcome = "Hit" /\ park[i] = "done" /\ Holds(t)
  BY Zenon DEF RePark, Holds
<1>2. /\ i \notin by_id /\ ~Removed(i)
      /\ \A s \in Takers : Holds(s) /\ s # t => take[s].id # i
  BY <1>1, Zenon DEF IInv, HoldInv, HoldersAlone, RemovedApart
<1>3. i \in Ids
  BY <1>1, RegistryAssumption DEF IInv, SlotInv, ClaimsOK
<1>4. ~InHand(i)
  BY <1>1, <1>2 DEF InHand, Removed, Holds
<1>5. \A u \in Users : i \notin Range(per_user[u])
  BY <1>1, <1>2, <1>4 DEF IInv, SlotInv, NoStaleSlot
<1> QED  BY <1>2, <1>3, <1>4, <1>5

(* What a re-park changes.                                                 *)
LEMMA ReParkMoves ==
  ASSUME IInv, NEW t \in Takers, RePark(t), NEW i, i = take[t].id
  PROVE  /\ take' \in [Takers -> TakeRecord] /\ take'[t].outcome = "Returned"
         /\ \A s \in Takers \ {t} : take'[s] = take[s]
         /\ \A s \in Takers : /\ take'[s].id = take[s].id /\ take'[s].user = take[s].user
                               /\ take'[s].pc = take[s].pc
                               /\ take'[s].awaited = take[s].awaited
                               /\ take'[s].woken = take[s].woken
                               /\ take'[s].timed_out = take[s].timed_out
         /\ park' \in [Ids -> ParkPc] /\ park'[i] = "indexed" /\ park[i] = "done"
         /\ \A j \in Ids \ {i} : park'[j] = park[j]
         /\ UNCHANGED <<reservations, clock, victim, sweep>>
         /\ ListEntry(i) /\ i \in Ids
<1>1. i \in Ids
  BY ReParkAlone
<1>2. take \in [Takers -> TakeRecord] /\ "Returned" \in Outcome /\ "indexed" \in ParkPc
  BY Zenon DEF IInv, SlotInv, TypeOK, TakeRecord, Outcome, ParkPc
<1>3. take' = [take EXCEPT ![t].outcome = "Returned"] /\ ListEntry(i) /\ park[i] = "done"
  BY Zenon DEF RePark
<1>4. /\ take' \in [Takers -> TakeRecord] /\ take'[t].outcome = "Returned"
      /\ \A s \in Takers \ {t} : take'[s] = take[s]
      /\ \A s \in Takers : /\ take'[s].id = take[s].id /\ take'[s].user = take[s].user
                            /\ take'[s].pc = take[s].pc
                            /\ take'[s].awaited = take[s].awaited
                            /\ take'[s].woken = take[s].woken
                            /\ take'[s].timed_out = take[s].timed_out
  BY <1>2, <1>3, SMTT(60) DEF TakeRecord
<1>5. park' = [park EXCEPT ![i] = "indexed"] /\ UNCHANGED <<reservations, clock, victim, sweep>>
  BY <1>3, Zenon DEF ListEntry
<1>6. /\ park' \in [Ids -> ParkPc] /\ park'[i] = "indexed"
      /\ \A j \in Ids \ {i} : park'[j] = park[j]
  BY <1>1, <1>2, <1>5 DEF IInv, SlotInv, TypeOK
<1> QED  BY <1>1, <1>3, <1>4, <1>5, <1>6, Zenon

(* A re-park keeps the invariant.                                          *)
LEMMA ReParkStep ==
  ASSUME IInv, NEW t \in Takers, RePark(t)
  PROVE  IInv'
<1> DEFINE i == take[t].id
<1> USE DEF IInv, SlotInv
<1>1. /\ i \in Ids /\ i \notin by_id /\ ~InHand(i) /\ ~Removed(i)
      /\ \A s \in Takers : Holds(s) /\ s # t => take[s].id # i
      /\ \A u \in Users : i \notin Range(per_user[u])
  BY ReParkAlone
<1>2. /\ take' \in [Takers -> TakeRecord] /\ take'[t].outcome = "Returned"
      /\ \A s \in Takers \ {t} : take'[s] = take[s]
      /\ \A s \in Takers : /\ take'[s].id = take[s].id /\ take'[s].user = take[s].user
                            /\ take'[s].pc = take[s].pc
                            /\ take'[s].awaited = take[s].awaited
                            /\ take'[s].woken = take[s].woken
                            /\ take'[s].timed_out = take[s].timed_out
      /\ park' \in [Ids -> ParkPc] /\ park'[i] = "indexed" /\ park[i] = "done"
      /\ \A j \in Ids \ {i} : park'[j] = park[j]
      /\ UNCHANGED <<reservations, clock, victim, sweep>>
      /\ ListEntry(i)
  BY ReParkMoves, Zenon
<1>3. Owner[i] \in Users
  BY <1>1, RegistryAssumption
<1>4. /\ per_user' \in [Users -> Seq(Ids)]
      /\ SlotsWithinCap'
      /\ \A u \in Users : Range(per_user'[u]) \subseteq Range(per_user[u]) \cup {i}
      /\ \A u \in Users : Len(per_user[Owner[i]]) >= PerUserCap =>
           /\ Head(per_user[Owner[i]]) \in Ids
           /\ Head(per_user[Owner[i]]) \notin Range(per_user'[u])
  BY <1>1, <1>2, <1>3, IndexProperties
<1>5. /\ by_id' \subseteq by_id /\ gone \subseteq gone' /\ gone' \subseteq gone \cup by_id
      /\ by_id \subseteq by_id' \cup gone'
      /\ \A u \in Users : \A x \in Range(per_user'[u]) : x \in by_id => x \in by_id'
      /\ deadline' \in [Ids -> Nat]
  <2>1. /\ by_id' \subseteq by_id /\ gone \subseteq gone' /\ gone' \subseteq gone \cup by_id
        /\ by_id \subseteq by_id' \cup gone'
    BY <1>2 DEF ListEntry
  <2>2. \A u \in Users : \A x \in Range(per_user'[u]) : x \in by_id => x \in by_id'
    <3>1. by_id' = IF Len(per_user[Owner[i]]) >= PerUserCap
                     THEN by_id \ {Head(per_user[Owner[i]])} ELSE by_id
      BY <1>2, Zenon DEF ListEntry
    <3> HIDE DEF i
    <3> QED  BY <1>4, <3>1, Zenon
  <2>3. deadline' = [deadline EXCEPT ![i] = clock + Ttl[i]]
    BY <1>2, Zenon DEF ListEntry
  <2>4. clock + Ttl[i] \in Nat
    BY <1>1, RegistryAssumption DEF TypeOK
  <2>5. deadline' \in [Ids -> Nat]
    BY <2>3, <2>4, Zenon DEF TypeOK
  <2> QED  BY <2>1, <2>2, <2>5, Zenon
<1> HIDE DEF i
<1>6. TypeOK'
  <2>1. by_id' \subseteq Ids /\ gone' \subseteq Ids
    BY <1>5 DEF TypeOK
  <2> QED  BY <1>2, <1>4, <1>5, <2>1, Zenon DEF TypeOK, TakeRecord
<1>7. ClaimsOK'
  <2>1. \A s \in Takers : take'[s].pc # "idle" => <<take'[s].id, take'[s].user>> \in Claims
    BY <1>2, Zenon DEF ClaimsOK
  <2>2. \A j \in Ids : park'[j] \in {"evict", "detach"} => victim'[j] \in Ids
    BY <1>2 DEF ClaimsOK
  <2> QED  BY <2>1, <2>2, Zenon DEF ClaimsOK
<1>8. \A j \in Ids : (InHand(j)' <=> InHand(j)) /\ (Removed(j)' <=> Removed(j))
  <2>1. \A j \in Ids : park'[j] = "detach" <=> park[j] = "detach"
    BY <1>2
  <2> QED  BY <1>2, <2>1, ZenonT(60) DEF InHand, Removed
<1>9. NotYetParked'
  <2> SUFFICES ASSUME NEW j \in Ids, park'[j] \in Early
               PROVE  j \notin by_id' /\ ~InHand(j)'
    BY Zenon DEF NotYetParked
  <2>1. CASE j = i
    BY <1>1, <1>5, <1>8, <2>1, Zenon
  <2>2. CASE j # i
    BY <1>2, <1>5, <1>8, <2>2, Zenon DEF NotYetParked
  <2> QED  BY <2>1, <2>2
<1>10. NoStaleSlot'
  <2> SUFFICES ASSUME NEW u \in Users, NEW x \in Range(per_user'[u])
               PROVE  Backed(x)'
    BY Zenon DEF NoStaleSlot, Backed
  <2>1. x \in Ids
    BY <1>4, RangeOfSeq
  <2>2. CASE x = i
    BY <1>2, <2>2 DEF Backed
  <2>3. CASE x # i
    <3>1. Backed(x) /\ park'[x] = park[x]
      BY <1>2, <1>4, <2>1, <2>3, Zenon DEF NoStaleSlot, Backed
    <3>2. x \in by_id => x \in by_id'
      BY <1>5, Zenon
    <3> QED  BY <1>8, <2>1, <3>1, <3>2, Zenon DEF Backed
  <2> QED  BY <2>2, <2>3
<1>11. \A s \in Takers : Holds(s)' => s # t /\ Holds(s) /\ take[s].id # i /\ take[s].id \in Ids
  <2>1. ~Holds(t)'
    BY <1>2 DEF Holds, RePark
  <2>2. \A s \in Takers \ {t} : Holds(s)' => Holds(s)
    BY <1>2, Zenon DEF Holds
  <2>3. \A s \in Takers : Holds(s) => take[s].id \in Ids
    BY RegistryAssumption, Zenon DEF HoldInv, HoldersAlone, ClaimsOK
  <2> QED  BY <1>1, <2>1, <2>2, <2>3, Zenon
<1>12. HoldersAlone'
  <2> SUFFICES ASSUME NEW s \in Takers, Holds(s)'
               PROVE  /\ take'[s].pc # "idle" /\ take'[s].id \notin by_id'
                      /\ park'[take'[s].id] \in Landed
                      /\ \A r \in Takers : r # s /\ Holds(r)' => take'[r].id # take'[s].id
    BY Zenon DEF HoldersAlone
  <2>1. /\ take[s].pc # "idle" /\ take[s].id \notin by_id /\ park[take[s].id] \in Landed
        /\ \A r \in Takers : r # s /\ Holds(r) => take[r].id # take[s].id
    BY <1>11, Zenon DEF HoldInv, HoldersAlone
  <2>2. take'[s].pc # "idle" /\ take'[s].id \notin by_id'
    BY <1>2, <1>5, <2>1, Zenon
  <2>3. park'[take'[s].id] \in Landed
    BY <1>2, <1>11, <2>1, Zenon
  <2>4. \A r \in Takers : r # s /\ Holds(r)' => take'[r].id # take'[s].id
    BY <1>2, <1>11, <2>1, Zenon
  <2> QED  BY <2>2, <2>3, <2>4
<1>13. RemovedApart'
  <2>1. \A j \in by_id' : ~Removed(j)'
    BY <1>5, <1>8, Zenon DEF HoldInv, RemovedApart, TypeOK
  <2>2. ASSUME NEW s \in Takers, Holds(s)'
        PROVE  ~Removed(take[s].id)'
    <3>1. PICK j \in Ids : j = take[s].id /\ j = take'[s].id
      BY <1>2, <1>11, <2>2, Zenon
    <3>2. ~Removed(j)'
      BY <1>8, <1>11, <2>2, <3>1, Zenon DEF HoldInv, RemovedApart
    <3> QED  BY <3>1, <3>2, Zenon DEF Removed
  <2> QED  BY <2>1, <2>2, Zenon DEF RemovedApart
<1>14. OwnersMatch'
  <2>1. \A s \in Takers : take'[s].outcome = "Hit" => take[s].outcome = "Hit"
    BY <1>2
  <2> QED  BY <1>2, <2>1, Zenon DEF HoldInv, OwnersMatch
<1>15. \A j \in Ids : Accounted(j) => Accounted(j)'
  BY <1>2, <1>5, Zenon DEF Accounted
<1>16. AwaitInv'
  <2>1. \A j \in Ids : park'[j] \in Landed => Accounted(j)'
    BY <1>2, <1>15 DEF AwaitInv, Landed
  <2>2. ASSUME NEW s \in Takers, take'[s].pc # "idle"
        PROVE  /\ take'[s].awaited => (take[s].id \in reservations \/ Accounted(take[s].id))'
               /\ take'[s].woken => Accounted(take[s].id)'
               /\ take'[s].pc = "final" /\ take'[s].awaited /\ ~take'[s].timed_out
                    => Accounted(take[s].id)'
    <3>1. PICK j \in Ids : j = take[s].id /\ j = take'[s].id
      BY <1>2, <2>2, RegistryAssumption, Zenon DEF ClaimsOK
    <3>2. /\ take[s].awaited => j \in reservations \/ Accounted(j)
          /\ take[s].woken => Accounted(j)
          /\ take[s].pc = "final" /\ take[s].awaited /\ ~take[s].timed_out => Accounted(j)
      BY <1>2, <2>2, <3>1, Zenon DEF AwaitInv
    <3>3. Accounted(j)' => Accounted(take[s].id)'
      BY <3>1, Zenon DEF Accounted
    <3> QED  BY <1>2, <1>15, <3>1, <3>2, <3>3, ZenonT(60)
  <2> QED  BY <2>1, <2>2, ZenonT(60) DEF AwaitInv
<1> QED  BY <1>4, <1>6, <1>7, <1>9, <1>10, <1>12, <1>13, <1>14, <1>16, Zenon DEF HoldInv

-----------------------------------------------------------------------------
(* The invariant holds of a server that has just started.                  *)
LEMMA InitInv == Init => IInv
<1> SUFFICES ASSUME Init PROVE IInv
  OBVIOUS
<1>1. TypeOK
  <2>1. Idle \in TakeRecord
    BY DEF Idle, TakeRecord, TakePc, Outcome
  <2>2. take \in [Takers -> TakeRecord]
    BY <2>1 DEF Init
  <2>3. per_user \in [Users -> Seq(Ids)]
    BY SMTT(60) DEF Init
  <2> QED  BY <2>2, <2>3, Zenon DEF Init, TypeOK, ParkPc, TakeRecord
<1>2. /\ \A t \in Takers : take[t].pc = "idle" /\ take[t].outcome = "none"
      /\ \A i \in Ids : park[i] = "live"
      /\ by_id = {} /\ sweep.removed = None
  BY Zenon DEF Init, Idle
<1>3. ClaimsOK /\ NotYetParked
  BY <1>2, RegistryAssumption, Zenon DEF ClaimsOK, NotYetParked, InHand
<1>4. SlotsWithinCap /\ NoStaleSlot
  <2>1. \A u \in Users : per_user[u] = <<>> /\ Range(per_user[u]) = {} /\ Len(per_user[u]) = 0
    BY SMTT(60) DEF Init, Range
  <2>2. \A u \in Users : IsInjective(per_user[u])
    BY SMTT(60) DEF Init, IsInjective
  <2>3. PerUserCap \in Nat
    BY RegistryAssumption
  <2>4. NoStaleSlot
    BY <2>1, Zenon DEF NoStaleSlot
  <2>5. \A u \in Users : Len(per_user[u]) <= PerUserCap
    BY <2>1, <2>3
  <2>6. SlotsWithinCap
    BY <2>1, <2>2, <2>5, Zenon DEF SlotsWithinCap
  <2> QED  BY <2>4, <2>6
<1>5. HoldInv
  BY <1>2, RegistryAssumption, Zenon DEF HoldInv, HoldersAlone, RemovedApart, OwnersMatch, Holds, Removed
<1>6. AwaitInv
  BY <1>2 DEF AwaitInv, Landed
<1> QED  BY <1>1, <1>3, <1>4, <1>5, <1>6 DEF IInv, SlotInv

(* The registry's invariant, whatever parks, redials, evictions and sweeps
   interleave, for any set of sessions and users, any caps and any TTL. *)
THEOREM RegistryInvariance == Spec => []IInv
<1>1. IInv /\ Step => IInv'
  BY SlotStep, HoldStep, AwaitStep, Zenon DEF IInv
<1>2. IInv /\ [Next]_vars => IInv'
  BY <1>1, ReParkStep, Zenon DEF Next, Step
<1> QED  BY <1>2, InitInv, PTL DEF Spec

(* Type correctness of the registry. *)
THEOREM RegistryTypeCorrect == Spec => []TypeOK
<1>1. IInv => TypeOK
  BY DEF IInv, SlotInv
<1> QED  BY <1>1, RegistryInvariance, PTL

(* No slot of the per-user index is ever left behind: park, take_for_resume and
   sweep_expired, which remove from by_id and unlist in two steps, never lose
   the second one. *)
THEOREM NoSlotGoesStale == Spec => []NoStaleSlot
<1>1. IInv => NoStaleSlot
  BY DEF IInv, SlotInv
<1> QED  BY <1>1, RegistryInvariance, PTL

(* A parked upstream is handed to one redial at most, and to one of its owner. *)
THEOREM HandedOutOnce == Spec => []OneHitPerPark
<1>1. IInv => OneHitPerPark
  BY DEF IInv, HoldInv, HoldersAlone, OwnersMatch, Holds, OneHitPerPark
<1> QED  BY <1>1, RegistryInvariance, PTL

(* A take that was called while its park was in flight or had landed, and did
   not run into RESERVATION_WAIT, answers Unknown only when the entry is gone or
   is out of the map for a redial by somebody else, whose owner check removes an
   entry and puts it back (try_take_committed). *)
MissIsAccounted ==
  [][\A t \in Takers :
       /\ take'[t].outcome = "Unknown" /\ take[t].outcome # "Unknown"
       /\ take[t].awaited /\ ~take[t].timed_out
       => \/ take[t].id \in gone
          \/ \E s \in Takers : take[s].id = take[t].id /\ take[s].pc = "mismatch"]_vars

LEMMA UnknownStep ==
  ASSUME IInv, [Next]_vars, NEW t \in Takers,
         take'[t].outcome = "Unknown", take[t].outcome # "Unknown",
         take[t].awaited, ~take[t].timed_out
  PROVE  \/ take[t].id \in gone
         \/ \E s \in Takers : take[s].id = take[t].id /\ take[s].pc = "mismatch"
<1> USE DEF IInv, SlotInv
<1>0. take \in [Takers -> TakeRecord]
  BY Zenon DEF TypeOK, TakeRecord
<1>1. TakeStep(t) \/ TakeTimeout(t)
  <2>0. ASSUME NEW s \in Takers, RePark(s)
        PROVE  FALSE
    BY <2>0, ReParkMoves, Zenon
  <2> SUFFICES ASSUME Step
               PROVE  TakeStep(t) \/ TakeTimeout(t)
    BY <2>0, Zenon DEF Next, Step
  <2>1. CASE \A s \in Takers : ~TakeStart(s) /\ ~TakeStep(s) /\ ~TakeTimeout(s)
    BY <2>1, OthersLeaveTakes
  <2>2. ASSUME NEW s \in Takers, TakeStart(s)
        PROVE  FALSE
    BY <2>2, StartMoves, Zenon
  <2>3. ASSUME NEW s \in Takers, TakeStep(s) \/ TakeTimeout(s)
        PROVE  s = t
    BY <2>3, TakeMoves, ZenonT(60)
  <2> QED  BY <2>1, <2>2, <2>3, Zenon
<1>2. take[t].pc = "final" /\ take[t].id \notin by_id
  <2>1. CASE TakeRemove(t) \/ TakeLookup(t) \/ TakeArm(t) \/ TakeRecheck(t) \/ TakeWoken(t)
    <3>1. PICK p \in TakePc : take' = [take EXCEPT ![t].pc = p]
      BY <2>1 DEF TakeRemove, TakeLookup, TakeArm, TakeRecheck, TakeWoken, Goto, TakePc
    <3>2. take'[t].outcome = take[t].outcome
      BY <1>0, <3>1 DEF TakeRecord
    <3> QED  BY <3>2
  <2>2. CASE TakeAbsent(t)
    <3>1. CASE take' = Goto(t, "lookup")
      <4>1. take'[t].outcome = take[t].outcome
        BY <1>0, <3>1 DEF Goto, TakeRecord
      <4> QED  BY <4>1
    <3> QED  BY <2>2, <3>1 DEF TakeAbsent
  <2>3. CASE TakeReinsert(t) \/ TakeDetach(t)
    <3>1. PICK o \in Outcome \ {"Unknown"} :
            take' = [take EXCEPT ![t].pc = "done", ![t].outcome = o]
      BY <2>3 DEF TakeReinsert, TakeDetach, Outcome
    <3>2. take'[t].outcome = o
      BY <1>0, <3>1 DEF TakeRecord
    <3> QED  BY <3>2
  <2>4. CASE TakeTimeout(t)
    <3>1. take'[t].outcome = take[t].outcome
      BY <1>0, <2>4, Zenon DEF TakeTimeout, TakeRecord
    <3> QED  BY <3>1
  <2> QED  BY <1>1, <2>1, <2>2, <2>3, <2>4, ZenonT(60) DEF TakeStep
<1>3. Accounted(take[t].id)
  BY <1>2 DEF AwaitInv
<1> QED  BY <1>2, <1>3, Zenon DEF Accounted

(* The park-miss race is closed but for an owner check under way. *)
THEOREM MissesAreAccounted == Spec => MissIsAccounted
<1>1. IInv /\ [Next]_vars =>
        [\A t \in Takers :
           /\ take'[t].outcome = "Unknown" /\ take[t].outcome # "Unknown"
           /\ take[t].awaited /\ ~take[t].timed_out
           => \/ take[t].id \in gone
              \/ \E s \in Takers : take[s].id = take[t].id /\ take[s].pc = "mismatch"]_vars
  BY UnknownStep
<1> QED  BY <1>1, RegistryInvariance, PTL DEF Spec, MissIsAccounted

(* Where every redial presents a session of its own, no owner check removes an
   entry, and Unknown is answered of entries that are really gone. *)
THEOREM ParkMissRaceClosed ==
  ASSUME \A c \in Claims : Owner[c[1]] = c[2]
  PROVE  Spec => UnknownOnlyIfGone
<1>1. IInv => \A s \in Takers : take[s].pc # "mismatch"
  BY Zenon DEF IInv, SlotInv, ClaimsOK, HoldInv, OwnersMatch
<1>2. IInv /\ [Next]_vars =>
        [\A t \in Takers :
           /\ take'[t].outcome = "Unknown" /\ take[t].outcome # "Unknown"
           /\ take[t].awaited /\ ~take[t].timed_out
           => take[t].id \in gone]_vars
  BY <1>1, UnknownStep
<1> QED  BY <1>2, RegistryInvariance, PTL DEF Spec, UnknownOnlyIfGone
=============================================================================
