------------------------------ MODULE Resolver ------------------------------
(***************************************************************************)
(* Name resolution and upstream connect on the server: the bounded DNS     *)
(* cache (a slot vector with an index of slot numbers), the singleflight   *)
(* layer that lets concurrent misses share one lookup, the stale answer    *)
(* used when the resolver fails, and the staggered connect to the          *)
(* resolved addresses.                                                     *)
(*                                                                         *)
(* A shared lookup is polled by whoever waits for it: it survives the      *)
(* caller that began it and is dropped with its last waiter.  The access   *)
(* ticks of the cache are kept as the order they induce.                   *)
(***************************************************************************)
EXTENDS Naturals, FiniteSets, Sequences

CONSTANTS
    Keys,       \* (port, preference, host)
    Callers,    \* the sessions that resolve and connect
    Loads,      \* ids of shared lookups, a bound on their number
    Capacity,   \* tuning.dns_cache_max_entries
    Sample,     \* EVICTION_SAMPLE
    Ttl, Grace, \* of an entry, and of its use as a stale answer
    PreferV4,   \* prefer_ipv4_upstream
    Answers,    \* what the resolver may answer: sequences of [v6, id]
    Literals,   \* targets given as an address
    Reachable,  \* ids of the addresses that accept a connection
    MaxNow, MaxCalls,
    Faults      \* subset of {"dns", "cancel"}

VARIABLES
    slots,   \* Store::slots
    index,   \* Store::index: key -> the slot number it points at, 0 when none
    lru,     \* keys by last_access
    flight,  \* in_flight: key -> shared lookup, 0 when none
    load,    \* the shared lookups
    call,    \* the callers
    now, calls

vars == <<slots, index, lru, flight, load, call, now, calls>>

NoLoad == [key |-> "none", pc |-> "unused", by |-> "none", result |-> <<>>,
           end |-> "none"]

NoCall == [pc |-> "idle", key |-> "none", load |-> 0, addrs |-> <<>>,
           all |-> <<>>, next |-> 1, failed |-> {}]

Init ==
    /\ slots = <<>>
    /\ index = [k \in Keys |-> 0]
    /\ lru = <<>>
    /\ flight = [k \in Keys |-> 0]
    /\ load = [l \in Loads |-> NoLoad]
    /\ call = [c \in Callers |-> NoCall]
    /\ now = 0
    /\ calls = 0

-----------------------------------------------------------------------------
(* The cache core: one record [s, i, u] of slots, index and use order *)

Store == [s |-> slots, i |-> index, u |-> lru]

Without(q, k) == SelectSeq(q, LAMBDA x : x # k)

Used(st, k) == [st EXCEPT !.u = Append(Without(@, k), k)]

Fresh(k) == index[k] # 0 /\ now < slots[index[k]].exp

\* swap_remove: the last slot takes the place of the one removed, and the
\* index entry that pointed at the last slot is repointed.
remove_at(st, n) ==
    LET last == Len(st.s)
        key == st.s[n].key
        moved == st.s[last].key
    IN  [s |-> SubSeq([st.s EXCEPT ![n] = st.s[last]], 1, last - 1),
         i |-> [k \in Keys |-> IF k = key THEN 0
                               ELSE IF k = moved THEN n ELSE st.i[k]],
         u |-> Without(st.u, key)]

\* Older by last access.
Older(st, a, b) ==
    \E x, y \in 1..Len(st.u) : st.u[x] = a /\ st.u[y] = b /\ x < y

\* In a window of Sample slots: the first expired one, else the oldest.
evict_one(st, w) ==
    LET dead == {n \in w : st.s[n].exp <= now}
        v == IF dead # {} THEN CHOOSE n \in dead : \A m \in dead : n <= m
             ELSE CHOOSE n \in w : \A m \in w \ {n} :
                    Older(st, st.s[n].key, st.s[m].key)
    IN  remove_at(st, v)

Windows(st) ==
    LET z == IF Len(st.s) < Sample THEN Len(st.s) ELSE Sample
    IN  {a .. (a + z - 1) : a \in 1 .. (Len(st.s) - z + 1)}

SetStore(st) == slots' = st.s /\ index' = st.i /\ lru' = st.u

\* An existing key is overwritten in place; a new one is pushed, and one entry
\* leaves when the cache is past its capacity.
insert(k, addrs) ==
    LET e == [key |-> k, addrs |-> addrs, exp |-> now + Ttl]
        replaced == [Store EXCEPT !.s = [@ EXCEPT ![index[k]] = e]]
        pushed == Used([Store EXCEPT !.s = Append(@, e),
                                     !.i = [@ EXCEPT ![k] = Len(slots) + 1]], k)
    IN  \/ index[k] # 0 /\ SetStore(Used(replaced, k))
        \/ index[k] = 0 /\ Len(pushed.s) <= Capacity /\ SetStore(pushed)
        \/ /\ index[k] = 0 /\ Len(pushed.s) > Capacity
           /\ \E w \in Windows(pushed) : SetStore(evict_one(pushed, w))

\* retain walks from the last slot down, so what moves was already kept.
retain(st) ==
    LET R[n \in 0..Len(st.s)] ==
          IF n = 0 THEN st
          ELSE LET m == Len(st.s) - n + 1
               IN  IF R[n-1].s[m].exp + Grace > now THEN R[n-1]
                   ELSE remove_at(R[n-1], m)
    IN  R[Len(st.s)]

\* The janitor drops what even a stale answer may no longer use, and the dead
\* handles of lookups nobody waits for.
Waiters(l) == {c \in Callers : call[c].load = l}

sweep_expired ==
    /\ \/ \E n \in 1..Len(slots) : slots[n].exp + Grace <= now
       \/ \E k \in Keys : flight[k] # 0 /\ Waiters(flight[k]) = {}
    /\ SetStore(retain(Store))
    /\ flight' = [k \in Keys |-> IF flight[k] # 0 /\ Waiters(flight[k]) = {}
                                 THEN 0 ELSE flight[k]]
    /\ UNCHANGED <<load, call, now, calls>>

-----------------------------------------------------------------------------
(* resolve_or_join *)

Hit(c, k) ==
    /\ Fresh(k)
    /\ SetStore(Used(Store, k))
    /\ call' = [call EXCEPT ![c] = [@ EXCEPT !.pc = "resolved", !.key = k,
                                    !.addrs = slots[index[k]].addrs]]

Begin(c, k) ==
    /\ call[c].pc = "idle" /\ calls < MaxCalls
    /\ calls' = calls + 1
    /\ \/ Hit(c, k)
       \/ /\ ~Fresh(k)
          /\ call' = [call EXCEPT ![c] = [@ EXCEPT !.pc = "miss", !.key = k]]
          /\ UNCHANGED <<slots, index, lru>>
    /\ UNCHANGED <<flight, load, now>>

\* A target that is an address needs no lookup; an IPv6 one is refused when
\* only IPv4 is wanted.
Literal(c) ==
    /\ call[c].pc = "idle" /\ calls < MaxCalls
    /\ calls' = calls + 1
    /\ \E a \in Literals :
         /\ ~(PreferV4 /\ a.v6)
         /\ call' = [call EXCEPT ![c].pc = "resolved", ![c].addrs = <<a>>]
    /\ UNCHANGED <<slots, index, lru, flight, load, now>>

\* Mutant: every miss begins a lookup of its own.
JoinsNobody(k) == FALSE

\* The Weak of the in-flight map can be upgraded.
Joinable(k) == flight[k] # 0 /\ Waiters(flight[k]) # {}

\* Under the in-flight lock: the cache again, then an existing lookup, then a
\* new one.
Join(c) ==
    /\ call[c].pc = "miss"
    /\ LET k == call[c].key IN
       \/ Hit(c, k) /\ UNCHANGED <<flight, load>>
       \/ /\ ~Fresh(k) /\ Joinable(k)
          /\ call' = [call EXCEPT ![c].pc = "wait", ![c].load = flight[k]]
          /\ UNCHANGED <<slots, index, lru, flight, load>>
       \/ /\ ~Fresh(k) /\ ~Joinable(k)
          /\ \E l \in Loads :
               /\ load[l].pc = "unused"
               /\ \A m \in Loads : load[m].pc = "unused" => l <= m
               /\ load' = [load EXCEPT ![l] = [NoLoad EXCEPT !.key = k,
                                                !.pc = "lookup", !.by = c]]
               /\ flight' = [flight EXCEPT ![k] = l]
               /\ call' = [call EXCEPT ![c].pc = "wait", ![c].load = l]
          /\ UNCHANGED <<slots, index, lru>>
    /\ UNCHANGED <<now, calls>>

Polled(l) == Waiters(l) # {}

Filtered(a) == IF PreferV4 THEN SelectSeq(a, LAMBDA x : ~x.v6) ELSE a

HasStale(k) == index[k] # 0

\* resolve_and_cache: the answer is stored before the lookup is unlisted.
LookupAnswers(l) ==
    /\ load[l].pc = "lookup" /\ Polled(l)
    /\ \E a \in Answers :
         \/ /\ Filtered(a) = <<>>
            /\ load' = [load EXCEPT ![l].pc = "unlist", ![l].end = "empty"]
            /\ UNCHANGED <<slots, index, lru>>
         \/ /\ Filtered(a) # <<>>
            /\ load' = [load EXCEPT ![l] = [@ EXCEPT !.pc = "unlist",
                           !.result = Filtered(a), !.end = "answer"]]
            /\ insert(load[l].key, Filtered(a))
    /\ UNCHANGED <<flight, call, now, calls>>

\* The resolver fails: a cached answer of any age is better than none.
LookupFails(l) ==
    /\ "dns" \in Faults
    /\ load[l].pc = "lookup" /\ Polled(l)
    /\ LET k == load[l].key IN
       \/ /\ HasStale(k)
          /\ load' = [load EXCEPT ![l] = [@ EXCEPT !.pc = "unlist",
                         !.result = slots[index[k]].addrs, !.end = "stale"]]
          /\ SetStore(Used(Store, k))
       \/ /\ ~HasStale(k)
          /\ load' = [load EXCEPT ![l].pc = "unlist", ![l].end = "error"]
          /\ UNCHANGED <<slots, index, lru>>
    /\ UNCHANGED <<flight, call, now, calls>>

\* The shared future's last part removes the key, whoever is listed there.
Unlist(l) ==
    /\ load[l].pc = "unlist" /\ Polled(l)
    /\ flight' = [flight EXCEPT ![load[l].key] = 0]
    /\ load' = [load EXCEPT ![l].pc = "done"]
    /\ UNCHANGED <<slots, index, lru, call, now, calls>>

Receive(c) ==
    /\ call[c].pc = "wait" /\ load[call[c].load].pc = "done"
    /\ LET r == load[call[c].load].result IN
       call' = [call EXCEPT ![c] = [@ EXCEPT !.load = 0, !.addrs = r,
                  !.pc = IF r = <<>> THEN "idle" ELSE "resolved"]]
    /\ UNCHANGED <<slots, index, lru, flight, load, now, calls>>

\* The session of a caller ends while it waits.
Cancel(c) ==
    /\ "cancel" \in Faults
    /\ call[c].pc \in {"miss", "wait", "connect"}
    /\ call' = [call EXCEPT ![c] = NoCall]
    /\ UNCHANGED <<slots, index, lru, flight, load, now, calls>>

-----------------------------------------------------------------------------
(* sort_addrs_for_happy_eyeballs and the staggered connect *)

Dedup(a) ==
    SelectSeq([n \in 1..Len(a) |-> [x |-> a[n], first |->
                 \A m \in 1..(n-1) : a[m] # a[n]]], LAMBDA e : e.first)

Of(a, six) == SelectSeq(Dedup(a), LAMBDA e : e.x.v6 = six)

\* The first address' family leads and the two families alternate.
Interleaved(a) ==
    LET lead == ~PreferV4 /\ Head(a).v6
        p == Of(a, lead)
        s == Of(a, ~lead)
        both == IF Len(p) < Len(s) THEN Len(p) ELSE Len(s)
        rest == IF Len(p) > Len(s) THEN p ELSE s
    IN  [n \in 1..(Len(p) + Len(s)) |->
           IF n > 2 * both THEN rest[n - both].x
           ELSE IF n % 2 = 1 THEN p[(n + 1) \div 2].x ELSE s[n \div 2].x]

sort_addrs(a) == IF Len(a) <= 1 THEN a ELSE Interleaved(a)

\* A datagram goes to the first address.
resolve_udp_target(c) ==
    /\ call[c].pc = "resolved"
    /\ call' = [call EXCEPT ![c] = NoCall]
    /\ UNCHANGED <<slots, index, lru, flight, load, now, calls>>

Connect(c) ==
    /\ call[c].pc = "resolved"
    /\ call' = [call EXCEPT ![c] = [@ EXCEPT !.pc = "connect",
                                    !.addrs = sort_addrs(@), !.all = call[c].addrs]]
    /\ UNCHANGED <<slots, index, lru, flight, load, now, calls>>

\* Attempt n starts n - 1 delays after the first, whatever the others do.
AttemptStarts(c) ==
    /\ call[c].pc = "connect" /\ call[c].next <= Len(call[c].addrs)
    /\ call' = [call EXCEPT ![c].next = @ + 1]
    /\ UNCHANGED <<slots, index, lru, flight, load, now, calls>>

AllFailed(c, f) == Cardinality(f) = Len(call[c].addrs)

Attempting(c, n) == call[c].pc = "connect" /\ n < call[c].next
                    /\ n \notin call[c].failed

AttemptWins(c) ==
    /\ \E n \in 1..Len(call[c].addrs) :
         Attempting(c, n) /\ call[c].addrs[n].id \in Reachable
    /\ call' = [call EXCEPT ![c] = NoCall]
    /\ UNCHANGED <<slots, index, lru, flight, load, now, calls>>

AttemptFails(c) ==
    /\ \E n \in 1..Len(call[c].addrs) :
         /\ Attempting(c, n) /\ call[c].addrs[n].id \notin Reachable
         /\ LET f == call[c].failed \union {n} IN
            call' = [call EXCEPT ![c].failed = f,
                       ![c].pc = IF AllFailed(c, f) THEN "failed" ELSE @]
    /\ UNCHANGED <<slots, index, lru, flight, load, now, calls>>

GiveUp(c) ==
    /\ call[c].pc = "failed"
    /\ call' = [call EXCEPT ![c] = NoCall]
    /\ UNCHANGED <<slots, index, lru, flight, load, now, calls>>

Tick ==
    /\ now < MaxNow
    /\ now' = now + 1
    /\ UNCHANGED <<slots, index, lru, flight, load, call, calls>>

CallerStep(c) == \/ Join(c) \/ Receive(c) \/ resolve_udp_target(c)
                 \/ Connect(c) \/ AttemptStarts(c) \/ AttemptWins(c) \/ AttemptFails(c)
                 \/ GiveUp(c)

LoadStep(l) == LookupAnswers(l) \/ LookupFails(l) \/ Unlist(l)

Next ==
    \/ \E c \in Callers : \/ \E k \in Keys : Begin(c, k)
                          \/ Literal(c) \/ CallerStep(c) \/ Cancel(c)
    \/ \E l \in Loads : LoadStep(l)
    \/ sweep_expired \/ Tick

Spec == Init /\ [][Next]_vars

\* Callers are polled, the shared lookup by its waiters; the resolver answers
\* or fails; every connect attempt ends (it has a timeout).
FairSpec == Spec /\ \A c \in Callers : WF_vars(CallerStep(c))
                 /\ \A l \in Loads : WF_vars(LoadStep(l))

-----------------------------------------------------------------------------
\* After any sequence of inserts, evictions and sweeps the index points every
\* cached key at the slot that holds it and at no other: a swap-removed slot
\* that is not repointed would answer one host with the addresses of another.
IndexExact ==
    /\ \A k \in Keys : index[k] # 0 =>
         index[k] <= Len(slots) /\ slots[index[k]].key = k
    /\ \A n \in 1..Len(slots) : index[slots[n].key] = n
    /\ Len(slots) <= Capacity

\* Concurrent misses of one key share one lookup: the resolver is never asked
\* for a key while an answer to the same question is awaited by somebody,
\* cancelled and abandoned lookups included.
OneLookup ==
    \A l, m \in Loads :
        (/\ l # m /\ load[l].key = load[m].key
         /\ load[l].pc = "lookup" /\ load[m].pc = "lookup")
        => ~(Polled(l) /\ Polled(m))

\* A resolver failure is passed to the waiters only if the cache holds no
\* answer for the key, however old: the entry outlives its TTL by the grace.
StaleBeatsError ==
    \A l \in Loads : load[l].pc = "unlist" /\ load[l].end = "error"
                      /\ Polled(l) => index[load[l].key] = 0

\* A connect fails only if none of the addresses that were resolved accepts:
\* dropping duplicates and alternating the families loses none of them, and a
\* failed attempt ends neither those under way nor those still to start.
ReachableIsReached ==
    \A c \in Callers : call[c].pc = "failed" =>
        \A n \in 1..Len(call[c].all) : call[c].all[n].id \notin Reachable

Waits(c) == call[c].pc = "wait"

\* A caller that joined a lookup gets its outcome, even when the caller that
\* began it is cancelled.
WaiterServed == \A c \in Callers : Waits(c) ~> ~Waits(c)
=============================================================================
