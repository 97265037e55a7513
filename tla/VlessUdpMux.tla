---------------------------- MODULE VlessUdpMux ----------------------------
(***************************************************************************)
(* The client's VLESS-UDP session mux: one VLESS session, on a carrier of  *)
(* its own, per target of a UDP association; a reader task per session     *)
(* that merges what comes back into one downlink queue; the cap with LRU   *)
(* eviction; the idle janitor; and the bounded FIFO cache of resume ids a  *)
(* dial offers to the server.                                              *)
(*                                                                         *)
(* A slot is in the map from the moment its dial is decided; it becomes a  *)
(* session when the dial completes.  A session lives as long as the map,   *)
(* the sender or the janitor holds it: dropping the last reference aborts  *)
(* its reader and closes its carrier.  The association has one sender.     *)
(***************************************************************************)
EXTENDS Naturals, FiniteSets, Sequences

CONSTANTS
    Targets,      \* target addresses of the association
    Slots,        \* slot ids, a bound on the dials of a behaviour
    MaxSessions,  \* VlessUdpMuxLimits::max_sessions
    Idle,         \* session_idle_timeout, in ticks
    DialTicks,    \* longest a send and its dial take, in ticks
    QueueCap,     \* room of the downlink queue
    CacheCap,     \* RESUME_CACHE_CAPACITY
    MaxNow, MaxSends,
    Faults        \* subset of {"dial", "die", "close"}

VARIABLES
    now,     \* the clock
    map,     \* target -> slot id, 0 when none
    slot,    \* id -> the slot and, once dialled, its session
    snd,     \* the sender
    jan,     \* the idle janitor
    down,    \* the downlink queue: "data" and "error" items
    told,    \* the consumer of the downlink has seen an error
    closed,  \* the close signal
    cache    \* the resume cache: entries and insertion_order

vars == <<now, map, slot, snd, jan, down, told, closed, cache>>

NoSlot == [target |-> "none", cell |-> "unused", used |-> 0, heard |-> 0,
           reader |-> "none", carrier |-> "none", sent |-> 0, offered |-> 0]

NewSlot(t) == [NoSlot EXCEPT !.target = t, !.cell = "empty", !.used = now,
                             !.heard = now]

Idling == [pc |-> "idle", target |-> "none", slot |-> 0, victim |-> 0,
           since |-> 0, sends |-> 0]

Asleep == [pc |-> "sleep", at |-> 0, cand |-> {}, gone |-> {}]

Init ==
    /\ now = 0
    /\ map = [t \in Targets |-> 0]
    /\ slot = [i \in Slots |-> NoSlot]
    /\ snd = Idling
    /\ jan = Asleep
    /\ down = <<>>
    /\ told = FALSE
    /\ closed = FALSE
    /\ cache = [entries |-> [t \in Targets |-> 0], order |-> <<>>]

Live == {t \in Targets : map[t] # 0}

Populated(i) == slot[i].cell = "ok"

Touched(i) == [slot EXCEPT ![i].used = now]

-----------------------------------------------------------------------------
(* The resume cache *)

Cached(c) == {t \in Targets : c.entries[t] # 0}

\* A new key first makes room, oldest insertion out; a known key keeps its
\* place in the order.
store(c, t, id) ==
    LET fresh == c.entries[t] = 0
        full == fresh /\ Cardinality(Cached(c)) >= CacheCap
        kept == IF full THEN [c.entries EXCEPT ![Head(c.order)] = 0]
                ELSE c.entries
        rest == IF full THEN Tail(c.order) ELSE c.order
    IN  [entries |-> [kept EXCEPT ![t] = id],
         order |-> IF fresh THEN Append(rest, t) ELSE rest]

-----------------------------------------------------------------------------
(* send_packet and session_for *)

\* The read-locked fast path: a populated slot is touched and used.
LookUp(t) ==
    /\ snd.pc = "idle"
    /\ snd.sends < MaxSends
    /\ IF map[t] # 0 /\ Populated(map[t])
       THEN /\ slot' = Touched(map[t])
            /\ snd' = [snd EXCEPT !.pc = "send", !.target = t, !.slot = map[t],
                                  !.since = now, !.sends = @ + 1]
       ELSE /\ snd' = [snd EXCEPT !.pc = "lock", !.target = t,
                                  !.since = now, !.sends = @ + 1]
            /\ UNCHANGED slot
    /\ UNCHANGED <<now, map, jan, down, told, closed, cache>>

\* The populated slots with the oldest use.
Oldest ==
    LET pop == {t \in Live : Populated(map[t])}
    IN  {t \in pop : \A u \in pop : slot[map[t]].used <= slot[map[u]].used}

MapIsFull == Cardinality(Live) >= MaxSessions

\* evict_lru_populated_session: in-flight slots are skipped.
evict_lru(v) == IF Oldest = {} THEN v = "none" ELSE v \in Oldest

\* The write-locked path: the slot that is there, or a new one, after the
\* eviction a full map asks for.
ClaimSlot ==
    /\ snd.pc = "lock"
    /\ LET t == snd.target IN
       IF map[t] # 0
       THEN /\ snd' = [snd EXCEPT !.pc = "dial", !.slot = map[t]]
            /\ UNCHANGED <<map, slot>>
       ELSE \E v \in Targets \union {"none"} :
              /\ IF MapIsFull THEN evict_lru(v) ELSE v = "none"
              /\ \E i \in Slots :
                   /\ slot[i].cell = "unused"
                   /\ \A j \in Slots : slot[j].cell = "unused" => i <= j
                   /\ slot' = [slot EXCEPT ![i] = NewSlot(t)]
                   /\ map' = [u \in Targets |-> IF u = t THEN i
                                                ELSE IF u = v THEN 0
                                                ELSE map[u]]
                   /\ snd' = [snd EXCEPT !.slot = i,
                                !.pc = IF v = "none" THEN "dial" ELSE "evict",
                                !.victim = IF v = "none" THEN 0 ELSE map[v]]
    /\ UNCHANGED <<now, jan, down, told, closed, cache>>

CarrierCloses(s, i) ==
    [s EXCEPT ![i].carrier = "closed"]

CloseVictim ==
    /\ snd.pc = "evict"
    /\ slot' = CarrierCloses(slot, snd.victim)
    /\ snd' = [snd EXCEPT !.pc = "dial", !.victim = 0]
    /\ UNCHANGED <<now, map, jan, down, told, closed, cache>>

\* WsVlessUdpDialer::dial offers the cached id of this target; the cell is
\* initialised by the first caller.
DialStarts ==
    /\ snd.pc = "dial"
    /\ IF Populated(snd.slot)
       THEN /\ slot' = Touched(snd.slot)
            /\ snd' = [snd EXCEPT !.pc = "send"]
       ELSE /\ slot' = [slot EXCEPT ![snd.slot].cell = "dialing",
                           ![snd.slot].offered = cache.entries[snd.target]]
            /\ snd' = [snd EXCEPT !.pc = "connect"]
    /\ UNCHANGED <<now, map, jan, down, told, closed, cache>>

\* The server issues a new id, named after the slot it is issued to; the
\* reader subscribes to the close signal as it is now.
DialDone ==
    /\ snd.pc = "connect"
    /\ cache' = store(cache, snd.target, snd.slot)
    /\ slot' = [slot EXCEPT ![snd.slot] = [@ EXCEPT !.cell = "ok", !.used = now,
                   !.heard = now, !.carrier = "open", !.reader = "run"]]
    /\ snd' = [snd EXCEPT !.pc = "send"]
    /\ UNCHANGED <<now, map, jan, down, told, closed>>

\* A failed dial frees its own slot only.
DialFails ==
    /\ snd.pc = "connect"
    /\ "dial" \in Faults
    /\ slot' = [slot EXCEPT ![snd.slot].cell = "failed"]
    /\ map' = [map EXCEPT ![snd.target] = IF @ = snd.slot THEN 0 ELSE @]
    /\ snd' = [Idling EXCEPT !.sends = snd.sends]
    /\ UNCHANGED <<now, jan, down, told, closed, cache>>

\* The send touches the session; on a carrier that is gone it is an error of
\* this datagram.
SendRecord ==
    /\ snd.pc = "send"
    /\ slot' = [slot EXCEPT ![snd.slot].used = now,
                   ![snd.slot].sent = IF slot[snd.slot].carrier = "open"
                                      THEN 1 ELSE @]
    /\ snd' = [Idling EXCEPT !.sends = snd.sends]
    /\ UNCHANGED <<now, map, jan, down, told, closed, cache>>

-----------------------------------------------------------------------------
(* The session readers and the consumer *)

\* A reply of the target is merged into the downlink.
ReaderGets(i) ==
    /\ slot[i].reader = "run"
    /\ slot[i].carrier = "open" /\ slot[i].sent = 1
    /\ Len(down) < QueueCap
    /\ down' = Append(down, "data")
    /\ slot' = [slot EXCEPT ![i].heard = now]
    /\ UNCHANGED <<now, map, snd, jan, told, closed, cache>>

CarrierDies(i) ==
    /\ "die" \in Faults
    /\ slot[i].carrier = "open"
    /\ slot' = [slot EXCEPT ![i].carrier = "dead"]
    /\ UNCHANGED <<now, map, snd, jan, down, told, closed, cache>>

ErrorQueued(q) == Append(q, "error")

\* A failed read is put in the downlink and the reader ends; its slot stays.
ReaderFails(i) ==
    /\ slot[i].reader = "run"
    /\ slot[i].carrier \in {"dead", "closed"}
    /\ Len(down) < QueueCap
    /\ down' = ErrorQueued(down)
    /\ slot' = [slot EXCEPT ![i].reader = "done"]
    /\ UNCHANGED <<now, map, snd, jan, told, closed, cache>>

\* read_packet of the association's downlink task.
Consume ==
    /\ down # <<>>
    /\ told' = (told \/ Head(down) = "error")
    /\ down' = Tail(down)
    /\ UNCHANGED <<now, map, slot, snd, jan, closed, cache>>

-----------------------------------------------------------------------------
(* The idle janitor *)

Stale(i, at) == at >= slot[i].used /\ at - slot[i].used >= Idle

\* The tick reads the clock and scans under the read lock.
JanitorScans ==
    /\ jan.pc = "sleep" /\ ~closed
    /\ \E t \in Live : Stale(map[t], now)
    /\ jan' = [jan EXCEPT !.pc = "lock", !.at = now,
                          !.cand = {t \in Live : Stale(map[t], now)}]
    /\ UNCHANGED <<now, map, slot, snd, down, told, closed, cache>>

\* Mutant: what the scan found is removed as it is.
RecheckSkipped == {t \in jan.cand : map[t] # 0}

Expired == {t \in jan.cand : map[t] # 0 /\ Stale(map[t], jan.at)}

\* Under the write lock the predicate is asked again.
JanitorRemoves ==
    /\ jan.pc = "lock"
    /\ map' = [t \in Targets |-> IF t \in Expired THEN 0 ELSE map[t]]
    /\ jan' = [jan EXCEPT !.pc = "close", !.cand = {},
                 !.gone = {map[t] : t \in {u \in Expired : Populated(map[u])}}]
    /\ UNCHANGED <<now, slot, snd, down, told, closed, cache>>

JanitorCloses ==
    /\ jan.pc = "close"
    /\ IF jan.gone = {}
       THEN jan' = Asleep /\ UNCHANGED slot
       ELSE \E i \in jan.gone :
              /\ slot' = CarrierCloses(slot, i)
              /\ jan' = [jan EXCEPT !.gone = @ \ {i}]
    /\ UNCHANGED <<now, map, snd, down, told, closed, cache>>

-----------------------------------------------------------------------------
(* close, drop and the clock *)

\* The owner closes the mux: the signal ends the readers and the janitor, and
\* every populated session of the map is closed.
Close ==
    /\ told \/ "close" \in Faults
    /\ ~closed
    /\ closed' = TRUE
    /\ map' = [t \in Targets |-> 0]
    /\ slot' = [i \in Slots |->
                  IF slot[i].reader = "run"
                  THEN [slot[i] EXCEPT !.reader = "done",
                          !.carrier = IF map[slot[i].target] = i
                                      THEN "closed" ELSE @]
                  ELSE slot[i]]
    /\ jan' = IF jan.pc = "sleep" THEN Asleep ELSE jan
    /\ UNCHANGED <<now, snd, down, told, cache>>

\* The owner drops a closed mux, and its map, once no send is under way.
Held(i) ==
    \/ map[slot[i].target] = i /\ ~(closed /\ snd.pc = "idle")
    \/ snd.slot = i \/ snd.victim = i
    \/ i \in jan.gone

\* The last reference gone: AbortOnDrop ends the reader, the carrier is shut.
DropSession(i) ==
    /\ slot[i].cell = "ok" /\ ~Held(i)
    /\ slot[i].reader = "run" \/ slot[i].carrier = "open"
    /\ slot' = [CarrierCloses(slot, i) EXCEPT ![i].reader =
                  IF @ = "run" THEN "done" ELSE @]
    /\ UNCHANGED <<now, map, snd, jan, down, told, closed, cache>>

Tick ==
    /\ now < MaxNow
    /\ snd.pc # "idle" => now - snd.since < DialTicks
    /\ now' = now + 1
    /\ UNCHANGED <<map, slot, snd, jan, down, told, closed, cache>>

Next ==
    \/ \E t \in Targets : LookUp(t)
    \/ ClaimSlot \/ CloseVictim \/ DialStarts \/ DialDone \/ DialFails
    \/ SendRecord
    \/ \E i \in Slots : \/ ReaderGets(i) \/ CarrierDies(i) \/ ReaderFails(i)
                        \/ DropSession(i)
    \/ Consume
    \/ JanitorScans \/ JanitorRemoves \/ JanitorCloses
    \/ Close \/ Tick

Spec == Init /\ [][Next]_vars

-----------------------------------------------------------------------------
(* What one step of the janitor may not do *)
RemovesActive ==
    /\ jan.pc = "lock" /\ jan'.pc = "close"
    /\ \E t \in Targets :
         /\ map[t] # 0 /\ map'[t] = 0
         /\ now - slot[map[t]].used < Idle

\* The janitor never takes a session out of the map that a send touched within
\* the idle timeout, although it decides under a read lock and removes under a
\* later write lock ("so an active session never gets accidentally evicted").
ActiveNotEvicted == [][~RemovesActive]_vars

\* The map never holds more sessions than max_sessions: an association has one
\* sender, so a full map always has a populated slot to evict.
CapHolds == Cardinality(Live) <= MaxSessions

\* As long as the mux is open and no error has reached its owner, a session
\* that has carried a datagram and that nobody closed is heard: its reader
\* runs and something holds it, also when the janitor scans during the dial.
\* This needs DialTicks < Idle, as the defaults have it (10 s and 60 s): a dial
\* that outlives the idle timeout loses its slot to the janitor, and the
\* session it opens is dropped with the reply unread.
RepliesHeard ==
    \A i \in Slots :
        (/\ ~told /\ ~closed /\ \A k \in 1..Len(down) : down[k] # "error"
         /\ slot[i].sent = 1 /\ slot[i].carrier # "closed")
        => slot[i].reader = "run" /\ Held(i)

\* The two collections of the resume cache hold the same keys, once each and
\* no more than its capacity, whatever sequence of redials stored them; and
\* what is cached for a target was issued to a session of that target.
CacheExact ==
    /\ {cache.order[k] : k \in 1..Len(cache.order)} = Cached(cache)
    /\ Len(cache.order) = Cardinality(Cached(cache))
    /\ Len(cache.order) <= CacheCap
    /\ \A t \in Cached(cache) : slot[cache.entries[t]].target = t

=============================================================================
