------------------------------- MODULE UdpNat -------------------------------
(***************************************************************************)
(* The server's UDP NAT table (server/nat/) and the SS-UDP streams that    *)
(* use it (server/transport/udp.rs).                                       *)
(*                                                                         *)
(* A stream reads client datagrams and runs one task per datagram.  A task *)
(* settles the stream's NAT scope (resuming a parked stream the first      *)
(* time), finds or creates the entry of its key, makes its stream the      *)
(* entry's responder and sends.  One reader task per entry carries the     *)
(* answers to the responder's channel.  A periodic sweep removes idle      *)
(* entries.  A stream that ends detaches itself from its entries and parks *)
(* their keys.  Every map or lock operation is a step of its own.          *)
(*                                                                         *)
(* A key is <<user, target, scope>>: the routing mark is a property of the *)
(* user.  A cell of the table is its entry's id; ids of dropped entries    *)
(* are used again.  A stream's response sender and the coding registered   *)
(* with it are the stream itself.  Time is abstract: the idle timeout of   *)
(* an entry may have run out at any sweep, and the room a response waits   *)
(* for in a carrier's channel may appear at any time or never, so neither  *)
(* timestamps nor queued responses are kept.                               *)
(***************************************************************************)
EXTENDS Integers, FiniteSets, FiniteSetsExt

CONSTANTS Streams,     \* SS-UDP streams
          Tasks,       \* permits of relay_semaphore
          Targets,     \* resolved upstream addresses
          EntryIds,    \* identities of NAT entries
          UserOf,      \* stream -> authenticated user
          Offers,      \* what the streams may negotiate: for each stream the
                       \* Session ID issued to it and the one it resumes, or None
          Earlier,     \* at most one target an ended stream has left parked
          MaxInFlight, \* UDP_MAX_CONCURRENT_RELAY_TASKS
          MaxEntries,  \* limits.max_entries
          MaxPerUser,  \* limits.max_entries_per_user
          Floor,       \* NAT_KEYS_RECONCILE_FLOOR
          None

VARIABLES
  table,     \* entries: key -> cell, or None
  ent,       \* the cells and entries that are still referenced
  per_user,  \* user -> slots reserved
  sweep,     \* evict_idle: shards left to visit, slots left to release
  stream,    \* stream -> its relay loop, scope and keys
  task,      \* permit -> the relay future that holds it
  parked,    \* Session ID -> keys of the SS-UDP stream parked under it
  offer      \* what each stream negotiated at its upgrade

natVars == <<table, ent, per_user, sweep, stream, task, parked, offer>>

NatUsers == {UserOf[s] : s \in Streams}
Sids == UNION {{o[s].issued, o[s].resume} : s \in Streams, o \in Offers} \ {None}
Keys == NatUsers \X Targets \X (Sids \cup {None})

(* The key, if any, that an earlier stream has left parked.                *)
EarlierKeys == {k \in Keys : k[2] \in Earlier /\ \E s \in Streams :
                               k[3] = offer[s].resume /\ k[1] = UserOf[s] /\ k[3] # None}

NoEntry == [init |-> FALSE, slot |-> None, reader |-> None, moved |-> FALSE]
NoTask == [pc |-> "free", s |-> None, t |-> None, e |-> None]
NewStream == [pc |-> "idle", scope |-> "unset", keys |-> {}, at |-> Floor,
              todo |-> {}, got |-> {}]

Init ==
  /\ offer \in Offers
  /\ table = [k \in Keys |-> IF k \in EarlierKeys THEN Min(EntryIds) ELSE None]
  /\ ent = [e \in EntryIds |-> IF EarlierKeys # {} /\ e = Min(EntryIds)
                                THEN [NoEntry EXCEPT !.init = TRUE] ELSE NoEntry]
  /\ per_user = [u \in NatUsers |-> Cardinality({k \in EarlierKeys : k[1] = u})]
  /\ sweep = [todo |-> {}, released |-> [u \in NatUsers |-> 0]]
  /\ stream = [s \in Streams |-> NewStream]
  /\ task = [p \in Tasks |-> NoTask]
  /\ parked = [i \in Sids |-> {k \in EarlierKeys : k[3] = i}]

-----------------------------------------------------------------------------
Cells(u) == {k \in Keys : k[1] = u /\ table[k] # None}
InFlight(s) == {p \in Tasks : task[p].s = s}
KeyOf(p) == <<UserOf[task[p].s], task[p].t, stream[task[p].s].scope>>

(* An entry lives while the table or a task refers to it; dropping it      *)
(* aborts its reader (AbortOnDrop).                                        *)
Referenced(e, tb, tk) == (\E k \in Keys : tb[k] = e) \/ (\E p \in Tasks : tk[p].e = e)

Collect(en, tb, tk) ==
  [e \in EntryIds |-> IF Referenced(e, tb, tk) THEN en[e] ELSE NoEntry]

Live(k) == table[k] # None /\ ent[table[k]].init

(* ActiveSlot::set: only a change of path is signalled.                    *)
SetSlot(x, s) == [x EXCEPT !.slot = s, !.moved = @ \/ x.slot # s]

Saturating(n, d) == IF n > d THEN n - d ELSE 0

(* Session IDs whose park is reserved by a stream that is tearing down.    *)
Reserved == {offer[s].issued : s \in {x \in Streams : stream[x].pc = "detaching"}}

End(p) == task' = [task EXCEPT ![p] = NoTask]

-----------------------------------------------------------------------------
(* The stream's loop.                                                      *)
Open(s) ==
  /\ stream[s].pc = "idle"
  /\ stream' = [stream EXCEPT ![s].pc = "open"]
  /\ UNCHANGED <<table, ent, per_user, sweep, task, parked, offer>>

(* ingest_udp_binary of a datagram that authenticates: a datagram over     *)
(* either limit is dropped.                                                *)
Ingest(s, t, p) ==
  /\ stream[s].pc = "open"
  /\ task[p] = NoTask /\ \A q \in Tasks : q < p => task[q] # NoTask
  /\ Cardinality(InFlight(s)) < MaxInFlight
  /\ task' = [task EXCEPT ![p] = [pc |-> "scope", s |-> s, t |-> t, e |-> None]]
  /\ UNCHANGED <<table, ent, per_user, sweep, stream, parked, offer>>

(* Close, a read error, a text frame or a failed pong ends the loop.       *)
LoopEnds(s) ==
  /\ stream[s].pc = "open"
  /\ stream' = [stream EXCEPT ![s].pc = "draining"]
  /\ UNCHANGED <<table, ent, per_user, sweep, task, parked, offer>>

-----------------------------------------------------------------------------
(* nat_scope.get_or_init(resolve_nat_scope): the first task to get here    *)
(* resolves, the others wait for it.  take_for_resume waits for a reserved *)
(* park to land, or gives up.                                              *)
ScopeKept(p, s) ==
  /\ task' = [task EXCEPT ![p].pc = "lookup"]
  /\ UNCHANGED <<stream, parked>>

ScopeIssued(p, s) ==
  /\ stream' = [stream EXCEPT ![s].scope = offer[s].issued]
  /\ task' = [task EXCEPT ![p].pc = "lookup"]
  /\ UNCHANGED parked

ScopeHit(p, s) ==
  /\ stream' = [stream EXCEPT ![s].scope = "resolving",
                              ![s].todo = parked[offer[s].resume]]
  /\ task' = [task EXCEPT ![p].pc = "reattach"]
  /\ parked' = [parked EXCEPT ![offer[s].resume] = {}]

(* Mutant: a resume reads the parked keys and leaves them in the registry. *)
ScopePeek(p, s) ==
  /\ stream' = [stream EXCEPT ![s].scope = "resolving",
                              ![s].todo = parked[offer[s].resume]]
  /\ task' = [task EXCEPT ![p].pc = "reattach"]
  /\ UNCHANGED parked

TakeForResume(p, s) == ScopeHit(p, s)

(* try_take_committed hands a parked session to its owner only.            *)
Takeable(s) ==
  /\ parked[offer[s].resume] # {}
  /\ \A k \in parked[offer[s].resume] : k[1] = UserOf[s]

ResolveScope(p) ==
  LET s == task[p].s IN
  /\ task[p].pc = "scope"
  /\ \/ stream[s].scope \notin {"unset", "resolving"} /\ ScopeKept(p, s)
     \/ /\ stream[s].scope = "unset"
        /\ \/ offer[s].resume = None /\ ScopeIssued(p, s)
           \/ /\ offer[s].resume # None
              /\ \/ ~Takeable(s) /\ offer[s].resume \notin Reserved
                 \/ offer[s].resume \in Reserved \* the wait timed out
              /\ ScopeIssued(p, s)
           \/ offer[s].resume # None /\ Takeable(s) /\ TakeForResume(p, s)
  /\ UNCHANGED <<table, ent, per_user, sweep, offer>>

(* reattach_parked_nat_keys, one key.                                      *)
Reattach(p, k) ==
  LET s == task[p].s IN
  /\ task[p].pc = "reattach" /\ k \in stream[s].todo
  /\ stream' = [stream EXCEPT ![s].todo = @ \ {k},
                              ![s].got = IF Live(k) THEN @ \cup {k} ELSE @]
  /\ ent' = IF Live(k) THEN [ent EXCEPT ![table[k]] = SetSlot(@, s)] ELSE ent
  /\ UNCHANGED <<table, per_user, sweep, task, parked, offer>>

(* Every parked key of a session has its scope; none left: start afresh.   *)
AdoptedScope(s) ==
  IF stream[s].got = {} THEN offer[s].issued ELSE (CHOOSE k \in stream[s].got : TRUE)[3]

Adopt(p) ==
  LET s == task[p].s IN
  /\ task[p].pc = "reattach" /\ stream[s].todo = {}
  /\ stream' = [stream EXCEPT ![s].scope = AdoptedScope(s), ![s].got = {},
                              ![s].keys = @ \cup stream[s].got]
  /\ task' = [task EXCEPT ![p].pc = "lookup"]
  /\ UNCHANGED <<table, ent, per_user, sweep, parked, offer>>

-----------------------------------------------------------------------------
(* NatTable::get_or_create.                                                *)
Capacity == Cardinality({k \in Keys : table[k] # None}) < MaxEntries

Lookup(p) ==
  LET k == KeyOf(p) IN
  /\ task[p].pc = "lookup"
  /\ \/ /\ table[k] # None
        /\ task' = [task EXCEPT ![p].pc = "init", ![p].e = table[k]]
     \/ table[k] = None /\ Capacity /\ task' = [task EXCEPT ![p].pc = "reserve"]
     \/ table[k] = None /\ ~Capacity /\ End(p)
  /\ UNCHANGED <<table, ent, per_user, sweep, stream, parked, offer>>

reserve_user_slot(p) ==
  LET u == UserOf[task[p].s] IN
  /\ task[p].pc = "reserve"
  /\ \/ /\ per_user[u] < MaxPerUser
        /\ per_user' = [per_user EXCEPT ![u] = @ + 1]
        /\ task' = [task EXCEPT ![p].pc = "insert"]
     \/ per_user[u] >= MaxPerUser /\ End(p) /\ UNCHANGED per_user
  /\ UNCHANGED <<table, ent, sweep, stream, parked, offer>>

release_user_slot(u) == per_user' = [per_user EXCEPT ![u] = Saturating(@, 1)]

Insert(p) ==
  LET k == KeyOf(p) IN
  /\ task[p].pc = "insert"
  /\ \/ /\ table[k] # None
        /\ release_user_slot(UserOf[task[p].s])
        /\ task' = [task EXCEPT ![p].pc = "init", ![p].e = table[k]]
        /\ UNCHANGED table
     \/ /\ table[k] = None
        /\ LET e == Min({x \in EntryIds : ~Referenced(x, table, task)}) IN
             /\ table' = [table EXCEPT ![k] = e]
             /\ task' = [task EXCEPT ![p].pc = "init", ![p].e = e]
        /\ UNCHANGED per_user
  /\ UNCHANGED <<ent, sweep, stream, parked, offer>>

(* OnceCell::get_or_try_init: create_entry binds the socket and spawns the *)
(* reader; on an error the cell stays empty.                               *)
InitCell(p) ==
  LET e == task[p].e IN
  /\ task[p].pc = "init"
  /\ \/ /\ ent' = [ent EXCEPT ![e].init = TRUE]
        /\ task' = [task EXCEPT ![p].pc = "register"]
     \/ ~ent[e].init /\ End(p) /\ ent' = Collect(ent, table, task')
  /\ UNCHANGED <<table, per_user, sweep, stream, parked, offer>>

-----------------------------------------------------------------------------
(* relay_socks5_datagram after the entry is there.                         *)
register_session(p) ==
  /\ task[p].pc = "register"
  /\ ent' = [ent EXCEPT ![task[p].e] = SetSlot(@, task[p].s)]
  /\ task' = [task EXCEPT ![p].pc = "track"]
  /\ UNCHANGED <<table, per_user, sweep, stream, parked, offer>>

(* StreamNatKeys::track.                                                   *)
Reconcile(ks) == {k \in ks : Live(k)}

track(p) ==
  LET s == task[p].s
      ks == stream[s].keys \cup {KeyOf(p)}
      kept == Reconcile(ks) IN
  /\ task[p].pc = "track"
  /\ stream' = IF Cardinality(ks) < stream[s].at
               THEN [stream EXCEPT ![s].keys = ks]
               ELSE [stream EXCEPT ![s].keys = kept,
                                   ![s].at = Max({2 * Cardinality(kept), Floor})]
  /\ task' = [task EXCEPT ![p].pc = "send"]
  /\ UNCHANGED <<table, ent, per_user, sweep, parked, offer>>

(* The payload is oversized, or is sent and the entry touched, or fails.   *)
Send(p) ==
  /\ task[p].pc = "send"
  /\ End(p)
  /\ ent' = Collect(ent, table, task')
  /\ UNCHANGED <<table, per_user, sweep, stream, parked, offer>>

-----------------------------------------------------------------------------
(* nat_reader_task: a response with no responder is dropped; otherwise the *)
(* reader holds the sender while it waits for room in its channel.         *)
ReaderReceives(e) ==
  /\ ent[e].init /\ ent[e].reader = None /\ ent[e].slot # None
  /\ ent' = [ent EXCEPT ![e].reader = ent[e].slot, ![e].moved = FALSE]
  /\ UNCHANGED <<table, per_user, sweep, stream, task, parked, offer>>

(* send_bytes returns: there was room in the channel, or its writer had    *)
(* gone.                                                                   *)
ReaderDelivers(e) ==
  /\ ent[e].reader # None
  /\ ent' = [ent EXCEPT ![e].reader = None]
  /\ UNCHANGED <<table, per_user, sweep, stream, task, parked, offer>>

(* send_until_moved: a signalled change of path ends the wait, unless the  *)
(* slot leads back to the same carrier.                                    *)
ReaderMoves(e) ==
  /\ ent[e].reader # None /\ ent[e].moved
  /\ ent' = [ent EXCEPT ![e].moved = FALSE,
                        ![e].reader = IF ent[e].slot = @ THEN @ ELSE None]
  /\ UNCHANGED <<table, per_user, sweep, stream, task, parked, offer>>

-----------------------------------------------------------------------------
(* evict_idle: retain visits one shard (here, one key) at a time and drops *)
(* its cell if it is empty or if its entry is past the idle timeout; the   *)
(* slots are released after the sweep.                                     *)
Swept == sweep.todo = {} /\ \A u \in NatUsers : sweep.released[u] = 0

SweepStart ==
  /\ Swept /\ \E k \in Keys : table[k] # None
  /\ sweep' = [sweep EXCEPT !.todo = {k \in Keys : table[k] # None}]
  /\ UNCHANGED <<table, ent, per_user, stream, task, parked, offer>>

SweepVisit(k) ==
  /\ k \in sweep.todo
  /\ \E expired \in BOOLEAN :
     LET gone == table[k] # None /\ (expired \/ ~ent[table[k]].init) IN
     /\ table' = IF gone THEN [table EXCEPT ![k] = None] ELSE table
     /\ ent' = Collect(ent, table', task)
     /\ sweep' = [todo |-> sweep.todo \ {k},
                  released |-> IF gone
                               THEN [sweep.released EXCEPT ![k[1]] = @ + 1]
                               ELSE sweep.released]
  /\ UNCHANGED <<per_user, stream, task, parked, offer>>

SweepRelease(u) ==
  /\ sweep.todo = {} /\ sweep.released[u] > 0
  /\ sweep' = [sweep EXCEPT !.released[u] = @ - 1]
  /\ release_user_slot(u)
  /\ UNCHANGED <<table, ent, stream, task, parked, offer>>

-----------------------------------------------------------------------------
(* release_ss_udp_stream_on_drop, after the tasks have drained.            *)
Drained(s) ==
  /\ stream[s].pc = "draining" /\ InFlight(s) = {}
  /\ stream' = [stream EXCEPT
                  ![s].pc = IF stream[s].keys = {} THEN "closing" ELSE "detaching",
                  ![s].todo = stream[s].keys, ![s].keys = {}, ![s].at = Floor]
  /\ UNCHANGED <<table, ent, per_user, sweep, task, parked, offer>>

detach_session_for_stream(x, s) == IF x.slot = s THEN SetSlot(x, None) ELSE x

(* detach_stream_nat_keys, one key.                                        *)
DetachKey(s, k) ==
  /\ stream[s].pc = "detaching" /\ k \in stream[s].todo
  /\ LET mine == Live(k) /\ ent[table[k]].slot = s IN
     stream' = [stream EXCEPT ![s].todo = @ \ {k},
                              ![s].got = IF mine THEN @ \cup {k} ELSE @]
  /\ ent' = IF Live(k)
            THEN [ent EXCEPT ![table[k]] = detach_session_for_stream(@, s)] ELSE ent
  /\ UNCHANGED <<table, per_user, sweep, task, parked, offer>>

Park(s) ==
  /\ stream[s].pc = "detaching" /\ stream[s].todo = {}
  /\ parked' = IF offer[s].issued # None /\ stream[s].got # {}
               THEN [parked EXCEPT ![offer[s].issued] = stream[s].got] ELSE parked
  /\ stream' = [stream EXCEPT ![s].pc = "closing", ![s].got = {}]
  /\ UNCHANGED <<table, ent, per_user, sweep, task, offer>>

(* The registry drops a parked stream (TTL or cap).                        *)
ParkLost(i) ==
  /\ parked[i] # {}
  /\ parked' = [parked EXCEPT ![i] = {}]
  /\ UNCHANGED <<table, ent, per_user, sweep, stream, task, offer>>

(* Clones of the stream's sender outside the stream itself.                *)
SenderHeld(s) ==
  \/ \E e \in EntryIds : ent[e].slot = s \/ ent[e].reader = s
  \/ InFlight(s) # {}

(* writer_task.await: the channel has closed, or the carrier failed first. *)
WriterEnds(s) ==
  /\ stream[s].pc = "closing"
  /\ stream' = [stream EXCEPT ![s].pc = "closed"]
  /\ UNCHANGED <<table, ent, per_user, sweep, task, parked, offer>>

-----------------------------------------------------------------------------
TaskStep(p) ==
  \/ ResolveScope(p) \/ (\E k \in Keys : Reattach(p, k)) \/ Adopt(p)
  \/ Lookup(p) \/ reserve_user_slot(p) \/ Insert(p) \/ InitCell(p)
  \/ register_session(p) \/ track(p) \/ Send(p)

Teardown(s) ==
  Drained(s) \/ (\E k \in Keys : DetachKey(s, k)) \/ Park(s) \/ WriterEnds(s)

Next ==
  \/ \E s \in Streams : Open(s) \/ LoopEnds(s)
  \/ \E s \in Streams, t \in Targets, p \in Tasks : Ingest(s, t, p)
  \/ \E p \in Tasks : TaskStep(p)
  \/ \E s \in Streams : Teardown(s)
  \/ \E e \in EntryIds : ReaderReceives(e) \/ ReaderDelivers(e) \/ ReaderMoves(e)
  \/ SweepStart \/ (\E k \in Keys : SweepVisit(k)) \/ \E u \in NatUsers : SweepRelease(u)
  \/ \E i \in Sids : ParkLost(i)

(* The runtime polls every spawned task and the teardown; nothing is said  *)
(* of the client, so a response may wait for room for ever.                *)
Fairness ==
  /\ \A p \in Tasks : WF_natVars(TaskStep(p))
  /\ \A s \in Streams : WF_natVars(Teardown(s))
  /\ \A e \in EntryIds : WF_natVars(ReaderMoves(e))

Spec == Init /\ [][Next]_natVars /\ Fairness

-----------------------------------------------------------------------------
(* The per-user counter is exact: it counts the user's cells, the slots    *)
(* reserved for a cell not yet inserted, and the slots the sweep has yet   *)
(* to hand back, and never exceeds the share - although saturating_sub     *)
(* would hide a slot released twice and nothing recounts a slot leaked.    *)
PerUserExact ==
  \A u \in NatUsers :
    /\ per_user[u] = Cardinality(Cells(u)) + sweep.released[u]
                     + Cardinality({p \in Tasks : /\ task[p].pc = "insert"
                                                  /\ UserOf[task[p].s] = u})
    /\ per_user[u] <= MaxPerUser

(* A carrier answers only for its own session: the responder of an entry   *)
(* in the table belongs to the key's user and addresses that entry itself, *)
(* its scope being the key's (or just being adopted).                      *)
ResponderMatchesSession ==
  \A k \in Keys : \A s \in Streams :
    table[k] # None /\ ent[table[k]].slot = s =>
      /\ k[1] = UserOf[s]
      /\ stream[s].scope = k[3] \/ (stream[s].scope = "resolving" /\ k \in stream[s].got)

(* Two carriers alive at a time never address the same scoped entries, so  *)
(* neither takes the other's responses: a parked session is resumed once.  *)
ScopeExclusive ==
  \A s, r \in Streams :
    /\ s # r /\ stream[s].pc = "open" /\ stream[r].pc = "open"
    /\ stream[s].scope \in Sids
    => stream[s].scope # stream[r].scope

(* A stream that has been torn down answers for no entry in the table,     *)
(* whichever entries were evicted, re-created or reconciled meanwhile.     *)
NoDepartedResponder ==
  \A k \in Keys : \A s \in Streams :
    stream[s].pc \in {"closing", "closed"} =>
      ~(table[k] # None /\ ent[table[k]].slot = s)

Drains(s) == stream[s].pc = "draining"

(* Every clone of an ended stream's sender is let go in the end, so that   *)
(* the carrier's writer sees its channel close: even when an entry's       *)
(* reader is waiting for room on a client that has stopped reading.        *)
SenderReleased == \A s \in Streams : Drains(s) ~> ~SenderHeld(s)
=============================================================================
