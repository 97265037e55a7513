------------------------------ MODULE XhttpSessions ------------------------------
(***************************************************************************)
(* The XHTTP session registry of outline-ss-rust and the downlink of its   *)
(* sessions: requests that find or create a session, the relay task of     *)
(* each session, the GET that drains its ring, and the janitor.            *)
(*                                                                         *)
(* A session object lives as long as the registry, its relay or a request  *)
(* holds it (an Arc); its slot in the per-source count goes with it.  All  *)
(* requests come from one source address.  A chunk of the downlink is its  *)
(* number and one unit of bytes.  The uplink is module XhttpUplink.        *)
(***************************************************************************)
EXTENDS Integers, Sequences, FiniteSets

CONSTANTS
    Ids,          \* session ids in the request paths
    Requests,     \* HTTP requests in flight at once
    Kinds,        \* \subseteq {"get", "one", "post0", "fin0", "h3fin0"}
    Objects,      \* 1 .. the number of sessions that can exist
    MaxRequests,  \* requests in one behaviour
    MaxSessions,  \* max_sessions
    MaxPerIp,     \* max_sessions_per_ip
    MaxRelays,    \* max_relay_tasks
    RingCap,      \* DOWNLINK_BUFFER_BYTES_CAP
    Chunks,       \* chunks the relay of a session pushes
    Idle,         \* session_idle_eviction, in ticks
    Events        \* \subseteq {"drop", "end", "quiet", "datagram"}

VARIABLES
    table,      \* sessions: id -> object, 0 when absent
    obj,        \* the session objects
    req,        \* the requests
    perIp,      \* the per-source count
    permits,    \* relay permits left
    count,      \* requests started
    got         \* chunks of each object the clients read

vars == <<table, obj, req, perIp, permits, count, got>>

NoObject ==
    [id |-> "-", made |-> FALSE, closed |-> FALSE, attached |-> FALSE, ring |-> <<>>,
     pushed |-> 0, relay |-> "none", notice |-> FALSE, room |-> FALSE,
     progress |-> 0, keepalive |-> 0, datagrams |-> FALSE]

NoRequest == [pc |-> "idle", kind |-> "-", id |-> "-", o |-> 0, queue |-> <<>>]

Init ==
    /\ table = [i \in Ids |-> 0]
    /\ obj = [o \in Objects |-> NoObject]
    /\ req = [r \in Requests |-> NoRequest]
    /\ perIp = 0 /\ permits = MaxRelays /\ count = 0
    /\ got = [o \in Objects |-> <<>>]

--------------------------------------------------------------------------------
(* Who still holds a session object *)
Held(o) ==
    \/ \E i \in Ids : table[i] = o
    \/ obj[o].relay \in {"run", "push", "close", "remove"}
    \/ \E r \in Requests : req[r].o = o

Live == {o \in Objects : obj[o].made}

(* XhttpSession::close wakes every waiter of the session. *)
Closed(b) == [b EXCEPT !.closed = TRUE, !.notice = TRUE, !.room = TRUE]

Done(r) == req' = [req EXCEPT ![r] = NoRequest]

Goto(r, pc) == req' = [req EXCEPT ![r].pc = pc]

--------------------------------------------------------------------------------
(* A request arrives; xhttp_edge looks the id up and may await a mesh
   relay, so what it saw can be stale at get_or_create. *)
Start(r, i, k) ==
    /\ req[r].pc = "idle" /\ count < MaxRequests
    /\ count' = count + 1
    /\ req' = [req EXCEPT ![r] = [NoRequest EXCEPT !.pc = "lookup", !.kind = k, !.id = i]]
    /\ UNCHANGED <<table, obj, perIp, permits, got>>

(* The part of each handler after it found a session: a GET goes on to its
   attach, a POST and a stream-one refuse a closed session. *)
FoundGet(r, o) ==
    req[r].kind = "get" /\ req' = [req EXCEPT ![r].o = o, ![r].pc = "attach"]

FoundPost(r, o) ==
    /\ req[r].kind \in {"post0", "fin0", "h3fin0"}
    /\ IF obj[o].closed THEN Done(r)
       ELSE req' = [req EXCEPT ![r].o = o, ![r].pc = "post"]

FoundOne(r, o) ==
    /\ req[r].kind = "one"
    /\ IF obj[o].closed THEN Done(r)
       ELSE req' = [req EXCEPT ![r].o = o, ![r].pc = "attach"]

Found(r, o) == FoundGet(r, o) \/ FoundPost(r, o) \/ FoundOne(r, o)

(* A FIN at seq 0 creates a session on h1 and h2, on h3 it only looks. *)
Creates(kind) == kind # "h3fin0"

(* get_or_create's fast path and its global cap *)
Lookup(r) ==
    /\ req[r].pc = "lookup"
    /\ LET o == table[req[r].id] IN
       IF o # 0 THEN Found(r, o)
       ELSE IF ~Creates(req[r].kind) THEN Done(r)
       ELSE IF Cardinality({i \in Ids : table[i] # 0}) >= MaxSessions THEN Done(r)
       ELSE Goto(r, "reserve")
    /\ UNCHANGED <<table, obj, perIp, permits, count, got>>

(* reserve_source_slot *)
Reserve(r) ==
    /\ req[r].pc = "reserve"
    /\ IF perIp >= MaxPerIp THEN Done(r) /\ UNCHANGED perIp
       ELSE Goto(r, "insert") /\ perIp' = perIp + 1
    /\ UNCHANGED <<table, obj, permits, count, got>>

(* The loser of the race keeps its reservation.  Mutant: the guard is
   forgotten, not dropped. *)
LoserKeepsSlot == perIp' = perIp

(* The guard that was not moved into a session is dropped. *)
LoserReturnsSlot == perIp' = perIp - 1

(* entry().or_insert_with *)
Insert(r) ==
    /\ req[r].pc = "insert"
    /\ LET o == table[req[r].id] IN
       IF o # 0
       THEN /\ Found(r, o) /\ LoserReturnsSlot /\ UNCHANGED <<table, obj>>
       ELSE \E n \in Objects :
              /\ ~obj[n].made /\ (\A m \in Objects : m < n => obj[m].made)
              /\ obj' = [obj EXCEPT ![n] = [NoObject EXCEPT !.made = TRUE, !.id = req[r].id]]
              /\ table' = [table EXCEPT ![req[r].id] = n]
              /\ req' = [req EXCEPT ![r].o = n, ![r].pc = "spawn"]
              /\ UNCHANGED perIp
    /\ UNCHANGED <<permits, count, got>>

(* spawn_relay takes a permit, or closes the session it cannot serve. *)
SpawnRelay(r) ==
    /\ req[r].pc = "spawn"
    /\ IF permits > 0
       THEN /\ permits' = permits - 1
            /\ obj' = [obj EXCEPT ![req[r].o].relay = "run"]
            /\ Goto(r, IF req[r].kind \in {"post0", "fin0"} THEN "post" ELSE "attach")
       ELSE /\ obj' = [obj EXCEPT ![req[r].o] = Closed(@)]
            /\ Goto(r, "unspawn")
            /\ UNCHANGED permits
    /\ UNCHANGED <<table, perIp, count, got>>

Unspawn(r) ==
    /\ req[r].pc = "unspawn"
    /\ table' = [table EXCEPT ![req[r].id] = 0]
    /\ Done(r)
    /\ UNCHANGED <<obj, perIp, permits, count, got>>

(* A data POST or a FIN: module XhttpUplink has the rest.  The FIN ends the
   relay's uplink. *)
Post(r) ==
    /\ req[r].pc = "post"
    /\ obj' = [obj EXCEPT ![req[r].o].progress = IF req[r].kind = "post0" THEN 0 ELSE @]
    /\ Done(r)
    /\ UNCHANGED <<table, perIp, permits, count, got>>

(* try_attach_get *)
SlotFree(b) == ~b.attached

Attach(r) ==
    /\ req[r].pc = "attach"
    /\ LET b == obj[req[r].o] IN
       IF b.closed \/ ~SlotFree(b) THEN Done(r) /\ UNCHANGED obj
       ELSE /\ obj' = [obj EXCEPT ![req[r].o].attached = TRUE]
            /\ Goto(r, "stream")
    /\ UNCHANGED <<table, perIp, permits, count, got>>

--------------------------------------------------------------------------------
(* The downlink body: drain the ring into the response's own queue, register
   and drain again, wait. *)

(* drain_downlink *)
Drained(b) ==
    IF b.ring = <<>> THEN b
    ELSE [b EXCEPT !.ring = <<>>, !.progress = 0, !.room = TRUE]

Stream(r) ==
    /\ req[r].pc \in {"stream", "recheck"} /\ req[r].queue = <<>>
    /\ LET o == req[r].o
           b == obj[o] IN
       /\ obj' = [obj EXCEPT ![o] = Drained(b)]
       /\ req' = [req EXCEPT ![r].queue = b.ring,
                             ![r].pc = IF b.ring # <<>> THEN "stream"
                                       ELSE IF b.closed THEN "detach"
                                       ELSE IF req[r].pc = "stream" THEN "register"
                                       ELSE "wait"]
    /\ UNCHANGED <<table, perIp, permits, count, got>>

(* The Notified of downlink_notify; a stored permit is consumed when it is
   first polled. *)
Register(r) ==
    /\ req[r].pc = "register"
    /\ Goto(r, "recheck")
    /\ UNCHANGED <<table, obj, perIp, permits, count, got>>

Woken(r) ==
    /\ req[r].pc = "wait" /\ obj[req[r].o].notice
    /\ obj' = [obj EXCEPT ![req[r].o].notice = obj[req[r].o].closed]
    /\ Goto(r, "stream")
    /\ UNCHANGED <<table, perIp, permits, count, got>>

(* One chunk of the queue goes out, as a body frame or on the h3 stream. *)
Send(r) ==
    /\ req[r].pc \in {"stream", "recheck"} /\ req[r].queue # <<>>
    /\ got' = [got EXCEPT ![req[r].o] = Append(@, Head(req[r].queue))]
    /\ req' = [req EXCEPT ![r].queue = Tail(@)]
    /\ UNCHANGED <<table, obj, perIp, permits, count>>

(* The body ends, or the client goes away and the body is dropped with what
   its queue still holds: detach_get. *)
Detach(r) ==
    /\ req[r].pc \in {"stream", "register", "recheck", "wait", "detach"}
    /\ req[r].pc = "detach" \/ "drop" \in Events
    /\ obj' = [obj EXCEPT ![req[r].o].attached = FALSE]
    /\ Done(r)
    /\ UNCHANGED <<table, perIp, permits, count, got>>

--------------------------------------------------------------------------------
(* The relay task: push_downlink, its wait for room, and its end *)
Push(o) ==
    /\ obj[o].relay = "run" /\ ~obj[o].closed /\ obj[o].pushed < Chunks
    /\ IF Len(obj[o].ring) + 1 <= RingCap
       THEN obj' = [obj EXCEPT ![o].ring = Append(@, obj[o].pushed),
                               ![o].pushed = @ + 1, ![o].notice = TRUE,
                               ![o].progress = 0]
       ELSE obj' = [obj EXCEPT ![o].relay = "push"]
    /\ UNCHANGED <<table, req, perIp, permits, count, got>>

(* The permit of downlink_drain_notify, or the close. *)
RoomFreed(o) ==
    /\ obj[o].relay = "push" /\ obj[o].room
    /\ obj' = [obj EXCEPT ![o].relay = "run", ![o].room = obj[o].closed]
    /\ UNCHANGED <<table, req, perIp, permits, count, got>>

(* The relay returns: the session was closed, or its upstream or uplink
   ended.  It always closes the session, then drops the registry slot. *)
RelayEnds(o) ==
    /\ obj[o].relay = "run"
    /\ obj[o].closed \/ "end" \in Events
    /\ obj' = [obj EXCEPT ![o].relay = "close"]
    /\ UNCHANGED <<table, req, perIp, permits, count, got>>

RelayCloses(o) ==
    /\ obj[o].relay = "close"
    /\ obj' = [obj EXCEPT ![o] = [Closed(@) EXCEPT !.relay = "remove"]]
    /\ UNCHANGED <<table, req, perIp, permits, count, got>>

(* registry.remove goes by id. *)
RelayRemoves(o) ==
    /\ obj[o].relay = "remove"
    /\ table' = [table EXCEPT ![obj[o].id] = 0]
    /\ obj' = [obj EXCEPT ![o].relay = "over"]
    /\ permits' = permits + 1
    /\ UNCHANGED <<req, perIp, count, got>>

(* The last Arc goes: PerIpGuard's drop. *)
DropSession(o) ==
    /\ obj[o].made /\ ~Held(o)
    /\ obj' = [obj EXCEPT ![o] = [NoObject EXCEPT !.made = FALSE]]
    /\ got' = [got EXCEPT ![o] = <<>>]
    /\ perIp' = perIp - 1
    /\ UNCHANGED <<table, req, permits, count>>

--------------------------------------------------------------------------------
(* The janitor *)

(* is_evictable: a stalled downlink, a silent datagram session, or neither
   progress nor keepalive *)
is_evictable(b) ==
    \/ (b.ring # <<>> \/ b.datagrams) /\ b.progress >= Idle
    \/ b.progress >= Idle /\ b.keepalive >= Idle

(* evict_idle, one entry *)
Sweep(i) ==
    /\ table[i] # 0
    /\ obj[table[i]].closed \/ is_evictable(obj[table[i]])
    /\ table' = [table EXCEPT ![i] = 0]
    /\ obj' = [obj EXCEPT ![table[i]] = IF @.closed THEN @ ELSE Closed(@)]
    /\ UNCHANGED <<req, perIp, permits, count, got>>

(* An uplink datagram counts as progress. *)
UplinkDatagram(o) ==
    /\ "datagram" \in Events /\ obj[o].relay = "run" /\ ~obj[o].closed
    /\ obj' = [obj EXCEPT ![o].datagrams = TRUE, ![o].progress = 0]
    /\ UNCHANGED <<table, req, perIp, permits, count, got>>

(* Time: the relay's keepalive tick stamps the session each period, also
   while its writer waits for room. *)
Tick ==
    /\ "quiet" \in Events
    /\ obj' = [o \in Objects |->
                 IF ~obj[o].made THEN obj[o]
                 ELSE [obj[o] EXCEPT
                         !.progress = IF @ < Idle THEN @ + 1 ELSE @,
                         !.keepalive = IF obj[o].relay \in {"run", "push"} THEN 0
                                       ELSE IF @ < Idle THEN @ + 1 ELSE @]]
    /\ UNCHANGED <<table, req, perIp, permits, count, got>>

--------------------------------------------------------------------------------
Handler(r) ==
    \/ Lookup(r) \/ Reserve(r) \/ Insert(r) \/ SpawnRelay(r) \/ Unspawn(r)
    \/ Post(r) \/ Attach(r) \/ Stream(r) \/ Register(r) \/ Woken(r) \/ Send(r)
    \/ (req[r].pc = "detach" /\ Detach(r))

Relay(o) ==
    \/ RoomFreed(o) \/ (obj[o].closed /\ RelayEnds(o)) \/ RelayCloses(o) \/ RelayRemoves(o)
    \/ DropSession(o)

Next ==
    \/ \E r \in Requests :
         \/ \E i \in Ids, k \in Kinds : Start(r, i, k)
         \/ Handler(r) \/ Detach(r)
    \/ \E o \in Objects : Relay(o) \/ Push(o) \/ RelayEnds(o) \/ UplinkDatagram(o)
    \/ \E i \in Ids : Sweep(i)
    \/ Tick

Spec == Init /\ [][Next]_vars

(* The runtime polls every task that is ready and the janitor's interval
   keeps ticking; clients and upstreams owe nothing. *)
FairSpec ==
    /\ Spec /\ WF_vars(Tick)
    /\ \A r \in Requests : WF_vars(Handler(r))
    /\ \A o \in Objects : WF_vars(Relay(o))
    /\ \A i \in Ids : WF_vars(Sweep(i))

--------------------------------------------------------------------------------
(* The per-source count is the number of session objects still held plus
   the reservations of requests between reserve and insert, whatever order
   relays, sweeps, lost races and handlers end in (PerIpGuard). *)
PerIpExact ==
    perIp = Cardinality(Live)
            + Cardinality({r \in Requests : req[r].pc = "insert"})

(* Chunks reach the clients of a session in order, each at most once, over
   all its GETs, and without a gap unless a GET was dropped. *)
DownlinkInOrder ==
    \A o \in Objects :
        /\ \A k \in 1 .. Len(got[o]) - 1 : got[o][k] < got[o][k + 1]
        /\ ("drop" \notin Events => \A k \in DOMAIN got[o] : got[o][k] = k - 1)

Pushing(o) == obj[o].relay = "push"

(* No relay is stuck for ever on a full ring: a session whose client stopped
   reading is closed by the sweep, although its relay's keepalive keeps
   ticking. *)
StuckPushEnds == \A o \in Objects : Pushing(o) ~> ~Pushing(o)
================================================================================
