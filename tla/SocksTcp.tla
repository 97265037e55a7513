-------------------------------- MODULE SocksTcp --------------------------------
(***************************************************************************)
(* One SOCKS CONNECT session of the client: the dial over the uplinks, the *)
(* wait for the first upstream chunk with its same-uplink redials and its  *)
(* failover, then the pinned relay with mid-session retry and soft switch. *)
(*                                                                         *)
(* The client's bytes are 1 .. Up and its EOF is Up + 1; the target's are  *)
(* 1 .. Down.  `conn` is the server's connection to the target behind the  *)
(* current carrier: a resume hit keeps it, any other dial opens a new one. *)
(* The server's side is modelled by what its session does: it parks the    *)
(* connection of a dead carrier and re-attaches it.                        *)
(***************************************************************************)
EXTENDS Integers, Sequences, SequencesExt, FiniteSets

CONSTANTS
    Uplinks, Wires,
    Strict,       \* active_passive: one candidate, watched for switches
    GlobalProbe,  \* strict over the whole group, with probes
    Resume,       \* the server issues session ids
    SharedResume, \* any uplink may resume the session
    TargetFirst,  \* the client waits for the target's first byte
    Up, Down,
    Chunk,        \* bytes one read may return
    ReplayCap,    \* MAX_CHUNK0_FAILOVER_BUF
    RingCap,      \* tcp_mid_session_retry_buffer_bytes
    Budget,       \* tcp_mid_session_retry_budget
    Soft,         \* tcp_mid_session_retry_overflow_policy = "soft"
    MaxRst,       \* CHUNK0_RST_MAX_RETRIES
    Standby,      \* the dial may hand out a pooled carrier
    Faults,       \* \subseteq {"dial", "again", "reset", "clean", "silent", "partial", "trunc", "idle",
                  \*             "send", "client"}
    MaxFaults,    \* 0: no bound
    MaxSwitch

VARIABLES
    s,        \* the session's task
    cl,       \* the client: bytes read from it, bytes it got, bytes acked, connection broken
    conn,     \* the upstream connection: what it got and sent, inq to it
    car,      \* the carrier: alive or how it died, bytes on it to the client
    replay,   \* ReplayBufState
    ring,     \* ClientUpstreamRingBuffer: total_sent and its entries
    active,   \* the manager's active pointer and its intent
    blamed,   \* uplinks reported to the manager as failing
    faults

vars == <<s, cl, conn, car, replay, ring, active, blamed, faults>>

Eof == Up + 1

NewConn == [got |-> <<>>, inq |-> <<>>, sent |-> 0, st |-> "live"]

NewCarrier == [kind |-> "alive", down |-> <<>>]

Init ==
    /\ s = [pc |-> "connect", u |-> 0, w |-> 0, src |-> "fresh", half |-> FALSE,
            rst |-> 0, tried |-> {}, wires |-> {}, deferred |-> {}, can |-> FALSE,
            err |-> "none", budget |-> 0, first |-> <<>>, wr |-> <<>>, len |-> 0,
            upDone |-> FALSE, cand |-> 0, since |-> 0, answered |-> FALSE, refused |-> {}]
    /\ cl = [read |-> 0, got |-> <<>>, acked |-> 0, gone |-> FALSE]
    /\ conn = [NewConn EXCEPT !.st = "none"]
    /\ car = [kind |-> "none", down |-> <<>>]
    /\ replay = [n |-> 0, overflow |-> FALSE]
    /\ ring = [total |-> 0, entries |-> <<>>]
    /\ active \in [idx : Uplinks, soft : BOOLEAN, moves : {0}]
    /\ blamed = {}
    /\ faults = 0

Fault(kind) ==
    /\ kind \in Faults
    /\ MaxFaults = 0 \/ faults < MaxFaults
    /\ faults' = IF MaxFaults = 0 THEN 0 ELSE faults + 1

Over == [s EXCEPT !.pc = "over"]

Data(seq) == SelectSeq(seq, LAMBDA b : b # Eof)

Bytes(a, b) == [i \in 1 .. (b - a + 1) |-> a + i - 1]

--------------------------------------------------------------------------------
(* The server's end of the carrier *)

(* A byte reaches the target; a second EOF changes nothing. *)
Deliver ==
    /\ conn.st = "live" /\ conn.inq # <<>>
    /\ conn' = [conn EXCEPT !.inq = Tail(@),
                            !.got = IF Head(conn.inq) = Eof /\ conn.got # <<>>
                                       /\ Last(conn.got) = Eof
                                    THEN @ ELSE Append(@, Head(conn.inq))]
    /\ UNCHANGED <<s, cl, car, replay, ring, active, blamed, faults>>

(* The target sends: at once when it speaks first, else after a request. *)
TargetSends ==
    /\ conn.st = "live" /\ car.kind = "alive" /\ conn.sent < Down
    /\ TargetFirst \/ conn.got # <<>>
    /\ conn' = [conn EXCEPT !.sent = @ + 1]
    /\ car' = [car EXCEPT !.down = Append(@, conn.sent + 1)]
    /\ UNCHANGED <<s, cl, replay, ring, active, blamed, faults>>

(* The carrier dies: a reset that may lose bytes on the way, a Close other
   than the clean one ("again"), or the clean end of the upstream. *)
CarrierDies(kind) ==
    /\ car.kind = "alive" /\ s.pc \in {"await", "relay"}
    /\ Fault(kind)
    /\ \E k \in 0 .. Len(car.down) :
         /\ kind # "reset" => k = Len(car.down)
         /\ car' = [kind |-> kind, down |-> SubSeq(car.down, 1, k)]
    /\ conn' = IF kind = "clean" THEN [conn EXCEPT !.st = "gone"] ELSE conn
    /\ UNCHANGED <<s, cl, replay, ring, active, blamed>>

(* The server notices and parks the connection. *)
ServerParks ==
    /\ conn.st = "live" /\ car.kind # "alive"
    /\ conn' = [conn EXCEPT !.st = IF Resume THEN "parked" ELSE "gone", !.inq = <<>>]
    /\ UNCHANGED <<s, cl, car, replay, ring, active, blamed, faults>>

--------------------------------------------------------------------------------
(* Dials.  `present` says whether the dial shows the session's id. *)
Hit(present) == present /\ Resume /\ conn.st = "parked"

Connected(present) == IF Hit(present) THEN [conn EXCEPT !.st = "live"] ELSE NewConn

Sent(c, bytes) == [c EXCEPT !.inq = @ \o bytes]

(* connect_tcp_uplink over the candidates.  Strict: the active one, once
   each; else every candidate in turn. *)
ConnectOk(u, w, src) ==
    /\ s.pc = "connect" /\ u \notin s.tried
    /\ (Strict => u = active.idx)
    /\ src = "standby" => Standby
    /\ s' = [s EXCEPT !.pc = "await", !.u = u, !.w = w, !.src = src,
                      !.tried = IF Strict THEN @ \cup {u} ELSE @, !.since = active.moves]
    /\ conn' = NewConn /\ car' = NewCarrier
    /\ UNCHANGED <<cl, replay, ring, active, blamed, faults>>

ConnectFails(u) ==
    /\ s.pc = "connect" /\ u \notin s.tried
    /\ (Strict => u = active.idx)
    /\ Fault("dial")
    /\ blamed' = blamed \cup {u}
    /\ s' = [s EXCEPT !.tried = @ \cup {u}, !.refused = @ \cup {u}]
    /\ UNCHANGED <<cl, conn, car, replay, ring, active>>

NoUplink ==
    /\ s.pc = "connect"
    /\ IF Strict THEN active.idx \in s.tried ELSE s.tried = Uplinks
    /\ s' = Over
    /\ UNCHANGED <<cl, conn, car, replay, ring, active, blamed, faults>>

--------------------------------------------------------------------------------
(* await_first_upstream_chunk *)

Push(n) ==
    IF replay.overflow THEN replay
    ELSE IF replay.n + n <= ReplayCap THEN [replay EXCEPT !.n = @ + n]
    ELSE [replay EXCEPT !.overflow = TRUE]

Replayed == Bytes(1, replay.n) \o (IF s.half THEN <<Eof>> ELSE <<>>)

(* can_failover is computed when an attempt starts. *)
CanFailover == Strict /\ ~replay.overflow /\ Cardinality(s.tried) < Cardinality(Uplinks)

StartAttempt ==
    /\ s.pc = "await" /\ s.err = "none"
    /\ s' = [s EXCEPT !.can = CanFailover, !.err = "waiting"]
    /\ UNCHANGED <<cl, conn, car, replay, ring, active, blamed, faults>>

(* A write on a dead carrier is swallowed, or fails. *)
Swallowed(bytes) == IF car.kind = "alive" THEN Sent(conn, bytes) ELSE conn

SendFails(kind) == car.kind # "alive" /\ Fault("send") /\ s' = [s EXCEPT !.pc = "standby", !.err = kind]

(* A broken client connection reports its error once, then an end of stream. *)
AtEnd == cl.read = Up \/ cl.gone

(* The client's chunk is sent, then kept for a replay. *)
ForwardFirst(n) ==
    /\ s.pc = "await" /\ s.err = "waiting" /\ ~s.half /\ ~TargetFirst
    /\ cl.read + n <= Up /\ ~cl.gone
    /\ cl' = [cl EXCEPT !.read = @ + n]
    /\ \/ /\ conn' = Swallowed(Bytes(cl.read + 1, cl.read + n))
          /\ replay' = Push(n)
          /\ UNCHANGED <<s, faults>>
       \/ SendFails("reset") /\ UNCHANGED <<conn, replay>>
    /\ UNCHANGED <<car, ring, active, blamed>>

HalfClose ==
    /\ s.pc = "await" /\ s.err = "waiting" /\ ~s.half
    /\ AtEnd /\ (TargetFirst => cl.gone)
    /\ \/ /\ conn' = Swallowed(<<Eof>>)
          /\ s' = [s EXCEPT !.half = TRUE]
          /\ UNCHANGED faults
       \/ SendFails("reset") /\ UNCHANGED conn
    /\ UNCHANGED <<cl, car, replay, ring, active, blamed>>

(* A failed attempt's report waits until another uplink answers. *)
Defer(t) == blamed' = blamed

Eligible == RingCap > 0 /\ Budget > 0

(* The first chunk ends the window: the deferred failures are reported, the
   relay starts with an empty ring. *)
FirstChunk(n) ==
    /\ s.pc = "await" /\ s.err = "waiting" /\ n \in 1 .. Len(car.down)
    /\ blamed' = blamed \cup s.deferred
    /\ s' = [s EXCEPT !.pc = "relay", !.err = "none", !.first = SubSeq(car.down, 1, n),
                      !.answered = TRUE,
                      !.budget = IF Eligible THEN Budget ELSE 0]
    /\ car' = [car EXCEPT !.down = SubSeq(@, n + 1, Len(@))]
    /\ UNCHANGED <<cl, conn, replay, ring, active, faults>>

(* The upstream ended cleanly before any byte. *)
CleanEnd ==
    /\ s.pc = "await" /\ s.err = "waiting" /\ car.kind = "clean" /\ car.down = <<>>
    /\ s' = Over
    /\ UNCHANGED <<cl, conn, car, replay, ring, active, blamed, faults>>

(* The attempt fails: the carrier died, or the deadline passed. *)
AttemptFails ==
    /\ s.pc = "await" /\ s.err = "waiting" /\ car.down = <<>>
    /\ \/ /\ car.kind \in {"again", "reset"}
          /\ s' = [s EXCEPT !.pc = "standby", !.err = car.kind]
          /\ UNCHANGED <<car, faults>>
       \/ /\ car.kind = "alive" /\ Fault("silent")
          /\ s' = [s EXCEPT !.pc = "standby", !.err = "timeout"]
          /\ car' = [car EXCEPT !.kind = "left"]
    /\ UNCHANGED <<cl, conn, replay, ring, active, blamed>>

(* A read from the client fails: the attempt ends as if its carrier had. *)
ClientReadFails ==
    /\ s.pc = "await" /\ s.err = "waiting" /\ ~s.half /\ ~cl.gone
    /\ Fault("client")
    /\ cl' = [cl EXCEPT !.gone = TRUE]
    /\ car' = [car EXCEPT !.kind = IF @ = "alive" THEN "left" ELSE @]
    /\ s' = [s EXCEPT !.pc = "standby", !.err = "client"]
    /\ UNCHANGED <<conn, replay, ring, active, blamed>>

(* redial_current_uplink_and_replay: it shows the session's id and replays
   the buffer from its start. *)
Redial(next) ==
    /\ conn' = Sent(Connected(TRUE), Replayed) /\ car' = NewCarrier
    /\ s' = [next EXCEPT !.pc = "await", !.err = "none", !.src = "fresh"]
    /\ UNCHANGED <<cl, replay, ring, active, blamed, faults>>

RedialFails(next) ==
    /\ Fault("dial")
    /\ s' = next
    /\ UNCHANGED <<cl, conn, car, replay, ring, active, blamed>>

StandbyRetry ==
    /\ s.pc = "standby"
    /\ IF s.src = "standby"
       THEN Redial(s) \/ RedialFails([s EXCEPT !.pc = "rst", !.err = "reset"])
       ELSE s' = [s EXCEPT !.pc = "rst"]
            /\ UNCHANGED <<cl, conn, car, replay, ring, active, blamed, faults>>

RetryCounted(t) == [t EXCEPT !.rst = @ + 1]

should_retry_rst == s.src = "fresh" /\ s.rst < MaxRst /\ s.err = "again"

RstRetry ==
    /\ s.pc = "rst"
    /\ IF should_retry_rst
       THEN Redial(RetryCounted(s)) \/ RedialFails([s EXCEPT !.pc = "escalate", !.err = "reset"])
       ELSE s' = [s EXCEPT !.pc = "escalate"]
            /\ UNCHANGED <<cl, conn, car, replay, ring, active, blamed, faults>>

(* No failover: the failure is attributed only when it was the first one, and
   a Close is not one (attribute_terminal_chunk0_failure). *)
Terminal ==
    /\ s.pc = "escalate" /\ ~s.can
    /\ blamed' = IF s.deferred = {} /\ s.err # "again" THEN blamed \cup {s.u} ELSE blamed
    /\ s' = Over
    /\ UNCHANGED <<cl, conn, car, replay, ring, active, faults>>

(* The buffered bytes start the new connection.  Mutant: the half-close
   alone is repeated. *)
SwitchedUnreplayed(t, u, w, src) ==
    /\ Defer(s)
    /\ conn' = Sent(NewConn, IF s.half THEN <<Eof>> ELSE <<>>) /\ car' = NewCarrier
    /\ s' = [t EXCEPT !.pc = "await", !.err = "none", !.u = u, !.w = w, !.src = src,
                      !.rst = 0, !.deferred = @ \cup {s.u}]

Switched(t, u, w, src) ==
    /\ Defer(s)
    /\ conn' = Sent(NewConn, Replayed) /\ car' = NewCarrier
    /\ s' = [t EXCEPT !.pc = "await", !.err = "none", !.u = u, !.w = w, !.src = src,
                      !.rst = 0, !.deferred = @ \cup {s.u}]

WiresTried == s.wires \cup {<<s.u, s.w>>}

(* failover_to_next_candidate: first the wires of this uplink not tried
   yet, in dial order ... *)
FailoverWire(w, src) ==
    /\ s.pc = "escalate" /\ s.can /\ <<s.u, w>> \notin WiresTried
    /\ src = "standby" => Standby
    /\ LET t == [s EXCEPT !.wires = WiresTried \cup {<<s.u, w>>}]
       IN \/ Switched(t, s.u, w, src) /\ UNCHANGED faults
          \/ Fault("dial") /\ s' = t /\ UNCHANGED <<conn, car, blamed>>
    /\ UNCHANGED <<cl, replay, ring, active>>

WiresLeft == \E w \in Wires : <<s.u, w>> \notin WiresTried

(* confirm_runtime_failover_uplink_for repoints the group, except where the
   probe decides. *)
ConfirmFailover(u) ==
    active' = IF GlobalProbe THEN active ELSE [active EXCEPT !.idx = u, !.soft = TRUE]

(* ... then the next uplink not tried yet; a failed dial of it is reported
   at once and ends the session. *)
FailoverUplink(u, w, src) ==
    /\ s.pc = "escalate" /\ s.can /\ ~WiresLeft /\ u \notin s.tried
    /\ src = "standby" => Standby
    /\ LET t == [s EXCEPT !.tried = @ \cup {u}, !.wires = WiresTried \cup {<<u, w>>}]
       IN \/ Switched(t, u, w, src) /\ ConfirmFailover(u) /\ UNCHANGED faults
          \/ /\ Fault("dial") /\ blamed' = blamed \cup {u}
             /\ s' = [t EXCEPT !.pc = "over", !.refused = @ \cup {u}]
             /\ UNCHANGED <<conn, car, active>>
    /\ UNCHANGED <<cl, replay, ring>>

(* The manager offers no uplink that is left to try. *)
NoCandidate ==
    /\ s.pc = "escalate" /\ s.can /\ ~WiresLeft
    /\ s' = Over
    /\ UNCHANGED <<cl, conn, car, replay, ring, active, blamed, faults>>

--------------------------------------------------------------------------------
(* run_relay *)

SumLen(es) == FoldLeft(LAMBDA n, e : n + Len(e), 0, es)

(* push: the oldest entries make room for the chunk. *)
RingPush(bytes) ==
    LET n == Len(ring.entries)
        keep == CHOOSE k \in 0 .. n :
                  /\ SumLen(SubSeq(ring.entries, n - k + 1, n)) + Len(bytes) <= RingCap
                  /\ \A j \in (k + 1) .. n :
                       SumLen(SubSeq(ring.entries, n - j + 1, n)) + Len(bytes) > RingCap
    IN [total |-> ring.total + Len(bytes),
        entries |-> Append(SubSeq(ring.entries, n - keep + 1, n), bytes)]

oldest_offset == ring.total - SumLen(ring.entries)

Buffer(bytes) == RingPush(bytes)

RelayErr(t, kind) == [t EXCEPT !.pc = "failed", !.err = kind, !.wr = <<>>, !.first = <<>>]

(* The uplink task: read, push to the ring, send.  Under the hard policy a
   chunk the ring refuses is an error; a send on a dead carrier is one. *)
UplinkChunk(n) ==
    /\ s.pc = "relay" /\ ~s.upDone /\ cl.read + n <= Up /\ ~cl.gone
    /\ (TargetFirst => cl.got # <<>>)
    /\ cl' = [cl EXCEPT !.read = @ + n]
    /\ LET bytes == Bytes(cl.read + 1, cl.read + n)
           refused == Eligible /\ n > RingCap
       IN /\ ring' = IF ~Eligible \/ refused THEN ring ELSE Buffer(bytes)
          /\ \/ refused /\ ~Soft /\ s' = RelayErr(s, "reset") /\ UNCHANGED conn
             \/ ~(refused /\ ~Soft) /\ conn' = Swallowed(bytes) /\ UNCHANGED s
             \/ /\ ~(refused /\ ~Soft) /\ car.kind # "alive"
                /\ s' = RelayErr(s, "reset") /\ UNCHANGED conn
    /\ UNCHANGED <<car, replay, active, blamed, faults>>

UplinkEof ==
    /\ s.pc = "relay" /\ ~s.upDone /\ AtEnd
    /\ (TargetFirst => cl.got # <<>> \/ cl.gone)
    /\ \/ s' = [s EXCEPT !.upDone = TRUE] /\ conn' = Swallowed(<<Eof>>)
       \/ car.kind # "alive" /\ s' = RelayErr(s, "reset") /\ UNCHANGED conn
    /\ UNCHANGED <<cl, car, replay, ring, active, blamed, faults>>

(* The client's connection breaks under the relay; that error is not retried. *)
ClientBreaks ==
    /\ s.pc = "relay" /\ ~s.upDone /\ ~cl.gone
    /\ Fault("client")
    /\ cl' = [cl EXCEPT !.gone = TRUE]
    /\ s' = RelayErr(s, "client")
    /\ UNCHANGED <<conn, car, replay, ring, active, blamed>>

(* The downlink task takes a chunk and writes it; an abort can catch the
   write part-way. *)
DownlinkReads(n) ==
    /\ s.pc = "relay" /\ s.wr = <<>>
    /\ \/ /\ s.first # <<>> /\ n = Len(s.first)
          /\ s' = [s EXCEPT !.wr = s.first, !.len = n, !.first = <<>>] /\ UNCHANGED car
       \/ /\ s.first = <<>> /\ n \in 1 .. Len(car.down)
          /\ s' = [s EXCEPT !.wr = SubSeq(car.down, 1, n), !.len = n]
          /\ car' = [car EXCEPT !.down = SubSeq(@, n + 1, Len(@))]
    /\ UNCHANGED <<cl, conn, replay, ring, active, blamed, faults>>

(* write_all may take the chunk in parts; acked moves when all is written. *)
WritesPart ==
    /\ s.pc = "relay" /\ Len(s.wr) > 1 /\ Fault("partial")
    /\ cl' = [cl EXCEPT !.got = Append(@, Head(s.wr))]
    /\ s' = [s EXCEPT !.wr = Tail(@)]
    /\ UNCHANGED <<conn, car, replay, ring, active, blamed>>

Written ==
    /\ s.pc = "relay" /\ s.wr # <<>>
    /\ cl' = [cl EXCEPT !.got = @ \o s.wr, !.acked = @ + s.len]
    /\ s' = [s EXCEPT !.wr = <<>>]
    /\ UNCHANGED <<conn, car, replay, ring, active, blamed, faults>>

(* The stream ended: a clean end finishes the session, else it failed. *)
DownlinkEnds ==
    /\ s.pc = "relay" /\ s.wr = <<>> /\ s.first = <<>> /\ car.down = <<>>
    /\ car.kind \in {"clean", "again", "reset"}
    /\ s' = IF car.kind = "clean" THEN Over ELSE RelayErr(s, car.kind)
    /\ UNCHANGED <<cl, conn, car, replay, ring, active, blamed, faults>>

(* Nothing moved for the idle timeout. *)
IdleEnds ==
    /\ s.pc = "relay" /\ ~s.upDone /\ Fault("idle")
    /\ s' = Over
    /\ UNCHANGED <<cl, conn, car, replay, ring, active, blamed>>

(* After the client's EOF only the downlink and a timer are waited for. *)
PostEofTimeout ==
    /\ s.pc = "relay" /\ s.upDone
    /\ s' = Over
    /\ UNCHANGED <<cl, conn, car, replay, ring, active, blamed, faults>>

LeftBehind == active.idx # s.u

Leave(t) == IF t.pc = "retry" /\ car.kind = "alive" THEN [car EXCEPT !.kind = "left"] ELSE car

SoftMigrates == SharedResume /\ Eligible /\ active.soft

(* The watcher aborts both tasks; a soft switch goes on at the new uplink. *)
SwitchAborts ==
    /\ Strict /\ s.pc = "relay" /\ ~s.upDone /\ LeftBehind
    /\ s' = [RelayErr(s, "switch") EXCEPT !.cand = active.idx,
               !.pc = IF SoftMigrates THEN "retry" ELSE "over"]
    /\ car' = Leave(s')
    /\ UNCHANGED <<cl, conn, replay, ring, active, blamed, faults>>

(* A failed iteration: retried while the budget lasts. *)
RelayFails ==
    /\ s.pc = "failed"
    /\ IF s.budget > 0 /\ s.err = "reset"
       THEN s' = [s EXCEPT !.pc = "retry", !.budget = @ - 1, !.cand = s.u]
       ELSE s' = Over
    /\ car' = Leave(s')
    /\ UNCHANGED <<cl, conn, replay, ring, active, blamed, faults>>

Buffered == FlattenSeq(ring.entries)

ReplayFrom(offset) == SubSeq(Buffered, offset - oldest_offset + 1, Len(Buffered))

MidSessionRedial == Connected(TRUE)

(* The ack prefix, and the downlink bytes past the client's acked offset. *)
ServerAcked == Len(Data(conn.got))

DownlinkReplay == Bytes(cl.acked + 1, conn.sent)

(* try_mid_session_retry: the pointer is checked, the redial asks for the
   ack prefix and the downlink replay.  A miss sends no control frame and
   the retry fails; without ids the whole ring goes to a new connection. *)
RetryLost ==
    /\ s.pc = "retry"
    /\ \/ Strict /\ active.idx # s.cand /\ UNCHANGED faults
       \/ Fault("dial")
       \/ Resume /\ conn.st # "parked" /\ UNCHANGED faults
       \/ /\ Hit(TRUE) /\ UNCHANGED faults
          /\ ServerAcked \notin oldest_offset .. ring.total
       \/ Hit(TRUE) /\ ~Soft /\ Fault("trunc")
    /\ s' = Over
    /\ UNCHANGED <<cl, conn, car, replay, ring, active, blamed>>

Resumed(bytes, first, c) ==
    /\ conn' = Sent(c, bytes) /\ car' = NewCarrier
    /\ s' = [s EXCEPT !.pc = "relay", !.err = "none", !.u = s.cand, !.upDone = FALSE,
                      !.first = first]

RetryHit ==
    /\ s.pc = "retry" /\ (Strict => active.idx = s.cand) /\ Hit(TRUE)
    /\ ServerAcked \in oldest_offset .. ring.total
    /\ \/ Resumed(ReplayFrom(ServerAcked), DownlinkReplay, MidSessionRedial) /\ UNCHANGED faults
       \/ Soft /\ Fault("trunc") /\ Resumed(ReplayFrom(ServerAcked), <<>>, MidSessionRedial)
    /\ UNCHANGED <<cl, replay, ring, active, blamed>>

RetryNew ==
    /\ s.pc = "retry" /\ (Strict => active.idx = s.cand) /\ ~Resume
    /\ Resumed(Buffered, <<>>, NewConn)
    /\ UNCHANGED <<cl, replay, ring, active, blamed, faults>>

(* The manager moves its active pointer. *)
ActiveMoves(u, soft) ==
    /\ active.moves < MaxSwitch /\ u # active.idx
    /\ active' = [idx |-> u, soft |-> soft, moves |-> active.moves + 1]
    /\ UNCHANGED <<s, cl, conn, car, replay, ring, blamed, faults>>

--------------------------------------------------------------------------------
Sources == {"fresh", "standby"}

Task ==
    \/ NoUplink \/ StartAttempt \/ CleanEnd \/ StandbyRetry \/ RstRetry \/ Terminal \/ NoCandidate
    \/ RelayFails \/ SwitchAborts \/ PostEofTimeout \/ RetryLost \/ RetryHit \/ RetryNew \/ UplinkEof
    \/ \E u \in Uplinks, w \in Wires, src \in Sources :
         ConnectOk(u, w, src) \/ FailoverUplink(u, w, src)
    \/ \E w \in Wires, src \in Sources : FailoverWire(w, src)
    \/ \E n \in 1 .. Chunk : FirstChunk(n) \/ DownlinkReads(n)
    \/ Written \/ DownlinkEnds \/ AttemptFails

Next ==
    \/ Task \/ Deliver \/ TargetSends \/ ServerParks \/ HalfClose \/ WritesPart \/ IdleEnds
    \/ ClientReadFails \/ ClientBreaks
    \/ \E kind \in {"again", "reset", "clean"} : CarrierDies(kind)
    \/ \E u \in Uplinks : ConnectFails(u) \/ \E soft \in BOOLEAN : ActiveMoves(u, soft)
    \/ \E n \in 1 .. Chunk : ForwardFirst(n) \/ UplinkChunk(n)

Spec == Init /\ [][Next]_vars

(* The session's task runs; its carriers and peers owe nothing. *)
FairSpec == Spec /\ WF_vars(Task)

--------------------------------------------------------------------------------
(* Every target connection gets a prefix of what the client sent, its EOF
   last: over redials, failovers, retries and soft switches nothing is lost,
   repeated or reordered (ReplayBufState, ClientUpstreamRingBuffer).  A client
   whose connection broke has sent what was read of it. *)
ClientStream == Bytes(1, IF cl.gone THEN cl.read ELSE Up) \o <<Eof>>
UplinkExact == IsPrefix(conn.got, ClientStream)

(* The client gets a prefix of what the target sent (the client's acked
   offset and the server's downlink replay). *)
DownlinkExact == IsPrefix(cl.got, Bytes(1, Down))

(* When the session tried another uplink and none answered, the target is
   at fault and no uplink is blamed but one that could not be dialled
   (DeferredFailure, failover_to_next_candidate). *)
OutageBlamesNobody == (s.deferred # {} /\ ~s.answered) => blamed \subseteq s.refused

(* Only a move of the group's active pointer after the session was set up
   tears the session down as switched: one that failed over and got its first
   chunk goes on where it is (confirm_runtime_failover_uplink_for,
   watch_active_uplink_switch). *)
RescuedStays == s.err = "switch" => active.moves > s.since

AwaitsFirstChunk == s.pc = "await"
FirstChunkSettled == s.pc \in {"relay", "over"}

(* The first-chunk window ends, whatever fails: retries on one uplink are
   bounded, no uplink or wire is tried twice, every wait has its deadline
   (try_uplinks). *)
Chunk0Ends == AwaitsFirstChunk ~> FirstChunkSettled

LeftByActive == Strict /\ s.pc = "relay" /\ active.idx # s.u
FollowedOrOver == s.pc = "over" \/ active.idx = s.u

(* A strict session leaves an uplink the group left: it moves along or it
   ends (watch_active_uplink_switch, try_soft_switch_migrate). *)
FollowsActive == LeftByActive ~> FollowedOrOver
================================================================================
