------------------------------ MODULE XhttpUplink ------------------------------
(***************************************************************************)
(* The uplink of one XHTTP session, both ends: the client's driver loop    *)
(* with its send window and POST tasks (crates/outline-transport/src/      *)
(* xhttp), and the server's reorder queue with its waiting POSTs and the   *)
(* relay's reader (server/transport/xhttp of outline-ss-rust).             *)
(*                                                                         *)
(* A message is its sequence number and one unit of bytes.  The HTTP       *)
(* connection delivers the POSTs of one session in any order on h2 and h3  *)
(* and one at a time on h1.  A POST has a client half (post[s].c) and a    *)
(* handler (post[s].h); they part when the client gives up first.          *)
(***************************************************************************)
EXTENDS Integers, Sequences, FiniteSets, FiniteSetsExt

CONSTANTS
    Carriers,     \* the carriers the session may run on: "h1", "h2", "h3", "one"
    Total,        \* messages the application writes
    Window,       \* UPLINK_WINDOW_POSTS
    MaxGap,       \* UPLINK_REORDER_MAX_GAP
    ReadyCap,     \* UPLINK_READY_BYTES_CAP
    ReorderCap,   \* UPLINK_REORDER_BUFFER_BYTES_CAP
    WaitCap,      \* UPLINK_WAITING_BYTES_CAP
    Faults,       \* \subseteq {"abort", "timeout", "lost", "cancel", "evict", "body", "dup"}
    MaxFaults     \* faults in one behaviour

VARIABLES carrier, cl, post, srv, rd, faults

vars == <<carrier, cl, post, srv, rd, faults>>

Seqs == 0 .. Total - 1

Fin == Total

NoPost == [c |-> "none", h |-> "none", woken |-> FALSE, held |-> FALSE]

(* The client's driver: `run` while its loop pops messages, `drain` after
   the loop, `done` once the guard of the FIN was dropped. *)
Init ==
    /\ carrier \in Carriers
    /\ cl = [pc |-> "run", next |-> 0, win |-> {}, ended |-> {},
             fin |-> "armed", failed |-> FALSE, aborted |-> FALSE]
    /\ post = [s \in Seqs \cup {Fin} |-> NoPost]
    /\ srv = [expected |-> 0, ready |-> <<>>, reorder |-> {}, waiting |-> 0,
              uclosed |-> FALSE, closed |-> FALSE, registered |-> TRUE, gap |-> FALSE]
    /\ rd = [pc |-> "poll", woken |-> FALSE, got |-> <<>>]
    /\ faults = 0

--------------------------------------------------------------------------------
(* Wake-ups.  Every waiter creates its Notified before it looks at the
   state, so a notification that follows is kept for it. *)
WakeReader(r) == IF r.pc \in {"armed", "wait"} THEN [r EXCEPT !.woken = TRUE] ELSE r

WakeRoom(p) ==
    [s \in DOMAIN p |->
        IF p[s].h \in {"try", "held"} THEN [p[s] EXCEPT !.woken = TRUE] ELSE p[s]]

Fault(kind) == kind \in Faults /\ faults < MaxFaults /\ faults' = faults + 1

(* XhttpSession::close of the whole session *)
CloseSession(s) == [s EXCEPT !.closed = TRUE, !.uclosed = TRUE]

--------------------------------------------------------------------------------
(* The client's send window *)

(* try_admit: `win` is the window's map, `ended` its finished seqs. *)
try_admit(seq) == \A low \in cl.win : seq - low < Window

(* complete: finished POSTs leave the low end of the window. *)
Complete(c, seq) ==
    LET ended == c.ended \cup {seq}
        keep == {s \in c.win : \E low \in c.win \ ended : low <= s}
    IN [c EXCEPT !.win = keep, !.ended = ended \cap keep]

InFlight == {s \in Seqs : post[s].c \notin {"none", "ok", "failed", "aborted"}}

Post(seq) ==
    /\ cl.pc = "run" /\ seq < Total
    /\ post' = [post EXCEPT ![seq].c = "wire"]
    /\ cl' = [cl EXCEPT !.next = @ + 1, !.win = @ \cup {seq}]
    /\ UNCHANGED <<faults, carrier, srv, rd>>

(* driver_loop_h1 takes the next message when the POST before it was
   answered, driver_loop_h2 and driver_loop_h3 when the window admits it. *)
PostH1 == carrier = "h1" /\ InFlight = {} /\ Post(cl.next)

PostH2 == carrier = "h2" /\ try_admit(cl.next) /\ Post(cl.next)

PostH3 == carrier = "h3" /\ try_admit(cl.next) /\ Post(cl.next)

SendPost == PostH1 \/ PostH2 \/ PostH3

(* h1 and h2: the connection is not ready for the next request.  The driver
   reports it, disarms the FIN and leaves its loop. *)
NotReady ==
    /\ Fault("lost") /\ carrier \in {"h1", "h2"} /\ cl.pc = "run" /\ cl.next < Total
    /\ cl' = [cl EXCEPT !.pc = "drain", !.fin = "disarmed", !.failed = TRUE]
    /\ UNCHANGED <<carrier, post, srv, rd>>

(* The application closes the stream after its last message. *)
CloseQueue ==
    /\ cl.pc = "run" /\ cl.next = Total
    /\ carrier = "h1" => InFlight = {}
    /\ cl' = [cl EXCEPT !.pc = "drain"]
    /\ UNCHANGED <<faults, carrier, post, srv, rd>>

(* The driver awaits every POST task before it drops the FIN guard. *)
Drained == InFlight = {}

(* The guard's drop: one detached empty POST, unless it was disarmed. *)
DropFin ==
    /\ carrier # "one" /\ cl.pc = "drain" /\ Drained
    /\ cl' = [cl EXCEPT !.pc = "done"]
    /\ post' = IF cl.fin = "armed" /\ cl.next > 0
               THEN [post EXCEPT ![Fin].c = "wire"] ELSE post
    /\ UNCHANGED <<faults, carrier, srv, rd>>

(* The transport is dropped: the driver's abort takes its POST tasks with
   it and the guard still sends the FIN.  Requests already on the wire may
   be served or cut off. *)
AbortDriver ==
    /\ Fault("abort") /\ carrier # "one" /\ cl.pc \in {"run", "drain"}
    /\ cl' = [cl EXCEPT !.pc = "done", !.aborted = TRUE]
    /\ post' = [s \in DOMAIN post |->
                  IF s \in InFlight THEN [post[s] EXCEPT !.c = "aborted"]
                  ELSE IF s = Fin /\ cl.fin = "armed" /\ cl.next > 0
                       THEN [post[s] EXCEPT !.c = "wire"] ELSE post[s]]
    /\ UNCHANGED <<carrier, srv, rd>>

--------------------------------------------------------------------------------
(* The server: ingest_uplink *)

(* promote_parked *)
RECURSIVE promote_parked(_)
promote_parked(s) ==
    IF s.expected \in s.reorder /\ Len(s.ready) + 1 <= ReadyCap
    THEN promote_parked([s EXCEPT !.reorder = @ \ {s.expected},
                                  !.ready = Append(@, s.expected),
                                  !.expected = @ + 1])
    ELSE s

(* What ingest_uplink answers for `seq` *)
Verdict(seq) ==
    IF srv.uclosed THEN "closed"
    ELSE IF seq < srv.expected THEN "known"
    ELSE IF seq = srv.expected
         THEN IF srv.ready # <<>> /\ Len(srv.ready) + 1 > ReadyCap THEN "full" ELSE "next"
    ELSE IF seq - srv.expected > MaxGap THEN "gap"
    ELSE IF Cardinality(srv.reorder) + 1 > ReorderCap THEN "full"
    ELSE "park"

(* The handler of a data POST from its arrival to the end of the body: the
   session is looked up, a closed one answers 410. *)
Arrive(s) ==
    /\ post[s].c = "wire" /\ post[s].h = "none"
    /\ LET gone == ~srv.registered \/ srv.closed IN
       post' = [post EXCEPT ![s].h = IF gone THEN "r410" ELSE "body"]
    /\ UNCHANGED <<faults, carrier, cl, srv, rd>>

(* read_post_body ends, or times out or is cut off. *)
ReadBody(s) ==
    /\ s # Fin /\ post[s].h = "body"
    /\ \/ /\ post' = [post EXCEPT ![s].h = "try", ![s].woken = FALSE]
          /\ UNCHANGED faults
       \/ /\ Fault("body")
          /\ post' = [post EXCEPT ![s].h = "r408"]
    /\ UNCHANGED <<carrier, cl, srv, rd>>

(* WaitingBytes is given back when its POST ends. *)
Unheld(s, p) == IF p.held THEN [s EXCEPT !.waiting = @ - 1] ELSE s

Answered(p, code) == [p EXCEPT !.h = code, !.held = FALSE, !.woken = FALSE]

(* One round of ingest_uplink_waiting; its Notified was created before. *)
Ingest(s) ==
    /\ s # Fin /\ post[s].h = "try"
    /\ LET v == Verdict(s)
           free == Unheld(srv, post[s]) IN
       CASE v = "closed" ->
              /\ post' = [post EXCEPT ![s] = Answered(@, "r410")]
              /\ srv' = free /\ UNCHANGED rd
         [] v = "known" ->
              /\ post' = [post EXCEPT ![s] = Answered(@, "r200")]
              /\ srv' = free /\ UNCHANGED rd
         [] v = "next" ->
              /\ srv' = promote_parked([free EXCEPT !.ready = Append(@, s),
                                                    !.expected = IF s = @ THEN @ + 1 ELSE @])
              /\ post' = WakeRoom([post EXCEPT ![s] = Answered(@, "r200")])
              /\ rd' = WakeReader(rd)
         [] v = "park" ->
              /\ srv' = [free EXCEPT !.reorder = @ \cup {s}]
              /\ post' = [post EXCEPT ![s] = Answered(@, "r200")]
              /\ UNCHANGED rd
         [] v = "gap" ->
              /\ srv' = [CloseSession(free) EXCEPT !.registered = FALSE, !.gap = TRUE]
              /\ post' = WakeRoom([post EXCEPT ![s] = Answered(@, "r409")])
              /\ rd' = WakeReader(rd)
         [] v = "full" ->
              IF post[s].held \/ srv.waiting + 1 <= WaitCap
              THEN /\ post' = [post EXCEPT ![s].h = "held", ![s].held = TRUE]
                   /\ srv' = IF post[s].held THEN srv ELSE [srv EXCEPT !.waiting = @ + 1]
                   /\ UNCHANGED rd
              ELSE /\ post' = [post EXCEPT ![s] = Answered(@, "r503")]
                   /\ UNCHANGED <<srv, rd>>
    /\ UNCHANGED <<faults, carrier, cl>>

(* A held POST is woken for another round, or its patience ends. *)
HeldAgain(s) ==
    /\ post[s].h = "held" /\ post[s].woken
    /\ post' = [post EXCEPT ![s].h = "try", ![s].woken = FALSE]
    /\ UNCHANGED <<faults, carrier, cl, srv, rd>>

HeldTimesOut(s) ==
    /\ post[s].h = "held"
    /\ srv' = Unheld(srv, post[s])
    /\ post' = [post EXCEPT ![s] = Answered(@, "r503")]
    /\ UNCHANGED <<faults, carrier, cl, rd>>

(* The FIN's handler: an empty body ingests nothing, then close_uplink. *)
FinCloses ==
    /\ post[Fin].h = "body"
    /\ srv' = [srv EXCEPT !.uclosed = TRUE]
    /\ rd' = WakeReader(rd)
    /\ post' = [post EXCEPT ![Fin].h = "r200"]
    /\ UNCHANGED <<faults, carrier, cl>>

(* The server drops a handler whose client went away. *)
CancelHandler(s) ==
    /\ Fault("cancel") /\ post[s].c \in {"failed", "aborted"}
    /\ post[s].h \in {"body", "try", "held"}
    /\ srv' = Unheld(srv, post[s])
    /\ post' = [post EXCEPT ![s] = Answered(@, "none")]
    /\ UNCHANGED <<carrier, cl, rd>>

--------------------------------------------------------------------------------
(* The answer reaches the client.  h1 leaves its loop on a failure and
   disarms the FIN; an h2 or h3 POST task reports it and ends. *)
Failed(s) == Complete([cl EXCEPT !.failed = TRUE], s)

FailsH1(s) == carrier = "h1" /\ cl' = [Failed(s) EXCEPT !.pc = "drain", !.fin = "disarmed"]

FailsTask(s) == carrier # "h1" /\ cl' = Failed(s)

Fails(s) ==
    /\ post' = [post EXCEPT ![s].c = "failed"]
    /\ FailsH1(s) \/ FailsTask(s)

Waiting(s) == post[s].c = "wire" /\ cl.pc # "done"

(* is_busy *)
is_busy(code) == code = "r503"

PostAnswered(s) ==
    /\ s # Fin /\ Waiting(s)
    /\ \/ /\ post[s].h = "r200"
          /\ post' = [post EXCEPT ![s].c = "ok", ![s].h = "end"]
          /\ cl' = Complete(cl, s)
       \/ /\ is_busy(post[s].h)
          /\ post' = [post EXCEPT ![s].h = "none"]
          /\ UNCHANGED cl
       \/ /\ post[s].h \in {"r408", "r409", "r410", "r503"} /\ ~is_busy(post[s].h)
          /\ Fails(s)
    /\ UNCHANGED <<faults, carrier, srv, rd>>

(* The answer is lost on the way and a CDN repeats the request. *)
CdnRepeats(s) ==
    /\ Fault("dup") /\ s # Fin /\ Waiting(s) /\ post[s].h = "r200"
    /\ post' = [post EXCEPT ![s].h = "none"]
    /\ UNCHANGED <<carrier, cl, srv, rd>>

(* POST_TIMEOUT or RETRY_BUDGET runs out, or the connection breaks, at any
   point of an attempt; the handler goes on. *)
PostGivesUp(s) ==
    /\ Fault("timeout") /\ s # Fin /\ Waiting(s)
    /\ Fails(s)
    /\ UNCHANGED <<carrier, srv, rd>>

--------------------------------------------------------------------------------
(* Stream-one: the request body is the uplink.  drain_stream_up_body parks
   on the drain notification while `ready` is full; here one frame is in
   its hands at a time. *)
StreamFrame ==
    /\ carrier = "one" /\ cl.pc = "run" /\ cl.next < Total /\ ~srv.uclosed
    /\ srv.ready = <<>> \/ Len(srv.ready) + 1 <= ReadyCap
    /\ srv' = [srv EXCEPT !.ready = Append(@, cl.next)]
    /\ rd' = WakeReader(rd)
    /\ cl' = [cl EXCEPT !.next = @ + 1]
    /\ UNCHANGED <<faults, carrier, post>>

(* The body ends, breaks, or the session closed under it: close_uplink. *)
StreamEnds ==
    /\ carrier = "one" /\ cl.pc \in {"run", "drain"}
    /\ IF cl.pc = "drain" \/ srv.uclosed THEN UNCHANGED faults ELSE Fault("abort")
    /\ cl' = [cl EXCEPT !.pc = "done", !.aborted = cl.pc = "run"]
    /\ srv' = [srv EXCEPT !.uclosed = TRUE]
    /\ rd' = WakeReader(rd)
    /\ UNCHANGED <<carrier, post>>

--------------------------------------------------------------------------------
(* The relay's reader: XhttpDuplex::recv *)
Eof == srv.closed \/ (srv.uclosed /\ srv.ready = <<>>)

(* pop_uplink_ready *)
Pop ==
    /\ rd' = [rd EXCEPT !.pc = "poll", !.woken = FALSE, !.got = Append(@, Head(srv.ready))]
    /\ srv' = promote_parked([srv EXCEPT !.ready = Tail(@)])
    /\ post' = WakeRoom(post)

(* Look, register, look again, wait. *)
RecvPolls ==
    /\ rd.pc = "poll"
    /\ \/ srv.ready # <<>> /\ Pop
       \/ /\ srv.ready = <<>>
          /\ rd' = [rd EXCEPT !.pc = IF Eof THEN "eof" ELSE "looked"]
          /\ UNCHANGED <<srv, post>>
    /\ UNCHANGED <<faults, carrier, cl>>

(* The Notified is created. *)
RecvRegisters ==
    /\ rd.pc = "looked"
    /\ rd' = [rd EXCEPT !.pc = "armed", !.woken = FALSE]
    /\ UNCHANGED <<faults, carrier, cl, post, srv>>

(* The reader waits without its second look.  Mutant: what arrived between
   the first look and the registration is not noticed. *)
WaitUnchecked ==
    /\ rd.pc = "armed"
    /\ rd' = [rd EXCEPT !.pc = "wait"]
    /\ UNCHANGED <<faults, carrier, cl, post, srv>>

RecvRechecks ==
    /\ rd.pc = "armed"
    /\ \/ srv.ready # <<>> /\ Pop
       \/ /\ srv.ready = <<>>
          /\ rd' = [rd EXCEPT !.pc = IF Eof THEN "eof" ELSE "wait"]
          /\ UNCHANGED <<srv, post>>
    /\ UNCHANGED <<faults, carrier, cl>>

RecvWakes ==
    /\ rd.pc = "wait" /\ rd.woken
    /\ rd' = [rd EXCEPT !.pc = "poll", !.woken = FALSE]
    /\ UNCHANGED <<faults, carrier, cl, post, srv>>

(* The session is closed from elsewhere: the relay ended or the janitor
   evicted it. *)
Evict ==
    /\ Fault("evict") /\ ~srv.closed
    /\ srv' = [CloseSession(srv) EXCEPT !.registered = FALSE]
    /\ rd' = WakeReader(rd)
    /\ post' = WakeRoom(post)
    /\ UNCHANGED <<carrier, cl>>

--------------------------------------------------------------------------------
Reader == RecvPolls \/ RecvRegisters \/ RecvRechecks \/ RecvWakes

Driver == SendPost \/ CloseQueue \/ DropFin \/ StreamFrame
          \/ (cl.pc = "drain" /\ StreamEnds)

Handler(s) ==
    Arrive(s) \/ ReadBody(s) \/ Ingest(s) \/ HeldAgain(s) \/ PostAnswered(s)
    \/ (s = Fin /\ FinCloses)

Next ==
    \/ Driver \/ Reader
    \/ StreamEnds \/ NotReady \/ AbortDriver \/ Evict
    \/ \E s \in Seqs \cup {Fin} :
         Handler(s) \/ HeldTimesOut(s) \/ CancelHandler(s) \/ PostGivesUp(s)
         \/ CdnRepeats(s)

Spec == Init /\ [][Next]_vars

(* The tasks of both programs run; HeldTimesOut is a timer that need not
   fire, the rest of the faults need not happen. *)
FairSpec ==
    /\ Spec /\ WF_vars(Driver) /\ WF_vars(Reader)
    /\ \A s \in Seqs \cup {Fin} : WF_vars(Handler(s))

--------------------------------------------------------------------------------
(* The relay reads the application's messages in order, each once, whatever
   order the POSTs are served in and however often one is retried after a
   503 or served after its client gave up (UplinkState::expected_seq). *)
UplinkInOrder ==
    \A k \in 1 .. Len(rd.got) : rd.got[k] = k - 1

(* A client that closed in order loses nothing: when the relay is told the
   end of the uplink and no POST failed, nothing was aborted and the server
   did not close the session, it has read every message.  This is what the
   driver's drain before its FIN is for. *)
OrderlyCloseIsWhole ==
    rd.pc = "eof" /\ ~cl.failed /\ ~cl.aborted /\ ~srv.closed =>
        Len(rd.got) = Total

(* The window keeps the client within what the server buffers: as long as
   no POST was given up, no POST is answered 409 for a gap, although a POST
   parked in the reorder buffer is answered before the ones below it. *)
WindowPreventsGap == srv.gap => cl.failed \/ cl.aborted

(* The bytes charged to the POSTs held for room are those of the POSTs that
   are held, so a POST that was cut off gives its share back. *)
HeldBytesExact == srv.waiting = Cardinality({s \in Seqs : post[s].held})

Uploaded == rd.pc = "eof" /\ Len(rd.got) = Total

(* With both ends running and no fault every message reaches the relay and
   then the end of the uplink: no wake-up of the reader or of a held POST is
   lost, whatever is full. *)
UploadCompletes == <>Uploaded
================================================================================
