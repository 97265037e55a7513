---------------------------- MODULE WsCarrierIo ----------------------------
(***************************************************************************)
(* Frame and datagram I/O of one client carrier: the byte-budgeted queue   *)
(* in front of the writer task, the control queue the writer prefers, the  *)
(* close() that waits for the writer to put the Close on the wire, and the *)
(* read side, which a frame source polls itself and a datagram channel     *)
(* runs in a task of its own.                                              *)
(*                                                                         *)
(* One producer sends Total messages and closes.  The owner drops the      *)
(* carrier when close() returns, which aborts the tasks (AbortOnDrop).     *)
(***************************************************************************)
EXTENDS Naturals, Sequences, FiniteSets

CONSTANTS
    Shapes,     \* subset of {"frame", "datagram"}: the two uses of the writer
    Total,      \* messages the producer sends
    Sizes,      \* possible sizes of a message, in bytes
    Budget,     \* CARRIER_QUEUE_BYTES
    SlotsCap,   \* CARRIER_QUEUE_SLOTS
    CtrlCap,    \* WS_CTRL_CHANNEL_CAPACITY
    DownCap,    \* room of the datagram channel's downlink queue
    Replies,    \* binary messages the peer sends
    Faults      \* subset of {"send", "stall", "idle", "error", "again", "cover"}

VARIABLES
    shape,
    snd,     \* the producer
    free,    \* permits left in the byte budget
    q,       \* the data queue
    ctrl,    \* control frames waiting
    wr,      \* the writer task
    wire,    \* what the peer has received of data, in order
    peer,    \* what the peer has sent and the reader has not taken
    rd,      \* the reader
    down     \* downlink queue of the datagram channel

vars == <<shape, snd, free, q, ctrl, wr, wire, peer, rd, down>>

None == [msg |-> 0, permits |-> 0]

Init ==
    /\ shape \in Shapes
    /\ snd = [pc |-> "idle", msg |-> 0, permits |-> 0, failed |-> FALSE,
              timedout |-> FALSE]
    /\ free = Budget
    /\ q = <<>>
    /\ ctrl = 0
    /\ wr = [pc |-> "run", item |-> None, sink |-> "ok"]
    /\ wire = <<>>
    /\ peer = [sent |-> 0, in |-> <<>>]
    /\ rd = [pc |-> "read", got |-> 0, end |-> "open", seen |-> "open"]
    /\ down = <<>>

-----------------------------------------------------------------------------
(* The producer and the budgeted queue *)

CloseMsg == Total + 1

permits_for(n) == IF n = 0 THEN 1 ELSE IF n > Budget THEN Budget ELSE n

\* send_frame / send_datagram: the permits first, in FIFO order.
SendStarts(n) ==
    /\ snd.pc = "idle" /\ snd.msg < Total /\ ~snd.failed
    /\ snd' = [snd EXCEPT !.pc = "budget", !.msg = @ + 1,
                          !.permits = permits_for(n)]
    /\ UNCHANGED <<shape, free, q, ctrl, wr, wire, peer, rd, down>>

Acquires ==
    /\ snd.pc = "budget" /\ snd.permits <= free
    /\ free' = free - snd.permits
    /\ snd' = [snd EXCEPT !.pc = "slot"]
    /\ UNCHANGED <<shape, q, ctrl, wr, wire, peer, rd, down>>

Gone == wr.pc = "exit"

\* Then a slot of the channel.
Enqueues ==
    /\ snd.pc = "slot" /\ ~Gone /\ Len(q) < SlotsCap
    /\ q' = Append(q, [msg |-> snd.msg, permits |-> snd.permits])
    /\ snd' = [snd EXCEPT !.pc = "idle", !.permits = 0]
    /\ UNCHANGED <<shape, free, ctrl, wr, wire, peer, rd, down>>

\* The receiver is gone: the send is an error and its permits come back.
SendFails ==
    /\ snd.pc = "slot" /\ Gone
    /\ free' = free + snd.permits
    /\ snd' = [snd EXCEPT !.pc = "idle", !.permits = 0, !.failed = TRUE]
    /\ UNCHANGED <<shape, q, ctrl, wr, wire, peer, rd, down>>

\* close(): a frame sink drops its sender; a datagram channel queues a Close
\* without permits, in a slot of the same channel.
CloseStarts ==
    /\ snd.pc = "idle" /\ (snd.msg = Total \/ snd.failed)
    /\ snd' = [snd EXCEPT !.pc = IF shape = "frame" THEN "await" ELSE "ctrl"]
    /\ UNCHANGED <<shape, free, q, ctrl, wr, wire, peer, rd, down>>

\* Mutant: the Close goes ahead of the data already queued.
CloseFirst == <<[None EXCEPT !.msg = CloseMsg]>> \o q

CloseQueued == Append(q, [None EXCEPT !.msg = CloseMsg])

send_control ==
    /\ snd.pc = "ctrl"
    /\ Gone \/ Len(q) < SlotsCap
    /\ q' = IF Gone THEN q ELSE CloseQueued
    /\ snd' = [snd EXCEPT !.pc = "await"]
    /\ UNCHANGED <<shape, free, ctrl, wr, wire, peer, rd, down>>

ExitSeen == Gone

\* await_writer_exit: the writer has stopped, or the flush timeout has passed.
CloseReturns ==
    /\ snd.pc = "await"
    /\ ExitSeen
    /\ snd' = [snd EXCEPT !.pc = "closed"]
    /\ UNCHANGED <<shape, free, q, ctrl, wr, wire, peer, rd, down>>

\* On a carrier whose peer still reads the writer is done before the timeout.
FlushTimeout ==
    /\ snd.pc = "await" /\ ~Gone /\ wr.sink = "stalled"
    /\ snd' = [snd EXCEPT !.pc = "closed", !.timedout = TRUE]
    /\ UNCHANGED <<shape, free, q, ctrl, wr, wire, peer, rd, down>>

-----------------------------------------------------------------------------
(* The writer task *)

\* The task's end drops the receiver, what is queued in it and every permit.
Permits == LET P[k \in 0..Len(q)] == IF k = 0 THEN 0 ELSE P[k-1] + q[k].permits
           IN  P[Len(q)]

WriterExits ==
    /\ wr' = [wr EXCEPT !.pc = "exit", !.item = None]
    /\ free' = free + Permits + wr.item.permits
    /\ q' = <<>>
    /\ ctrl' = 0

\* Control frames first (biased select).
WriterControl ==
    /\ wr.pc = "run" /\ ctrl > 0 /\ wr.sink = "ok"
    /\ ctrl' = ctrl - 1
    /\ UNCHANGED <<shape, snd, free, q, wr, wire, peer, rd, down>>

WriterTakes ==
    /\ wr.pc = "run" /\ ctrl = 0 /\ q # <<>>
    /\ wr' = [wr EXCEPT !.item = Head(q),
                        !.pc = IF Head(q).msg = CloseMsg THEN "close" ELSE "write"]
    /\ q' = Tail(q)
    /\ UNCHANGED <<shape, snd, free, ctrl, wire, peer, rd, down>>

\* The senders are gone and the queue is drained.
WriterDrained ==
    /\ wr.pc = "run" /\ ctrl = 0 /\ q = <<>>
    /\ shape = "frame" /\ snd.pc \in {"await", "closed"}
    /\ wr' = [wr EXCEPT !.pc = "close"]
    /\ UNCHANGED <<shape, snd, free, q, ctrl, wire, peer, rd, down>>

Released == free + wr.item.permits

\* The message is handed to the wire; its permits are dropped after that.
WriterWrites ==
    /\ wr.pc = "write" /\ wr.sink = "ok"
    /\ wire' = Append(wire, wr.item.msg)
    /\ free' = Released
    /\ wr' = [wr EXCEPT !.pc = "run", !.item = None]
    /\ UNCHANGED <<shape, snd, q, ctrl, peer, rd, down>>

WriterCloses ==
    /\ wr.pc = "close" /\ wr.sink = "ok"
    /\ wire' = Append(wire, CloseMsg)
    /\ WriterExits
    /\ UNCHANGED <<shape, snd, peer, rd, down>>

\* A failed write ends the task: of data, of a control frame, of the Close, or
\* of a cover frame, which a frame sink sends when nothing else is to be sent.
WriterFails ==
    /\ wr.sink = "failed"
    /\ \/ wr.pc \in {"write", "close"} \/ (wr.pc = "run" /\ ctrl > 0)
       \/ /\ "cover" \in Faults /\ shape = "frame"
          /\ wr.pc = "run" /\ q = <<>>
    /\ WriterExits
    /\ UNCHANGED <<shape, snd, wire, peer, rd, down>>

\* The peer stops reading for good, or the connection breaks.
SinkTurns(s) ==
    /\ wr.sink = "ok" /\ wr.pc # "exit"
    /\ wr' = [wr EXCEPT !.sink = s]
    /\ UNCHANGED <<shape, snd, free, q, ctrl, wire, peer, rd, down>>

SinkFaults == \/ "send" \in Faults /\ SinkTurns("failed")
              \/ "stall" \in Faults /\ SinkTurns("stalled")

-----------------------------------------------------------------------------
(* The read side *)

PeerKinds == {"eof", "close"} \union (Faults \intersect {"error", "again"})

\* The peer answers with binary messages and pings, and ends its side once.
PeerSends ==
    /\ peer.sent <= Replies /\ Len(peer.in) < 2
    /\ \E m \in (IF peer.sent < Replies THEN {"data", "ping"} ELSE PeerKinds) :
         peer' = [sent |-> peer.sent + 1, in |-> Append(peer.in, m)]
    /\ UNCHANGED <<shape, snd, free, q, ctrl, wr, wire, rd, down>>

Reading == rd.pc = "read" /\ snd.pc # "closed" /\ peer.in # <<>>

\* A pong is tried, never waited for.
ReadPing ==
    /\ Reading /\ Head(peer.in) = "ping"
    /\ ctrl' = IF ctrl < CtrlCap /\ ~Gone THEN ctrl + 1 ELSE ctrl
    /\ peer' = [peer EXCEPT !.in = Tail(@)]
    /\ UNCHANGED <<shape, snd, free, q, wr, wire, rd, down>>

\* recv_frame returns the payload; the datagram reader queues it.
ReadData ==
    /\ Reading /\ Head(peer.in) = "data"
    /\ \/ shape = "frame" /\ rd' = [rd EXCEPT !.got = @ + 1] /\ UNCHANGED down
       \/ /\ shape = "datagram" /\ Len(down) < DownCap
          /\ down' = Append(down, "data") /\ UNCHANGED rd
    /\ peer' = [peer EXCEPT !.in = Tail(@)]
    /\ UNCHANGED <<shape, snd, free, q, ctrl, wr, wire>>

\* What the consumer is told: nothing more (None) on an end of stream, an
\* error otherwise; try-again is an error of its own on a frame source.
EndOf(m) == IF m = "eof" THEN "none"
            ELSE IF m = "again" /\ shape = "frame" THEN "again" ELSE "error"

ReadEnds(m) ==
    IF shape = "frame"
    THEN /\ rd' = [rd EXCEPT !.pc = "done", !.end = m, !.seen = EndOf(m)]
         /\ UNCHANGED down
    ELSE IF EndOf(m) = "none"
    THEN rd' = [rd EXCEPT !.pc = "done", !.end = m] /\ UNCHANGED down
    ELSE /\ Len(down) < DownCap
         /\ down' = Append(down, "error")
         /\ rd' = [rd EXCEPT !.pc = "done", !.end = m]

ReadEnd ==
    /\ Reading /\ Head(peer.in) \notin {"data", "ping"}
    /\ ReadEnds(Head(peer.in))
    /\ peer' = [peer EXCEPT !.in = Tail(@)]
    /\ UNCHANGED <<shape, snd, free, q, ctrl, wr, wire>>

\* The idle watchdog: no frame of any kind within the window.
ReadIdle ==
    /\ "idle" \in Faults
    /\ rd.pc = "read" /\ snd.pc # "closed" /\ peer.in = <<>>
    /\ ReadEnds("idle")
    /\ UNCHANGED <<shape, snd, free, q, ctrl, wr, wire, peer>>

\* recv_datagram: queued items first, then the end of the queue.
RecvDatagram ==
    /\ shape = "datagram" /\ rd.seen = "open" /\ snd.pc # "closed"
    /\ \/ /\ down # <<>>
          /\ down' = Tail(down)
          /\ rd' = IF Head(down) = "data" THEN [rd EXCEPT !.got = @ + 1]
                   ELSE [rd EXCEPT !.seen = "error"]
       \/ /\ down = <<>> /\ rd.pc = "done"
          /\ rd' = [rd EXCEPT !.seen = "none"] /\ UNCHANGED down
    /\ UNCHANGED <<shape, snd, free, q, ctrl, wr, wire, peer>>

\* The owner drops the carrier after close(): the writer is aborted.
DropCarrier ==
    /\ snd.pc = "closed" /\ wr.pc # "exit"
    /\ WriterExits
    /\ UNCHANGED <<shape, snd, wire, peer, rd, down>>

Producer == \/ \E n \in Sizes : SendStarts(n)
            \/ Acquires \/ Enqueues \/ SendFails
            \/ CloseStarts \/ send_control \/ CloseReturns \/ FlushTimeout

Writer == \/ WriterControl \/ WriterTakes \/ WriterDrained \/ WriterWrites
          \/ WriterCloses \/ WriterFails \/ DropCarrier

Reader == ReadPing \/ ReadData \/ ReadEnd \/ RecvDatagram

Next == Producer \/ Writer \/ SinkFaults
        \/ PeerSends \/ Reader \/ ReadIdle

Spec == Init /\ [][Next]_vars

\* The tasks are polled by the runtime and the flush timer fires.
FairSpec == Spec /\ WF_vars(Producer) /\ WF_vars(Writer) /\ WF_vars(Reader)

-----------------------------------------------------------------------------
\* The byte budget is exact in every interleaving of producer, writer and
\* teardown: what is free and what the producer, the queue and the writer hold
\* add up to CARRIER_QUEUE_BYTES, so no failed or aborted send leaks permits.
BudgetExact ==
    free + Permits + wr.item.permits
         + (IF snd.pc = "slot" THEN snd.permits ELSE 0) = Budget

\* The peer receives the messages in order, a Close only after every message
\* accepted before it, and nothing after the Close.
CloseAfterData ==
    \A k \in 1..Len(wire) : wire[k] = IF k <= Total THEN k ELSE CloseMsg

\* "close" means the frame reached the socket: if close() returned before the
\* flush timeout and no write failed, the peer has every message and the Close.
ClosedIsTold ==
    snd.pc = "closed" /\ ~snd.timedout /\ wr.sink = "ok" =>
        wire = [k \in 1..(Total + 1) |-> k]

\* The consumer hears how the carrier ended: an end of stream as None, and
\* every other end (a Close, a try-again, a read error, the idle watchdog) as
\* an error, after all data that came before it.
EndIsTold ==
    /\ rd.seen = "none" => rd.end = "eof"
    /\ rd.seen \in {"error", "again"} => rd.end \notin {"open", "eof"}
    /\ rd.seen = "again" => rd.end = "again"

Sending == snd.pc = "budget"
SendDone == snd.pc \in {"idle", "closed"} \/ wr.sink = "stalled"

\* A send that has begun ends: it is queued, or it is an error once the writer
\* has gone, even for a message larger than the whole budget.
SendReturns == Sending ~> SendDone

Closing == snd.pc \in {"ctrl", "await"}
CloseReturned == snd.pc = "closed"

\* "a peer that has stopped reading must not pin the closing task": a close()
\* that was called returns.
CloseEnds == Closing ~> CloseReturned
=============================================================================
