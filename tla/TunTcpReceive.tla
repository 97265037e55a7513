--------------------------- MODULE TunTcpReceive ---------------------------
(***************************************************************************)
(* The uplink half of one TUN TCP flow: the client's segments are          *)
(* validated, trimmed to the receive window, reassembled, acknowledged at  *)
(* once or on the delayed-ACK timer, and handed to the per-flow pump task  *)
(* that writes them upstream and reopens the window.                       *)
(*                                                                         *)
(* The client's byte stream is 0 .. Total - 1 and its FIN sits at position *)
(* Total.  A payload is the sequence of stream positions it carries, so a  *)
(* slice, a lost hole and a duplicate are all visible; position p has      *)
(* sequence number Isn + p modulo SeqSpace.  The client may send, reorder    *)
(* and repeat any piece of its stream at any time, inside its window or    *)
(* not.  told is the last acknowledgement written to the client.           *)
(***************************************************************************)
EXTENDS TcpSeq

CONSTANTS Total,        \* length of the client's stream
          Isn,          \* rcv_nxt after the SYN
          InitialWindow, MaxBytes, MaxSegments,
                        \* TunTcpConfig: initial_receive_window,
                        \* max_buffered_client_bytes / _segments
          WindowUnit    \* 1 << TCP_SERVER_WINDOW_SCALE

VARIABLES status,       \* TcpFlowStatus, as far as the client's half goes
          rcv_nxt,
          segments,     \* pending_client_segments
          data,         \* pending_client_data, as one run of positions
          capacity,     \* receive_window_capacity
          owed,         \* unacked_in_order_segments
          armed,        \* delayed_ack_deadline.is_some()
          told,         \* [ack, wnd] of the last ACK written
          pump,         \* where the pump task stands
          was_closed,   \* its window_was_closed snapshot
          permit,       \* the Notify permit of upstream_pump
          fed,          \* bytes the pump has taken for the upstream
          eof           \* the upstream write half is closed

vars == <<status, rcv_nxt, segments, data, capacity, owed, armed, told, pump,
          was_closed, permit, fed, eof>>

---------------------------------------------------------------------------
SeqNo(p) == wrapping_add(Isn, p)

\* What the client can put on the wire: a piece of its stream, the FIN only
\* behind the last byte, or an empty segment.
Packets == {[seq |-> SeqNo(a), payload |-> [i \in 1 .. b - a |-> a + i - 1], fin |-> f] :
              <<a, b, f>> \in {t \in (0 .. Total) \X (0 .. Total) \X BOOLEAN :
                                 t[1] <= t[2] /\ (t[3] => t[2] = Total)}}

buffered_client_bytes == FoldLeft(LAMBDA n, s : n + Len(s.payload), 0, segments) + Len(data)

saturating_sub(a, b) == IF a > b THEN a - b ELSE 0

receive_window_end == wrapping_add(rcv_nxt, saturating_sub(capacity, buffered_client_bytes))

\* The window field is the free room in units of the advertised scale.
advertised_receive_window == saturating_sub(capacity, buffered_client_bytes) \div WindowUnit

trim_packet_to_receive_window(p) ==
  IF p.payload = <<>> /\ ~ p.fin THEN <<p>>
  ELSE IF seq_ge(p.seq, receive_window_end) THEN <<>>
  ELSE LET allowed == wrapping_sub(receive_window_end, p.seq)
       IN  IF Len(p.payload) > allowed
           THEN <<[p EXCEPT !.payload = SubSeq(p.payload, 1, allowed), !.fin = FALSE]>>
           ELSE <<p>>

normalize_client_segment(p, expected) ==
  LET overlap == IF seq_lt(p.seq, expected) THEN wrapping_sub(expected, p.seq) ELSE 0
  IN  [payload |-> SubSeq(p.payload, overlap + 1, Len(p.payload)),
       fin     |-> p.fin /\ overlap <= Len(p.payload)]

\* The queue is kept sorted by distance from the expected sequence number; a
\* new segment goes before the first one that is farther away.
insert_client_segment(queue, s, expected) ==
  LET farther == {i \in DOMAIN queue :
                    wrapping_sub(queue[i].seq, expected) > wrapping_sub(s.seq, expected)}
      at      == IF farther = {} THEN Len(queue) + 1 ELSE Min(farther)
  IN  InsertAt(queue, at, s)

data_end(s) == wrapping_add(s.seq, Len(s.payload))

\* The walk of queue_future_segment: the pieces of p that fall into holes
\* between buffered segments, and where the rest of p starts.
HolesOf(queue, p) ==
  LET end == data_end(p)
      walk(acc, s) ==
        IF acc.done \/ ~ seq_gt(data_end(s), acc.cursor) THEN acc
        ELSE IF ~ seq_gt(end, s.seq) THEN [acc EXCEPT !.done = TRUE]
        ELSE [cursor |-> data_end(s),
              holes  |-> IF seq_gt(s.seq, acc.cursor)
                         THEN Append(acc.holes, <<acc.cursor, s.seq>>) ELSE acc.holes,
              done   |-> ~ seq_gt(end, data_end(s))]
      all == FoldLeft(walk, [cursor |-> p.seq, holes |-> <<>>, done |-> FALSE], queue)
  IN  IF seq_gt(end, all.cursor) THEN Append(all.holes, <<all.cursor, end>>) ELSE all.holes

queue_future_segment(queue, p, expected) ==
  LET piece(h) == [seq     |-> h[1],
                   payload |-> SubSeq(p.payload, wrapping_sub(h[1], p.seq) + 1,
                                                 wrapping_sub(h[2], p.seq)),
                   fin     |-> FALSE]
      filled   == FoldLeft(LAMBDA q, h : insert_client_segment(q, piece(h), expected),
                           queue, HolesOf(queue, p))
      known    == \E i \in DOMAIN filled : filled[i].fin /\ data_end(filled[i]) = data_end(p)
  IN  IF p.fin /\ ~ known
      THEN insert_client_segment(filled, [seq |-> data_end(p), payload |-> <<>>, fin |-> TRUE],
                                 expected)
      ELSE filled

apply_client_segment(acc, s) ==
  [acc EXCEPT !.expected = wrapping_add(@, Len(s.payload) + (IF s.fin THEN 1 ELSE 0)),
              !.out      = @ \o s.payload,
              !.closed   = s.fin]

\* Pops the queue while its head is due; a consumed FIN ends the drain.
drain_ready_buffered_segments(acc, queue) ==
  LET step(a, s) ==
        IF a.stop \/ a.closed \/ seq_gt(s.seq, a.expected)
        THEN [a EXCEPT !.stop = TRUE, !.rest = Append(@, s)]
        ELSE apply_client_segment(a, normalize_client_segment(s, a.expected))
  IN  FoldLeft(step, acc, queue)

---------------------------------------------------------------------------
Init == /\ status = "SynReceived" /\ rcv_nxt = Isn
        /\ segments = <<>> /\ data = <<>> /\ capacity = InitialWindow
        /\ owed = 0 /\ armed = FALSE
        /\ told = [ack |-> Isn, wnd |-> InitialWindow \div WindowUnit]
        /\ pump = "unspawned" /\ was_closed = FALSE /\ permit = FALSE
        /\ fed = 0 /\ eof = FALSE

client_fin_seen == status \in {"CloseWait", "Closed"}

clear_delayed_ack == owed' = 0 /\ armed' = FALSE

\* abort_flow_with_rst / close_flow: the entry leaves the table Closed.
Abort == status' = "Closed" /\ UNCHANGED <<rcv_nxt, segments, data, capacity, owed, armed, told, permit>>

\* An ACK that covers the current rcv_nxt and leaves the queues alone.
PureAck == told' = [ack |-> rcv_nxt, wnd |-> advertised_receive_window]

segment_requires_ack(p) == p.payload # <<>> \/ p.fin \/ seq_lt(p.seq, rcv_nxt)

Handshaken == status' = IF status = "SynReceived" THEN "Established" ELSE status

\* Beyond the expected sequence number: buffer it, or abort the flow when
\* the pessimistic count would pass a limit; either way acknowledge at once.
QueueFuture(p) ==
  LET trimmed == trim_packet_to_receive_window(p)
      t       == trimmed[1]
      extra   == IF t.payload = <<>> /\ ~ t.fin THEN 0 ELSE IF t.fin THEN 2 ELSE 1
      exceeds == /\ trimmed # <<>>
                 /\ \/ Len(segments) + extra > MaxSegments
                    \/ buffered_client_bytes + Len(t.payload) > MaxBytes
  IN  /\ seq_gt(p.seq, rcv_nxt)
      /\ \/ exceeds /\ Abort
         \/ /\ ~ exceeds
            /\ segments' = IF trimmed = <<>> THEN segments
                           ELSE queue_future_segment(segments, t, rcv_nxt)
            /\ told' = [ack |-> rcv_nxt,
                        wnd |-> saturating_sub(capacity,
                                  FoldLeft(LAMBDA n, s : n + Len(s.payload), Len(data), segments'))
                                \div WindowUnit]
            /\ clear_delayed_ack
            /\ Handshaken
            /\ UNCHANGED <<rcv_nxt, data, capacity, permit>>

OutsideWindow(p) ==
  /\ ~ seq_gt(p.seq, rcv_nxt)
  /\ trim_packet_to_receive_window(p) = <<>>
  /\ PureAck /\ clear_delayed_ack
  /\ Handshaken
  /\ UNCHANGED <<rcv_nxt, segments, data, capacity, permit>>

\* What one due segment makes of the receive state: its own bytes, then the
\* buffered segments it connects to.
Applied(t) ==
  LET own == normalize_client_segment(t, rcv_nxt)
      acc == apply_client_segment([expected |-> rcv_nxt, out |-> <<>>, closed |-> FALSE,
                                   stop |-> FALSE, rest |-> <<>>], own)
  IN  IF (own.payload # <<>> \/ own.fin) /\ ~ acc.closed
      THEN drain_ready_buffered_segments(acc, segments)
      ELSE [acc EXCEPT !.rest = segments]

\* flushed: the flush of this packet put downlink data on the wire, which
\* carries the ACK.  The ACK is built before the due bytes join data, so its
\* window does not count them.
resolve_client_ack(t, r, flushed) ==
  LET ack       == [ack |-> r.expected,
                    wnd |-> saturating_sub(capacity,
                              FoldLeft(LAMBDA n, s : n + Len(s.payload), Len(data), r.rest))
                            \div WindowUnit]
      immediate == r.closed \/ t.payload = <<>> \/ segments # <<>> \/ r.rest # <<>> \/ owed >= 1
  IN  IF ~ segment_requires_ack(t)
      THEN UNCHANGED <<owed, armed>> /\ told' = IF flushed THEN ack ELSE told
      ELSE IF flushed \/ immediate
      THEN clear_delayed_ack /\ told' = ack
      ELSE owed' = owed + 1 /\ armed' = TRUE /\ UNCHANGED told

Deliver(p) ==
  LET trimmed == trim_packet_to_receive_window(p)
      r       == Applied(trimmed[1])
      grown   == data \o r.out
      exceeds == /\ r.out # <<>>
                 /\ \/ Len(r.rest) > MaxSegments
                    \/ FoldLeft(LAMBDA n, s : n + Len(s.payload), Len(grown), r.rest) > MaxBytes
  IN  /\ ~ seq_gt(p.seq, rcv_nxt)
      /\ trimmed # <<>>
      /\ \/ exceeds /\ Abort
         \/ /\ ~ exceeds
            /\ \E flushed \in BOOLEAN : resolve_client_ack(trimmed[1], r, flushed)
            /\ rcv_nxt' = r.expected /\ segments' = r.rest /\ data' = grown
            /\ IF r.closed THEN status' = "CloseWait" ELSE Handshaken
            /\ permit' = (permit \/ r.out # <<>> \/ r.closed)
            /\ UNCHANGED capacity

\* handle_existing_flow.  completes: the packet acknowledges the SYN-ACK
\* exactly; until one does, every packet is answered with the SYN-ACK again.
HandlePacket(p, completes) ==
  /\ status # "Closed"
  /\ UNCHANGED <<pump, was_closed, fed, eof>>
  /\ \/ /\ status = "SynReceived" /\ ~ (completes /\ p.seq = rcv_nxt)
        /\ PureAck
        /\ UNCHANGED <<status, rcv_nxt, segments, data, capacity, owed, armed, permit>>
     \/ /\ status = "CloseWait" /\ segment_requires_ack(p)
        /\ PureAck
        /\ UNCHANGED <<status, rcv_nxt, segments, data, capacity, owed, armed, permit>>
     \/ /\ \/ status = "SynReceived" /\ completes /\ p.seq = rcv_nxt
           \/ status = "Established"
           \/ status = "CloseWait" /\ ~ segment_requires_ack(p)
        /\ QueueFuture(p) \/ OutsideWindow(p) \/ Deliver(p)

\* validate_existing_packet, for the packets it does not accept: an exact RST
\* closes the flow; an in-window RST, SYN, old timestamp or acknowledgement
\* of unsent bytes is answered with a challenge ACK.
RejectPacket ==
  /\ status # "Closed"
  /\ UNCHANGED <<rcv_nxt, segments, data, capacity, owed, armed, permit, pump, was_closed, fed, eof>>
  /\ \/ status' = "Closed" /\ UNCHANGED told
     \/ PureAck /\ UNCHANGED status

\* The early returns of handle_existing_flow behind the ACK processing: the
\* packet confirms the server's FIN or spends the resend budget (the flow
\* closes), or asks for that FIN again.  A segment that is resent carries its old
\* acknowledgement and changes nothing here.  What the packet itself carries is
\* not looked at.
RetransmitReturns ==
  /\ status \notin {"SynReceived", "Closed"}
  /\ UNCHANGED <<rcv_nxt, segments, data, capacity, owed, armed, permit, pump, was_closed, fed, eof>>
  /\ \/ status' = "Closed" /\ UNCHANGED told
     \/ PureAck /\ UNCHANGED status

\* The delayed-ACK branch of plan_flow_maintenance.
DelayedAckFires ==
  /\ status # "Closed" /\ armed
  /\ PureAck /\ clear_delayed_ack
  /\ UNCHANGED <<status, rcv_nxt, segments, data, capacity, pump, was_closed, permit, fed, eof>>

---------------------------------------------------------------------------
\* spawn_upstream_pump, one lock section at a time.

PumpSpawn ==
  /\ pump = "unspawned" /\ status # "Closed"
  /\ pump' = "top"
  /\ UNCHANGED <<status, rcv_nxt, segments, data, capacity, owed, armed, told, was_closed, permit, fed, eof>>

PumpTop ==
  /\ pump = "top"
  /\ pump' = IF status = "Closed" THEN "done" ELSE "drain"
  /\ was_closed' = (advertised_receive_window = 0)
  /\ UNCHANGED <<status, rcv_nxt, segments, data, capacity, owed, armed, told, permit, fed, eof>>

\* Takes everything buffered and widens the window by it; an empty take ends
\* the inner loop and releases the lock.
PumpTake ==
  /\ pump = "drain"
  /\ pump' = IF status = "Closed" THEN "done" ELSE IF data = <<>> THEN "drained" ELSE "drain"
  /\ IF status = "Closed" THEN UNCHANGED <<data, capacity, fed>>
     ELSE /\ data' = <<>>
          /\ fed' = fed + Len(data)
          /\ capacity' = IF capacity < MaxBytes THEN Min({capacity + Len(data), MaxBytes})
                         ELSE capacity
  /\ UNCHANGED <<status, rcv_nxt, segments, owed, armed, told, was_closed, permit, eof>>

\* The upstream write failed and no migration rescues the flow.
PumpFails ==
  /\ pump = "drain" /\ status # "Closed"
  /\ pump' = "done" /\ status' = "Closed"
  /\ UNCHANGED <<rcv_nxt, segments, data, capacity, owed, armed, told, was_closed, permit, fed, eof>>

\* The lock is taken again: a half-closed client ends the upstream.
PumpHalfClose ==
  /\ pump = "drained" /\ client_fin_seen
  /\ eof' = TRUE /\ pump' = "done"
  /\ UNCHANGED <<status, rcv_nxt, segments, data, capacity, owed, armed, told, was_closed, permit, fed>>

\* Mutant: the pump forgets a wake-up issued while it was draining.
ParkAfresh ==
  /\ pump = "drained" /\ ~ client_fin_seen
  /\ pump' = "parked" /\ permit' = FALSE
  /\ UNCHANGED <<status, rcv_nxt, segments, data, capacity, owed, armed, told, was_closed, fed, eof>>

PumpWindowUpdate ==
  /\ pump = "drained" /\ ~ client_fin_seen
  /\ told' = IF was_closed /\ advertised_receive_window > 0
             THEN [ack |-> rcv_nxt, wnd |-> advertised_receive_window] ELSE told
  /\ pump' = "parked"
  /\ UNCHANGED <<status, rcv_nxt, segments, data, capacity, owed, armed, was_closed, permit, fed, eof>>

PumpWake ==
  /\ pump = "parked"
  /\ \/ status = "Closed" /\ pump' = "done" /\ UNCHANGED permit
     \/ permit /\ pump' = "top" /\ permit' = FALSE
  /\ UNCHANGED <<status, rcv_nxt, segments, data, capacity, owed, armed, told, was_closed, fed, eof>>

Next == \/ \E p \in Packets, completes \in BOOLEAN : HandlePacket(p, completes)
        \/ RejectPacket \/ RetransmitReturns \/ DelayedAckFires
        \/ PumpSpawn \/ PumpTop \/ PumpTake \/ PumpFails
        \/ PumpHalfClose \/ PumpWindowUpdate \/ PumpWake

Spec == Init /\ [][Next]_vars

---------------------------------------------------------------------------
\* Reassembly and the pump hand the client's stream upstream exactly: what
\* is buffered continues what was taken, byte for byte, and rcv_nxt stands
\* right behind it (plus the FIN), whatever was reordered, repeated, cut at
\* the window or split around buffered segments (recv.rs, deliver.rs).
StreamExact ==
  status # "Closed" =>
    /\ data = [i \in 1 .. Len(data) |-> fed + i - 1]
    /\ rcv_nxt = SeqNo(fed + Len(data) + (IF status = "CloseWait" THEN 1 ELSE 0))

\* Every byte and FIN the flow has consumed is acknowledged, or the delayed-
\* ACK timer is armed to do it: no path clears the timer without an ACK
\* (resolve_client_ack, clear_delayed_ack).
AckSentOrArmed == status \notin {"SynReceived", "Closed"} => told.ack = rcv_nxt \/ armed

\* Until the client's FIN is consumed the reassembly queue is sorted, its segments do not overlap, and all of
\* them lie beyond rcv_nxt, so a drain never needs to look past its head
\* (insert_client_segment, queue_future_segment).
QueueOrdered ==
  status = "Established" =>
    \A i \in DOMAIN segments :
      /\ seq_gt(segments[i].seq, rcv_nxt)
      /\ segments[i].payload # <<>> => segments[i].seq = SeqNo(segments[i].payload[1])
      /\ \A j \in DOMAIN segments :
           i < j => seq_ge(segments[j].seq, data_end(segments[i]))

\* "no wakeup is lost" (pump.rs): a pump parked without a permit has taken
\* everything the client sent and has no half-close to pass on; the permit
\* the read loop leaves between the drain and the park is never dropped.
NoLostWakeup == pump = "parked" /\ ~ permit /\ status # "Closed" => data = <<>> /\ status # "CloseWait"

=============================================================================
