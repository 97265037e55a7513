---------------------------- MODULE TunTcpSend ----------------------------
(***************************************************************************)
(* The downlink half of one established TUN TCP flow and its TCP client:   *)
(* the client's send window, the zero-window persist timer, keepalive,     *)
(* retransmission, the FIN and the closing states (engine/packet.rs,       *)
(* validation.rs, maintenance.rs, state_machine/send, policy, transitions  *)
(* and packets.rs).                                                        *)
(*                                                                         *)
(* The upstream's stream is the bytes 0 .. Total - 1; a packet carries one *)
(* byte.  The client (external) follows RFC 9293: it accepts the next      *)
(* byte while its window is open, acknowledges what it accepts and answers *)
(* an unacceptable segment with an ACK.  Packets between the two are lost  *)
(* (at most MaxLoss times, and when a queue is full) and overtake each     *)
(* other.  SACK, fast retransmission (TunTcpScoreboard), the congestion    *)
(* window and pacing, and the client's data (TunTcpReceive) are left out;  *)
(* the client's FIN is its one sequence number, 0.                         *)
(***************************************************************************)
EXTENDS TcpSeq

CONSTANTS Total, Isn,
          Closes,       \* whether the two ends close their halves
          Room,         \* the client's receive buffer
          MaxWire, MaxLoss

VARIABLES srv,          \* TcpFlowState
          fed, eof,     \* bytes and FIN the upstream reader has taken
          down, up,     \* packets on the way to the client and to the flow
          rcv,          \* bytes the client accepted
          held,         \* of these, the ones its application has not read
          gotFin, sentFin,
          edge,         \* the farthest right edge the client ever advertised
          losses

vars == <<srv, fed, eof, down, up, rcv, held, gotFin, sentFin, edge, losses>>

---------------------------------------------------------------------------
SeqNo(p) == wrapping_add(Isn, p)

Init == /\ srv = [status |-> "Established", seq |-> Isn, una |-> Isn, pending |-> <<>>,
                  unacked |-> <<>>, finPending |-> FALSE, win |-> Room, end |-> SeqNo(Room),
                  wseq |-> 0, wack |-> Isn, probing |-> FALSE, rcv_nxt |-> 0, probes |-> 0]
        /\ fed = 0 /\ eof = FALSE /\ down = <<>> /\ up = <<>>
        /\ rcv = <<>> /\ held = 0 /\ gotFin = FALSE /\ sentFin = FALSE
        /\ edge = Room /\ losses = 0

Least(a, b) == IF a < b THEN a ELSE b

\* Packets enter a queue until it is full.
PutAll(q, ps) == SubSeq(q \o ps, 1, Least(MaxWire, Len(q) + Len(ps)))
Put(q, p) == PutAll(q, <<p>>)

Data(seq, byte) == [kind |-> "data", seq |-> seq, byte |-> byte]
Fin(seq) == [kind |-> "fin", seq |-> seq, byte |-> Total]
PureAck(seq) == [kind |-> "ack", seq |-> seq, byte |-> Total]

---------------------------------------------------------------------------
\* The flow.

send_window_remaining(s) == IF seq_ge(s.seq, s.end) THEN 0 ELSE wrapping_sub(s.end, s.seq)

\* The flow and the packets it wrote.
Out(s, packets) == [s |-> s, out |-> packets]

\* Mutant: the buffer is drained one byte short of what was sent.
FlushKeepsLast(s) ==
  LET n == Least(send_window_remaining(s), Len(s.pending))
      segs == [i \in 1 .. n |-> Data(wrapping_add(s.seq, i - 1), s.pending[i])]
  IN  Out([s EXCEPT !.pending = IF n = 0 THEN @ ELSE SubSeq(@, n, Len(@)), !.unacked = @ \o segs,
                    !.seq = wrapping_add(@, n), !.probing = IF n > 0 THEN FALSE ELSE @], segs)

flush_server_data(s) ==
  LET n == Least(send_window_remaining(s), Len(s.pending))
      segs == [i \in 1 .. n |-> Data(wrapping_add(s.seq, i - 1), s.pending[i])]
  IN  Out([s EXCEPT !.pending = SubSeq(@, n + 1, Len(@)), !.unacked = @ \o segs,
                    !.seq = wrapping_add(@, n), !.probing = IF n > 0 THEN FALSE ELSE @], segs)

maybe_emit_server_fin(s) ==
  IF ~ s.finPending \/ s.pending # <<>> \/ s.unacked # <<>> \/ s.status \in {"Closed", "TimeWait"}
  THEN Out(s, <<>>)
  ELSE Out([s EXCEPT !.seq = wrapping_add(@, 1), !.finPending = FALSE,
                     !.unacked = <<Fin(s.seq)>>,
                     !.status = CASE @ = "CloseWait" -> "LastAck"
                                  [] @ = "Established" -> "FinWait1"
                                  [] OTHER -> @], <<Fin(s.seq)>>)

\* The first pending byte at server_seq, which does not move.  probing: the
\* next probe has its deadline.
maybe_emit_zero_window_probe(s) ==
  IF send_window_remaining(s) # 0 \/ s.pending = <<>> \/ s.unacked # <<>> THEN Out(s, <<>>)
  ELSE Out([s EXCEPT !.probing = TRUE], <<Data(s.seq, s.pending[1])>>)

\* Within a flush a probe whose deadline is ahead is not sent.
flush_server_output(s) ==
  LET d == flush_server_data(s)
      f == maybe_emit_server_fin(d.s)
      p == IF f.s.probing THEN Out(f.s, <<>>) ELSE maybe_emit_zero_window_probe(f.s)
  IN  Out(p.s, d.out \o f.out \o p.out)

update_client_send_window(s, p) ==
  IF \/ seq_gt(p.seq, s.wseq)
     \/ p.seq = s.wseq /\ (seq_gt(p.ack, s.wack) \/ (p.ack = s.wack /\ p.win > s.win))
     \/ p.win = 0
  THEN [s EXCEPT !.win = p.win, !.end = wrapping_add(p.ack, p.win), !.wseq = p.seq, !.wack = p.ack]
  ELSE s

absorb_accepted_client_packet(s, p) ==
  LET t == update_client_send_window([s EXCEPT !.probes = 0], p)
  IN  IF t.win > 0 THEN [t EXCEPT !.probing = FALSE] ELSE t

\* process_server_ack without SACK: the acknowledged prefix leaves the queue.
process_server_ack(s, ack) ==
  [s EXCEPT !.una = IF seq_gt(ack, @) \/ s.unacked = <<>> THEN ack ELSE @,
            !.unacked = SelectSeq(@, LAMBDA d : ~ seq_gt(ack, d.seq))]

server_fin_awaiting_ack(s) == s.status \in {"FinWait1", "Closing", "LastAck"}
client_fin_seen(s) == s.status \in {"CloseWait", "Closing", "LastAck", "TimeWait", "Closed"}

ack_covers_server_fin(s, ack) == ack >= s.seq

transition_on_server_fin_ack(s) ==
  [s EXCEPT !.status = CASE @ = "FinWait1" -> "FinWait2" [] @ = "Closing" -> "TimeWait"
                         [] @ = "LastAck" -> "Closed" [] OTHER -> @]

transition_on_client_fin(s) ==
  [s EXCEPT !.status = CASE @ = "Established" -> "CloseWait" [] @ = "FinWait1" -> "Closing"
                         [] @ = "FinWait2" -> "TimeWait" [] OTHER -> @]

\* validate_existing_packet: an ACK above server_seq is not absorbed.
AboveSndNxt(s, p) == seq_gt(p.ack, s.seq)

\* What handle_existing_flow does with an accepted packet.
Accepted(s, p) ==
  LET a == process_server_ack(absorb_accepted_client_packet(s, p), p.ack)
      b == IF server_fin_awaiting_ack(a) /\ ack_covers_server_fin(a, p.ack)
           THEN transition_on_server_fin_ack(a) ELSE a
      flushed == flush_server_output([b EXCEPT !.rcv_nxt = IF p.fin THEN 1 ELSE @])
  IN  IF b.status = "Closed" THEN Out(b, <<>>)
      ELSE IF server_fin_awaiting_ack(b) /\ seq_lt(p.ack, b.seq)
      THEN Out(b, <<Fin(wrapping_sub(b.seq, 1))>>)
      ELSE IF (client_fin_seen(b) /\ (p.fin \/ p.seq < b.rcv_nxt)) \/ p.seq > b.rcv_nxt
      THEN Out(b, <<PureAck(b.seq)>>)
      ELSE Out(IF p.fin THEN transition_on_client_fin(flushed.s) ELSE flushed.s,
               (IF p.fin THEN <<PureAck(b.seq)>> ELSE <<>>) \o flushed.out)

Without(q, i) == SubSeq(q, 1, i - 1) \o SubSeq(q, i + 1, Len(q))

\* handle_existing_flow
HandlePacket(i) ==
  /\ i \in DOMAIN up /\ srv.status # "Closed"
  /\ LET p == up[i]
         r == IF AboveSndNxt(srv, p)
              THEN Out(srv, IF p.seq = srv.rcv_nxt THEN <<PureAck(srv.seq)>> ELSE <<>>)
              ELSE Accepted(srv, p)
     IN  srv' = r.s /\ down' = PutAll(down, r.out)
  /\ up' = Without(up, i)
  /\ UNCHANGED <<fed, eof, rcv, held, gotFin, sentFin, edge, losses>>

\* One output step of the flow outside the read loop.
Emit(r) == /\ srv' = r.s /\ down' = PutAll(down, r.out)
           /\ UNCHANGED <<up, rcv, held, gotFin, sentFin, edge, losses>>

\* The upstream reader: a byte, or the end of the stream.
UpstreamByte ==
  /\ fed < Total /\ srv.status # "Closed" /\ fed' = fed + 1
  /\ Emit(flush_server_output([srv EXCEPT !.pending = Append(@, fed)]))
  /\ UNCHANGED eof

UpstreamEof ==
  /\ Closes /\ fed = Total /\ ~ eof /\ srv.status # "Closed" /\ eof' = TRUE
  /\ Emit(flush_server_output([srv EXCEPT !.finPending = TRUE]))
  /\ UNCHANGED fed

\* plan_flow_maintenance: the three timers of this half.
RetransmitDue ==
  /\ srv.unacked # <<>> /\ srv.status # "Closed"
  /\ Emit(Out(srv, <<Head(srv.unacked)>>))
  /\ UNCHANGED <<fed, eof>>

ZeroWindowProbeDue ==
  /\ srv.win = 0 /\ srv.pending # <<>> /\ srv.unacked = <<>> /\ srv.status # "Closed"
  /\ Emit(maybe_emit_zero_window_probe(srv))
  /\ UNCHANGED <<fed, eof>>

KeepaliveDue ==
  /\ srv.status = "Established" /\ srv.pending = <<>> /\ srv.unacked = <<>> /\ srv.probes = 0
  /\ Emit(Out([srv EXCEPT !.probes = 1], <<PureAck(wrapping_sub(srv.seq, 1))>>))
  /\ UNCHANGED <<fed, eof>>

---------------------------------------------------------------------------
\* The client and the wire.

AckNo(n, fin) == SeqNo(n + (IF fin THEN 1 ELSE 0))
Acks(n, h, fin, cf) ==
  [seq |-> IF cf THEN 1 ELSE 0, ack |-> AckNo(n, fin), win |-> Room - h, fin |-> FALSE]

\* A segment of the flow reaches the client.
ClientReceive(i) ==
  /\ i \in DOMAIN down
  /\ LET p == down[i]
         expected == AckNo(Len(rcv), gotFin)
         takes == p.kind = "data" /\ p.seq = expected /\ held < Room /\ ~ gotFin
         fins  == p.kind = "fin" /\ p.seq = expected /\ ~ gotFin
         silent == p.kind = "ack" /\ p.seq = expected
         n == IF takes THEN Append(rcv, p.byte) ELSE rcv
         h == IF takes THEN held + 1 ELSE held
     IN  /\ rcv' = n /\ held' = h /\ gotFin' = (gotFin \/ fins)
         /\ up' = IF silent THEN up ELSE Put(up, Acks(Len(n), h, gotFin \/ fins, sentFin))
         /\ edge' = IF Len(n) + Room - h > edge THEN Len(n) + Room - h ELSE edge
  /\ down' = Without(down, i)
  /\ UNCHANGED <<srv, fed, eof, sentFin, losses>>

\* The application reads; a window that was closed is announced.
ClientRead ==
  /\ held > 0 /\ held' = 0
  /\ up' = IF held = Room THEN Put(up, Acks(Len(rcv), 0, gotFin, sentFin)) ELSE up
  /\ edge' = IF held = Room THEN Len(rcv) + Room ELSE edge
  /\ UNCHANGED <<srv, fed, eof, down, rcv, gotFin, sentFin, losses>>

\* The client closes its half, and repeats its FIN.
ClientFin ==
  /\ Closes /\ sentFin' = TRUE /\ srv.rcv_nxt = 0
  /\ up' = Put(up, [Acks(Len(rcv), held, gotFin, FALSE) EXCEPT !.fin = TRUE])
  /\ UNCHANGED <<srv, fed, eof, down, rcv, held, gotFin, edge, losses>>

Lose ==
  /\ losses < MaxLoss /\ losses' = losses + 1
  /\ \/ \E i \in DOMAIN down : down' = Without(down, i) /\ UNCHANGED up
     \/ \E i \in DOMAIN up : up' = Without(up, i) /\ UNCHANGED down
  /\ UNCHANGED <<srv, fed, eof, rcv, held, gotFin, sentFin, edge>>

Next == \/ \E i \in 1 .. MaxWire : HandlePacket(i) \/ ClientReceive(i)
        \/ UpstreamByte \/ UpstreamEof \/ RetransmitDue \/ ZeroWindowProbeDue \/ KeepaliveDue
        \/ ClientRead \/ ClientFin \/ Lose

Spec == Init /\ [][Next]_vars

\* When the steps fairness is about are enabled.
CanHandle == up # <<>> /\ srv.status # "Closed"
CanRetransmit == srv.unacked # <<>> /\ srv.status # "Closed" /\ Len(down) < MaxWire
CanProbe == /\ srv.win = 0 /\ srv.pending # <<>> /\ srv.unacked = <<>>
            /\ srv.status # "Closed" /\ Len(down) < MaxWire

\* The timers fire, the reader reads and packets arrive in the end: weak
\* fairness, spelled out where the step is costly to test for being enabled.
FairSpec ==
  /\ Spec
  /\ WF_vars(ClientRead)
  /\ (([]<>~CanHandle) \/ ([]<><<HandlePacket(1)>>_vars))
  /\ (([]<>(down = <<>>)) \/ ([]<><<ClientReceive(1)>>_vars))
  /\ (([]<>(fed = Total \/ srv.status = "Closed")) \/ ([]<><<UpstreamByte>>_vars))
  /\ (([]<>~CanRetransmit) \/ ([]<><<RetransmitDue>>_vars))
  /\ (([]<>~CanProbe) \/ ([]<><<ZeroWindowProbeDue>>_vars))

---------------------------------------------------------------------------
\* Every byte the client accepts is the next byte of the upstream's stream,
\* through retransmissions, probes and lost or overtaken ACKs.
ClientStreamExact == \A i \in DOMAIN rcv : rcv[i] = i - 1

\* The flow never counts a byte as sent beyond the farthest window edge the
\* client ever advertised, whatever order its ACKs arrive in; the FIN may
\* take the one number behind it.
WindowRespected ==
  wrapping_sub(srv.seq, Isn) <= edge + (IF eof /\ srv.pending = <<>> THEN 1 ELSE 0)

\* "Client ACK advances to or past our FIN byte" (ack_covers_server_fin): the
\* flow leaves the states that wait for the FIN's ACK only when the client
\* has the FIN.
FinAckIsReal ==
  srv.status \in {"FinWait2", "Closed", "TimeWait"} => gotFin

=============================================================================
