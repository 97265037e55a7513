-------------------------- MODULE TunTcpScoreboard --------------------------
(***************************************************************************)
(* Loss recovery of one TUN TCP flow towards the client                    *)
(* (state_machine/congestion.rs, send/flush.rs, send/probes.rs): the queue *)
(* of unacknowledged segments, the SACK scoreboard, fast recovery and the  *)
(* retransmission timer.                                                   *)
(*                                                                         *)
(* What the flow needs on every packet (bytes and segments in the pipe,    *)
(* the earliest transmission that is not SACKed) is cached and kept up     *)
(* incrementally on some paths and rebuilt on others.  Acknowledgements    *)
(* and SACK blocks are any a client could send for what was sent, in any   *)
(* order, stale ones included.  Instants are ticks of a clock; which ticks *)
(* are a retransmission timeout ago is left open.  The retransmission      *)
(* budget, which only ends the flow, is left out.                          *)
(***************************************************************************)
EXTENDS TcpSeq

CONSTANTS Isn,          \* server_seq after the handshake
          Total,        \* bytes the upstream sends before its FIN
          Mss, MaxTime, MaxEpoch,
          MaxStale,     \* bound: bytes below the last ACK a late packet speaks of
          None

DupAckThreshold == 3    \* TCP_FAST_RETRANSMIT_DUP_ACKS

VARIABLES server_seq,
          unacked,      \* unacked_server_segments
          scoreboard,   \* sack_scoreboard
          last_ack,     \* last_client_ack
          dup,          \* duplicate_ack_count
          recovery_end, \* fast_recovery_end
          epoch,        \* recovery_epoch
          pipe_bytes, pipe_segments, earliest, reordered,
          finned,       \* the FIN was sent
          now

caches == <<pipe_bytes, pipe_segments, earliest, reordered>>
vars == <<server_seq, unacked, scoreboard, last_ack, dup, recovery_end, epoch,
          caches, finned, now>>

---------------------------------------------------------------------------
SegmentEnd(s) == wrapping_add(s.seq, s.len)

Init == /\ server_seq = Isn /\ last_ack = Isn
        /\ unacked = <<>> /\ scoreboard = <<>>
        /\ dup = 0 /\ recovery_end = None /\ epoch = 0
        /\ pipe_bytes = 0 /\ pipe_segments = 0 /\ earliest = None /\ reordered = FALSE
        /\ finned = FALSE /\ now = 0

\* Sorted by distance from the anchor, then merged left to right.
merge_sequence_ranges(ranges, anchor) ==
  LET sorted == SetToSortSeq({r \in ranges : seq_gt(r.end, r.start)},
                  LAMBDA a, b : <<wrapping_sub(a.start, anchor), a.end>> # <<wrapping_sub(b.start, anchor), b.end>>
                                /\ \/ wrapping_sub(a.start, anchor) < wrapping_sub(b.start, anchor)
                                   \/ a.start = b.start /\ a.end < b.end)
      Absorb(merged, r) ==
        IF merged # <<>> /\ ~ seq_gt(r.start, Last(merged).end)
        THEN IF seq_gt(r.end, Last(merged).end)
             THEN [merged EXCEPT ![Len(merged)].end = r.end] ELSE merged
        ELSE Append(merged, r)
  IN  FoldLeft(Absorb, <<>>, sorted)

Clip(r, ack) == IF seq_lt(r.start, ack) THEN [r EXCEPT !.start = ack] ELSE r

Above(ranges, ack) == {r \in ranges : seq_gt(r.end, ack)}

\* The scoreboard above a cumulative ACK, and whether a range was cut.
trim_sack_scoreboard(board, ack) ==
  [board   |-> merge_sequence_ranges({Clip(r, ack) : r \in Above(Range(board), ack)}, ack),
   clipped |-> \E r \in Above(Range(board), ack) : seq_lt(r.start, ack)]

range_fully_covered(board, start, end) ==
  \/ ~ seq_gt(end, start)
  \/ \E i \in DOMAIN board :
       /\ ~ seq_gt(board[i].start, start)
       /\ seq_gt(board[i].end, start) /\ ~ seq_lt(board[i].end, end)
       /\ \A j \in 1 .. i - 1 : ~ seq_gt(board[j].start, start) /\ ~ seq_gt(board[j].end, start)

\* The blocks that tell something new, clipped to the ACK that carries them.
NewRanges(board, ack, blocks) ==
  {r \in {Clip(b, ack) : b \in Above(blocks, ack)} :
     seq_gt(r.end, r.start) /\ ~ range_fully_covered(board, r.start, r.end)}

update_sack_scoreboard(board, ack, blocks) ==
  IF NewRanges(board, ack, blocks) = {} THEN board
  ELSE merge_sequence_ranges(Range(board) \cup NewRanges(board, ack, blocks), ack)

Sacked(board, s) == range_fully_covered(board, s.seq, SegmentEnd(s))

---------------------------------------------------------------------------
\* unacked_accounting_snapshot: the caches by a scan of the queue.
Scan(queue, board) ==
  LET pipe == SelectSeq(queue, LAMBDA s : ~ Sacked(board, s))
  IN  [bytes     |-> FoldLeft(LAMBDA n, s : n + s.len, 0, pipe),
       segments  |-> Len(pipe),
       earliest  |-> IF pipe = <<>> THEN None ELSE Min({pipe[i].sent : i \in DOMAIN pipe}),
       reordered |-> \E i \in 2 .. Len(queue) : queue[i].sent < queue[i - 1].sent]

\* Mutant: the queue is taken to be in the order of transmission.
EarliestIsFirst(queue, board, c) ==
  LET pipe == SelectSeq(queue, LAMBDA s : ~ Sacked(board, s))
  IN  [c EXCEPT !.earliest  = IF pipe = <<>> THEN None ELSE pipe[1].sent,
                !.reordered = IF queue = <<>> THEN FALSE ELSE c.reordered]

\* After the acknowledged prefix was popped from a queue with caches c.
refresh_earliest_after_pop(queue, board, c) ==
  LET pipe == SelectSeq(queue, LAMBDA s : ~ Sacked(board, s))
  IN  IF queue = <<>> THEN [c EXCEPT !.earliest = None, !.reordered = FALSE]
      ELSE IF c.reordered THEN Scan(queue, board)
      ELSE [c EXCEPT !.earliest = IF pipe = <<>> THEN None ELSE pipe[1].sent]

SetCaches(c) == /\ pipe_bytes' = c.bytes /\ pipe_segments' = c.segments
                /\ earliest' = c.earliest /\ reordered' = c.reordered

Caches == [bytes |-> pipe_bytes, segments |-> pipe_segments,
           earliest |-> earliest, reordered |-> reordered]

---------------------------------------------------------------------------
\* The first index of a queue with a property, or 0.
Position(queue, P(_)) == LET at == {i \in DOMAIN queue : P(queue[i])}
                         IN  IF at = {} THEN 0 ELSE Min(at)

\* The end of the range that reaches farthest from the last ACK.
highest_sacked_end(board, ack) ==
  CHOOSE e \in {board[i].end : i \in DOMAIN board} :
    \A i \in DOMAIN board : wrapping_sub(board[i].end, ack) <= wrapping_sub(e, ack)

preferred_retransmit_index(queue, board, ack) ==
  LET hole == Position(queue, LAMBDA s : /\ ~ Sacked(board, s)
                                         /\ seq_lt(s.seq, highest_sacked_end(board, ack)))
  IN  IF board # <<>> /\ hole # 0 THEN hole
      ELSE Position(queue, LAMBDA s : ~ Sacked(board, s))

fast_retransmit_index(queue, board, ack, e) ==
  Position(queue, LAMBDA s : /\ ~ Sacked(board, s) /\ s.epoch # e
                             /\ board # <<>> => seq_lt(s.seq, highest_sacked_end(board, ack)))

\* A retransmission stamps the segment and rebuilds the caches.
Retransmit(queue, board, i, e) ==
  LET stamped == [queue EXCEPT ![i].sent = now, ![i].epoch = e]
  IN  unacked' = stamped /\ SetCaches(Scan(stamped, board))

Segment(seq, len) == [seq |-> seq, len |-> len, sent |-> now, epoch |-> 0]

\* flush_server_data and push_unacked_segments: n bytes, cut into segments.
SendData(n) ==
  /\ ~ finned /\ wrapping_sub(server_seq, Isn) + n <= Total
  /\ LET count == (n + Mss - 1) \div Mss
         added == [i \in 1 .. count |->
                     Segment(wrapping_add(server_seq, (i - 1) * Mss),
                             IF i < count THEN Mss ELSE n - (count - 1) * Mss)]
     IN  /\ unacked' = unacked \o added
         /\ pipe_segments' = pipe_segments + count
  /\ pipe_bytes' = pipe_bytes + n
  /\ earliest' = IF earliest = None THEN now ELSE earliest
  /\ server_seq' = wrapping_add(server_seq, n)
  /\ UNCHANGED <<scoreboard, last_ack, dup, recovery_end, epoch, reordered, finned, now>>

\* maybe_emit_server_fin: the FIN waits for an empty queue.
SendFin ==
  /\ ~ finned /\ unacked = <<>> /\ wrapping_sub(server_seq, Isn) = Total
  /\ unacked' = <<Segment(server_seq, 1)>> /\ finned' = TRUE
  /\ server_seq' = wrapping_add(server_seq, 1)
  /\ pipe_bytes' = pipe_bytes + 1 /\ pipe_segments' = pipe_segments + 1
  /\ earliest' = IF earliest = None THEN now ELSE earliest
  /\ UNCHANGED <<scoreboard, last_ack, dup, recovery_end, epoch, reordered, now>>

RecoveryEnds(ack, end, queue) == seq_ge(ack, end) \/ queue = <<>>

\* The acknowledged prefix leaves the queue; what was not SACKed leaves the
\* pipe.  The caches are adjusted in place.
Popped(queue, board, ack, c) ==
  LET gone == {i \in DOMAIN queue : \A j \in 1 .. i : seq_ge(ack, SegmentEnd(queue[j]))}
      rest == SubSeq(queue, Cardinality(gone) + 1, Len(queue))
      left == {i \in gone : ~ Sacked(board, queue[i])}
      less == [c EXCEPT !.bytes = @ - FoldFunction(+, 0, [i \in left |-> queue[i].len]),
                        !.segments = @ - Cardinality(left)]
  IN  [queue |-> rest, caches |-> refresh_earliest_after_pop(rest, board, less)]

\* process_server_ack, and the fast retransmission handle_existing_flow makes
\* when it asks for one.
Ack(ack, blocks) ==
  LET board    == update_sack_scoreboard(scoreboard, ack, blocks)
      advanced == NewRanges(scoreboard, ack, blocks) # {}
      c0       == IF advanced THEN Scan(unacked, board) ELSE Caches
      moved    == unacked # <<>> /\ seq_gt(ack, last_ack)
      popped   == IF moved THEN Popped(unacked, board, ack, c0)
                  ELSE [queue |-> unacked, caches |-> c0]
      repeated == unacked # <<>> /\ ack = last_ack
      enters   == repeated /\ recovery_end = None /\ dup + 1 >= DupAckThreshold
      ends     == \/ unacked = <<>>
                  \/ moved /\ recovery_end # None /\ RecoveryEnds(ack, recovery_end, popped.queue)
      partial  == moved /\ recovery_end # None /\ ~ ends
      newAck   == IF moved \/ unacked = <<>> THEN ack ELSE last_ack
      newEpoch == IF enters THEN epoch + 1 ELSE epoch
      trimmed  == trim_sack_scoreboard(board, ack)
      index    == fast_retransmit_index(popped.queue, board, newAck, newEpoch)
      resends  == index # 0 /\ (enters \/ partial \/ (repeated /\ recovery_end # None /\ advanced))
      again    == fast_retransmit_index(popped.queue, trimmed.board, newAck, newEpoch)
  IN  /\ newEpoch <= MaxEpoch
      /\ last_ack' = newAck
      /\ epoch' = newEpoch
      /\ recovery_end' = IF ends THEN None ELSE IF enters THEN server_seq ELSE recovery_end
      /\ dup' = IF unacked = <<>> \/ moved THEN 0
                ELSE IF repeated THEN Min({dup + 1, DupAckThreshold}) ELSE dup
      /\ scoreboard' = trimmed.board
      /\ IF resends /\ again # 0
         THEN Retransmit(popped.queue, trimmed.board, again, newEpoch)
         ELSE /\ unacked' = popped.queue
              /\ SetCaches(IF trimmed.clipped THEN Scan(popped.queue, trimmed.board)
                           ELSE popped.caches)
      /\ UNCHANGED <<server_seq, finned, now>>

\* plan_flow_maintenance: the earliest transmission not SACKed is a timeout
\* ago.  cutoff is the instant that is.  The timeout ends fast recovery.
TimeoutRetransmit(cutoff) ==
  LET first == preferred_retransmit_index(unacked, scoreboard, last_ack)
      due   == Position(unacked, LAMBDA s : ~ Sacked(scoreboard, s) /\ s.sent <= cutoff)
      index == IF first # 0 /\ unacked[first].sent <= cutoff THEN first ELSE due
  IN  /\ earliest # None /\ earliest <= cutoff /\ cutoff < now
      /\ index # 0
      /\ Retransmit(unacked, scoreboard, index, unacked[index].epoch)
      /\ recovery_end' = None /\ dup' = 0
      /\ UNCHANGED <<server_seq, scoreboard, last_ack, epoch, finned, now>>

Tick == /\ now < MaxTime /\ now' = now + 1
        /\ UNCHANGED <<server_seq, unacked, scoreboard, last_ack, dup, recovery_end, epoch,
                       caches, finned>>

\* Positions a client can acknowledge or report: up to what was sent.
Sent == {wrapping_add(Isn, k) : k \in Max({0, wrapping_sub(last_ack, Isn) - MaxStale})
                                     .. wrapping_sub(server_seq, Isn)}

Blocks == {[start |-> a, end |-> b] : <<a, b>> \in {t \in Sent \X Sent : seq_gt(t[2], t[1])}}

\* No block, any one, or two islands with a hole between them.
Reports == {{}} \cup {{b} : b \in Blocks}
                \cup {{a, b} : <<a, b>> \in {t \in Blocks \X Blocks : seq_gt(t[2].start, t[1].end)}}

Next == \/ \E n \in 1 .. Total : SendData(n)
        \/ SendFin
        \/ \E ack \in Sent, blocks \in Reports : Ack(ack, blocks)
        \/ \E cutoff \in 0 .. MaxTime : TimeoutRetransmit(cutoff)
        \/ Tick

Spec == Init /\ [][Next]_vars

---------------------------------------------------------------------------
\* debug_assert_unacked_accounting ("drifted from the scan version"): the
\* cached pipe and the earliest transmission agree with a scan of the queue
\* after any mix of ACKs, SACKs and retransmissions, so the retransmission
\* timer is armed exactly while a segment may be lost.
AccountingExact ==
  LET scan == Scan(unacked, scoreboard)
  IN  /\ pipe_bytes = scan.bytes /\ pipe_segments = scan.segments
      /\ earliest = scan.earliest
      /\ scan.reordered => reordered

\* Fast recovery is open only while data it is about is outstanding: its
\* high-water mark lies above the last ACK and the queue is not empty, so a
\* later loss starts a recovery of its own.
RecoveryOpen ==
  recovery_end # None => unacked # <<>> /\ seq_gt(recovery_end, last_ack)

=============================================================================
