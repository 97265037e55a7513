----------------------------- MODULE RingWindow -----------------------------
(***************************************************************************)
(* What the two replay rings promise: the client's ring of sent uplink     *)
(* chunks (outline-transport/src/uplink_replay.rs) and the server's ring   *)
(* of sent downlink chunks (resumption/downlink_ring.rs).                  *)
(*                                                                         *)
(* A byte is its offset in the stream.  A window is the number of bytes    *)
(* ever pushed and the first offsets of the chunks still held; the held    *)
(* bytes are those from the smallest start up to total.  Whole chunks are  *)
(* dropped from the front, so a chunk stays exactly while everything from  *)
(* its first byte on fits in the capacity.                                 *)
(***************************************************************************)
EXTENDS Integers

Window == [starts : SUBSET Nat, total : Nat]

EmptyWindow == [starts |-> {}, total |-> 0]

(* Pushing the chunks that begin at cuts and end at to, each within cap. *)
PushChunks(w, cuts, to, cap) ==
  [starts |-> {s \in w.starts \cup cuts : to - s <= cap}, total |-> to]

(* ClientUpstreamRingBuffer::push of a chunk of n bytes; a chunk larger than
   the capacity is refused and changes nothing. *)
PushUplink(w, n, cap) ==
  IF n = 0 \/ n > cap THEN w
  ELSE PushChunks(w, {w.total}, w.total + n, cap)

(* DownlinkRing::push of a chunk of n bytes; a chunk that fills the ring leaves
   only its last cap bytes. *)
PushDownlink(w, n, cap) ==
  IF n = 0 THEN w
  ELSE IF cap = 0 THEN [w EXCEPT !.total = @ + n]
  ELSE IF n >= cap
  THEN [starts |-> {w.total + n - cap}, total |-> w.total + n]
  ELSE PushChunks(w, {w.total}, w.total + n, cap)

(* replay_from(o) is refused as ahead of the stream, refused as evicted, or
   answered with the bytes o .. total - 1. *)
Ahead(w, o) == o > w.total

Available(w, o) == o <= w.total /\ (o = w.total \/ \E s \in w.starts : s <= o)

Evicted(w, o) == o <= w.total /\ ~Available(w, o)
=============================================================================
