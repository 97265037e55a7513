------------------------------ MODULE TcpSeq ------------------------------
(***************************************************************************)
(* Sequence-number arithmetic of the TUN TCP stack                         *)
(* (crates/outline-tun/src/tcp/state_machine/seq.rs).  The code works on   *)
(* u32 with wrapping_sub and a cast to i32; SeqSpace stands for 2^32, so the *)
(* wrap-around and the half-space comparison are both kept.                *)
(***************************************************************************)
EXTENDS Integers, Sequences, FiniteSets, FiniteSetsExt, SequencesExt

CONSTANT SeqSpace

wrapping_add(a, n) == (a + n) % SeqSpace

wrapping_sub(a, b) == (a - b) % SeqSpace

\* (lhs.wrapping_sub(rhs) as i32) < 0
seq_lt(a, b) == wrapping_sub(a, b) >= SeqSpace \div 2

\* (lhs.wrapping_sub(rhs) as i32) > 0
seq_gt(a, b) == wrapping_sub(a, b) \in 1 .. (SeqSpace \div 2) - 1

seq_ge(a, b) == ~ seq_lt(a, b)

=============================================================================
