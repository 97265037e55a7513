------------------------------ MODULE BytePipe ------------------------------
(***************************************************************************)
(* What a resumable session promises for one direction of its byte stream: *)
(* the receiver gets bytes the sender has written, in order, each once.  A *)
(* session may end at any time, so the pipe may stop anywhere.             *)
(***************************************************************************)
EXTENDS Integers

VARIABLES sent,      \* bytes the sender has written
          received,  \* bytes the receiver has got
          intact     \* each of them was the next one

pipe == <<sent, received, intact>>

Init == sent = 0 /\ received = 0 /\ intact = TRUE

Send ==
  /\ sent' \in Nat /\ sent' > sent
  /\ UNCHANGED <<received, intact>>

Deliver ==
  /\ received' \in Nat /\ received' > received /\ received' <= sent
  /\ UNCHANGED <<sent, intact>>

Next == Send \/ Deliver

Spec == Init /\ [][Next]_pipe
=============================================================================
