------------------------- MODULE MCConcurrentQueue -------------------------
(* Instances of ConcurrentQueue for TLC. *)
EXTENDS ConcurrentQueue
CONSTANTS p1, p2, c1, c2

\* A job that is also Pop's answer for "nothing", and an ordinary one.
MCValues == {-1, 7}
=============================================================================
