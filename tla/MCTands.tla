------------------------------ MODULE MCTands ------------------------------
(* Instances of Tands for TLC. *)
EXTENDS Tands
CONSTANTS c1, c2, c3

\* What the loop of Trans computes for n = 1, for n = 3, and for a number
\* below 1, for which it does not run.
MCWork == {704982704, 5567360, 0}

\* The clamp's boundaries and numbers inside and outside them.
MCSleepArgs == {-5, 0, 1, 99, 100}
=============================================================================
