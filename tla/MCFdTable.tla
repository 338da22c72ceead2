----------------------------- MODULE MCFdTable -----------------------------
(* Instances of FdTable for TLC. *)
EXTENDS FdTable
CONSTANTS d1, d2
=============================================================================
