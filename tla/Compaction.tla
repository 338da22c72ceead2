----------------------------- MODULE Compaction -----------------------------
(* What becomes of a sequence whose entries of some kind are taken out, and *)
(* the others moved together: a table of descriptors, the tokens of a line. *)
EXTENDS Integers, SequencesExt

\* The sequence s without its entries in X.
Without(s, X) ==
    FoldLeft(LAMBDA kept, e : IF e \in X THEN kept ELSE Append(kept, e), <<>>, s)
=============================================================================
