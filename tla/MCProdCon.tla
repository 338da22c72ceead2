----------------------------- MODULE MCProdCon -----------------------------
(* Instances of ProdCon for TLC. *)
EXTENDS ProdCon, SequencesExt
CONSTANTS main, c1, c2

\* As ints of 4 bits, 15 is -1.
MCLongs == {-1, 7, 15}
MCValues == {-1, 7}
T(k) == [type |-> "T", n |-> k]
S(k) == [type |-> "S", n |-> k]

\* Every input of at most three lines: an ordinary job, one that becomes the job
\* -1, a pause, and a job whose number is none.
ShortInputs == SeqOf({T(7), T(15), S(7), T(BadNumber)}, 3)

\* Fewer jobs than threads: consumers sleep.
FewJobs == {<<T(-1), S(7), T(7)>>}

\* With more jobs than the queue holds, so that the producer sleeps too.
FewOrMany == FewJobs \cup {<<T(7), T(7), T(7), T(7), T(7)>>}

Symmetry == Permutations(Consumers)
=============================================================================
