------------------------------- MODULE FdTable -------------------------------
(***************************************************************************)
(* The compaction of the server's descriptor table (server.cpp 217-229),   *)
(* statement by statement on the array itself, indices from 0.  PollServer *)
(* takes its result as one step, Compacted.                                *)
(***************************************************************************)
EXTENDS Integers, Sequences, Compaction

CONSTANTS Descriptors,       \* the descriptors a table may hold
          NoFd,              \* -1
          MAX_CONNECTIONS    \* size of the array

ASSUME TableAssumption == NoFd \notin Descriptors /\ MAX_CONNECTIONS \in Nat \ {0}

Entry == Descriptors \cup {NoFd}
Index == 0 .. MAX_CONNECTIONS - 1

VARIABLES fds, num_fds,
          i, j,       \* the loop variables
          pc,         \* the loop that runs
          before      \* the table when the compaction began

vars == <<fds, num_fds, i, j, pc, before>>

\* The first n entries of the array.
FirstEntries(n) == [k \in 1 .. n |-> fds[k - 1]]

\* Any table a round can leave; what lies beyond num_fds is left over from
\* earlier rounds.
Init == /\ fds \in [Index -> Entry]
        /\ num_fds \in 1 .. MAX_CONNECTIONS
        /\ i = 0 /\ j = 0
        /\ pc = "outer"
        /\ before = FirstEntries(num_fds)

\* The inner loop reads fds[num_fds].  If the table is full that lies past
\* the array, and may be anything.
Read(k) == IF k \in Index THEN {fds[k]} ELSE Entry

Keep == /\ pc = "outer" /\ i < num_fds
        /\ fds[i] # NoFd
        /\ i' = i + 1
        /\ UNCHANGED <<fds, num_fds, j, pc, before>>

Find == /\ pc = "outer" /\ i < num_fds
        /\ fds[i] = NoFd
        /\ j' = i
        /\ pc' = "inner"
        /\ UNCHANGED <<fds, num_fds, i, before>>

Shift == /\ pc = "inner" /\ j < num_fds
         /\ \E fd \in Read(j + 1) : fds' = [fds EXCEPT ![j] = fd]
         /\ j' = j + 1
         /\ UNCHANGED <<num_fds, i, pc, before>>

\* Faulty variant: without i--, the entry that took the place is skipped.
ShiftedSkipping ==
    /\ pc = "inner" /\ j >= num_fds
    /\ num_fds' = num_fds - 1
    /\ i' = i + 1
    /\ pc' = "outer"
    /\ UNCHANGED <<fds, j, before>>

\* Faulty variant: num_fds is not decremented.
ShiftedUncounted ==
    /\ pc = "inner" /\ j >= num_fds
    /\ pc' = "outer"
    /\ UNCHANGED <<fds, num_fds, i, j, before>>

\* i-- and the loop's i++ leave i at the entry that took the place.
Shifted == /\ pc = "inner" /\ j >= num_fds
           /\ num_fds' = num_fds - 1
           /\ pc' = "outer"
           /\ UNCHANGED <<fds, i, j, before>>

Finish == /\ pc = "outer" /\ i >= num_fds
          /\ pc' = "done"
          /\ UNCHANGED <<fds, num_fds, i, j, before>>

Next == Keep \/ Find \/ Shift \/ Shifted \/ Finish
Spec == Init /\ [][Next]_vars
FairSpec == Spec /\ WF_vars(Next)

-----------------------------------------------------------------------------
\* Every variable keeps its type; the loops write inside the array.
TypeOK ==
    /\ fds \in [Index -> Entry]
    /\ num_fds \in 0 .. MAX_CONNECTIONS
    /\ i \in 0 .. num_fds
    /\ j \in 0 .. MAX_CONNECTIONS
    /\ pc \in {"outer", "inner", "done"}
    /\ before \in Seq(Entry)

\* The table ends as the open descriptors in their order, each as often as it
\* was there, even when the array was full and the loop read past its end.
Compact == pc = "done" => FirstEntries(num_fds) = Without(before, {NoFd})

\* The loops end, although num_fds changes under them.
Ends == <>(pc = "done")
=============================================================================
