---------------------------- MODULE BoundedQueue ----------------------------
(***************************************************************************)
(* What Assignment2's ConcurrentQueue promises its callers, with no locks  *)
(* and no condition variables: a first-in first-out buffer of at most      *)
(* Capacity jobs that takes effect at one instant per call.  A pop that    *)
(* finds nothing is answered NoJob, and only once the queue is closed.     *)
(***************************************************************************)
EXTENDS Integers, Sequences

CONSTANTS Callers,    \* the threads that call the queue
          Values,     \* the jobs that may be pushed
          Capacity,   \* how many jobs the buffer holds
          NoJob       \* the answer of a pop that got nothing

VARIABLES buf,        \* the jobs in the buffer, oldest first
          closed,     \* no more jobs will come
          reply       \* the last answer given to each caller

vars == <<buf, closed, reply>>

Init == /\ buf = <<>>
        /\ closed = FALSE
        /\ reply = [t \in Callers |-> NoJob]

Answer(t, r) == reply' = [reply EXCEPT ![t] = r]

Put(v) == /\ Len(buf) < Capacity
          /\ buf' = Append(buf, v)
          /\ UNCHANGED <<closed, reply>>

Get(t) == /\ buf # <<>>
          /\ Answer(t, Head(buf))
          /\ buf' = Tail(buf)
          /\ UNCHANGED closed

GetNothing(t) == /\ buf = <<>>
                 /\ closed
                 /\ Answer(t, NoJob)
                 /\ UNCHANGED <<buf, closed>>

Count(t) == /\ Answer(t, Len(buf))
            /\ UNCHANGED <<buf, closed>>

Close == /\ closed' = TRUE
         /\ UNCHANGED <<buf, reply>>

Next == \/ \E v \in Values : Put(v)
        \/ \E t \in Callers : Get(t) \/ GetNothing(t) \/ Count(t)
        \/ Close

Spec == Init /\ [][Next]_vars
=============================================================================
