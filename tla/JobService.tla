----------------------------- MODULE JobService -----------------------------
(***************************************************************************)
(* What Assignment3's server promises its clients: a client has at most    *)
(* one request at a time; a request is done at most once, gets the number  *)
(* of the job it was, and is answered to the client that made it, unless   *)
(* it is lost, because the server refuses it or has ended.                 *)
(***************************************************************************)
EXTENDS Naturals

CONSTANT Clients

VARIABLES req,    \* the state of each client's request
          count   \* jobs done

States == [state : {"none", "pending", "lost"}] \cup [state : {"answered"}, number : Nat]

Move(c, from, to) == req[c].state = from /\ req' = [req EXCEPT ![c] = to]
None == [state |-> "none"]
Lost == [state |-> "lost"]

Init == req = [c \in Clients |-> None] /\ count = 0

Submit(c) == Move(c, "none", [state |-> "pending"]) /\ UNCHANGED count

\* The job is done, and answered if the client is still there.
Do(c) == /\ count' = count + 1
         /\ \/ Move(c, "pending", [state |-> "answered", number |-> count + 1])
            \/ Move(c, "pending", None)

\* A request that the server does not do, or that finds it gone.
Refuse(c) == /\ Move(c, "pending", Lost) \/ Move(c, "pending", None) \/ Move(c, "none", Lost)
             /\ UNCHANGED count

\* The client takes its answer, or no longer waits for one.
Collect(c) == Move(c, "answered", None) /\ UNCHANGED count
GiveUp(c) == Move(c, "lost", None) /\ UNCHANGED count

Next == \E c \in Clients : Submit(c) \/ Do(c) \/ Refuse(c) \/ Collect(c) \/ GiveUp(c)

Spec == Init /\ [][Next]_<<req, count>>
=============================================================================
