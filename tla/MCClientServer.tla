--------------------------- MODULE MCClientServer ---------------------------
(* Instances of ClientServer for TLC. *)
EXTENDS ClientServer
CONSTANTS c1, c2

T(k, digits) == [kind |-> "job", n |-> k, len |-> digits + 1]
Tailed == [kind |-> "tailed", n |-> 1, len |-> 4]
Spaced == [kind |-> "spaced", n |-> 1, len |-> 3]
Pause(first) == [kind |-> "pause", type |-> first]
Bad == [kind |-> "bad"]

\* Two jobs; a pause, and a number that becomes -1 in an int of 4 bits and is
\* never answered; a line that is logged like a reply, and a number that aborts
\* the server; a job with another word after it, a line that is not logged, and
\* one no number can be read from.
MCInputs == {<<T(1, 1), T(0, 2)>>,
             <<Pause("S"), T(15, 2)>>,
             <<Pause("D"), Spaced>>,
             <<Tailed, Pause("other"), Bad>>}

\* Lines with nothing but a letter and a number.
MCPlainInputs == {<<T(1, 1), T(0, 2)>>, <<Pause("S"), T(15, 2)>>}
=============================================================================
