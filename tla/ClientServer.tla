---------------------------- MODULE ClientServer ----------------------------
(***************************************************************************)
(* Assignment3 as a whole: the server of PollServer and its clients        *)
(* (client.cpp, client/main.cpp).  A client connects, reads lines, sends   *)
(* each transaction and blocks until the reply, and may be killed at any   *)
(* moment.                                                                 *)
(***************************************************************************)
EXTENDS PollServer

CONSTANT Inputs    \* the inputs a client may be given

\* A line of a client's input: a request; a line with another first character,
\* which main takes for a pause; or one whose number stoll rejects.
Line == Request \cup [kind : {"pause"}, type : {"S", "D", "other"}] \cup [kind : {"bad"}]

\* The pauses that LogJob does not log.
Unlogged == [kind : {"pause"}, type : {"other"}]

\* What comes of the lines: the replies, and the summary.
Outcome == [kind : {"done", "sent"}, number : Nat]

\* An entry of a client's log: a line that is logged, or an outcome.  In the
\* file a line that starts with D looks like a reply.
LogEntry == Request \cup [kind : {"pause"}, type : {"S", "D"}] \cup Outcome

ASSUME InputsAssumption == Inputs # {} /\ Inputs \subseteq Seq(Line)

VARIABLES cpc,                 \* where each client is
          input, next,         \* its lines, and the index of the next one
          transaction_count,   \* its count of transactions sent
          log                  \* its log file

cvars == <<cpc, input, next, transaction_count, log>>
vars == <<svars, cvars>>

Init == /\ SInit
        /\ cpc = [c \in Clients |-> "connect"]
        /\ input \in [Clients -> Inputs]
        /\ next = [c \in Clients |-> 1]
        /\ transaction_count = [c \in Clients |-> 0]
        /\ log = [c \in Clients |-> <<>>]

server == <<spc, table, stats, faults>>

\* Faulty variant: the file is opened without app, which empties it.
LogAnew(c, entry) == log' = [log EXCEPT ![c] = <<entry>>]

\* One more line at the end of the file.
Log(c, entry) == log' = [log EXCEPT ![c] = Append(@, entry)]

\* job[0], of a line, of a reply, or of the text left when there is no reply.
FirstCharacter(job) == CASE job.kind = "pause" -> job.type
                         [] job.kind = "done"  -> "D"
                         [] job.kind = "none"  -> "other"
                         [] OTHER              -> "T"

\* A text with another first character is not logged.
LogJob(c, job) ==
    IF FirstCharacter(job) \in {"T", "D", "S"} THEN Log(c, job) ELSE UNCHANGED log

\* Where the replies stand in c's log.
Replies(c) == {k \in DOMAIN log[c] : log[c][k].kind = "done"}

Goto(c, l) == cpc' = [cpc EXCEPT ![c] = l]
HasLine(c) == next[c] <= Len(input[c])
LineOf(c) == input[c][next[c]]

\* The client's socket is closed, by its destructor or by the kernel.
Hang(c, l) == /\ Goto(c, l)
              /\ up' = [up EXCEPT ![c] = Closing(down[c], @)]
              /\ UNCHANGED <<phase, down>>

\* main returns, and the destructor logs the summary.
Return(c, l) == /\ Hang(c, l)
                /\ Log(c, [kind |-> "sent", number |-> transaction_count'[c]])

-----------------------------------------------------------------------------
Connect(c) ==
    /\ cpc[c] = "connect" /\ Listening
    /\ phase' = [phase EXCEPT ![c] = "backlog"]
    /\ Goto(c, "read")
    /\ UNCHANGED <<server, up, down, input, next, transaction_count, log>>

ConnectFails(c) ==
    /\ cpc[c] = "connect" /\ ~Listening
    /\ Goto(c, "failed")
    /\ Log(c, [kind |-> "sent", number |-> 0])
    /\ UNCHANGED <<svars, input, next, transaction_count>>

\* The next line is a transaction: Send counts it before it is sent.
Transaction(c) ==
    /\ cpc[c] = "read" /\ HasLine(c) /\ LineOf(c) \in Request
    /\ next' = [next EXCEPT ![c] = @ + 1]
    /\ transaction_count' = [transaction_count EXCEPT ![c] = @ + 1]

\* Faulty variant: Send does not wait for the reply.
SendWithoutWaiting(c) ==
    /\ Transaction(c)
    /\ ~PeerClosed(down[c])
    /\ up' = [up EXCEPT ![c].data = Append(@, LineOf(c))]
    /\ LogJob(c, LineOf(c))
    /\ UNCHANGED <<server, phase, down, cpc, input>>

Send(c) ==
    /\ Transaction(c)
    /\ ~PeerClosed(down[c])
    /\ up' = [up EXCEPT ![c].data = Append(@, LineOf(c))]
    /\ LogJob(c, LineOf(c))
    /\ Goto(c, "recv")
    /\ UNCHANGED <<server, phase, down, input>>

\* send() succeeds although the server has closed; the answer is a reset.
SendTooLate(c) ==
    /\ Transaction(c)
    /\ down[c].fin /\ ~down[c].rst
    /\ down' = [down EXCEPT ![c].rst = TRUE]
    /\ LogJob(c, LineOf(c))
    /\ Goto(c, "recv")
    /\ UNCHANGED <<server, phase, up, input>>

\* send() fails, or SIGPIPE ends the client.
SendFails(c) ==
    /\ Transaction(c)
    /\ down[c].rst
    /\ Return(c, "failed") \/ (Hang(c, "failed") /\ UNCHANGED log)
    /\ UNCHANGED <<server, input>>

ReceiveReply(c) ==
    /\ cpc[c] = "recv"
    /\ down[c].data # <<>>
    /\ down' = [down EXCEPT ![c].data = <<>>]
    /\ LogJob(c, [kind |-> "done", number |-> Head(down[c].data)])
    /\ Goto(c, "read")
    /\ UNCHANGED <<server, phase, up, input, next, transaction_count>>

\* recv() returns 0, which is no error for Send, and leaves the text empty.
ReceiveNothing(c) ==
    /\ cpc[c] = "recv"
    /\ down[c].data = <<>> /\ down[c].fin
    /\ LogJob(c, [kind |-> "none"])
    /\ Goto(c, "read")
    /\ UNCHANGED <<svars, input, next, transaction_count>>

ReceiveFails(c) ==
    /\ cpc[c] = "recv"
    /\ down[c].data = <<>> /\ down[c].rst /\ ~down[c].fin
    /\ UNCHANGED <<server, input, next, transaction_count>>
    /\ Return(c, "failed")

\* Any other line: main logs it and sleeps.
SleepLine(c) ==
    /\ cpc[c] = "read" /\ HasLine(c) /\ LineOf(c).kind = "pause"
    /\ next' = [next EXCEPT ![c] = @ + 1]
    /\ LogJob(c, LineOf(c))
    /\ UNCHANGED <<svars, cpc, input, transaction_count>>

\* stoll throws, and nothing catches it.
BadLine(c) ==
    /\ cpc[c] = "read" /\ HasLine(c) /\ LineOf(c).kind = "bad"
    /\ Hang(c, "failed")
    /\ UNCHANGED <<server, input, next, transaction_count, log>>

EndOfInput(c) ==
    /\ cpc[c] = "read" /\ ~HasLine(c)
    /\ UNCHANGED <<server, input, next, transaction_count>>
    /\ Return(c, "done")

Kill(c) ==
    /\ cpc[c] \in {"read", "recv"}
    /\ Hang(c, "killed")
    /\ UNCHANGED <<server, input, next, transaction_count, log>>

ClientStep(c) ==
    \/ Connect(c) \/ ConnectFails(c)
    \/ Send(c) \/ SendTooLate(c) \/ SendFails(c)
    \/ ReceiveReply(c) \/ ReceiveNothing(c) \/ ReceiveFails(c)
    \/ SleepLine(c) \/ BadLine(c) \/ EndOfInput(c)

Next == \/ (ServerStep \/ ServerFault) /\ UNCHANGED cvars
        \/ \E c \in Clients : ClientStep(c) \/ Kill(c)

Spec == Init /\ [][Next]_vars

\* The scheduler runs the server and every client that can run; system calls
\* need not fail and clients need not be killed.
FairSpec == /\ Spec
            /\ WF_vars(ServerStep /\ UNCHANGED cvars)
            /\ \A c \in Clients : WF_vars(ClientStep(c))

-----------------------------------------------------------------------------
\* Every variable keeps its type.
TypeOK ==
    /\ STypeOK
    /\ cpc \in [Clients -> {"connect", "read", "recv", "done", "failed", "killed"}]
    /\ input \in [Clients -> Inputs]
    /\ \A c \in Clients : next[c] \in 1 .. Len(input[c]) + 1
    /\ transaction_count \in [Clients -> Nat]
    /\ log \in [Clients -> Seq(LogEntry)]

\* The client runs, and nothing has told it that the server closed.
Connected(c) == cpc[c] \in {"read", "recv"} /\ ~PeerClosed(down[c])

InWork(c) == IF spc = "work" /\ fds[idx] = c THEN 1 ELSE 0
Outstanding(c) == Len(up[c].data) + InWork(c) + Len(down[c].data)

\* Client c waits for the reply to a proper job.
Waiting(c) == cpc[c] = "recv" /\ IsJob(input[c][next[c] - 1])

\* A transaction is never lost, doubled or run together with another one on
\* its way: a client that waits for a job has it in the server's socket, in
\* the server's hands, or answered; one that does not wait has nothing there;
\* a negative job is in the socket or was dropped (server.cpp 155-207,
\* client.cpp 45-53).
OneRequest ==
    \A c \in Clients : Connected(c) =>
        /\ Waiting(c) => Outstanding(c) = 1
        /\ cpc[c] = "read" => Outstanding(c) = 0
        /\ Outstanding(c) <= 1

\* Each machine is credited with the jobs whose reply its client got or will
\* get, as long as no name was garbled, and the names together with all of
\* them (server.cpp 190-201, 263-270).
CreditedToSender ==
    /\ SumFunctionOnSet(transaction_numbers, Machines) = job_count
    /\ transaction_numbers[Garbled] = 0 =>
          \A c \in Clients : cpc[c] \in {"read", "recv"} =>
              transaction_numbers[c] = Cardinality(Replies(c)) + Len(down[c].data)

\* A client that goes on after Send has its reply, unless the server has
\* closed the connection (client.cpp 53-57).
RepliedUnlessClosed ==
    \A c \in Clients :
        cpc[c] = "read" /\ ~PeerClosed(down[c]) => Cardinality(Replies(c)) = transaction_count[c]

\* The jobs done have one number each: the numbers in a client's log increase,
\* and no two clients have one in common (server.cpp 195-201, client.cpp 57,
\* 91-95).
RepliesNumbered ==
    \A c \in Clients : \A k \in Replies(c) :
        /\ log[c][k].number \in 1 .. job_count
        /\ \A j \in Replies(c) : j < k => log[c][j].number < log[c][k].number
        /\ \A d \in Clients \ {c} : \A j \in Replies(d) :
              log[d][j].number # log[c][k].number

\* The log tells what the client did: without the replies and the summary it is
\* the input read so far without the pauses that are not logged, and without a
\* transaction whose send failed; a reply stands right after its job; after a
\* transaction without one that the client has stopped waiting for there is no
\* other; and the summary of a client that reached the end of its input counts
\* the transactions above it (client.cpp 29-60, 80-102, main.cpp 31-43,
\* logger.cpp 20-50).
LogFollowsInput ==
    \A c \in Clients :
        LET Tells(n) == Without(log[c], Outcome) = Without(SubSeq(input[c], 1, n), Unlogged)
            Sends == {k \in DOMAIN log[c] : log[c][k] \in Request}
            Missed(k) == k \in Sends /\ k < Len(log[c]) /\ k + 1 \notin Replies(c)
        IN  /\ \/ Tells(next[c] - 1)
               \/ cpc[c] = "failed" /\ input[c][next[c] - 1] \in Request /\ Tells(next[c] - 2)
            /\ \A k \in Replies(c) : k - 1 \in Sends /\ \A j \in 1 .. k - 1 : ~Missed(j)
            /\ \A k \in DOMAIN log[c] : log[c][k].kind = "sent" =>
                  /\ k = Len(log[c])
                  /\ \/ log[c][k].number = Cardinality(Sends)
                     \/ cpc[c] = "failed" /\ log[c][k].number = Cardinality(Sends) + 1

\* The 30 s without an event that end the server pass only while no client
\* waits for a job: the timeout never beats a request (server.cpp 104-107).
TimeoutOnlyWhenQuiet ==
    [][PollTimesOut => \A c \in Clients : Waiting(c) => down[c].data # <<>>]_vars

\* A job sent before the server leaves its loop is answered, unless its client
\* is killed first, a spaced number aborts the server or a system call fails,
\* whatever the other connections do in the meantime (server.cpp 96-233).
Answered ==
    \A c \in Clients :
        (Waiting(c) /\ spc \notin {"cleanup", "done", "aborted"})
            ~> (\/ Cardinality(Replies(c)) = transaction_count[c]
                \/ cpc[c] = "killed" \/ spc = "aborted" \/ faults > 0)

\* Once the inputs are exhausted the server times out and both sides end,
\* also the clients whose negative job was never answered (server.cpp 104-107,
\* 179-181, 272-281).
AllEnd == <>(~Listening /\ \A c \in Clients : cpc[c] \in {"done", "failed", "killed"})

-----------------------------------------------------------------------------
\* What the clients see of the server: a job service that numbers its answers.
req == [c \in Clients |->
          IF up[c].data # <<>> \/ (spc = "work" /\ fds[idx] = c) THEN [state |-> "pending"]
          ELSE IF down[c].data # <<>>
               THEN [state |-> "answered", number |-> Head(down[c].data)]
          ELSE IF cpc[c] = "recv" THEN [state |-> "lost"] ELSE [state |-> "none"]]

Service == INSTANCE JobService WITH count <- job_count

\* Whatever fails, every request is answered at most once, with the number of
\* the job it was, and every job done was one client's request (server.cpp
\* 155-207, client.cpp 41-60).
ImplementsJobService == Service!Spec

\* "Receive a reply from the server" (client.cpp 51): Send goes on only with
\* the reply to its transaction.
EveryReplyReceived ==
    \A c \in Clients : cpc[c] = "read" => Cardinality(Replies(c)) = transaction_count[c]

\* "Updates stats on each client" (server.cpp 261): every transaction is
\* credited to a client.
StatsPerClient == transaction_numbers[Garbled] = 0
=============================================================================
