----------------------------- MODULE PollServer -----------------------------
(***************************************************************************)
(* Assignment3's class Server (server.cpp): one thread that polls its      *)
(* listening socket and its connections, takes at most one request of each *)
(* ready connection per round, answers it, and compacts its table of       *)
(* descriptors.  An action is the code between two system calls; Trans     *)
(* runs while spc = "work".                                                *)
(*                                                                         *)
(* A connection is named by its client, which connects once.  The          *)
(* connection is two streams: up[c] from the client to the server, down[c] *)
(* back.  A stream holds the messages not yet received and says whether    *)
(* its reader has been told that the writer closed (fin) or that the       *)
(* connection was reset (rst).                                             *)
(***************************************************************************)
EXTENDS Integers, Sequences, FiniteSets, Compaction

CONSTANTS Clients,
          Listener,          \* server_fd
          NoFd,              \* -1
          Garbled,           \* any machine name no client has
          MAX_CONNECTIONS,   \* size of the array fds
          IntBits,           \* width of an int
          MaxFaults          \* bound on failing system calls in a behaviour

ASSUME ServerAssumption ==
    /\ IsFiniteSet(Clients)
    /\ Listener # NoFd /\ {Listener, NoFd} \cap Clients = {}
    /\ Garbled \notin Clients
    /\ MAX_CONNECTIONS \in Nat /\ Cardinality(Clients) < MAX_CONNECTIONS
    /\ IntBits \in Nat \ {0} /\ MaxFaults \in Nat

\* A request "T<n> <title>", one with more words before the title, or one with
\* a space before the number, and the length of what precedes the title.  All
\* titles have the same length.
Request == [kind : {"job", "tailed", "spaced"}, n : Int, len : Nat]

\* stoll reads the number as a long, and the pair returned holds an int.
parse_job(n) ==
    LET half == 2 ^ (IntBits - 1) IN ((n + half) % (2 * half)) - half

\* The request is read as a job that the server does.
IsJob(r) == r.kind # "spaced" /\ parse_job(r.n) >= 0

VARIABLES spc,             \* where Run is
          fds,             \* the first num_fds entries of the array fds
          revents,         \* what the round's poll reported for each of them
          idx,             \* i, counted from 1
          run_server, compress_array,
          machine,         \* the name read with the request being worked on
          stale,           \* length of the old message left in buffer
          job_count, transaction_numbers,
          faults,          \* failed system calls so far
          phase, up, down  \* the connections

table == <<fds, revents, idx, run_server, compress_array>>
stats == <<machine, stale, job_count, transaction_numbers>>
conns == <<phase, up, down>>
svars == <<spc, table, stats, faults, conns>>

Machines == Clients \cup {Garbled}
Stream(S) == [data : Seq(S), fin : BOOLEAN, rst : BOOLEAN]
Quiet == [data |-> <<>>, fin |-> FALSE, rst |-> FALSE]

SInit == /\ spc = "setup"
         /\ fds = <<>>
         /\ revents = <<>>
         /\ idx = 1
         /\ run_server = TRUE
         /\ compress_array = FALSE
         /\ machine = Garbled
         /\ stale = 0
         /\ job_count = 0
         /\ transaction_numbers = [m \in Machines |-> 0]
         /\ faults = 0
         /\ phase = [c \in Clients |-> "none"]
         /\ up = [c \in Clients |-> Quiet]
         /\ down = [c \in Clients |-> Quiet]

-----------------------------------------------------------------------------
(* The connections (TCP, as the two programs see it).                      *)

\* One end closes its socket: the other end, which reads `out', is told so,
\* with a reset if the closing end leaves messages unread in `in'.
Closing(in, out) ==
    IF in.data = <<>> THEN [out EXCEPT !.fin = TRUE] ELSE [out EXCEPT !.rst = TRUE]

\* The peer that wrote `in' has closed its end.
PeerClosed(in) == in.fin \/ in.rst

Backlog == {c \in Clients : phase[c] = "backlog"}
Readable(c) == up[c].data # <<>> \/ PeerClosed(up[c])

\* The server's close of connection c.
CloseConnection(c) ==
    /\ phase' = [phase EXCEPT ![c] = "closed"]
    /\ down' = [down EXCEPT ![c] = Closing(up[c], @)]
    /\ UNCHANGED up

\* Every socket of the server is closed, by Cleanup or by its exit, when u is
\* what it has not received; closing the listener resets the connections it
\* has not accepted.
CloseAll(u) ==
    /\ phase' = [c \in Clients |-> IF phase[c] = "none" THEN "none" ELSE "closed"]
    /\ down' = [c \in Clients |->
                  CASE phase[c] = "open" -> Closing(u[c], down[c])
                    [] phase[c] = "backlog" -> [down[c] EXCEPT !.rst = TRUE]
                    [] OTHER -> down[c]]

Fault == faults < MaxFaults /\ faults' = faults + 1

-----------------------------------------------------------------------------
(* Setup: the socket is created, bound and listened to, and becomes the    *)
(* first entry of the table.                                               *)
Setup ==
    /\ spc = "setup"
    /\ fds' = <<Listener>>
    /\ spc' = "poll"
    /\ UNCHANGED <<revents, idx, run_server, compress_array, stats, faults, conns>>

\* One of its calls fails: the socket is closed and main returns.
SetupFails ==
    /\ spc = "setup"
    /\ Fault
    /\ spc' = "done"
    /\ UNCHANGED <<table, stats, conns>>

-----------------------------------------------------------------------------
(* The round's poll.                                                       *)

SomethingReady ==
    \E k \in DOMAIN fds : IF fds[k] = Listener THEN Backlog # {} ELSE Readable(fds[k])

\* What poll may report of a descriptor, as far as Run looks at it: exactly
\* POLLHUP or exactly POLLERR are possible once the connection is reset.
MayReport(fd) == IF fd \in Clients /\ up[fd].rst THEN {"other", "hup", "err"}
                 ELSE {"other"}

Poll ==
    /\ spc = "poll"
    /\ SomethingReady
    /\ \E r \in [DOMAIN fds -> {"other", "hup", "err"}] :
          /\ \A k \in DOMAIN fds : r[k] \in MayReport(fds[k])
          /\ IF \E k \in DOMAIN fds : r[k] = "err" THEN Fault ELSE UNCHANGED faults
          /\ revents' = r
    /\ idx' = 1
    /\ spc' = "scan"
    /\ UNCHANGED <<fds, run_server, compress_array, stats, conns>>

PollTimesOut ==
    /\ spc = "poll"
    /\ ~SomethingReady
    /\ spc' = "cleanup"
    /\ UNCHANGED <<table, stats, faults, conns>>

PollFails ==
    /\ spc = "poll"
    /\ Fault
    /\ spc' = "cleanup"
    /\ UNCHANGED <<table, stats, conns>>

-----------------------------------------------------------------------------
(* The scan over the descriptors the poll reported on.                     *)

\* Faulty variant: the last descriptor is never looked at.
AllButLast == Len(revents) - 1

current_size == Len(revents)

AtEntry(r) == spc = "scan" /\ idx <= current_size /\ revents[idx] = r
AtClient(c) == AtEntry("other") /\ fds[idx] = c
Continue == idx' = idx + 1

\* POLLERR or POLLNVAL: the loop is left and the server stops.
ScanError ==
    /\ AtEntry("err")
    /\ run_server' = FALSE
    /\ idx' = current_size + 1
    /\ UNCHANGED <<spc, fds, revents, compress_array, stats, faults, conns>>

\* Faulty variant: the entry is removed while the scan still runs.
DropAtOnce(c) ==
    /\ CloseConnection(c)
    /\ fds' = SubSeq(fds, 1, idx - 1) \o SubSeq(fds, idx + 1, Len(fds))
    /\ Continue
    /\ UNCHANGED <<spc, revents, run_server, compress_array, stats, faults>>

\* The connection is closed, and its entry waits for the compaction.
Drop(c) == /\ CloseConnection(c)
           /\ fds' = [fds EXCEPT ![idx] = NoFd]
           /\ compress_array' = TRUE
           /\ Continue
           /\ UNCHANGED <<spc, revents, run_server, stats, faults>>

ScanHup(c) == AtEntry("hup") /\ fds[idx] = c /\ Drop(c)

ScanListener ==
    /\ AtEntry("other") /\ fds[idx] = Listener
    /\ spc' = "accept"
    /\ UNCHANGED <<table, stats, faults, conns>>

\* Nothing compares num_fds with MAX_CONNECTIONS: with as many clients the
\* entry is written past the array, which ServerAssumption excludes.
Accept(c) ==
    /\ spc = "accept" /\ c \in Backlog
    /\ phase' = [phase EXCEPT ![c] = "open"]
    /\ fds' = Append(fds, c)
    /\ UNCHANGED <<spc, revents, idx, run_server, compress_array, stats, faults,
                   up, down>>

\* EWOULDBLOCK.
AcceptDone ==
    /\ spc = "accept" /\ Backlog = {}
    /\ spc' = "scan"
    /\ Continue
    /\ UNCHANGED <<fds, revents, run_server, compress_array, stats, faults, conns>>

AcceptFails ==
    /\ spc = "accept"
    /\ Fault
    /\ run_server' = FALSE
    /\ spc' = "scan"
    /\ Continue
    /\ UNCHANGED <<fds, revents, compress_array, stats, conns>>

\* The second poll of this descriptor alone times out, or fails.
ScanIdle(c) ==
    /\ AtClient(c)
    /\ ~Readable(c)
    /\ Continue
    /\ UNCHANGED <<spc, fds, revents, run_server, compress_array, stats, faults, conns>>

ScanPollFails(c) ==
    /\ AtClient(c)
    /\ Fault
    /\ spc' = "cleanup"
    /\ UNCHANGED <<table, stats, conns>>

\* recv returns 0 or fails.
ScanClosed(c) ==
    /\ AtClient(c)
    /\ up[c].data = <<>> /\ PeerClosed(up[c])
    /\ Drop(c)

\* recv takes all that was sent, and the first request of it is read.
Receive(c) ==
    /\ AtClient(c)
    /\ up[c].data # <<>>
    /\ up' = [up EXCEPT ![c].data = <<>>]

\* All that follows the number is taken for the machine's name: more words of
\* the line, and the tail of an earlier message left in buffer, when it was
\* longer than this one.
MachineOf(c) ==
    LET r == Head(up[c].data)
    IN  IF r.kind = "tailed" \/ stale > r.len THEN Garbled ELSE c

ScanJob(c) ==
    /\ Receive(c) /\ IsJob(Head(up[c].data))
    /\ machine' = MachineOf(c)
    /\ spc' = "work"
    /\ UNCHANGED <<table, stale, job_count, transaction_numbers, faults, phase, down>>

\* continue: no reply, and buffer is not cleared.
ScanNegative(c) ==
    /\ Receive(c)
    /\ Head(up[c].data).kind # "spaced" /\ ~IsJob(Head(up[c].data))
    /\ stale' = IF stale > Head(up[c].data).len THEN stale ELSE Head(up[c].data).len
    /\ Continue
    /\ UNCHANGED <<spc, fds, revents, run_server, compress_array, machine, job_count,
                   transaction_numbers, faults, phase, down>>

\* find(' ') stops right after the T: stoll throws and the server is aborted.
ScanSpaced(c) ==
    /\ Receive(c) /\ Head(up[c].data).kind = "spaced"
    /\ spc' = "aborted"
    /\ CloseAll(up')
    /\ UNCHANGED <<table, stats, faults>>

-----------------------------------------------------------------------------
(* The end of a job, of a round, and of the server.                        *)

UpdateStats == transaction_numbers' = [transaction_numbers EXCEPT ![machine] = @ + 1]

\* send(): a peer that closed its end answers with a reset.
SendNumber(c, k) ==
    IF PeerClosed(up[c])
    THEN up' = [up EXCEPT ![c].rst = TRUE] /\ UNCHANGED down
    ELSE down' = [down EXCEPT ![c].data = Append(@, k)] /\ UNCHANGED up

\* Faulty variant: a job is numbered among those of its machine.
ReplyPerMachine(c) == SendNumber(c, transaction_numbers[machine] + 1)

\* "D<k>": the job's number among all.
Reply(c) == SendNumber(c, job_count + 1)

\* Faulty variant: the job is done but the reply is forgotten.
FinishUnanswered ==
    /\ spc = "work"
    /\ UpdateStats
    /\ job_count' = job_count + 1
    /\ stale' = 0
    /\ spc' = "scan"
    /\ Continue
    /\ UNCHANGED <<fds, revents, run_server, compress_array, machine, faults, conns>>

Finish ==
    /\ spc = "work"
    /\ UpdateStats
    /\ job_count' = job_count + 1
    /\ Reply(fds[idx])
    /\ stale' = 0
    /\ spc' = "scan"
    /\ Continue
    /\ UNCHANGED <<fds, revents, run_server, compress_array, machine, faults, phase>>

\* Faulty variant of the compaction: the connections accepted in this round
\* are forgotten.
CompactedShort == Without(SubSeq(fds, 1, current_size), {NoFd})

\* The entries that are not -1, moved to the front in their order.
Compacted == Without(fds, {NoFd})

EndScan ==
    /\ spc = "scan" /\ idx > current_size
    /\ fds' = IF compress_array THEN Compacted ELSE fds
    /\ compress_array' = FALSE
    /\ revents' = <<>>
    /\ idx' = 1
    /\ spc' = IF run_server THEN "poll" ELSE "cleanup"
    /\ UNCHANGED <<run_server, stats, faults, conns>>

Cleanup ==
    /\ spc = "cleanup"
    /\ CloseAll(up)
    /\ spc' = "done"
    /\ UNCHANGED <<table, stats, faults, up>>

ServerStep ==
    \/ Setup \/ Poll \/ PollTimesOut
    \/ ScanError \/ ScanListener \/ AcceptDone
    \/ \E c \in Clients : \/ ScanHup(c) \/ Accept(c) \/ ScanIdle(c) \/ ScanClosed(c)
                          \/ ScanJob(c) \/ ScanNegative(c) \/ ScanSpaced(c)
    \/ Finish \/ EndScan \/ Cleanup

ServerFault ==
    SetupFails \/ PollFails \/ AcceptFails \/ \E c \in Clients : ScanPollFails(c)

-----------------------------------------------------------------------------
Listening == spc \notin {"setup", "done", "aborted"}

\* Every variable keeps its type, and the scan stays inside the table.
STypeOK ==
    /\ spc \in {"setup", "poll", "scan", "accept", "work", "cleanup", "done", "aborted"}
    /\ fds \in Seq(Clients \cup {Listener, NoFd}) /\ Len(fds) <= MAX_CONNECTIONS
    /\ revents \in Seq({"other", "hup", "err"})
    /\ current_size <= Len(fds)
    /\ idx \in 1 .. current_size + 1
    /\ run_server \in BOOLEAN /\ compress_array \in BOOLEAN
    /\ machine \in Machines
    /\ stale \in Nat
    /\ job_count \in Nat
    /\ transaction_numbers \in [Machines -> Nat]
    /\ faults \in 0 .. MaxFaults
    /\ phase \in [Clients -> {"none", "backlog", "open", "closed"}]
    /\ up \in [Clients -> Stream(Request)]
    /\ down \in [Clients -> Stream(Nat)]

\* The table and the open connections agree: every connection accepted and
\* not closed has exactly one entry, no other entry is left, the listener
\* stays first, and -1 entries last only to the end of the round that made
\* them, which knows that it has to compact (server.cpp 117-121, 137-139,
\* 208-229).
TableExact ==
    LET Slots(f) == {k \in DOMAIN fds : fds[k] = f} IN
    Listening =>
        /\ \A c \in Clients : Cardinality(Slots(c)) = IF phase[c] = "open" THEN 1 ELSE 0
        /\ Slots(Listener) = {1}
        /\ (Slots(NoFd) # {}) = compress_array
        /\ spc = "poll" => ~compress_array

\* The server handles no connection that was reset: it never sends into one,
\* which would end it with SIGPIPE, however its clients die (server.cpp 201).
NoSendAfterReset == spc = "work" => fds[idx] \in Clients /\ ~up[fds[idx]].rst
=============================================================================
