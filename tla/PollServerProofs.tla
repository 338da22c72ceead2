--------------------------- MODULE PollServerProofs ---------------------------
(***************************************************************************)
(* Proofs about the server's own steps, whatever its clients do between    *)
(* them: the types, the table of descriptors against the connections, and  *)
(* the place of the scan in the table.                                     *)
(***************************************************************************)
EXTENDS PollServer, DataLemmas

\* A connection that was accepted takes a slot of the table, which it may hold
\* until the round's end after it was closed: the table cannot outgrow the array.
Accepted == {c \in Clients : phase[c] \in {"open", "closed"}}
SizeBounded == Len(fds) <= 1 + Cardinality(Accepted)

\* The table, by position: the listener first and only there; every open
\* connection once, and no other; -1 entries only when the round will compact.
Table ==
    /\ fds # <<>> /\ fds[1] = Listener
    /\ \A k \in DOMAIN fds : k # 1 => fds[k] # Listener
    /\ \A k \in DOMAIN fds : fds[k] \in Clients => phase[fds[k]] = "open"
    /\ \A c \in Clients : phase[c] = "open" => \E k \in DOMAIN fds : fds[k] = c
    /\ \A j, k \in DOMAIN fds : fds[j] \in Clients /\ fds[j] = fds[k] => j = k
    /\ compress_array <=> \E k \in DOMAIN fds : fds[k] = NoFd

\* Where the server is in its round, and what it works on.
Place ==
    /\ spc = "setup" => ~compress_array /\ revents = <<>> /\ idx = 1
    /\ spc = "poll" => ~compress_array
    /\ spc = "accept" => idx <= current_size /\ fds[idx] = Listener
    /\ spc = "work" => /\ idx <= current_size /\ fds[idx] \in Clients
                       /\ machine \in {fds[idx], Garbled}
    /\ ~Listening => \A c \in Clients : phase[c] \in {"none", "closed"}

\* A POLLHUP that the scan has not come to is that of a connection reset.
Reports ==
    \A k \in DOMAIN revents :
        k >= idx /\ revents[k] = "hup" => fds[k] \in Clients /\ up[fds[k]].rst

\* The machines, the garbled one among them, are credited with all jobs.
Credit == SumFunctionOnSet(transaction_numbers, Machines) = job_count

\* The inductive invariant of the server.
SInv == STypeOK /\ SizeBounded /\ (Listening => Table) /\ Place /\ Reports /\ Credit

-----------------------------------------------------------------------------
(* The streams.                                                            *)

\* What closing an end does to the stream that the other end reads.
LEMMA ClosingFacts ==
    ASSUME NEW A, NEW B, NEW in \in Stream(A), NEW out \in Stream(B)
    PROVE  /\ Closing(in, out) \in Stream(B)
           /\ Closing(in, out).data = out.data
           /\ Closing(in, out).fin = (out.fin \/ in.data = <<>>)
           /\ Closing(in, out).rst = (out.rst \/ in.data # <<>>)
BY DEF Stream, Closing

\* What a stream has.
LEMMA StreamFields ==
    ASSUME NEW S, NEW s \in Stream(S)
    PROVE  s.data \in Seq(S) /\ s.fin \in BOOLEAN /\ s.rst \in BOOLEAN
BY DEF Stream

\* A stream that is reset, and one that gets other data.
LEMMA ResetFacts ==
    ASSUME NEW S, NEW s \in Stream(S)
    PROVE  \E t \in Stream(S) : /\ t = [s EXCEPT !.rst = TRUE]
                               /\ t.data = s.data /\ t.fin = s.fin /\ t.rst = TRUE
<1> DEFINE t == [s EXCEPT !.rst = TRUE]
<1>1. t \in Stream(S)
  BY DEF Stream
<1>2. t.data = s.data /\ t.fin = s.fin /\ t.rst = TRUE
  BY DEF Stream
<1> HIDE DEF t
<1>3. t = [s EXCEPT !.rst = TRUE]
  BY DEF t
<1> QED
  BY <1>1, <1>2, <1>3

LEMMA DataFacts ==
    ASSUME NEW S, NEW s \in Stream(S), NEW d \in Seq(S)
    PROVE  \E t \in Stream(S) : /\ t = [s EXCEPT !.data = d]
                               /\ t.data = d /\ t.fin = s.fin /\ t.rst = s.rst
<1> DEFINE t == [s EXCEPT !.data = d]
<1>1. t \in Stream(S)
  BY DEF Stream
<1>2. t.data = d /\ t.fin = s.fin /\ t.rst = s.rst
  BY DEF Stream
<1> HIDE DEF t
<1>3. t = [s EXCEPT !.data = d]
  BY DEF t
<1> QED
  BY <1>1, <1>2, <1>3

\* The server's close of one connection.
LEMMA CloseConnectionFacts ==
    ASSUME STypeOK, NEW c \in Clients, CloseConnection(c)
    PROVE  /\ phase' \in [Clients -> {"none", "backlog", "open", "closed"}]
           /\ down' \in [Clients -> Stream(Nat)]
           /\ up' = up
           /\ phase'[c] = "closed" /\ down'[c] = Closing(up[c], down[c])
           /\ \A d \in Clients \ {c} : phase'[d] = phase[d] /\ down'[d] = down[d]
<1>1. /\ up \in [Clients -> Stream(Request)] /\ down \in [Clients -> Stream(Nat)]
      /\ phase \in [Clients -> {"none", "backlog", "open", "closed"}]
  BY DEF STypeOK
<1>2. Closing(up[c], down[c]) \in Stream(Nat)
  BY <1>1, ClosingFacts
<1> QED
  BY <1>1, <1>2 DEF CloseConnection

\* The server's close of all its sockets.
LEMMA CloseAllFacts ==
    ASSUME STypeOK, NEW u \in [Clients -> Stream(Request)], CloseAll(u)
    PROVE  /\ phase' \in [Clients -> {"none", "closed"}]
           /\ down' \in [Clients -> Stream(Nat)]
           /\ \A c \in Clients :
                 /\ phase'[c] = IF phase[c] = "none" THEN "none" ELSE "closed"
                 /\ down'[c].data = down[c].data
                 /\ phase[c] = "open" => down'[c] = Closing(u[c], down[c])
                 /\ phase[c] = "backlog" => down'[c].rst /\ down'[c].fin = down[c].fin
                 /\ phase[c] \in {"none", "closed"} => down'[c] = down[c]
<1>1. /\ down \in [Clients -> Stream(Nat)]
      /\ phase \in [Clients -> {"none", "backlog", "open", "closed"}]
  BY DEF STypeOK
<1>2. ASSUME NEW c \in Clients
      PROVE  /\ down'[c] \in Stream(Nat)
             /\ down'[c].data = down[c].data
             /\ phase[c] = "open" => down'[c] = Closing(u[c], down[c])
             /\ phase[c] = "backlog" => down'[c].rst /\ down'[c].fin = down[c].fin
             /\ phase[c] \in {"none", "closed"} => down'[c] = down[c]
  <2>1. down[c] \in Stream(Nat) /\ u[c] \in Stream(Request)
    BY <1>1
  <2>2. PICK t \in Stream(Nat) : /\ t = [down[c] EXCEPT !.rst = TRUE]
                                 /\ t.data = down[c].data /\ t.fin = down[c].fin /\ t.rst = TRUE
    BY ONLY <2>1, ResetFacts
  <2>3. down'[c] = CASE phase[c] = "open" -> Closing(u[c], down[c])
                     [] phase[c] = "backlog" -> t
                     [] OTHER -> down[c]
    BY <2>2 DEF CloseAll
  <2>4. CASE phase[c] = "open"
    <3>1. down'[c] = Closing(u[c], down[c])
      BY ONLY <2>3, <2>4
    <3> QED
      BY ONLY <2>1, <2>4, <3>1, ClosingFacts
  <2>5. CASE phase[c] = "backlog"
    <3>1. down'[c] = t
      BY ONLY <2>3, <2>5
    <3> QED
      BY ONLY <2>2, <2>5, <3>1
  <2>6. CASE phase[c] \in {"none", "closed"}
    <3>1. down'[c] = down[c]
      BY ONLY <2>3, <2>6
    <3> QED
      BY ONLY <2>1, <2>6, <3>1
  <2> QED
    BY <1>1, <2>4, <2>5, <2>6
<1>3. down' \in [Clients -> Stream(Nat)]
  <2>1. down' = [c \in Clients |-> down'[c]]
    BY DEF CloseAll
  <2> QED
    BY <1>2, <2>1
<1>4. /\ phase' \in [Clients -> {"none", "closed"}]
      /\ \A c \in Clients : phase'[c] = IF phase[c] = "none" THEN "none" ELSE "closed"
  BY DEF CloseAll
<1> QED
  BY <1>2, <1>3, <1>4

\* What recv takes.
LEMMA ReceiveFacts ==
    ASSUME STypeOK, NEW c \in Clients, Receive(c)
    PROVE  /\ up' \in [Clients -> Stream(Request)]
           /\ up'[c].data = <<>> /\ up'[c].fin = up[c].fin /\ up'[c].rst = up[c].rst
           /\ \A d \in Clients \ {c} : up'[d] = up[d]
           /\ Len(up[c].data) \in Nat \ {0} /\ Head(up[c].data) = up[c].data[1]
           /\ up[c].data[1] \in Request
<1> DEFINE none == <<>>
<1>1. up \in [Clients -> Stream(Request)] /\ up[c] \in Stream(Request) /\ none \in Seq(Request)
  BY DEF STypeOK
<1>2. up' = [up EXCEPT ![c] = [up[c] EXCEPT !.data = none]] /\ none = <<>>
  BY DEF Receive
<1> HIDE DEF none
<1>3. PICK t \in Stream(Request) : /\ t = [up[c] EXCEPT !.data = none]
                                   /\ t.data = none /\ t.fin = up[c].fin /\ t.rst = up[c].rst
  BY ONLY <1>1, DataFacts
<1>4. up[c].data \in Seq(Request) /\ up[c].data # <<>>
  BY <1>1, StreamFields DEF Receive
<1>5. up' = [up EXCEPT ![c] = t]
  BY <1>2, <1>3
<1> QED
  BY ONLY <1>1, <1>2, <1>3, <1>4, <1>5

\* What the server's send does, on a connection that was not reset.
LEMMA SendNumberFacts ==
    ASSUME STypeOK, NEW c \in Clients, NEW k \in Nat, SendNumber(c, k)
    PROVE  /\ up' \in [Clients -> Stream(Request)] /\ down' \in [Clients -> Stream(Nat)]
           /\ \A d \in Clients \ {c} : up'[d] = up[d] /\ down'[d] = down[d]
           /\ up'[c].data = up[c].data /\ up'[c].fin = up[c].fin
           /\ down'[c].fin = down[c].fin /\ down'[c].rst = down[c].rst
           /\ PeerClosed(up[c]) => up'[c].rst /\ down' = down
           /\ ~PeerClosed(up[c]) => up' = up /\ down'[c].data = Append(down[c].data, k)
<1>1. /\ up \in [Clients -> Stream(Request)] /\ up[c] \in Stream(Request)
      /\ down \in [Clients -> Stream(Nat)] /\ down[c] \in Stream(Nat)
  BY DEF STypeOK
<1>2. CASE PeerClosed(up[c])
  <2>2. PICK t \in Stream(Request) : /\ t = [up[c] EXCEPT !.rst = TRUE]
                                     /\ t.data = up[c].data /\ t.fin = up[c].fin /\ t.rst = TRUE
    BY ONLY <1>1, ResetFacts
  <2>3. up' = [up EXCEPT ![c] = t] /\ down' = down
    BY <1>2, <2>2 DEF SendNumber
  <2> QED
    BY ONLY <1>1, <1>2, <2>2, <2>3
<1>3. CASE ~PeerClosed(up[c])
  <2> DEFINE d == Append(down[c].data, k)
  <2>1. d \in Seq(Nat)
    <3>1. down[c].data \in Seq(Nat)
      BY <1>1, StreamFields
    <3> QED
      BY <3>1
  <2>2. down' = [down EXCEPT ![c] = [down[c] EXCEPT !.data = d]] /\ up' = up
    BY <1>3 DEF SendNumber
  <2> HIDE DEF d
  <2>3. PICK t \in Stream(Nat) : /\ t = [down[c] EXCEPT !.data = d]
                                 /\ t.data = d
                                 /\ t.fin = down[c].fin /\ t.rst = down[c].rst
    BY ONLY <1>1, <2>1, DataFacts
  <2>4. down' = [down EXCEPT ![c] = t]
    BY <2>2, <2>3
  <2> QED
    BY ONLY <1>1, <1>3, <2>2, <2>3, <2>4 DEF d
<1> QED
  BY <1>2, <1>3

-----------------------------------------------------------------------------
(* What a step leaves alone.                                               *)

LEMMA AcceptedFinite ==
    ASSUME STypeOK
    PROVE  IsFiniteSet(Accepted) /\ Cardinality(Accepted) \in 0 .. Cardinality(Clients)
BY FS_Subset, FS_CardinalityType, ServerAssumption DEF Accepted

\* No step takes a client out of the accepted ones.
LEMMA SizeKept ==
    ASSUME STypeOK, SizeBounded, Len(fds') \in Nat, Len(fds') <= Len(fds),
           \A c \in Clients : phase[c] \in {"open", "closed"} => phase'[c] \in {"open", "closed"}
    PROVE  SizeBounded' /\ Len(fds') <= MAX_CONNECTIONS
<1>1. Accepted \subseteq Accepted' /\ IsFiniteSet(Accepted')
  BY FS_Subset, ServerAssumption DEF Accepted
<1>2. Cardinality(Accepted) <= Cardinality(Accepted')
  BY <1>1, FS_Subset
<1>3. Cardinality(Accepted) \in Nat /\ Cardinality(Accepted') \in Nat
  BY <1>1, AcceptedFinite, FS_CardinalityType
<1>4. Len(fds) \in Nat /\ Len(fds) <= MAX_CONNECTIONS /\ MAX_CONNECTIONS \in Nat
  BY ServerAssumption DEF STypeOK
<1> QED
  BY <1>2, <1>3, <1>4 DEF SizeBounded

\* A step that changes neither the table nor a phase.
LEMMA TableKept ==
    ASSUME STypeOK, SizeBounded, Listening => Table, Listening' => Listening,
           UNCHANGED <<fds, compress_array, phase>>
    PROVE  SizeBounded' /\ (Listening' => Table')
BY DEF SizeBounded, Accepted, Table

\* A step that does no job.
LEMMA CreditKept ==
    ASSUME Credit, UNCHANGED <<job_count, transaction_numbers>> PROVE Credit'
BY DEF Credit

-----------------------------------------------------------------------------
(* The steps of the server.                                                *)

LEMMA SInitSInv == SInit => SInv
<1> SUFFICES ASSUME SInit PROVE SInv
  OBVIOUS
<1>1. Quiet \in Stream(Request) /\ Quiet \in Stream(Nat)
  BY DEF Quiet, Stream
<1>2. STypeOK
  <2>1. /\ fds \in Seq(Clients \cup {Listener, NoFd}) /\ Len(fds) = 0
        /\ revents \in Seq({"other", "hup", "err"}) /\ current_size = 0
    BY DEF SInit, current_size
  <2>2. MAX_CONNECTIONS \in Nat /\ MaxFaults \in Nat
    BY ServerAssumption
  <2>3. up \in [Clients -> Stream(Request)] /\ down \in [Clients -> Stream(Nat)]
    BY <1>1 DEF SInit
  <2>4. Len(fds) <= MAX_CONNECTIONS /\ current_size <= Len(fds)
    BY <2>1, <2>2
  <2>5. idx \in 1 .. current_size + 1 /\ faults \in 0 .. MaxFaults
    BY <2>1, <2>2 DEF SInit
  <2>6. run_server \in BOOLEAN /\ compress_array \in BOOLEAN
    BY DEF SInit
  <2>7. /\ machine \in Machines /\ stale \in Nat /\ job_count \in Nat
        /\ transaction_numbers \in [Machines -> Nat]
        /\ phase \in [Clients -> {"none", "backlog", "open", "closed"}]
    BY DEF SInit, Machines
  <2>8. spc = "setup"
    BY DEF SInit
  <2> QED
    BY <2>1, <2>3, <2>4, <2>5, <2>6, <2>7, <2>8 DEF STypeOK
<1>3. SizeBounded
  BY <1>2, AcceptedFinite DEF SInit, SizeBounded
<1>4. ~Listening /\ Place /\ Reports
  BY DEF SInit, Listening, Place, Reports
<1>5. Credit
  <2>1. IsFiniteSet(Machines)
    BY ServerAssumption, FS_AddElement DEF Machines
  <2>2. \A m \in Machines : transaction_numbers[m] = 0
    BY DEF SInit
  <2>3. SumFunctionOnSet(transaction_numbers, Machines) = 0
    BY ONLY <2>1, <2>2, SumZero
  <2> QED
    BY <2>3 DEF SInit, Credit
<1> QED
  BY <1>2, <1>3, <1>4, <1>5 DEF SInv

LEMMA SetupSInv == SInv /\ Setup => SInv'
<1> SUFFICES ASSUME SInv, Setup PROVE SInv'
  OBVIOUS
<1>1. fds' = <<Listener>> /\ Len(fds') = 1 /\ DOMAIN fds' = {1} /\ fds'[1] = Listener
  BY DEF Setup
<1>2. revents = <<>> /\ idx = 1 /\ ~compress_array /\ \A c \in Clients : phase[c] # "open"
  BY DEF Setup, SInv, Place, Listening
<1>3. 1 <= MAX_CONNECTIONS
  BY ServerAssumption, FS_CardinalityType
<1>4. STypeOK'
  BY <1>1, <1>2, <1>3 DEF SInv, STypeOK, Setup, conns, stats, current_size
<1>5. SizeBounded'
  BY <1>1, <1>4, AcceptedFinite, FS_CardinalityType DEF Setup, SizeBounded, SInv, conns, Accepted
<1>6. Table'
  BY <1>1, <1>2, ServerAssumption DEF Table, Setup, conns
<1>7. Place' /\ Reports'
  BY <1>2 DEF Place, Setup, Listening, Reports
<1>8. Credit'
  BY CreditKept DEF SInv, Setup, stats
<1> QED
  BY <1>4, <1>5, <1>6, <1>7, <1>8 DEF SInv

LEMMA StopsSInv == SInv /\ (SetupFails \/ PollTimesOut \/ PollFails) => SInv'
<1> SUFFICES ASSUME SInv, SetupFails \/ PollTimesOut \/ PollFails PROVE SInv'
  OBVIOUS
<1>1. /\ UNCHANGED <<table, stats, conns>>
      /\ (Fault \/ UNCHANGED faults)
      /\ (spc = "setup" /\ spc' = "done") \/ (spc = "poll" /\ spc' = "cleanup")
  BY DEF SetupFails, PollTimesOut, PollFails
<1>2. STypeOK'
  BY <1>1, ServerAssumption DEF SInv, STypeOK, table, stats, conns, current_size, Fault
<1>3. Listening' => Listening
  BY <1>1 DEF Listening
<1>4. SizeBounded' /\ (Listening' => Table')
  BY <1>1, <1>3, TableKept DEF SInv, table, conns
<1>5. Place' /\ Reports'
  BY <1>1 DEF SInv, Place, Reports, Listening, table, conns
<1>6. Credit'
  BY <1>1, CreditKept DEF SInv, stats
<1> QED
  BY <1>2, <1>4, <1>5, <1>6 DEF SInv

LEMMA PollSInv == SInv /\ Poll => SInv'
<1> SUFFICES ASSUME SInv, Poll PROVE SInv'
  OBVIOUS
<1>1. PICK r \in [DOMAIN fds -> {"other", "hup", "err"}] :
          /\ \A k \in DOMAIN fds : r[k] \in MayReport(fds[k])
          /\ Fault \/ UNCHANGED faults
          /\ revents' = r
  BY DEF Poll
<1>2. /\ revents' \in Seq({"other", "hup", "err"}) /\ Len(revents') = Len(fds)
      /\ DOMAIN revents' = DOMAIN fds
  BY <1>1 DEF SInv, STypeOK
<1>3. STypeOK'
  BY <1>1, <1>2, ServerAssumption DEF SInv, STypeOK, Poll, stats, conns, current_size, Fault
<1>4. SizeBounded' /\ (Listening' => Table')
  BY TableKept DEF SInv, Poll, Listening, conns
<1>5. Place'
  BY DEF SInv, Place, Poll, Listening, conns
<1>6. Reports'
  BY <1>1, <1>2 DEF Reports, Poll, MayReport, conns
<1>7. Credit'
  BY CreditKept DEF SInv, Poll, stats
<1> QED
  BY <1>3, <1>4, <1>5, <1>6, <1>7 DEF SInv

\* The steps of the scan that only move on.
LEMMA ScanOnSInv ==
    ASSUME SInv,
           \/ ScanError \/ ScanListener \/ AcceptDone \/ AcceptFails
           \/ \E c \in Clients : ScanIdle(c) \/ ScanPollFails(c)
    PROVE  SInv'
<1>1. /\ UNCHANGED <<fds, revents, compress_array, stats, conns>>
      /\ (Fault \/ UNCHANGED faults)
      /\ run_server' \in BOOLEAN
      /\ spc \in {"scan", "accept"} /\ idx <= current_size
      /\ idx' \in {idx, idx + 1, current_size + 1}
      /\ spc' \in {"scan", "accept", "cleanup"} /\ (spc' = "accept" => idx' = idx /\ fds[idx] = Listener)
  BY DEF ScanError, ScanListener, AcceptDone, AcceptFails, ScanIdle, ScanPollFails, AtClient,
         AtEntry, Continue, table, Fault, SInv, STypeOK, Place
<1>2. idx \in Nat /\ current_size \in Nat /\ idx' \in 1 .. current_size + 1 /\ idx <= idx'
  BY <1>1 DEF SInv, STypeOK, current_size
<1>3. STypeOK'
  BY <1>1, <1>2, ServerAssumption DEF SInv, STypeOK, stats, conns, current_size, Fault
<1>4. SizeBounded' /\ (Listening' => Table')
  BY <1>1, TableKept DEF SInv, Listening, conns
<1>5. Place'
  BY <1>1, <1>2 DEF SInv, Place, Listening, conns, current_size
<1>6. Reports'
  <2> SUFFICES ASSUME NEW k \in DOMAIN revents, k >= idx', revents[k] = "hup"
               PROVE  fds[k] \in Clients /\ up[fds[k]].rst
    BY <1>1 DEF Reports, conns
  <2>1. k >= idx
    BY <1>2 DEF SInv, STypeOK
  <2> QED
    BY <2>1 DEF SInv, Reports
<1>7. Credit'
  BY <1>1, CreditKept DEF SInv, stats
<1> QED
  BY <1>3, <1>4, <1>5, <1>6, <1>7 DEF SInv

\* The connection at the scan is closed.
LEMMA DropSInv ==
    ASSUME SInv, NEW c \in Clients, ScanHup(c) \/ ScanClosed(c)
    PROVE  SInv'
<1>1. /\ CloseConnection(c) /\ fds' = [fds EXCEPT ![idx] = NoFd]
      /\ compress_array' = TRUE /\ idx' = idx + 1
      /\ UNCHANGED <<spc, revents, run_server, stats, faults>>
      /\ spc = "scan" /\ fds[idx] = c /\ idx <= current_size
  BY DEF ScanHup, ScanClosed, Drop, Continue, AtClient, AtEntry
<1>2. /\ idx \in DOMAIN fds /\ idx \in Nat /\ current_size \in Nat
      /\ fds' \in Seq(Clients \cup {Listener, NoFd})
      /\ Len(fds') = Len(fds) /\ DOMAIN fds' = DOMAIN fds /\ Len(fds) \in Nat
      /\ fds'[idx] = NoFd /\ \A k \in DOMAIN fds : k # idx => fds'[k] = fds[k]
  BY <1>1 DEF SInv, STypeOK, current_size
<1>3. /\ phase' \in [Clients -> {"none", "backlog", "open", "closed"}]
      /\ down' \in [Clients -> Stream(Nat)] /\ up' = up
      /\ phase'[c] = "closed" /\ \A d \in Clients \ {c} : phase'[d] = phase[d]
  BY <1>1, CloseConnectionFacts DEF SInv
<1>4. STypeOK'
  BY <1>1, <1>2, <1>3 DEF SInv, STypeOK, stats, current_size
<1>5. SizeBounded'
  BY <1>2, <1>3, SizeKept DEF SInv
<1>6. Table'
  <2>1. Table /\ Listener # NoFd /\ Listener \notin Clients /\ NoFd \notin Clients
    BY <1>1, ServerAssumption DEF SInv, Listening
  <2>2. 1 \in DOMAIN fds /\ idx # 1
    BY <1>1, <2>1 DEF Table, SInv, STypeOK
  <2>3. fds' # <<>> /\ fds'[1] = Listener /\ \A k \in DOMAIN fds' : k # 1 => fds'[k] # Listener
    BY <1>2, <2>1, <2>2 DEF Table
  <2>4. \A k \in DOMAIN fds' : fds'[k] \in Clients => fds'[k] # c /\ fds'[k] = fds[k]
    BY <1>1, <1>2, <2>1 DEF Table
  <2>5. \A k \in DOMAIN fds' : fds'[k] \in Clients => phase'[fds'[k]] = "open"
    BY <1>2, <1>3, <2>1, <2>4 DEF Table
  <2>6. ASSUME NEW d \in Clients, phase'[d] = "open"
        PROVE  \E k \in DOMAIN fds' : fds'[k] = d
    <3>1. d # c /\ phase[d] = "open"
      BY <1>3, <2>6
    <3>2. PICK k \in DOMAIN fds : fds[k] = d
      BY <2>1, <3>1 DEF Table
    <3> QED
      BY <1>1, <1>2, <3>1, <3>2
  <2>7. \A j, k \in DOMAIN fds' : fds'[j] \in Clients /\ fds'[j] = fds'[k] => j = k
    BY <1>2, <2>1, <2>4 DEF Table
  <2> QED
    BY <1>1, <1>2, <2>3, <2>5, <2>6, <2>7 DEF Table
<1>7. Place'
  BY <1>1 DEF Place, Listening
<1>8. Reports'
  BY <1>1, <1>2, <1>3 DEF SInv, STypeOK, Reports, current_size
<1>9. Credit'
  BY <1>1, CreditKept DEF SInv, stats
<1> QED
  BY <1>4, <1>5, <1>6, <1>7, <1>8, <1>9 DEF SInv

\* The new entry fits: its client did not have one before.
LEMMA AcceptSInv ==
    ASSUME SInv, NEW c \in Clients, Accept(c)
    PROVE  SInv'
<1>1. /\ spc = "accept" /\ phase[c] = "backlog"
      /\ phase' = [phase EXCEPT ![c] = "open"] /\ fds' = Append(fds, c)
      /\ UNCHANGED <<spc, revents, idx, run_server, compress_array, stats, faults, up, down>>
  BY DEF Accept, Backlog
<1> DEFINE n == Len(fds)
<1>2. /\ n \in Nat /\ fds' \in Seq(Clients \cup {Listener, NoFd}) /\ Len(fds') = n + 1
      /\ DOMAIN fds = 1 .. n /\ DOMAIN fds' = 1 .. n + 1
      /\ fds'[n + 1] = c /\ \A k \in 1 .. n : fds'[k] = fds[k]
  BY <1>1 DEF SInv, STypeOK
<1>3. /\ phase' \in [Clients -> {"none", "backlog", "open", "closed"}]
      /\ phase'[c] = "open" /\ \A d \in Clients \ {c} : phase'[d] = phase[d]
  BY <1>1 DEF SInv, STypeOK
<1>4. SizeBounded' /\ Len(fds') <= MAX_CONNECTIONS
  <2>1. Accepted' = Accepted \cup {c} /\ c \notin Accepted /\ Accepted' \subseteq Clients
    BY <1>1, <1>3 DEF Accepted
  <2>2. Cardinality(Accepted') = Cardinality(Accepted) + 1
    BY <2>1, AcceptedFinite, FS_AddElement DEF SInv
  <2>3. Cardinality(Accepted') <= Cardinality(Clients) /\ Cardinality(Clients) \in Nat
    BY <2>1, FS_Subset, FS_CardinalityType, ServerAssumption
  <2>4. Cardinality(Accepted) \in Nat
    BY AcceptedFinite DEF SInv
  <2> QED
    BY <1>2, <2>2, <2>3, <2>4, ServerAssumption DEF SInv, SizeBounded
<1> HIDE DEF n
<1>5. STypeOK'
  BY <1>1, <1>2, <1>3, <1>4 DEF SInv, STypeOK, stats, current_size, n
<1>6. Table'
  <2>1. Table /\ Listener \notin Clients /\ NoFd \notin Clients
    BY <1>1, ServerAssumption DEF SInv, Listening
  <2>2. \A k \in 1 .. n : fds[k] # c
    BY <1>1, <1>2, <2>1 DEF Table
  <2>3. 1 \in 1 .. n
    BY <1>2, <2>1 DEF Table, SInv, STypeOK, n
  <2>4. fds' # <<>> /\ fds'[1] = Listener /\ \A k \in DOMAIN fds' : k # 1 => fds'[k] # Listener
    BY <1>2, <2>1, <2>3 DEF Table
  <2>5. \A k \in DOMAIN fds' : fds'[k] \in Clients => phase'[fds'[k]] = "open"
    BY <1>2, <1>3, <2>1, <2>2 DEF Table
  <2>6. ASSUME NEW d \in Clients, phase'[d] = "open"
        PROVE  \E k \in DOMAIN fds' : fds'[k] = d
    <3>1. CASE d = c
      BY <1>2, <3>1
    <3>2. CASE d # c
      <4>1. PICK k \in DOMAIN fds : fds[k] = d
        BY <1>3, <2>1, <2>6, <3>2 DEF Table
      <4> QED
        BY <1>2, <4>1
    <3> QED
      BY <3>1, <3>2
  <2>7. \A j, k \in DOMAIN fds' : fds'[j] \in Clients /\ fds'[j] = fds'[k] => j = k
    BY <1>2, <2>1, <2>2 DEF Table
  <2>8. (\E k \in DOMAIN fds' : fds'[k] = NoFd) <=> (\E k \in DOMAIN fds : fds[k] = NoFd)
    BY <1>2, <2>1
  <2> QED
    BY <1>1, <2>1, <2>4, <2>5, <2>6, <2>7, <2>8 DEF Table
<1>7. idx \in 1 .. n /\ current_size <= n /\ current_size \in Nat
  BY <1>1, <1>2 DEF SInv, Place, STypeOK, current_size, n
<1>8. Place'
  BY <1>1, <1>2, <1>7 DEF SInv, Place, Listening, current_size
<1>9. Reports'
  BY <1>1, <1>2, <1>7 DEF SInv, STypeOK, Reports, current_size
<1>10. Credit'
  BY <1>1, CreditKept DEF SInv, stats
<1> QED
  BY <1>4, <1>5, <1>6, <1>8, <1>9, <1>10 DEF SInv

\* What a scan step finds of the connection it takes a request from.
LEMMA ReceiveSInv ==
    ASSUME SInv, NEW c \in Clients, ScanJob(c) \/ ScanNegative(c)
    PROVE  SInv'
<1>1. /\ Receive(c) /\ spc = "scan" /\ fds[idx] = c /\ idx <= current_size
      /\ UNCHANGED <<fds, revents, run_server, compress_array, job_count,
                     transaction_numbers, faults, phase, down>>
      /\ \/ /\ spc' = "work" /\ machine' \in {c, Garbled} /\ idx' = idx /\ stale' = stale
         \/ /\ spc' = "scan" /\ machine' = machine /\ idx' = idx + 1
            /\ stale' \in {stale, up[c].data[1].len}
  <2>1. Head(up[c].data) = up[c].data[1] /\ Receive(c)
    BY ReceiveFacts DEF SInv, ScanJob, ScanNegative
  <2> QED
    BY <2>1 DEF ScanJob, ScanNegative, MachineOf, Receive, AtClient, AtEntry, Continue, table
<1>2. /\ up' \in [Clients -> Stream(Request)] /\ up[c].data[1].len \in Nat
      /\ \A d \in Clients : up'[d].rst = up[d].rst
  BY <1>1, ReceiveFacts DEF SInv, Request
<1>3. STypeOK'
  BY <1>1, <1>2 DEF SInv, STypeOK, current_size, Machines
<1>4. SizeBounded' /\ (Listening' => Table')
  BY <1>1, TableKept DEF SInv, Listening
<1>5. Place'
  BY <1>1 DEF SInv, Place, Listening, current_size
<1>6. Reports'
  BY <1>1, <1>2 DEF SInv, STypeOK, Reports, current_size
<1>7. Credit'
  BY <1>1, CreditKept DEF SInv
<1> QED
  BY <1>3, <1>4, <1>5, <1>6, <1>7 DEF SInv

LEMMA FinishSInv == SInv /\ Finish => SInv'
<1> SUFFICES ASSUME SInv, Finish PROVE SInv'
  OBVIOUS
<1>1. fds[idx] \in Clients /\ idx <= current_size /\ idx' = idx + 1
  BY DEF SInv, Place, Finish, Continue
<1>2. job_count + 1 \in Nat /\ SendNumber(fds[idx], job_count + 1)
  BY DEF SInv, STypeOK, Finish, Reply
<1>3. /\ up' \in [Clients -> Stream(Request)] /\ down' \in [Clients -> Stream(Nat)]
      /\ \A d \in Clients : up[d].rst => up'[d].rst
  <2>1. PICK c \in Clients : c = fds[idx]
    BY <1>1
  <2>2. /\ up' \in [Clients -> Stream(Request)] /\ down' \in [Clients -> Stream(Nat)]
        /\ \A d \in Clients \ {c} : up'[d] = up[d]
        /\ up' = up \/ up'[c].rst
    BY <1>2, <2>1, SendNumberFacts DEF SInv
  <2> QED
    BY <2>2
<1>4. /\ transaction_numbers' \in [Machines -> Nat] /\ machine \in Machines
      /\ transaction_numbers'[machine] = transaction_numbers[machine] + 1
      /\ \A m \in Machines \ {machine} : transaction_numbers'[m] = transaction_numbers[m]
      /\ \A m \in Machines : transaction_numbers[m] \in Nat
  BY DEF Finish, UpdateStats, SInv, STypeOK
<1>5. STypeOK'
  BY <1>1, <1>2, <1>3, <1>4 DEF SInv, STypeOK, Finish, current_size
<1>6. SizeBounded' /\ (Listening' => Table')
  BY TableKept DEF SInv, Finish, Listening
<1>7. Place'
  BY DEF SInv, Place, Finish, Listening
<1>8. Reports'
  BY <1>1, <1>3 DEF SInv, STypeOK, Reports, Finish, current_size
<1>9. Credit'
  <2>1. IsFiniteSet(Machines)
    BY ServerAssumption, FS_AddElement DEF Machines
  <2>2. SumFunctionOnSet(transaction_numbers', Machines)
            = SumFunctionOnSet(transaction_numbers, Machines) + 1
    BY ONLY <1>4, <2>1, SumIncrement
  <2> QED
    BY <2>2 DEF SInv, Credit, Finish
<1> QED
  BY <1>5, <1>6, <1>7, <1>8, <1>9 DEF SInv

\* The table that EndScan leaves is the old one without its -1 entries.
LEMMA CompactedTable ==
    ASSUME SInv, Listening
    PROVE  /\ Compacted \in Seq(Clients \cup {Listener, NoFd}) /\ Len(Compacted) <= Len(fds)
           /\ Compacted # <<>> /\ Compacted[1] = Listener
           /\ \A k \in DOMAIN Compacted : k # 1 => Compacted[k] # Listener
           /\ \A k \in DOMAIN Compacted : /\ Compacted[k] # NoFd
                                          /\ \E l \in DOMAIN fds : fds[l] = Compacted[k]
           /\ \A c \in Clients :
                 (\E k \in DOMAIN fds : fds[k] = c) => \E k \in DOMAIN Compacted : Compacted[k] = c
           /\ \A j, k \in DOMAIN Compacted :
                 Compacted[j] \in Clients /\ Compacted[j] = Compacted[k] => j = k
<1>1. /\ fds \in Seq(Clients \cup {Listener, NoFd}) /\ Table
      /\ Listener # NoFd /\ NoFd \notin Clients
  BY ServerAssumption DEF SInv, STypeOK
<1>2. PICK m : Places(fds, {NoFd}, Len(fds), Compacted, m)
  BY <1>1, WithoutPlaces DEF Compacted
<1>3. Compacted \in Seq(Clients \cup {Listener, NoFd})
  BY <1>1, WithoutPlaces DEF Compacted
<1> DEFINE n == Len(fds)
           t == Compacted
<1> HIDE DEF t
<1>4. /\ n \in Nat /\ DOMAIN fds = 1 .. n /\ n >= 1
      /\ t \in Seq(Clients \cup {Listener, NoFd}) /\ Len(t) \in Nat /\ DOMAIN t = 1 .. Len(t)
  BY <1>1, <1>3 DEF Table, t
<1>5. /\ Len(t) <= n
      /\ \A i \in 1 .. Len(t) : m[i] \in 1 .. n /\ t[i] = fds[m[i]] /\ fds[m[i]] # NoFd
      /\ \A i, j \in 1 .. Len(t) : i < j => m[i] < m[j]
      /\ \A l \in 1 .. n : fds[l] # NoFd => \E i \in 1 .. Len(t) : m[i] = l
  BY <1>2 DEF Places, t
<1>6. \A i, j \in 1 .. Len(t) : m[i] = m[j] => i = j
  BY <1>4, <1>5
<1>7. 1 \in 1 .. Len(t) /\ m[1] = 1
  <2>1. PICK i \in 1 .. Len(t) : m[i] = 1
    BY <1>1, <1>4, <1>5 DEF Table
  <2>2. 1 \in 1 .. Len(t) /\ m[1] \in 1 .. n
    BY <1>4, <1>5, <2>1
  <2>3. i = 1
    BY <1>4, <1>5, <2>1, <2>2
  <2> QED
    BY <2>1, <2>2, <2>3
<1>8. t # <<>> /\ t[1] = Listener
  BY <1>1, <1>4, <1>5, <1>7 DEF Table
<1>9. \A k \in DOMAIN t : k # 1 => t[k] # Listener
  <2> SUFFICES ASSUME NEW k \in 1 .. Len(t), k # 1 PROVE t[k] # Listener
    BY <1>4
  <2>1. m[k] # 1 /\ m[k] \in 1 .. n
    BY <1>5, <1>6, <1>7
  <2> QED
    BY <1>1, <1>4, <1>5, <2>1 DEF Table
<1>10. \A k \in DOMAIN t : t[k] # NoFd /\ \E l \in DOMAIN fds : fds[l] = t[k]
  BY <1>4, <1>5
<1>11. \A c \in Clients :
          (\E k \in DOMAIN fds : fds[k] = c) => \E k \in DOMAIN t : t[k] = c
  <2> SUFFICES ASSUME NEW c \in Clients, NEW k \in 1 .. n, fds[k] = c
               PROVE  \E i \in 1 .. Len(t) : t[i] = c
    BY <1>4
  <2>1. PICK i \in 1 .. Len(t) : m[i] = k
    BY <1>1, <1>5
  <2> QED
    BY <1>5, <2>1
<1>12. \A j, k \in DOMAIN t : t[j] \in Clients /\ t[j] = t[k] => j = k
  BY <1>1, <1>4, <1>5, <1>6 DEF Table
<1> QED
  BY <1>3, <1>4, <1>5, <1>8, <1>9, <1>10, <1>11, <1>12 DEF t

LEMMA EndScanSInv == SInv /\ EndScan => SInv'
<1> SUFFICES ASSUME SInv, EndScan PROVE SInv'
  OBVIOUS
<1>1. /\ Listening /\ Table
      /\ revents' = <<>> /\ idx' = 1 /\ compress_array' = FALSE
      /\ spc' \in {"poll", "cleanup"}
      /\ UNCHANGED <<run_server, stats, faults, conns>>
  BY DEF EndScan, SInv, Listening
<1>2. /\ fds' \in Seq(Clients \cup {Listener, NoFd}) /\ Len(fds') <= Len(fds)
      /\ fds' # <<>> /\ fds'[1] = Listener
      /\ \A k \in DOMAIN fds' : k # 1 => fds'[k] # Listener
      /\ \A k \in DOMAIN fds' : /\ fds'[k] # NoFd
                                /\ \E l \in DOMAIN fds : fds[l] = fds'[k]
      /\ \A c \in Clients :
            (\E k \in DOMAIN fds : fds[k] = c) => \E k \in DOMAIN fds' : fds'[k] = c
      /\ \A j, k \in DOMAIN fds' : fds'[j] \in Clients /\ fds'[j] = fds'[k] => j = k
  <2>1. CASE compress_array
    <3>1. fds' = Compacted
      BY <2>1 DEF EndScan
    <3> QED
      BY <1>1, <3>1, CompactedTable
  <2>2. CASE ~compress_array
    <3>1. fds' = fds /\ Len(fds) \in Nat /\ fds \in Seq(Clients \cup {Listener, NoFd})
      BY <2>2 DEF EndScan, SInv, STypeOK
    <3> QED
      BY <1>1, <2>2, <3>1 DEF Table
  <2> QED
    BY <2>1, <2>2
<1>3. SizeBounded' /\ Len(fds') <= MAX_CONNECTIONS
  <2>1. Len(fds') \in Nat /\ phase' = phase
    BY <1>1, <1>2 DEF conns
  <2> QED
    BY <1>2, <2>1, SizeKept DEF SInv
<1>4. STypeOK'
  <2>1. /\ revents' \in Seq({"other", "hup", "err"}) /\ current_size' = 0
        /\ Len(fds') \in Nat
    BY <1>1, <1>2 DEF current_size
  <2>2. current_size' <= Len(fds') /\ idx' \in 1 .. current_size' + 1
    BY <1>1, <2>1
  <2> QED
    BY <1>1, <1>2, <1>3, <2>1, <2>2 DEF SInv, STypeOK, stats, conns
<1>5. Table'
  <2>1. phase' = phase
    BY <1>1 DEF conns
  <2>2. \A k \in DOMAIN fds' : fds'[k] \in Clients => phase'[fds'[k]] = "open"
    BY <1>1, <1>2, <2>1 DEF Table
  <2>3. \A c \in Clients : phase'[c] = "open" => \E k \in DOMAIN fds' : fds'[k] = c
    BY <1>1, <1>2, <2>1 DEF Table
  <2> QED
    BY <1>1, <1>2, <2>2, <2>3 DEF Table
<1>6. Place' /\ Reports'
  BY <1>1 DEF Place, Reports, Listening
<1>7. Credit'
  BY <1>1, CreditKept DEF SInv, stats
<1> QED
  BY <1>3, <1>4, <1>5, <1>6, <1>7 DEF SInv

\* The server closes all it has, and is listening no more.
LEMMA ClosesSInv ==
    ASSUME SInv, Cleanup \/ \E c \in Clients : ScanSpaced(c)
    PROVE  SInv'
<1>1. PICK u \in [Clients -> Stream(Request)] :
         /\ CloseAll(u) /\ up' = u
         /\ \A d \in Clients : u[d].rst = up[d].rst
         /\ spc' \in {"done", "aborted"}
         /\ UNCHANGED <<table, stats, faults>>
  <2>1. CASE Cleanup
    BY <2>1 DEF Cleanup, SInv, STypeOK
  <2>2. ASSUME NEW c \in Clients, ScanSpaced(c)
        PROVE  /\ CloseAll(up') /\ up' \in [Clients -> Stream(Request)]
               /\ \A d \in Clients : up'[d].rst = up[d].rst
               /\ spc' = "aborted"
               /\ UNCHANGED <<table, stats, faults>>
    <3>1. Receive(c)
      BY <2>2 DEF ScanSpaced
    <3>2. up' \in [Clients -> Stream(Request)] /\ \A d \in Clients : up'[d].rst = up[d].rst
      BY <3>1, ReceiveFacts DEF SInv
    <3> QED
      BY <2>2, <3>2 DEF ScanSpaced
  <2> QED
    BY <2>1, <2>2
<1>2. /\ phase' \in [Clients -> {"none", "closed"}] /\ down' \in [Clients -> Stream(Nat)]
      /\ \A c \in Clients : phase[c] = "closed" => phase'[c] = "closed"
      /\ \A c \in Clients : phase[c] = "open" => phase'[c] = "closed"
  BY <1>1, CloseAllFacts DEF SInv
<1>3. STypeOK'
  BY <1>1, <1>2 DEF SInv, STypeOK, table, stats, current_size
<1>4. SizeBounded'
  <2>1. fds' = fds /\ Len(fds) \in Nat
    BY <1>1 DEF table, SInv, STypeOK
  <2> QED
    BY <1>2, <2>1, SizeKept DEF SInv
<1>5. ~Listening' /\ Place'
  BY <1>1, <1>2 DEF Place, Listening
<1>6. Reports'
  BY <1>1 DEF SInv, STypeOK, Reports, table
<1>7. Credit'
  BY <1>1, CreditKept DEF SInv, stats
<1> QED
  BY <1>3, <1>4, <1>5, <1>6, <1>7 DEF SInv

\* Every step of the server keeps its invariant.
LEMMA ServerSInv == SInv /\ (ServerStep \/ ServerFault) => SInv'
<1> SUFFICES ASSUME SInv, ServerStep \/ ServerFault PROVE SInv'
  OBVIOUS
<1> QED
  BY SetupSInv, StopsSInv, PollSInv, ScanOnSInv, DropSInv, AcceptSInv, ReceiveSInv,
     FinishSInv, EndScanSInv, ClosesSInv DEF ServerStep, ServerFault

\* So does a step of the clients, which connect while the server listens, and
\* whose resets are never taken back.
LEMMA ClientsSInv ==
    ASSUME SInv, UNCHANGED <<spc, table, stats, faults>>,
           phase' \in [Clients -> {"none", "backlog", "open", "closed"}],
           up' \in [Clients -> Stream(Request)], down' \in [Clients -> Stream(Nat)],
           \A c \in Clients : \/ phase'[c] = phase[c]
                              \/ phase[c] = "none" /\ phase'[c] = "backlog" /\ Listening,
           \A c \in Clients : up[c].rst => up'[c].rst
    PROVE  SInv'
<1>1. STypeOK'
  BY DEF SInv, STypeOK, table, stats, current_size
<1>2. SizeBounded' /\ (Listening' => Table')
  <2>1. Accepted' = Accepted
    BY DEF Accepted
  <2>2. SizeBounded'
    BY <2>1 DEF SInv, SizeBounded, table
  <2>3. \A c \in Clients : phase'[c] = "open" <=> phase[c] = "open"
    OBVIOUS
  <2>4. Listening' => Table'
    BY <2>3 DEF SInv, Table, Listening, table
  <2> QED
    BY <2>2, <2>4
<1>3. Place' /\ Reports'
  <2>1. UNCHANGED <<spc, fds, revents, idx, compress_array, machine>>
    BY DEF table, stats
  <2>2. Listening' <=> Listening
    BY <2>1 DEF Listening
  <2>3. Place'
    BY <2>1, <2>2 DEF SInv, Place, current_size
  <2>4. Reports'
    BY <2>1 DEF SInv, Reports
  <2> QED
    BY <2>3, <2>4
<1>4. Credit'
  BY CreditKept DEF SInv, stats
<1> QED
  BY <1>1, <1>2, <1>3, <1>4 DEF SInv

\* The table by position is the table by entry, counted.
LEMMA SInvTableExact == SInv => TableExact
<1> SUFFICES ASSUME SInv PROVE TableExact
  OBVIOUS
<1> DEFINE Slots(f) == {k \in DOMAIN fds : fds[k] = f}
<1> SUFFICES ASSUME Listening
             PROVE  /\ \A c \in Clients :
                          Cardinality(Slots(c)) = IF phase[c] = "open" THEN 1 ELSE 0
                    /\ Slots(Listener) = {1}
                    /\ (Slots(NoFd) # {}) = compress_array
                    /\ spc = "poll" => ~compress_array
  BY DEF TableExact
<1>1. Table /\ (spc = "poll" => ~compress_array) /\ compress_array \in BOOLEAN
  BY DEF SInv, Place, STypeOK
<1>2. ASSUME NEW c \in Clients
      PROVE  Cardinality(Slots(c)) = IF phase[c] = "open" THEN 1 ELSE 0
  <2>1. CASE phase[c] = "open"
    <3>1. PICK k \in DOMAIN fds : fds[k] = c
      BY <1>1, <2>1 DEF Table
    <3>2. Slots(c) = {k}
      BY <1>1, <3>1 DEF Table
    <3> QED
      BY <2>1, <3>2, FS_Singleton
  <2>2. CASE phase[c] # "open"
    <3>1. Slots(c) = {}
      BY <1>1, <2>2 DEF Table
    <3> QED
      BY <2>2, <3>1, FS_EmptySet
  <2> QED
    BY <2>1, <2>2
<1>3. Slots(Listener) = {1}
  <2>1. 1 \in DOMAIN fds
    BY <1>1 DEF Table, SInv, STypeOK
  <2> QED
    BY <1>1, <2>1 DEF Table
<1>4. (Slots(NoFd) # {}) = compress_array
  <2>1. Slots(NoFd) # {} <=> compress_array
    BY <1>1 DEF Table
  <2> QED
    BY <1>1, <2>1
<1> QED
  BY <1>1, <1>2, <1>3, <1>4
=============================================================================
