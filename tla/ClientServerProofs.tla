-------------------------- MODULE ClientServerProofs --------------------------
(***************************************************************************)
(* Proofs about Assignment3 as a whole: any number of clients with any     *)
(* inputs, any of them killed at any moment, and a server whose system     *)
(* calls may fail.                                                         *)
(***************************************************************************)
EXTENDS ClientServer, PollServerProofs

\* The two ends of client c's connection.
Link(c) ==
    /\ spc = "setup" => phase[c] = "none"
    /\ cpc[c] = "connect" => phase[c] = "none"
    /\ phase[c] = "none" => cpc[c] \in {"connect", "failed"} /\ up[c] = Quiet /\ down[c] = Quiet
    /\ phase[c] = "closed" <=> PeerClosed(down[c])
    /\ cpc[c] \in {"connect", "read", "recv"} => ~PeerClosed(up[c])
    /\ Listening /\ cpc[c] \in {"read", "recv"} => phase[c] # "closed"

\* Client c's request on its way, the job in hand and the reply on its way back.
Transit(c) ==
    /\ Outstanding(c) <= 1
    /\ cpc[c] = "read" => Outstanding(c) = 0
    /\ Waiting(c) /\ ~PeerClosed(down[c]) => Outstanding(c) = 1
    /\ up[c].rst => up[c].data = <<>> /\ InWork(c) = 0
    /\ down[c].fin => up[c].data = <<>>
    /\ cpc[c] = "recv" => next[c] > 1
    /\ up[c].data # <<>> => next[c] > 1 /\ up[c].data[1] = input[c][next[c] - 1]

\* The replies client c has, against the transactions it counted.
Counted(c) ==
    /\ cpc[c] = "connect" => transaction_count[c] = 0 /\ log[c] = <<>>
    /\ ~PeerClosed(down[c]) =>
          /\ cpc[c] = "read" => Cardinality(Replies(c)) = transaction_count[c]
          /\ cpc[c] = "recv" => Cardinality(Replies(c)) + 1 = transaction_count[c]

\* The replies it has or will get, against the jobs it is credited with.
Credited(c) ==
    transaction_numbers[Garbled] = 0 /\ cpc[c] \in {"connect", "read", "recv"} =>
        transaction_numbers[c] = Cardinality(Replies(c)) + Len(down[c].data)

\* The numbers it was given, and those it is being given.
Numbers(c) == {log[c][k].number : k \in Replies(c)}
              \cup {down[c].data[k] : k \in DOMAIN down[c].data}

\* They are its own; the one on its way is the largest.
Numbered(c) ==
    /\ Numbers(c) \subseteq 1 .. job_count
    /\ \A j, k \in Replies(c) : j < k => log[c][j].number < log[c][k].number
    /\ \A j \in Replies(c) : \A k \in DOMAIN down[c].data : log[c][j].number < down[c].data[k]
    /\ \A d \in Clients \ {c} : Numbers(c) \cap Numbers(d) = {}

Types == TypeOK /\ next \in [Clients -> Nat]

\* The inductive invariant.
CInv == /\ Types /\ SInv
        /\ \A c \in Clients : Link(c) /\ Transit(c) /\ Counted(c) /\ Credited(c) /\ Numbered(c)

-----------------------------------------------------------------------------
(* The state of one client.                                                *)

LEMMA UpTypes ==
    ASSUME STypeOK, NEW c \in Clients
    PROVE  /\ up[c] \in Stream(Request) /\ up[c].data \in Seq(Request)
           /\ Len(up[c].data) \in Nat /\ (up[c].data = <<>> <=> Len(up[c].data) = 0)
           /\ up[c].fin \in BOOLEAN /\ up[c].rst \in BOOLEAN
<1>1. up[c] \in Stream(Request)
  BY DEF STypeOK
<1>2. up[c].data \in Seq(Request) /\ up[c].fin \in BOOLEAN /\ up[c].rst \in BOOLEAN
  BY <1>1, StreamFields
<1> QED
  BY <1>1, <1>2

LEMMA DownTypes ==
    ASSUME STypeOK, NEW c \in Clients
    PROVE  /\ down[c] \in Stream(Nat) /\ down[c].data \in Seq(Nat)
           /\ Len(down[c].data) \in Nat /\ (down[c].data = <<>> <=> Len(down[c].data) = 0)
           /\ down[c].fin \in BOOLEAN /\ down[c].rst \in BOOLEAN
<1>1. down[c] \in Stream(Nat)
  BY DEF STypeOK
<1>2. down[c].data \in Seq(Nat) /\ down[c].fin \in BOOLEAN /\ down[c].rst \in BOOLEAN
  BY <1>1, StreamFields
<1> QED
  BY <1>1, <1>2

LEMMA ClientTypes ==
    ASSUME Types, NEW c \in Clients
    PROVE  /\ cpc[c] \in {"connect", "read", "recv", "done", "failed", "killed"}
           /\ phase[c] \in {"none", "backlog", "open", "closed"}
           /\ input[c] \in Seq(Line) /\ Len(input[c]) \in Nat
           /\ next[c] \in Nat /\ 1 <= next[c] /\ next[c] <= Len(input[c]) + 1
           /\ transaction_count[c] \in Nat
           /\ log[c] \in Seq(LogEntry) /\ Len(log[c]) \in Nat /\ DOMAIN log[c] = 1 .. Len(log[c])
           /\ InWork(c) \in {0, 1}
<1>1. input[c] \in Seq(Line)
  BY InputsAssumption DEF Types, TypeOK
<1> QED
  BY <1>1 DEF Types, TypeOK, STypeOK, InWork

\* A line more in client c's log.
LEMMA LogFacts ==
    ASSUME Types, NEW c \in Clients, NEW e \in LogEntry, Log(c, e)
    PROVE  /\ log' \in [Clients -> Seq(LogEntry)]
           /\ \A d \in Clients \ {c} : log'[d] = log[d]
           /\ log'[c] = Append(log[c], e)
           /\ DOMAIN log'[c] = 1 .. Len(log[c]) + 1
           /\ log'[c][Len(log[c]) + 1] = e
           /\ \A k \in 1 .. Len(log[c]) : log'[c][k] = log[c][k]
           /\ e.kind # "done" => Replies(c)' = Replies(c)
           /\ e.kind = "done" => Replies(c)' = Replies(c) \cup {Len(log[c]) + 1}
<1>1. /\ log[c] \in Seq(LogEntry) /\ Len(log[c]) \in Nat /\ DOMAIN log[c] = 1 .. Len(log[c])
  BY ClientTypes
<1>2. log \in [Clients -> Seq(LogEntry)]
  BY DEF Types, TypeOK
<1>3. Append(log[c], e) \in Seq(LogEntry)
  BY <1>1
<1>4. /\ log' \in [Clients -> Seq(LogEntry)] /\ log'[c] = Append(log[c], e)
      /\ \A d \in Clients \ {c} : log'[d] = log[d]
  BY <1>2, <1>3 DEF Log
<1>5. /\ DOMAIN log'[c] = 1 .. Len(log[c]) + 1
      /\ log'[c][Len(log[c]) + 1] = e
      /\ \A k \in 1 .. Len(log[c]) : log'[c][k] = log[c][k]
  BY <1>1, <1>4
<1>6. \A k \in DOMAIN log'[c] : k \in DOMAIN log[c] \/ k = Len(log[c]) + 1
  BY <1>1, <1>5
<1>7. Replies(c)' = {k \in DOMAIN log'[c] : log'[c][k].kind = "done"}
  BY DEF Replies
<1> HIDE DEF Log
<1>8. e.kind # "done" => Replies(c)' = Replies(c)
  BY <1>1, <1>5, <1>6, <1>7 DEF Replies
<1>9. e.kind = "done" => Replies(c)' = Replies(c) \cup {Len(log[c]) + 1}
  BY <1>1, <1>5, <1>6, <1>7 DEF Replies
<1> QED
  BY <1>4, <1>5, <1>8, <1>9

\* What LogJob makes of a transaction.
LEMMA RequestLogged ==
    ASSUME NEW c \in Clients, LineOf(c) \in Request, LogJob(c, LineOf(c))
    PROVE  /\ Log(c, LineOf(c)) /\ LineOf(c) \in LogEntry /\ LineOf(c).kind # "done"
           /\ LineOf(c) \notin Outcome /\ LineOf(c) \notin Unlogged
<1>1. LineOf(c).kind \in {"job", "tailed", "spaced"}
  BY DEF Request
<1>2. FirstCharacter(LineOf(c)) = "T"
  BY <1>1 DEF FirstCharacter
<1> QED
  BY <1>1, <1>2 DEF LogJob, LogEntry, Outcome, Unlogged

\* What LogJob makes of a pause.
LEMMA PauseLogged ==
    ASSUME Types, NEW c \in Clients, HasLine(c), LineOf(c).kind = "pause",
           LogJob(c, LineOf(c))
    PROVE  /\ LineOf(c) \notin Request
           /\ \/ LineOf(c) \in Unlogged /\ log' = log
              \/ /\ Log(c, LineOf(c)) /\ LineOf(c) \in LogEntry /\ LineOf(c).kind # "done"
                 /\ LineOf(c) \notin Outcome /\ LineOf(c) \notin Unlogged
<1>1. LineOf(c) \in Line
  BY ClientTypes DEF HasLine, LineOf
<1>2. LineOf(c) \in [kind : {"pause"}, type : {"S", "D", "other"}] /\ LineOf(c) \notin Request
  BY <1>1 DEF Line, Request
<1>3. FirstCharacter(LineOf(c)) = LineOf(c).type
  BY DEF FirstCharacter
<1>4. CASE LineOf(c).type = "other"
  <2>1. LineOf(c) \in Unlogged
    BY <1>2, <1>4 DEF Unlogged
  <2> QED
    BY <1>2, <1>3, <1>4, <2>1 DEF LogJob
<1>5. CASE LineOf(c).type \in {"S", "D"}
  <2>1. LineOf(c) \in LogEntry /\ LineOf(c) \notin Outcome /\ LineOf(c) \notin Unlogged
    BY <1>2, <1>5 DEF LogEntry, Outcome, Unlogged
  <2> QED
    BY <1>2, <1>3, <1>5, <2>1 DEF LogJob
<1> QED
  BY <1>2, <1>4, <1>5

\* The replies stand at places of the log, and are finitely many.
LEMMA RepliesFinite ==
    ASSUME Types, NEW c \in Clients
    PROVE  /\ IsFiniteSet(Replies(c)) /\ Cardinality(Replies(c)) \in Nat
           /\ Replies(c) \subseteq 1 .. Len(log[c])
<1>1. Replies(c) \subseteq 1 .. Len(log[c])
  BY ClientTypes DEF Replies
<1>2. Len(log[c]) \in Nat
  BY ClientTypes
<1>3. IsFiniteSet(1 .. Len(log[c]))
  BY <1>2, FS_Interval
<1> QED
  BY <1>1, <1>3, FS_Subset, FS_CardinalityType

\* The end of client c, or of its process.
LEMMA HangFacts ==
    ASSUME STypeOK, cpc \in [Clients -> {"connect", "read", "recv", "done", "failed", "killed"}],
           NEW c \in Clients, NEW l, Hang(c, l)
    PROVE  /\ phase' = phase /\ down' = down /\ up' \in [Clients -> Stream(Request)]
           /\ up'[c].data = up[c].data
           /\ up'[c].fin = (up[c].fin \/ down[c].data = <<>>)
           /\ up'[c].rst = (up[c].rst \/ down[c].data # <<>>)
           /\ cpc'[c] = l
           /\ \A d \in Clients \ {c} : up'[d] = up[d] /\ cpc'[d] = cpc[d]
<1>1. up[c] \in Stream(Request) /\ down[c] \in Stream(Nat) /\ up \in [Clients -> Stream(Request)]
  BY DEF STypeOK
<1>2. /\ up' = [up EXCEPT ![c] = Closing(down[c], up[c])]
      /\ cpc' = [cpc EXCEPT ![c] = l] /\ phase' = phase /\ down' = down
  BY DEF Hang, Goto
<1>3. /\ Closing(down[c], up[c]) \in Stream(Request)
      /\ Closing(down[c], up[c]).data = up[c].data
      /\ Closing(down[c], up[c]).fin = (up[c].fin \/ down[c].data = <<>>)
      /\ Closing(down[c], up[c]).rst = (up[c].rst \/ down[c].data # <<>>)
  BY <1>1, ClosingFacts
<1> QED
  BY ONLY <1>1, <1>2, <1>3, cpc \in [Clients -> {"connect", "read", "recv", "done", "failed", "killed"}]

-----------------------------------------------------------------------------
(* What a step leaves alone.                                               *)

\* Nothing of client d and its connection changes.
Same(d) ==
    /\ phase'[d] = phase[d] /\ up'[d] = up[d] /\ down'[d] = down[d]
    /\ cpc'[d] = cpc[d] /\ input'[d] = input[d] /\ next'[d] = next[d]
    /\ transaction_count'[d] = transaction_count[d] /\ log'[d] = log[d]

LEMMA SameKept ==
    ASSUME NEW d \in Clients, Link(d), Transit(d), Counted(d), Same(d), InWork(d)' = InWork(d),
           spc' = "setup" => spc = "setup", Listening' => Listening \/ spc = "setup"
    PROVE  Link(d)' /\ Transit(d)' /\ Counted(d)'
<1>1. Link(d)'
  BY DEF Link, Same, PeerClosed
<1>2. Outstanding(d)' = Outstanding(d) /\ Waiting(d)' = Waiting(d)
  BY DEF Outstanding, Waiting, Same
<1>3. Transit(d)'
  BY <1>2 DEF Transit, Same, PeerClosed
<1>4. Replies(d)' = Replies(d)
  BY DEF Replies, Same
<1>5. Counted(d)'
  BY <1>4 DEF Counted, Same, PeerClosed
<1> QED
  BY <1>1, <1>3, <1>5

\* The replies of client d, in its log and on their way, are the same.
RepliesKept(d) ==
    /\ Replies(d)' = Replies(d)
    /\ \A k \in Replies(d) : log'[d][k] = log[d][k]
    /\ down'[d].data = down[d].data

LEMMA NumbersKept ==
    ASSUME \A c \in Clients : Credited(c) /\ Numbered(c),
           UNCHANGED <<job_count, transaction_numbers>>,
           \A c \in Clients : RepliesKept(c),
           \A c \in Clients : cpc'[c] \in {"connect", "read", "recv"} =>
                                  cpc[c] \in {"connect", "read", "recv"}
    PROVE  \A c \in Clients : Credited(c)' /\ Numbered(c)'
<1>1. ASSUME NEW c \in Clients PROVE Credited(c)'
  BY DEF Credited, RepliesKept
<1>2. ASSUME NEW c \in Clients PROVE Numbers(c)' = Numbers(c)
  BY DEF Numbers, RepliesKept
<1>3. ASSUME NEW c \in Clients PROVE Numbered(c)'
  <2>1. Numbered(c) /\ RepliesKept(c) /\ job_count' = job_count
    OBVIOUS
  <2>2. /\ Numbers(c)' \subseteq 1 .. job_count'
        /\ \A d \in Clients \ {c} : Numbers(c)' \cap Numbers(d)' = {}
    BY <1>2, <2>1 DEF Numbered
  <2>3. /\ \A j, k \in Replies(c)' : j < k => log'[c][j].number < log'[c][k].number
        /\ \A j \in Replies(c)' : \A k \in DOMAIN down'[c].data :
              log'[c][j].number < down'[c].data[k]
    BY <2>1 DEF Numbered, RepliesKept
  <2> QED
    BY <2>2, <2>3 DEF Numbered
<1> QED
  BY <1>1, <1>3

\* A step of client c, as far as the types, the server and the others go.
Alone(c) ==
    /\ UNCHANGED <<server, input>>
    /\ cpc' \in [Clients -> {"connect", "read", "recv", "done", "failed", "killed"}]
    /\ next' \in [Clients -> Nat] /\ next'[c] \in 1 .. Len(input[c]) + 1
    /\ transaction_count' \in [Clients -> Nat]
    /\ log' \in [Clients -> Seq(LogEntry)]
    /\ phase' \in [Clients -> {"none", "backlog", "open", "closed"}]
    /\ up' \in [Clients -> Stream(Request)] /\ down' \in [Clients -> Stream(Nat)]
    /\ \/ phase'[c] = phase[c]
       \/ phase[c] = "none" /\ phase'[c] = "backlog" /\ Listening
    /\ up[c].rst => up'[c].rst
    /\ \A d \in Clients \ {c} : Same(d)

LEMMA AloneFacts ==
    ASSUME CInv, NEW c \in Clients, Alone(c)
    PROVE  /\ Types' /\ SInv'
           /\ \A d \in Clients : InWork(d)' = InWork(d)
           /\ \A d \in Clients \ {c} : Link(d)' /\ Transit(d)' /\ Counted(d)' /\ RepliesKept(d)
           /\ UNCHANGED <<spc, job_count, transaction_numbers>>
<1>1. /\ UNCHANGED <<spc, table, stats, faults>> /\ input' = input
      /\ UNCHANGED <<fds, idx, job_count, transaction_numbers>>
  BY DEF Alone, server, table, stats
<1>2. SInv'
  <2>1. /\ \A d \in Clients : \/ phase'[d] = phase[d]
                              \/ phase[d] = "none" /\ phase'[d] = "backlog" /\ Listening
        /\ \A d \in Clients : up[d].rst => up'[d].rst
    BY DEF Alone, Same
  <2> QED
    BY <1>1, <2>1, ClientsSInv DEF CInv, Alone
<1>3. Types'
  <2>1. \A d \in Clients : next'[d] \in 1 .. Len(input'[d]) + 1
    BY <1>1 DEF Alone, Same, CInv, Types, TypeOK
  <2> QED
    BY <1>1, <1>2, <2>1 DEF Alone, CInv, Types, TypeOK, SInv
<1>4. \A d \in Clients : InWork(d)' = InWork(d)
  BY <1>1 DEF InWork
<1>5. ASSUME NEW d \in Clients \ {c}
      PROVE  Link(d)' /\ Transit(d)' /\ Counted(d)' /\ RepliesKept(d)
  <2>1. Same(d) /\ Link(d) /\ Transit(d) /\ Counted(d)
    BY DEF Alone, CInv
  <2>2. Listening' => Listening
    BY <1>1 DEF Listening
  <2>3. Link(d)' /\ Transit(d)' /\ Counted(d)'
    BY <1>1, <1>4, <2>1, <2>2, SameKept
  <2>4. RepliesKept(d)
    BY <2>1 DEF RepliesKept, Replies, Same
  <2> QED
    BY <2>3, <2>4
<1> QED
  BY <1>1, <1>2, <1>3, <1>4, <1>5

\* Such a step that gives no reply to c.
LEMMA AloneCInv ==
    ASSUME CInv, NEW c \in Clients, Alone(c), RepliesKept(c),
           cpc'[c] \in {"connect", "read", "recv"} => cpc[c] \in {"connect", "read", "recv"},
           Link(c)', Transit(c)', Counted(c)'
    PROVE  CInv'
<1>1. /\ Types' /\ SInv' /\ UNCHANGED <<job_count, transaction_numbers>>
      /\ \A d \in Clients : Link(d)' /\ Transit(d)' /\ Counted(d)' /\ RepliesKept(d)
  BY AloneFacts
<1>2. \A d \in Clients : cpc'[d] \in {"connect", "read", "recv"} =>
                             cpc[d] \in {"connect", "read", "recv"}
  BY DEF Alone, Same
<1>3. \A d \in Clients : Credited(d) /\ Numbered(d)
  BY DEF CInv
<1>4. \A d \in Clients : Credited(d)' /\ Numbered(d)'
  BY ONLY <1>1, <1>2, <1>3, NumbersKept
<1> QED
  BY <1>1, <1>4 DEF CInv

-----------------------------------------------------------------------------
(* The steps of a client.                                                  *)

LEMMA ConnectCInv ==
    ASSUME CInv, NEW c \in Clients, Connect(c)
    PROVE  CInv'
<1>1. /\ cpc[c] = "connect" /\ Listening /\ phase[c] = "none"
      /\ phase' = [phase EXCEPT ![c] = "backlog"] /\ cpc' = [cpc EXCEPT ![c] = "read"]
      /\ UNCHANGED <<server, up, down, input, next, transaction_count, log>>
      /\ spc' = spc
  BY DEF Connect, Goto, CInv, Link, server
<1>2. Alone(c)
  BY <1>1 DEF Alone, Same, CInv, Types, TypeOK, STypeOK
<1>3. phase'[c] = "backlog" /\ cpc'[c] = "read"
  BY <1>1 DEF CInv, Types, TypeOK, STypeOK
<1>4. /\ up'[c] = Quiet /\ down'[c] = Quiet /\ up[c] = Quiet /\ down[c] = Quiet
      /\ Quiet.data = <<>> /\ Quiet.fin = FALSE /\ Quiet.rst = FALSE
  BY <1>1 DEF CInv, Link, Quiet
<1>5. Link(c)'
  BY <1>1, <1>3, <1>4 DEF Link, PeerClosed, Listening
<1>6. InWork(c)' = 0
  <2>1. SInv /\ InWork(c)' = InWork(c)
    BY <1>2, AloneFacts DEF CInv
  <2>2. ~(spc = "work" /\ fds[idx] = c)
    <3>1. SUFFICES ASSUME spc = "work", fds[idx] = c PROVE FALSE
      OBVIOUS
    <3>2. idx \in DOMAIN fds /\ Table
      BY <1>1, <3>1 DEF SInv, STypeOK, current_size, Place, CInv
    <3> QED
      BY <1>1, <3>1, <3>2 DEF Table
  <2> QED
    BY <2>1, <2>2 DEF InWork
<1>7. Transit(c)'
  <2>1. Outstanding(c)' = 0
    BY <1>4, <1>6 DEF Outstanding
  <2> QED
    BY <1>3, <1>4, <1>6, <2>1 DEF Transit, Waiting
<1>8. Counted(c)'
  <2>1. log[c] = <<>> /\ transaction_count[c] = 0 /\ transaction_count'[c] = 0 /\ log'[c] = <<>>
    BY <1>1 DEF CInv, Counted
  <2>2. Replies(c)' = {}
    BY <2>1 DEF Replies
  <2> QED
    BY <1>3, <2>1, <2>2, FS_EmptySet DEF Counted
<1>9. RepliesKept(c)
  BY <1>1 DEF RepliesKept, Replies
<1> QED
  BY <1>1, <1>2, <1>5, <1>7, <1>8, <1>9, AloneCInv

LEMMA ConnectFailsCInv ==
    ASSUME CInv, NEW c \in Clients, ConnectFails(c)
    PROVE  CInv'
<1>1. /\ cpc[c] = "connect" /\ cpc' = [cpc EXCEPT ![c] = "failed"]
      /\ UNCHANGED <<svars, input, next, transaction_count>>
      /\ UNCHANGED <<server, phase, up, down, spc>>
  BY DEF ConnectFails, Goto, svars, conns, server
<1> DEFINE e == [kind |-> "sent", number |-> 0]
<1>2. Types /\ Log(c, e) /\ e \in LogEntry /\ e.kind # "done"
  BY DEF ConnectFails, CInv, LogEntry, Outcome
<1> HIDE DEF e
<1>3. /\ log' \in [Clients -> Seq(LogEntry)] /\ \A d \in Clients \ {c} : log'[d] = log[d]
      /\ Replies(c)' = Replies(c) /\ \A k \in 1 .. Len(log[c]) : log'[c][k] = log[c][k]
  BY <1>2, LogFacts
<1>4. Alone(c)
  BY <1>1, <1>3 DEF Alone, Same, CInv, Types, TypeOK, STypeOK
<1>5. cpc'[c] = "failed"
  BY <1>1 DEF CInv, Types, TypeOK
<1>6. Link(c)'
  BY <1>1, <1>5 DEF CInv, Link, PeerClosed, Listening
<1>7. Transit(c)'
  <2>1. InWork(c)' = InWork(c)
    BY <1>4, AloneFacts
  <2>2. Outstanding(c)' = Outstanding(c)
    BY <1>1, <2>1 DEF Outstanding
  <2> QED
    BY <1>1, <1>5, <2>1, <2>2 DEF CInv, Transit, Waiting
<1>8. Counted(c)'
  BY <1>5 DEF Counted
<1>9. RepliesKept(c)
  BY <1>1, <1>3, RepliesFinite DEF RepliesKept, CInv
<1> QED
  BY <1>4, <1>5, <1>6, <1>7, <1>8, <1>9, AloneCInv

\* A client that reads its input has no request anywhere.
LEMMA ReadingFacts ==
    ASSUME CInv, NEW c \in Clients, cpc[c] = "read"
    PROVE  up[c].data = <<>> /\ down[c].data = <<>> /\ InWork(c) = 0
<1>1. Outstanding(c) = 0 /\ InWork(c) \in {0, 1}
  BY ClientTypes DEF CInv, Transit
<1> QED
  BY <1>1, UpTypes, DownTypes DEF CInv, SInv, Outstanding

LEMMA TransactionFacts ==
    ASSUME CInv, NEW c \in Clients, Transaction(c)
    PROVE  /\ cpc[c] = "read" /\ LineOf(c) \in Request
           /\ next' \in [Clients -> Nat] /\ next'[c] \in 1 .. Len(input[c]) + 1
           /\ next'[c] = next[c] + 1 /\ next'[c] > 1 /\ LineOf(c) = input[c][next'[c] - 1]
           /\ transaction_count' \in [Clients -> Nat]
           /\ transaction_count'[c] = transaction_count[c] + 1
           /\ \A d \in Clients \ {c} : /\ next'[d] = next[d]
                                       /\ transaction_count'[d] = transaction_count[d]
<1>1. /\ next \in [Clients -> Nat] /\ transaction_count \in [Clients -> Nat]
      /\ Len(input[c]) \in Nat /\ next[c] \in Nat /\ 1 <= next[c]
  BY ClientTypes DEF CInv, Types, TypeOK
<1>2. /\ cpc[c] = "read" /\ LineOf(c) \in Request /\ next[c] <= Len(input[c])
      /\ next' = [next EXCEPT ![c] = @ + 1]
      /\ transaction_count' = [transaction_count EXCEPT ![c] = @ + 1]
  BY DEF Transaction, HasLine
<1>3. next'[c] = next[c] + 1 /\ (next[c] + 1) - 1 = next[c]
  BY <1>1, <1>2
<1> QED
  BY <1>1, <1>2, <1>3 DEF LineOf

\* The client ends, and takes its connection with it.
LEMMA HangCInv ==
    ASSUME CInv, NEW c \in Clients, NEW l \in {"done", "failed", "killed"}, Hang(c, l),
           cpc[c] \in {"read", "recv"}, UNCHANGED <<server, input>>,
           Transaction(c) \/ UNCHANGED <<next, transaction_count>>,
           UNCHANGED log \/ \E n \in Nat : Log(c, [kind |-> "sent", number |-> n])
    PROVE  CInv'
<1>1. /\ phase' = phase /\ down' = down /\ up' \in [Clients -> Stream(Request)]
      /\ up'[c].data = up[c].data
      /\ up'[c].fin = (up[c].fin \/ down[c].data = <<>>)
      /\ up'[c].rst = (up[c].rst \/ down[c].data # <<>>)
      /\ cpc'[c] = l
      /\ \A d \in Clients \ {c} : up'[d] = up[d] /\ cpc'[d] = cpc[d]
  BY HangFacts DEF CInv, Types, TypeOK
<1>2. cpc' \in [Clients -> {"connect", "read", "recv", "done", "failed", "killed"}]
  BY DEF Hang, Goto, CInv, Types, TypeOK
<1>3. /\ log' \in [Clients -> Seq(LogEntry)] /\ \A d \in Clients \ {c} : log'[d] = log[d]
      /\ Replies(c)' = Replies(c) /\ \A k \in Replies(c) : log'[c][k] = log[c][k]
  <2>1. CASE UNCHANGED log
    BY <2>1 DEF CInv, Types, TypeOK, Replies
  <2>2. ASSUME NEW n \in Nat, Log(c, [kind |-> "sent", number |-> n])
        PROVE  /\ log' \in [Clients -> Seq(LogEntry)] /\ \A d \in Clients \ {c} : log'[d] = log[d]
               /\ Replies(c)' = Replies(c) /\ \A k \in Replies(c) : log'[c][k] = log[c][k]
    <3> DEFINE e == [kind |-> "sent", number |-> n]
    <3>1. Types /\ Log(c, e) /\ e \in LogEntry /\ e.kind # "done"
      BY <2>2 DEF CInv, LogEntry, Outcome
    <3> HIDE DEF e
    <3> QED
      BY <3>1, LogFacts, RepliesFinite
  <2> QED
    BY <2>1, <2>2
<1>4. /\ next' \in [Clients -> Nat] /\ next'[c] \in 1 .. Len(input[c]) + 1
      /\ transaction_count' \in [Clients -> Nat]
      /\ \A d \in Clients \ {c} : /\ next'[d] = next[d]
                                  /\ transaction_count'[d] = transaction_count[d]
      /\ next'[c] = next[c] \/ up[c].data = <<>>
  <2>1. CASE Transaction(c)
    BY <2>1, TransactionFacts, ReadingFacts
  <2>2. CASE UNCHANGED <<next, transaction_count>>
    BY <2>2 DEF CInv, Types, TypeOK
  <2> QED
    BY <2>1, <2>2
<1>5. Alone(c)
  BY <1>1, <1>2, <1>3, <1>4 DEF Alone, Same, CInv, Types, TypeOK, STypeOK
<1>6. InWork(c)' = InWork(c) /\ spc' = spc
  BY <1>5, AloneFacts
<1>7. Link(c)'
  BY <1>1, <1>6 DEF CInv, Link, PeerClosed
<1>8. Transit(c)'
  <2>1. Outstanding(c)' = Outstanding(c) /\ ~Waiting(c)'
    BY <1>1, <1>6 DEF Outstanding, Waiting
  <2>2. up'[c].rst => up'[c].data = <<>> /\ InWork(c) = 0
    <3>1. SUFFICES ASSUME up'[c].rst PROVE up[c].data = <<>> /\ InWork(c) = 0
      BY <1>1
    <3>2. down[c].data # <<>> /\ Outstanding(c) <= 1 /\ InWork(c) \in {0, 1}
      BY <1>1, <3>1, ClientTypes DEF CInv, Link, PeerClosed, Transit
    <3> QED
      BY <3>2, UpTypes, DownTypes DEF CInv, SInv, Outstanding
  <2>3. Transit(c) /\ input' = input
    BY DEF CInv
  <2> QED
    BY <1>1, <1>4, <1>6, <2>1, <2>2, <2>3 DEF Transit
<1>9. Counted(c)'
  BY <1>1 DEF Counted
<1>10. RepliesKept(c)
  BY <1>1, <1>3 DEF RepliesKept
<1> QED
  BY <1>1, <1>5, <1>7, <1>8, <1>9, <1>10, AloneCInv

LEMMA EndsCInv ==
    ASSUME CInv, NEW c \in Clients,
           SendFails(c) \/ ReceiveFails(c) \/ BadLine(c) \/ EndOfInput(c) \/ Kill(c)
    PROVE  CInv'
<1>1. transaction_count[c] \in Nat
  BY ClientTypes DEF CInv
<1>2. CASE SendFails(c)
  <2>1. transaction_count'[c] \in Nat /\ cpc[c] = "read"
    BY <1>2, TransactionFacts DEF SendFails
  <2> QED
    BY <1>2, <2>1, HangCInv DEF SendFails, Return
<1>3. CASE ReceiveFails(c)
  BY <1>1, <1>3, HangCInv DEF ReceiveFails, Return
<1>4. CASE BadLine(c)
  BY <1>4, HangCInv DEF BadLine
<1>5. CASE EndOfInput(c)
  BY <1>1, <1>5, HangCInv DEF EndOfInput, Return
<1>6. CASE Kill(c)
  BY <1>6, HangCInv DEF Kill
<1> QED
  BY <1>2, <1>3, <1>4, <1>5, <1>6

LEMMA SleepLineCInv ==
    ASSUME CInv, NEW c \in Clients, SleepLine(c)
    PROVE  CInv'
<1>1. /\ cpc[c] = "read" /\ next[c] <= Len(input[c]) /\ next' = [next EXCEPT ![c] = @ + 1]
      /\ UNCHANGED <<svars, cpc, input, transaction_count>>
      /\ UNCHANGED <<server, phase, up, down, spc>>
  BY DEF SleepLine, HasLine, svars, conns, server
<1>2. /\ log' \in [Clients -> Seq(LogEntry)] /\ \A d \in Clients \ {c} : log'[d] = log[d]
      /\ Replies(c)' = Replies(c) /\ \A k \in Replies(c) : log'[c][k] = log[c][k]
  <2>1. CASE log' = log
    BY <2>1 DEF CInv, Types, TypeOK, Replies
  <2>2. ASSUME log' # log
        PROVE  Log(c, LineOf(c)) /\ LineOf(c) \in LogEntry /\ LineOf(c).kind # "done"
    BY <2>2, PauseLogged DEF SleepLine, CInv
  <2> QED
    BY <2>1, <2>2, LogFacts, RepliesFinite DEF CInv
<1>3. /\ next' \in [Clients -> Nat] /\ next'[c] \in 1 .. Len(input[c]) + 1
      /\ \A d \in Clients \ {c} : next'[d] = next[d]
  BY <1>1, ClientTypes DEF CInv, Types
<1>4. Alone(c)
  BY <1>1, <1>2, <1>3 DEF Alone, Same, CInv, Types, TypeOK, STypeOK
<1>5. InWork(c)' = InWork(c)
  BY <1>4, AloneFacts
<1>6. Link(c)'
  BY <1>1 DEF CInv, Link, PeerClosed, Listening
<1>7. Transit(c)'
  <2>1. Outstanding(c)' = Outstanding(c) /\ ~Waiting(c)' /\ up[c].data = <<>>
    BY <1>1, <1>5, ReadingFacts DEF Outstanding, Waiting
  <2> QED
    BY <1>1, <1>5, <2>1 DEF CInv, Transit
<1>8. Counted(c)'
  BY <1>1, <1>2 DEF CInv, Counted, PeerClosed
<1>9. RepliesKept(c)
  BY <1>1, <1>2 DEF RepliesKept
<1> QED
  BY <1>1, <1>4, <1>6, <1>7, <1>8, <1>9, AloneCInv

\* A client that is told of the end while it waits has nothing on its way.
LEMMA NothingFacts ==
    ASSUME CInv, NEW c \in Clients, down[c].fin
    PROVE  up[c].data = <<>> /\ InWork(c) = 0
<1>1. up[c].data = <<>> /\ phase[c] = "closed"
  BY DEF CInv, Transit, Link, PeerClosed
<1>2. ~(spc = "work" /\ fds[idx] = c)
  <2>1. SUFFICES ASSUME spc = "work", fds[idx] = c PROVE FALSE
    OBVIOUS
  <2>2. idx \in DOMAIN fds /\ Table
    BY <2>1 DEF SInv, STypeOK, current_size, Place, CInv, Listening
  <2> QED
    BY <1>1, <2>1, <2>2 DEF Table
<1> QED
  BY <1>1, <1>2 DEF InWork

LEMMA ReceiveNothingCInv ==
    ASSUME CInv, NEW c \in Clients, ReceiveNothing(c)
    PROVE  CInv'
<1>1. /\ cpc[c] = "recv" /\ cpc' = [cpc EXCEPT ![c] = "read"]
      /\ down[c].data = <<>> /\ down[c].fin
      /\ UNCHANGED <<svars, input, next, transaction_count, log>>
      /\ UNCHANGED <<server, phase, up, down, spc, fds, idx>>
  BY DEF ReceiveNothing, LogJob, FirstCharacter, Goto, svars, conns, server, table
<1>2. cpc'[c] = "read"
  BY <1>1 DEF CInv, Types, TypeOK
<1>3. Alone(c)
  BY <1>1 DEF Alone, Same, CInv, Types, TypeOK, STypeOK
<1>4. InWork(c)' = InWork(c)
  BY <1>3, AloneFacts
<1>5. up[c].data = <<>> /\ InWork(c) = 0
  BY <1>1, NothingFacts
<1>6. Link(c)'
  BY <1>1, <1>2 DEF CInv, Link, PeerClosed, Listening
<1>7. Transit(c)'
  <2>1. Outstanding(c)' = 0 /\ ~Waiting(c)'
    BY <1>1, <1>2, <1>4, <1>5 DEF Outstanding, Waiting
  <2> QED
    BY <1>1, <1>2, <1>4, <1>5, <2>1 DEF CInv, Transit
<1>8. Counted(c)'
  BY <1>1, <1>2 DEF Counted, PeerClosed
<1>9. RepliesKept(c)
  BY <1>1 DEF RepliesKept, Replies
<1> QED
  BY <1>1, <1>3, <1>6, <1>7, <1>8, <1>9, AloneCInv

LEMMA SendCInv ==
    ASSUME CInv, NEW c \in Clients, Send(c)
    PROVE  CInv'
<1> DEFINE e == LineOf(c)
           d2 == Append(up[c].data, LineOf(c))
<1>1. /\ Transaction(c) /\ ~PeerClosed(down[c])
      /\ up' = [up EXCEPT ![c] = [up[c] EXCEPT !.data = d2]]
      /\ Log(c, e) /\ e \in LogEntry /\ e.kind # "done"
      /\ cpc' = [cpc EXCEPT ![c] = "recv"]
      /\ UNCHANGED <<server, phase, down, input>>
  BY RequestLogged DEF Send, Transaction, Goto
<1>2. /\ cpc[c] = "read" /\ LineOf(c) \in Request
      /\ next' \in [Clients -> Nat] /\ next'[c] \in 1 .. Len(input[c]) + 1
      /\ next'[c] > 1 /\ LineOf(c) = input[c][next'[c] - 1]
      /\ transaction_count' \in [Clients -> Nat]
      /\ transaction_count'[c] = transaction_count[c] + 1
      /\ \A d \in Clients \ {c} : /\ next'[d] = next[d]
                                  /\ transaction_count'[d] = transaction_count[d]
  BY <1>1, TransactionFacts
<1>3. up[c].data = <<>> /\ down[c].data = <<>> /\ InWork(c) = 0
  BY <1>2, ReadingFacts
<1>4. d2 \in Seq(Request) /\ Len(d2) = 1 /\ d2[1] = LineOf(c) /\ d2 # <<>>
  BY <1>2, <1>3
<1> HIDE DEF e, d2
<1>5. /\ up \in [Clients -> Stream(Request)] /\ up[c] \in Stream(Request)
      /\ cpc \in [Clients -> {"connect", "read", "recv", "done", "failed", "killed"}]
  BY DEF CInv, Types, TypeOK, STypeOK
<1>6. PICK t \in Stream(Request) : /\ t = [up[c] EXCEPT !.data = d2]
                                   /\ t.data = d2 /\ t.fin = up[c].fin /\ t.rst = up[c].rst
  BY ONLY <1>4, <1>5, DataFacts
<1>7. up' = [up EXCEPT ![c] = t]
  BY <1>1, <1>6
<1>8. /\ up' \in [Clients -> Stream(Request)] /\ \A d \in Clients \ {c} : up'[d] = up[d]
      /\ up'[c].data = d2 /\ up'[c].fin = up[c].fin /\ up'[c].rst = up[c].rst
      /\ cpc' \in [Clients -> {"connect", "read", "recv", "done", "failed", "killed"}]
      /\ cpc'[c] = "recv" /\ \A d \in Clients \ {c} : cpc'[d] = cpc[d]
  BY <1>1, <1>5, <1>6, <1>7
<1>9. /\ log' \in [Clients -> Seq(LogEntry)] /\ \A d \in Clients \ {c} : log'[d] = log[d]
      /\ Replies(c)' = Replies(c) /\ \A k \in Replies(c) : log'[c][k] = log[c][k]
  BY <1>1, LogFacts, RepliesFinite DEF CInv
<1>10. Alone(c)
  BY <1>1, <1>2, <1>8, <1>9 DEF Alone, Same, CInv, Types, TypeOK, STypeOK
<1>11. InWork(c)' = 0 /\ spc' = spc
  BY <1>3, <1>10, AloneFacts
<1>12. Link(c)'
  BY <1>1, <1>2, <1>8, <1>11 DEF CInv, Link, PeerClosed, Listening
<1>13. Transit(c)'
  <2>1. Outstanding(c)' = 1
    BY <1>1, <1>3, <1>4, <1>8, <1>11 DEF Outstanding
  <2>2. ~up'[c].rst /\ ~down'[c].fin
    BY <1>1, <1>2, <1>8 DEF CInv, Link, PeerClosed
  <2> QED
    BY <1>1, <1>2, <1>4, <1>8, <2>1, <2>2 DEF Transit
<1>14. Counted(c)'
  BY <1>1, <1>2, <1>8, <1>9 DEF CInv, Counted, PeerClosed
<1>15. RepliesKept(c)
  BY <1>1, <1>9 DEF RepliesKept
<1> QED
  BY <1>2, <1>10, <1>12, <1>13, <1>14, <1>15, AloneCInv

LEMMA SendTooLateCInv ==
    ASSUME CInv, NEW c \in Clients, SendTooLate(c)
    PROVE  CInv'
<1> DEFINE e == LineOf(c)
<1>1. /\ Transaction(c) /\ down[c].fin
      /\ down' = [down EXCEPT ![c] = [down[c] EXCEPT !.rst = TRUE]]
      /\ Log(c, e) /\ e \in LogEntry /\ e.kind # "done"
      /\ cpc' = [cpc EXCEPT ![c] = "recv"]
      /\ UNCHANGED <<server, phase, up, input>>
  BY RequestLogged DEF SendTooLate, Transaction, Goto
<1> HIDE DEF e
<1>2. /\ cpc[c] = "read"
      /\ next' \in [Clients -> Nat] /\ next'[c] \in 1 .. Len(input[c]) + 1
      /\ next'[c] > 1
      /\ transaction_count' \in [Clients -> Nat]
      /\ \A d \in Clients \ {c} : /\ next'[d] = next[d]
                                  /\ transaction_count'[d] = transaction_count[d]
  BY <1>1, TransactionFacts
<1>3. up[c].data = <<>> /\ down[c].data = <<>> /\ InWork(c) = 0
  BY <1>2, ReadingFacts
<1>4. /\ down \in [Clients -> Stream(Nat)] /\ down[c] \in Stream(Nat)
      /\ cpc \in [Clients -> {"connect", "read", "recv", "done", "failed", "killed"}]
  BY DEF CInv, Types, TypeOK, STypeOK
<1>5. PICK t \in Stream(Nat) : /\ t = [down[c] EXCEPT !.rst = TRUE]
                               /\ t.data = down[c].data /\ t.fin = down[c].fin /\ t.rst = TRUE
  BY ONLY <1>4, ResetFacts
<1>6. down' = [down EXCEPT ![c] = t]
  BY <1>1, <1>5
<1>7. /\ down' \in [Clients -> Stream(Nat)] /\ \A d \in Clients \ {c} : down'[d] = down[d]
      /\ down'[c].data = down[c].data /\ down'[c].fin = down[c].fin /\ down'[c].rst = TRUE
      /\ cpc' \in [Clients -> {"connect", "read", "recv", "done", "failed", "killed"}]
      /\ cpc'[c] = "recv" /\ \A d \in Clients \ {c} : cpc'[d] = cpc[d]
  BY <1>1, <1>4, <1>5, <1>6
<1>8. /\ log' \in [Clients -> Seq(LogEntry)] /\ \A d \in Clients \ {c} : log'[d] = log[d]
      /\ Replies(c)' = Replies(c) /\ \A k \in Replies(c) : log'[c][k] = log[c][k]
  BY <1>1, LogFacts, RepliesFinite DEF CInv
<1>9. Alone(c)
  BY <1>1, <1>2, <1>7, <1>8 DEF Alone, Same, CInv, Types, TypeOK, STypeOK
<1>10. InWork(c)' = 0 /\ spc' = spc
  BY <1>3, <1>9, AloneFacts
<1>11. Link(c)'
  BY <1>1, <1>2, <1>7, <1>10 DEF CInv, Link, PeerClosed, Listening
<1>12. Transit(c)'
  <2>1. Outstanding(c)' = 0
    BY <1>1, <1>3, <1>7, <1>10 DEF Outstanding
  <2> QED
    BY <1>1, <1>2, <1>3, <1>7, <1>10, <2>1 DEF Transit, PeerClosed
<1>13. Counted(c)'
  BY <1>7 DEF Counted, PeerClosed
<1>14. RepliesKept(c)
  BY <1>7, <1>8 DEF RepliesKept
<1> QED
  BY <1>2, <1>9, <1>11, <1>12, <1>13, <1>14, AloneCInv

\* A client has one request, or reply, in one place at most.
LEMMA OnlyOne ==
    ASSUME CInv, NEW c \in Clients
    PROVE  /\ up[c].data # <<>> =>
                 /\ Len(up[c].data) = 1 /\ InWork(c) = 0 /\ down[c].data = <<>>
                 /\ Outstanding(c) = 1
           /\ InWork(c) # 0 =>
                 up[c].data = <<>> /\ InWork(c) = 1 /\ down[c].data = <<>>
           /\ down[c].data # <<>> =>
                 /\ Len(down[c].data) = 1 /\ DOMAIN down[c].data = {1} /\ down[c].data[1] \in Nat
                 /\ up[c].data = <<>> /\ InWork(c) = 0
<1>1. PICK a \in Nat : a = Len(up[c].data) /\ (up[c].data = <<>> <=> a = 0)
  BY UpTypes DEF CInv, SInv
<1>2. PICK b \in Nat : b = InWork(c)
  BY ClientTypes DEF CInv
<1>3. PICK d \in Nat : d = Len(down[c].data) /\ (down[c].data = <<>> <=> d = 0)
  BY DownTypes DEF CInv, SInv
<1>4. Outstanding(c) = a + b + d /\ a + b + d <= 1
  <2>1. Outstanding(c) = a + b + d
    BY <1>1, <1>2, <1>3 DEF Outstanding
  <2> QED
    BY <2>1 DEF CInv, Transit
<1>5. /\ a # 0 => a = 1 /\ b = 0 /\ d = 0 /\ a + b + d = 1
      /\ b # 0 => a = 0 /\ b = 1 /\ d = 0
      /\ d # 0 => a = 0 /\ b = 0 /\ d = 1
  BY ONLY <1>4
<1>6. ASSUME up[c].data # <<>>
      PROVE  /\ Len(up[c].data) = 1 /\ InWork(c) = 0 /\ down[c].data = <<>>
             /\ Outstanding(c) = 1
  <2>1. a = 1 /\ b = 0 /\ d = 0 /\ a + b + d = 1
    BY <1>1, <1>5, <1>6
  <2> QED
    BY <1>1, <1>2, <1>3, <1>4, <2>1
<1>7. ASSUME InWork(c) # 0
      PROVE  up[c].data = <<>> /\ InWork(c) = 1 /\ down[c].data = <<>>
  <2>1. a = 0 /\ b = 1 /\ d = 0
    BY <1>2, <1>5, <1>7
  <2> QED
    BY <1>1, <1>2, <1>3, <2>1
<1>8. ASSUME down[c].data # <<>>
      PROVE  /\ Len(down[c].data) = 1 /\ DOMAIN down[c].data = {1} /\ down[c].data[1] \in Nat
             /\ up[c].data = <<>> /\ InWork(c) = 0
  <2>1. a = 0 /\ b = 0 /\ d = 1
    BY <1>3, <1>5, <1>8
  <2>2. Len(down[c].data) = 1 /\ down[c].data \in Seq(Nat)
    BY <1>3, <2>1, DownTypes DEF CInv, SInv
  <2>3. DOMAIN down[c].data = {1} /\ down[c].data[1] \in Nat
    BY <2>2
  <2> QED
    BY <1>1, <1>2, <2>1, <2>2, <2>3
<1> QED
  BY <1>6, <1>7, <1>8

\* The reply goes from the socket to the log.
LEMMA ReceiveReplyCInv ==
    ASSUME CInv, NEW c \in Clients, ReceiveReply(c)
    PROVE  CInv'
<1> DEFINE number == down[c].data[1]
           e == [kind |-> "done", number |-> number]
           none == <<>>
           n == Len(log[c])
<1>1. /\ down[c] \in Stream(Nat) /\ down \in [Clients -> Stream(Nat)] /\ none \in Seq(Nat)
      /\ cpc \in [Clients -> {"connect", "read", "recv", "done", "failed", "killed"}]
  BY DEF CInv, Types, TypeOK, STypeOK
<1>2. /\ cpc[c] = "recv" /\ Len(down[c].data) = 1 /\ DOMAIN down[c].data = {1} /\ number \in Nat
      /\ Len(up[c].data) = 0 /\ up[c].data = <<>> /\ InWork(c) = 0
  <2>1. cpc[c] = "recv" /\ down[c].data # <<>>
    BY DEF ReceiveReply
  <2>2. up[c].data = <<>> => Len(up[c].data) = 0
    OBVIOUS
  <2> QED
    BY <2>1, <2>2, OnlyOne
<1>3. /\ down' = [down EXCEPT ![c] = [down[c] EXCEPT !.data = none]] /\ none = <<>>
      /\ Log(c, e) /\ e \in LogEntry /\ e.kind = "done" /\ e.number = number
      /\ cpc' = [cpc EXCEPT ![c] = "read"]
      /\ UNCHANGED <<server, phase, up, input, next, transaction_count>>
  <2>1. Head(down[c].data) = number
    BY <1>2
  <2> QED
    BY <1>2, <2>1 DEF ReceiveReply, LogJob, FirstCharacter, LogEntry, Outcome, Goto
<1> HIDE DEF e, none
<1>4. PICK t \in Stream(Nat) : /\ t = [down[c] EXCEPT !.data = none]
                               /\ t.data = none /\ t.fin = down[c].fin /\ t.rst = down[c].rst
  BY ONLY <1>1, DataFacts
<1>5. down' = [down EXCEPT ![c] = t]
  BY <1>3, <1>4
<1>6. /\ down' \in [Clients -> Stream(Nat)] /\ \A d \in Clients \ {c} : down'[d] = down[d]
      /\ down'[c].data = <<>> /\ down'[c].fin = down[c].fin /\ down'[c].rst = down[c].rst
      /\ cpc' \in [Clients -> {"connect", "read", "recv", "done", "failed", "killed"}]
      /\ cpc'[c] = "read" /\ \A d \in Clients \ {c} : cpc'[d] = cpc[d]
  BY <1>1, <1>3, <1>4, <1>5
<1>7. /\ log' \in [Clients -> Seq(LogEntry)] /\ \A d \in Clients \ {c} : log'[d] = log[d]
      /\ Replies(c)' = Replies(c) \cup {n + 1} /\ \A k \in 1 .. n : log'[c][k] = log[c][k]
      /\ log'[c][n + 1] = e
  BY <1>3, LogFacts DEF CInv
<1>8. /\ IsFiniteSet(Replies(c)) /\ Replies(c) \subseteq 1 .. n /\ n \in Nat
      /\ Cardinality(Replies(c)) \in Nat
  BY RepliesFinite, ClientTypes DEF CInv
<1> HIDE DEF n, number
<1>9. Cardinality(Replies(c)') = Cardinality(Replies(c)) + 1
  <2>1. n + 1 \notin Replies(c)
    BY <1>8
  <2> QED
    BY <1>7, <1>8, <2>1, FS_AddElement
<1>10. Alone(c)
  <2>1. next \in [Clients -> Nat] /\ next[c] \in 1 .. Len(input[c]) + 1
    BY DEF CInv, Types, TypeOK
  <2> QED
    BY <1>3, <1>6, <1>7, <2>1 DEF Alone, Same, CInv, Types, TypeOK, STypeOK
<1>11. /\ InWork(c)' = 0 /\ spc' = spc /\ Types' /\ SInv'
       /\ \A d \in Clients \ {c} : Link(d)' /\ Transit(d)' /\ Counted(d)' /\ RepliesKept(d)
       /\ UNCHANGED <<job_count, transaction_numbers>>
  BY <1>2, <1>10, AloneFacts
<1>12. Link(c)'
  BY <1>2, <1>3, <1>6, <1>11 DEF CInv, Link, PeerClosed, Listening
<1>13. Transit(c)'
  <2>1. Outstanding(c)' = 0
    BY <1>2, <1>3, <1>6, <1>11 DEF Outstanding
  <2> QED
    BY <1>2, <1>3, <1>6, <1>11, <2>1 DEF CInv, Transit, Waiting
<1>14. Counted(c)'
  BY <1>2, <1>3, <1>6, <1>9 DEF CInv, Counted, PeerClosed
<1>15. Credited(c)'
  <2> SUFFICES ASSUME transaction_numbers[Garbled] = 0
               PROVE  transaction_numbers[c] = Cardinality(Replies(c)') + Len(down'[c].data)
    BY <1>11 DEF Credited
  <2>1. Len(down'[c].data) = 0
    BY <1>6
  <2>2. transaction_numbers[c] = Cardinality(Replies(c)) + Len(down[c].data)
    BY <1>2 DEF CInv, Credited
  <2> QED
    BY <1>2, <1>8, <1>9, <2>1, <2>2
<1>16. Numbers(c)' = Numbers(c)
  <2>1. Numbers(c) = {log[c][k].number : k \in Replies(c)} \cup {number}
    BY <1>2 DEF Numbers, number
  <2>2. Numbers(c)' = {log'[c][k].number : k \in Replies(c)'}
    BY <1>6 DEF Numbers
  <2>3. {log'[c][k].number : k \in Replies(c)'}
            = {log[c][k].number : k \in Replies(c)} \cup {number}
    BY <1>3, <1>7, <1>8
  <2> QED
    BY <2>1, <2>2, <2>3
<1>17. \A d \in Clients \ {c} : Numbers(d)' = Numbers(d) /\ Credited(d)'
  BY <1>6, <1>11 DEF Numbers, RepliesKept, CInv, Credited
<1>18. Numbered(c)'
  <2>1. /\ \A j, k \in Replies(c) : j < k => log[c][j].number < log[c][k].number
        /\ \A j \in Replies(c) : log[c][j].number < number
    BY <1>2 DEF CInv, Numbered, number
  <2>2. \A j, k \in Replies(c)' : j < k => log'[c][j].number < log'[c][k].number
    <3> SUFFICES ASSUME NEW j \in Replies(c)', NEW k \in Replies(c)', j < k
                 PROVE  log'[c][j].number < log'[c][k].number
      OBVIOUS
    <3>1. j \in Replies(c) /\ log'[c][j] = log[c][j]
      BY <1>7, <1>8
    <3>2. CASE k = n + 1
      BY <1>3, <1>7, <2>1, <3>1, <3>2
    <3>3. CASE k \in Replies(c)
      BY <1>7, <1>8, <2>1, <3>1, <3>3
    <3> QED
      BY <1>7, <3>2, <3>3
  <2>3. DOMAIN down'[c].data = {}
    BY <1>6
  <2>4. Numbers(c)' \subseteq 1 .. job_count'
    BY <1>11, <1>16 DEF CInv, Numbered
  <2>5. \A d \in Clients \ {c} : Numbers(c)' \cap Numbers(d)' = {}
    BY <1>16, <1>17 DEF CInv, Numbered
  <2> QED
    BY <2>2, <2>3, <2>4, <2>5 DEF Numbered
<1>19. ASSUME NEW d \in Clients \ {c} PROVE Numbered(d)'
  <2>1. RepliesKept(d) /\ Numbered(d) /\ job_count' = job_count
    BY <1>11 DEF CInv
  <2>2. \A b \in Clients : Numbers(b)' = Numbers(b)
    BY <1>16, <1>17
  <2>3. /\ Numbers(d)' \subseteq 1 .. job_count'
        /\ \A b \in Clients \ {d} : Numbers(d)' \cap Numbers(b)' = {}
    BY <2>1, <2>2 DEF Numbered
  <2>4. /\ \A j, k \in Replies(d)' : j < k => log'[d][j].number < log'[d][k].number
        /\ \A j \in Replies(d)' : \A k \in DOMAIN down'[d].data :
              log'[d][j].number < down'[d].data[k]
    BY <2>1 DEF Numbered, RepliesKept
  <2> QED
    BY <2>3, <2>4 DEF Numbered
<1> QED
  BY <1>11, <1>12, <1>13, <1>14, <1>15, <1>17, <1>18, <1>19 DEF CInv

\* Every step of a client keeps the invariant.
LEMMA ClientCInv ==
    ASSUME CInv, NEW c \in Clients, ClientStep(c) \/ Kill(c)
    PROVE  CInv'
BY ConnectCInv, ConnectFailsCInv, SendCInv, SendTooLateCInv, EndsCInv, ReceiveReplyCInv,
   ReceiveNothingCInv, SleepLineCInv DEF ClientStep

-----------------------------------------------------------------------------
(* The steps of the server.                                                *)

\* The connection that the scan is at, or works for, is open.
LEMMA AtOpen ==
    ASSUME SInv, NEW c \in Clients, spc \in {"scan", "work"}, idx <= current_size, fds[idx] = c
    PROVE  phase[c] = "open"
<1>1. idx \in DOMAIN fds
  BY DEF SInv, STypeOK, current_size
<1>2. Table
  BY DEF SInv, Listening
<1> QED
  BY <1>1, <1>2 DEF Table

\* A step of the server leaves the clients' counts, logs and types alone.
LEMMA ServerFacts ==
    ASSUME CInv, ServerStep \/ ServerFault, UNCHANGED cvars
    PROVE  /\ Types' /\ SInv'
           /\ UNCHANGED <<cpc, input, next, transaction_count, log>>
           /\ \A d \in Clients : Replies(d)' = Replies(d)
<1>1. SInv' /\ UNCHANGED <<cpc, input, next, transaction_count, log>>
  BY ServerSInv DEF CInv, cvars
<1>2. Types'
  BY <1>1 DEF CInv, Types, TypeOK, SInv
<1> QED
  BY <1>1, <1>2 DEF Replies

\* When it does no job and makes no reply, only Link and Transit are to be seen to.
LEMMA ServerCInv ==
    ASSUME CInv, ServerStep \/ ServerFault, UNCHANGED cvars,
           UNCHANGED <<job_count, transaction_numbers>>,
           \A d \in Clients : /\ down'[d].data = down[d].data
                              /\ PeerClosed(down[d]) => PeerClosed(down'[d])
                              /\ Link(d)' /\ Transit(d)'
    PROVE  CInv'
<1>1. /\ Types' /\ SInv'
      /\ UNCHANGED <<cpc, input, next, transaction_count, log>>
      /\ \A d \in Clients : Replies(d)' = Replies(d)
  BY ServerFacts
<1>2. \A d \in Clients : RepliesKept(d)
  BY <1>1 DEF RepliesKept
<1>3. \A d \in Clients : Credited(d)' /\ Numbered(d)'
  BY <1>1, <1>2, NumbersKept DEF CInv
<1>4. ASSUME NEW d \in Clients PROVE Counted(d)'
  <2>1. Counted(d) /\ (PeerClosed(down[d]) => PeerClosed(down'[d])) /\ Replies(d)' = Replies(d)
    BY <1>1 DEF CInv
  <2>2. ~PeerClosed(down[d])' => ~PeerClosed(down[d])
    BY <2>1 DEF PeerClosed
  <2> QED
    BY <1>1, <2>1, <2>2 DEF Counted
<1> QED
  BY <1>1, <1>3, <1>4 DEF CInv

\* A step that leaves every connection alone.
LEMMA IdleCInv ==
    ASSUME CInv, UNCHANGED cvars,
           \/ Setup \/ SetupFails \/ Poll \/ PollTimesOut \/ PollFails \/ ScanError
           \/ ScanListener \/ AcceptDone \/ AcceptFails \/ EndScan
           \/ \E c \in Clients : ScanIdle(c) \/ ScanPollFails(c)
    PROVE  CInv'
<1>1. /\ ServerStep \/ ServerFault
      /\ UNCHANGED <<job_count, transaction_numbers, phase, up, down>>
      /\ spc # "work" /\ spc' # "work" /\ spc' # "setup"
      /\ spc = "setup" \/ Listening
  BY DEF ServerStep, ServerFault, Setup, SetupFails, Poll, PollTimesOut, PollFails, ScanError,
         ScanListener, AcceptDone, AcceptFails, EndScan, ScanIdle, ScanPollFails,
         AtClient, AtEntry, Listening, stats, conns
<1>2. ASSUME NEW d \in Clients PROVE Link(d)' /\ Transit(d)'
  <2>1. Same(d) /\ InWork(d)' = InWork(d)
    BY <1>1 DEF Same, InWork, cvars
  <2> QED
    BY <1>1, <2>1, SameKept DEF CInv
<1>3. \A d \in Clients : PeerClosed(down'[d]) <=> PeerClosed(down[d])
  BY <1>1 DEF PeerClosed
<1> QED
  BY <1>1, <1>2, <1>3, ServerCInv

\* A step of the scan that concerns the connection of c alone.
LEMMA ScanOthers ==
    ASSUME CInv, UNCHANGED cvars, NEW c \in Clients,
           spc \in {"scan", "accept"}, spc' \in {"scan", "accept", "work"},
           spc' = "work" => fds'[idx'] = c,
           \A d \in Clients \ {c} : phase'[d] = phase[d] /\ up'[d] = up[d] /\ down'[d] = down[d]
    PROVE  \A d \in Clients \ {c} : /\ Link(d)' /\ Transit(d)'
                                    /\ down'[d].data = down[d].data
                                    /\ PeerClosed(down[d]) => PeerClosed(down'[d])
<1> SUFFICES ASSUME NEW d \in Clients \ {c}
             PROVE  /\ Link(d)' /\ Transit(d)'
                    /\ down'[d].data = down[d].data
                    /\ PeerClosed(down[d]) => PeerClosed(down'[d])
  OBVIOUS
<1>1. Same(d) /\ InWork(d)' = InWork(d)
  BY DEF Same, InWork, cvars
<1>2. Listening
  BY DEF Listening
<1> QED
  BY <1>1, <1>2, SameKept DEF CInv, Same

LEMMA DropCInv ==
    ASSUME CInv, UNCHANGED cvars, NEW c \in Clients, ScanHup(c) \/ ScanClosed(c)
    PROVE  CInv'
<1>1. /\ CloseConnection(c) /\ spc' = spc
      /\ spc = "scan" /\ fds[idx] = c /\ idx <= current_size
      /\ UNCHANGED <<job_count, transaction_numbers>>
      /\ ServerStep \/ ServerFault
      /\ revents[idx] = "hup" \/ PeerClosed(up[c])
  BY DEF ScanHup, ScanClosed, Drop, AtClient, AtEntry, stats, ServerStep
<1>2. phase[c] = "open"
  BY <1>1, AtOpen DEF CInv
<1>3. PeerClosed(up[c])
  <2>1. ASSUME revents[idx] = "hup" PROVE up[c].rst
    <3>1. idx \in DOMAIN revents /\ idx >= idx
      BY <1>1 DEF CInv, SInv, STypeOK, current_size
    <3> QED
      BY <1>1, <2>1, <3>1 DEF CInv, SInv, Reports
  <2> QED
    BY <1>1, <2>1 DEF PeerClosed
<1>4. cpc[c] \notin {"connect", "read", "recv"}
  BY <1>3 DEF CInv, Link
<1>5. /\ up' = up /\ phase'[c] = "closed" /\ down'[c] = Closing(up[c], down[c])
      /\ \A d \in Clients \ {c} : phase'[d] = phase[d] /\ down'[d] = down[d]
  BY <1>1, CloseConnectionFacts DEF CInv, SInv
<1>6. /\ down'[c].data = down[c].data
      /\ down'[c].fin = (down[c].fin \/ up[c].data = <<>>)
      /\ down'[c].rst = (down[c].rst \/ up[c].data # <<>>)
  <2>1. up[c] \in Stream(Request) /\ down[c] \in Stream(Nat)
    BY UpTypes, DownTypes DEF CInv, SInv
  <2> QED
    BY <1>5, <2>1, ClosingFacts
<1>7. PeerClosed(down'[c])
  BY <1>6 DEF PeerClosed
<1>8. \A d \in Clients \ {c} : /\ Link(d)' /\ Transit(d)'
                               /\ down'[d].data = down[d].data
                               /\ PeerClosed(down[d]) => PeerClosed(down'[d])
  BY <1>1, <1>5, ScanOthers
<1>9. cpc' = cpc /\ input' = input /\ next' = next
  BY DEF cvars
<1>10. Link(c)'
  <2>1. PeerClosed(down[c])'
    BY <1>7 DEF PeerClosed
  <2>2. (cpc[c] \in {"connect", "read", "recv"})' = FALSE /\ (spc' # "setup")
    BY <1>1, <1>4, <1>9
  <2> QED
    BY <1>5, <1>9, <1>4, <2>1, <2>2 DEF Link
<1>11. Transit(c)'
  <2>1. InWork(c)' = InWork(c)
    BY <1>1 DEF InWork
  <2>2. Outstanding(c)' = Outstanding(c)
    BY <1>5, <1>6, <2>1 DEF Outstanding
  <2> QED
    BY <1>4, <1>5, <1>6, <1>9, <2>1, <2>2 DEF CInv, Transit, Waiting
<1> QED
  BY <1>1, <1>6, <1>7, <1>8, <1>10, <1>11, ServerCInv

LEMMA AcceptCInv ==
    ASSUME CInv, UNCHANGED cvars, NEW c \in Clients, Accept(c)
    PROVE  CInv'
<1>1. /\ spc = "accept" /\ phase[c] = "backlog" /\ phase' = [phase EXCEPT ![c] = "open"]
      /\ UNCHANGED <<spc, up, down, job_count, transaction_numbers>>
      /\ ServerStep \/ ServerFault
  BY DEF Accept, Backlog, stats, ServerStep
<1>2. phase'[c] = "open" /\ \A d \in Clients \ {c} : phase'[d] = phase[d]
  BY <1>1 DEF CInv, SInv, STypeOK
<1>3. cpc' = cpc /\ input' = input /\ next' = next
  BY DEF cvars
<1>4. \A d \in Clients \ {c} : Link(d)' /\ Transit(d)'
  BY <1>1, <1>2, ScanOthers
<1>5. Link(c)'
  BY <1>1, <1>2, <1>3 DEF CInv, Link, PeerClosed
<1>6. Transit(c)'
  <2>1. InWork(c)' = InWork(c)
    BY <1>1 DEF InWork
  <2>2. Outstanding(c)' = Outstanding(c) /\ Waiting(c)' = Waiting(c)
    BY <1>1, <1>3, <2>1 DEF Outstanding, Waiting
  <2> QED
    BY <1>1, <1>3, <2>1, <2>2 DEF CInv, Transit, PeerClosed
<1> QED
  BY <1>1, <1>4, <1>5, <1>6, ServerCInv DEF PeerClosed

LEMMA ReceiveCInv ==
    ASSUME CInv, UNCHANGED cvars, NEW c \in Clients, ScanJob(c) \/ ScanNegative(c)
    PROVE  CInv'
<1>1. /\ Receive(c) /\ spc = "scan" /\ fds[idx] = c /\ idx <= current_size
      /\ UNCHANGED <<fds, job_count, transaction_numbers, phase, down>>
      /\ \/ spc' = "work" /\ idx' = idx
         \/ spc' = "scan" /\ ~IsJob(up[c].data[1])
      /\ ServerStep \/ ServerFault
  <2>1. Head(up[c].data) = up[c].data[1] /\ Receive(c)
    BY ReceiveFacts DEF CInv, SInv, ScanJob, ScanNegative
  <2> QED
    BY <2>1 DEF ScanJob, ScanNegative, Receive, AtClient, AtEntry, table, ServerStep
<1>2. /\ up'[c].data = <<>> /\ up'[c].fin = up[c].fin /\ up'[c].rst = up[c].rst
      /\ \A d \in Clients \ {c} : up'[d] = up[d]
      /\ Len(up[c].data) \in Nat \ {0} /\ up[c].data # <<>>
  <2>1. Receive(c) => up[c].data # <<>>
    BY DEF Receive
  <2> QED
    BY <1>1, <2>1, ReceiveFacts DEF CInv, SInv
<1>3. phase[c] = "open"
  BY <1>1, AtOpen DEF CInv
<1>4. cpc' = cpc /\ input' = input /\ next' = next
  BY DEF cvars
<1>5. /\ Outstanding(c) <= 1 /\ Len(down[c].data) \in Nat /\ InWork(c) = 0
      /\ ~up[c].rst
  BY <1>1, <1>2, DownTypes DEF CInv, SInv, Transit, InWork
<1>6. Len(up[c].data) = 1 /\ Len(down[c].data) = 0 /\ Outstanding(c) = 1
  <2>1. down[c].data = <<>> /\ Len(up[c].data) = 1 /\ Outstanding(c) = 1
    BY <1>2, OnlyOne
  <2> QED
    BY <2>1
<1>7. \A d \in Clients \ {c} : Link(d)' /\ Transit(d)'
  BY <1>1, <1>2, ScanOthers
<1>8. Link(c)'
  BY <1>1, <1>2, <1>3, <1>4 DEF CInv, Link, PeerClosed, Listening
<1>9. Transit(c)'
  <2>1. Outstanding(c)' = InWork(c)'
    <3>1. Len(up'[c].data) = 0 /\ Len(down'[c].data) = 0
      BY <1>1, <1>2, <1>6
    <3>2. InWork(c)' \in Nat
      BY DEF InWork
    <3> QED
      BY <3>1, <3>2 DEF Outstanding
  <2>2. InWork(c)' \in {0, 1} /\ (spc' = "work" => InWork(c)' = 1)
    BY <1>1 DEF InWork
  <2>3. cpc[c] # "read"
    BY <1>6 DEF CInv, Transit
  <2>4. spc' = "scan" => ~Waiting(c)'
    BY <1>1, <1>2, <1>4 DEF CInv, Transit, Waiting
  <2>5. Transit(c)
    BY DEF CInv
  <2> QED
    BY <1>1, <1>2, <1>4, <1>5, <2>1, <2>2, <2>3, <2>4, <2>5 DEF Transit, Waiting, PeerClosed
<1> QED
  BY <1>1, <1>7, <1>8, <1>9, ServerCInv DEF PeerClosed

\* The job in hand is done, numbered, credited and answered.
LEMMA FinishCInv ==
    ASSUME CInv, UNCHANGED cvars, Finish
    PROVE  CInv'
<1>1. PICK c \in Clients : c = fds[idx]
  BY DEF Finish, CInv, SInv, Place
<1> DEFINE n == job_count + 1
<1>2. /\ spc = "work" /\ spc' = "scan" /\ idx <= current_size
      /\ SendNumber(c, n) /\ job_count' = n /\ n \in Nat /\ job_count \in Nat
      /\ phase' = phase /\ machine \in {c, Garbled}
      /\ ServerStep \/ ServerFault
  BY <1>1 DEF Finish, Reply, CInv, SInv, STypeOK, Place, ServerStep
<1>3. /\ \A d \in Clients \ {c} : up'[d] = up[d] /\ down'[d] = down[d]
      /\ up'[c].data = up[c].data /\ up'[c].fin = up[c].fin
      /\ down'[c].fin = down[c].fin /\ down'[c].rst = down[c].rst
      /\ PeerClosed(up[c]) => up'[c].rst /\ down' = down
      /\ ~PeerClosed(up[c]) => up' = up /\ down'[c].data = Append(down[c].data, n)
  BY <1>2, SendNumberFacts DEF CInv, SInv
<1>4. /\ Types' /\ SInv' /\ UNCHANGED <<cpc, input, next, transaction_count, log>>
      /\ \A d \in Clients : Replies(d)' = Replies(d)
  BY <1>2, ServerFacts
<1>5. phase[c] = "open"
  BY <1>1, <1>2, AtOpen DEF CInv
<1>6. up[c].data = <<>> /\ down[c].data = <<>>
  <2>1. InWork(c) # 0
    BY <1>1, <1>2 DEF InWork
  <2> QED
    BY <2>1, OnlyOne
<1>7. \A d \in Clients : InWork(d)' = 0
  BY <1>2 DEF InWork
<1> HIDE DEF n
<1>8. ~PeerClosed(up[c]) => /\ Len(down'[c].data) = 1 /\ down'[c].data[1] = n
                            /\ DOMAIN down'[c].data = {1}
  <2>1. Append(<<>>, n) = <<n>>
    OBVIOUS
  <2>2. Len(<<n>>) = 1 /\ <<n>>[1] = n /\ DOMAIN <<n>> = {1}
    OBVIOUS
  <2>3. ~PeerClosed(up[c]) => down'[c].data = <<n>>
    BY <1>3, <1>6, <2>1
  <2> QED
    BY <2>2, <2>3
<1>9. PeerClosed(up[c]) => cpc[c] \notin {"connect", "read", "recv"}
  BY DEF CInv, Link
<1>10. ASSUME NEW d \in Clients \ {c}
       PROVE  Link(d)' /\ Transit(d)' /\ Counted(d)' /\ RepliesKept(d)
  <2>1. Same(d) /\ InWork(d)' = InWork(d) /\ Listening
    BY <1>1, <1>2, <1>3, <1>4, <1>7 DEF Same, InWork, Listening
  <2>2. RepliesKept(d)
    BY <1>3, <1>4 DEF RepliesKept
  <2> QED
    BY <1>2, <2>1, <2>2, SameKept DEF CInv
<1>11. PeerClosed(down[c])' = PeerClosed(down[c])
  BY <1>3 DEF PeerClosed
<1>12. Link(c)'
  <2>1. Link(c) /\ Listening
    BY <1>2 DEF CInv, Listening
  <2>2. cpc'[c] \in {"connect", "read", "recv"} => ~PeerClosed(up[c])'
    BY <1>3, <1>4, <1>9 DEF PeerClosed
  <2> QED
    BY <1>2, <1>4, <1>5, <1>11, <2>1, <2>2 DEF Link, Listening
<1>13. Transit(c)'
  <2>1. Transit(c) /\ InWork(c)' = 0
    BY <1>7 DEF CInv
  <2>2. CASE PeerClosed(up[c])
    <3>1. Outstanding(c)' = 0
      <4>1. Len(up'[c].data) = 0 /\ Len(down'[c].data) = 0
        BY <1>3, <1>6, <2>2
      <4> QED
        BY <2>1, <4>1 DEF Outstanding
    <3> QED
      BY <1>3, <1>4, <1>6, <1>9, <2>1, <2>2, <3>1 DEF Transit, Waiting
  <2>3. CASE ~PeerClosed(up[c])
    <3>1. Outstanding(c)' = 1
      <4>1. Len(up'[c].data) = 0 /\ Len(down'[c].data) = 1
        BY <1>3, <1>6, <1>8, <2>3
      <4> QED
        BY <2>1, <4>1 DEF Outstanding
    <3>2. cpc[c] # "read"
      <4>1. InWork(c) = 1
        BY <1>1, <1>2 DEF InWork
      <4> QED
        BY <4>1, ReadingFacts
    <3> QED
      BY <1>3, <1>4, <1>6, <2>1, <2>3, <3>1, <3>2 DEF Transit
  <2> QED
    BY <2>2, <2>3
<1>14. Counted(c)'
  BY <1>4, <1>11 DEF CInv, Counted
<1>15. /\ transaction_numbers'[machine] = transaction_numbers[machine] + 1
       /\ \A m \in Machines \ {machine} : transaction_numbers'[m] = transaction_numbers[m]
       /\ \A m \in Machines : transaction_numbers[m] \in Nat
       /\ machine \in Machines /\ Garbled \in Machines /\ Garbled \notin Clients
       /\ Clients \subseteq Machines
  BY ServerAssumption DEF Finish, UpdateStats, CInv, SInv, STypeOK, Machines
<1>16. ASSUME NEW d \in Clients PROVE Credited(d)'
  <2> SUFFICES ASSUME transaction_numbers'[Garbled] = 0, cpc[d] \in {"connect", "read", "recv"}
               PROVE  transaction_numbers'[d] = Cardinality(Replies(d)) + Len(down'[d].data)
    BY <1>4 DEF Credited
  <2>1. machine = c /\ transaction_numbers[Garbled] = 0
    BY <1>2, <1>15
  <2>2. transaction_numbers[d] = Cardinality(Replies(d)) + Len(down[d].data)
    BY <2>1 DEF CInv, Credited
  <2>3. CASE d = c
    <3>1. Len(down'[c].data) = 1 /\ Len(down[c].data) = 0
      BY <1>6, <1>8, <1>9, <2>3
    <3>2. Cardinality(Replies(c)) \in Nat
      BY RepliesFinite DEF CInv
    <3> QED
      BY <1>15, <2>1, <2>2, <2>3, <3>1, <3>2
  <2>4. CASE d # c
    BY <1>3, <1>15, <2>1, <2>2, <2>4
  <2> QED
    BY <2>3, <2>4
<1>17. /\ Numbers(c)' \subseteq Numbers(c) \cup {n}
       /\ \A d \in Clients \ {c} : Numbers(d)' = Numbers(d)
  <2>1. Numbers(c)' \subseteq Numbers(c) \cup {n}
    <3>1. {log'[c][k].number : k \in Replies(c)'} = {log[c][k].number : k \in Replies(c)}
      BY <1>4
    <3>2. {down'[c].data[k] : k \in DOMAIN down'[c].data}
              \subseteq {down[c].data[k] : k \in DOMAIN down[c].data} \cup {n}
      BY <1>3, <1>8
    <3> QED
      BY <3>1, <3>2 DEF Numbers
  <2>2. \A d \in Clients \ {c} : Numbers(d)' = Numbers(d)
    BY <1>3, <1>4 DEF Numbers
  <2> QED
    BY <2>1, <2>2
<1>18. /\ \A d \in Clients : Numbers(d) \subseteq 1 .. job_count
       /\ n = job_count + 1 /\ \A d \in Clients : n \notin Numbers(d)
  <2>1. \A d \in Clients : Numbers(d) \subseteq 1 .. job_count
    BY DEF CInv, Numbered
  <2>2. n \notin 1 .. job_count
    BY <1>2 DEF n
  <2> QED
    BY <2>1, <2>2 DEF n
<1>19. \A d \in Clients : Numbers(d)' \subseteq 1 .. job_count'
  BY <1>2, <1>17, <1>18
<1>20. \A d \in Clients : \A b \in Clients \ {d} : Numbers(d)' \cap Numbers(b)' = {}
  <2>1. \A d \in Clients : \A b \in Clients \ {d} : Numbers(d) \cap Numbers(b) = {}
    BY DEF CInv, Numbered
  <2>2. ASSUME NEW b \in Clients \ {c} PROVE Numbers(c)' \cap Numbers(b)' = {}
    BY <1>17, <1>18, <2>1
  <2> QED
    BY <1>17, <2>1, <2>2
<1>21. ASSUME NEW d \in Clients
       PROVE  /\ \A j, k \in Replies(d)' : j < k => log'[d][j].number < log'[d][k].number
              /\ \A j \in Replies(d)' : \A k \in DOMAIN down'[d].data :
                    log'[d][j].number < down'[d].data[k]
  <2>1. Numbered(d)
    BY DEF CInv
  <2>2. CASE down'[d] = down[d]
    BY <1>4, <2>1, <2>2 DEF Numbered
  <2>3. CASE down'[d] # down[d]
    <3>1. d = c /\ ~PeerClosed(up[c])
      BY <1>3, <2>3
    <3>2. \A j \in Replies(c) : log[c][j].number \in 1 .. job_count
      <4>1. \A j \in Replies(c) : log[c][j].number \in Numbers(c)
        BY DEF Numbers
      <4> QED
        BY <1>18, <4>1
    <3>3. \A j \in Replies(c) : log[c][j].number < n
      BY <1>2, <1>18, <3>2
    <3> QED
      BY <1>4, <1>8, <2>1, <3>1, <3>3 DEF Numbered
  <2> QED
    BY <2>2, <2>3
<1>22. \A d \in Clients : Numbered(d)'
  BY <1>19, <1>20, <1>21 DEF Numbered
<1> QED
  BY <1>4, <1>10, <1>12, <1>13, <1>14, <1>16, <1>22 DEF CInv

\* All connections are closed at once; u is what the server has not received.
LEMMA ClosesCInv ==
    ASSUME CInv, UNCHANGED cvars, Cleanup \/ \E c \in Clients : ScanSpaced(c)
    PROVE  CInv'
<1>1. PICK u \in [Clients -> Stream(Request)] :
         /\ CloseAll(u) /\ up' = u
         /\ \A d \in Clients : /\ u[d].fin = up[d].fin /\ u[d].rst = up[d].rst
                               /\ u[d] = up[d] \/ (u[d].data = <<>> /\ phase[d] = "open")
         /\ spc \in {"scan", "cleanup"} /\ spc' \in {"done", "aborted"}
         /\ UNCHANGED <<job_count, transaction_numbers>>
  <2>1. CASE Cleanup
    <3>1. up \in [Clients -> Stream(Request)]
      BY DEF CInv, SInv, STypeOK
    <3> QED
      BY <2>1, <3>1 DEF Cleanup, stats
  <2>2. ASSUME NEW c \in Clients, ScanSpaced(c)
        PROVE  /\ CloseAll(up') /\ up' \in [Clients -> Stream(Request)]
               /\ \A d \in Clients : /\ up'[d].fin = up[d].fin /\ up'[d].rst = up[d].rst
                                     /\ up'[d] = up[d] \/ (up'[d].data = <<>> /\ phase[d] = "open")
               /\ spc = "scan" /\ spc' = "aborted"
               /\ UNCHANGED <<job_count, transaction_numbers>>
    <3>1. Receive(c) /\ CloseAll(up') /\ spc' = "aborted" /\ UNCHANGED stats
      BY <2>2 DEF ScanSpaced
    <3>2. spc = "scan" /\ fds[idx] = c /\ idx <= current_size
      BY <3>1 DEF Receive, AtClient, AtEntry
    <3>3. phase[c] = "open"
      BY <3>2, AtOpen DEF CInv
    <3>4. /\ up' \in [Clients -> Stream(Request)]
          /\ up'[c].data = <<>> /\ up'[c].fin = up[c].fin /\ up'[c].rst = up[c].rst
          /\ \A d \in Clients \ {c} : up'[d] = up[d]
      BY <3>1, ReceiveFacts DEF CInv, SInv
    <3> QED
      BY <3>1, <3>2, <3>3, <3>4 DEF stats
  <2> QED
    BY <2>1, <2>2
<1>2. \A c \in Clients :
         /\ phase'[c] = IF phase[c] = "none" THEN "none" ELSE "closed"
         /\ down'[c].data = down[c].data
         /\ phase[c] = "open" => down'[c] = Closing(u[c], down[c])
         /\ phase[c] = "backlog" => down'[c].rst /\ down'[c].fin = down[c].fin
         /\ phase[c] \in {"none", "closed"} => down'[c] = down[c]
  BY <1>1, CloseAllFacts DEF CInv, SInv
<1>3. ServerStep \/ ServerFault
  BY DEF ServerStep
<1>4. cpc' = cpc /\ input' = input /\ next' = next
  BY DEF cvars
<1>5. ASSUME NEW d \in Clients
      PROVE  /\ down'[d].data = down[d].data
             /\ PeerClosed(down[d]) => PeerClosed(down'[d])
             /\ Link(d)' /\ Transit(d)'
  <2>1. /\ down[d] \in Stream(Nat) /\ u[d] \in Stream(Request)
        /\ phase[d] \in {"none", "backlog", "open", "closed"}
    BY DownTypes, ClientTypes DEF CInv, SInv
  <2>2. phase[d] = "open" => /\ down'[d].fin = (down[d].fin \/ u[d].data = <<>>)
                             /\ down'[d].rst = (down[d].rst \/ u[d].data # <<>>)
    BY <1>2, <2>1, ClosingFacts
  <2>3. Link(d) /\ Transit(d)
    BY DEF CInv
  <2>4. PeerClosed(down'[d]) <=> phase[d] # "none"
    <3>1. phase[d] = "none" => ~PeerClosed(down'[d])
      BY <1>2, <2>3 DEF Link
    <3>2. phase[d] = "closed" => PeerClosed(down'[d])
      BY <1>2, <2>3 DEF Link
    <3>3. phase[d] \in {"open", "backlog"} => PeerClosed(down'[d])
      BY <1>2, <2>2 DEF PeerClosed
    <3> QED
      BY <2>1, <3>1, <3>2, <3>3
  <2>5. PeerClosed(down[d]) => PeerClosed(down'[d])
    BY <2>3, <2>4 DEF Link
  <2>6. Link(d)'
    <3>1. PeerClosed(up[d])' = PeerClosed(up[d])
      BY <1>1 DEF PeerClosed
    <3>2. PeerClosed(down[d])' <=> phase[d] # "none"
      BY <2>4 DEF PeerClosed
    <3>3. ~Listening' /\ spc' # "setup"
      BY <1>1 DEF Listening
    <3> QED
      BY <1>1, <1>2, <1>4, <2>1, <2>3, <3>1, <3>2, <3>3 DEF Link
  <2>7. Transit(d)'
    <3>1. InWork(d)' = 0 /\ InWork(d) = 0
      BY <1>1 DEF InWork
    <3>2. /\ Outstanding(d)' <= 1
          /\ Outstanding(d) = 0 => Outstanding(d)' = 0
      <4>1. PICK a \in Nat : a = Len(up[d].data)
        BY UpTypes DEF CInv, SInv
      <4>2. PICK e \in Nat : e = Len(down[d].data)
        BY DownTypes DEF CInv, SInv
      <4>3. PICK b \in {0, a} : b = Len(up'[d].data)
        BY <1>1, <4>1
      <4>4. Outstanding(d) = a + 0 + e
        BY <3>1, <4>1, <4>2 DEF Outstanding
      <4>5. Outstanding(d)' = b + 0 + e
        <5>1. Outstanding(d)' = Len(up'[d].data) + InWork(d)' + Len(down'[d].data)
          BY DEF Outstanding
        <5>2. Len(down'[d].data) = e
          BY <1>2, <4>2
        <5> QED
          BY <3>1, <4>3, <5>1, <5>2
      <4>6. a + 0 + e <= 1
        BY <2>3, <4>4 DEF Transit
      <4>7. b + 0 + e <= 1 /\ (a + 0 + e = 0 => b + 0 + e = 0)
        BY ONLY <4>6
      <4> QED
        BY <4>4, <4>5, <4>7
    <3>3. ~(Waiting(d)' /\ ~PeerClosed(down[d])')
      BY <1>4, <2>3, <2>4 DEF Link, Waiting, PeerClosed
    <3>4. up[d].data = <<>> => up'[d].data = <<>>
      BY <1>1
    <3>5. down'[d].fin => up'[d].data = <<>>
      BY <1>1, <1>2, <2>1, <2>2, <2>3, <3>4 DEF Transit
    <3>6. up'[d].data # <<>> => up'[d] = up[d]
      BY <1>1
    <3> QED
      BY <1>1, <1>4, <2>3, <3>1, <3>2, <3>3, <3>4, <3>5, <3>6 DEF Transit
  <2> QED
    BY <1>2, <2>5, <2>6, <2>7
<1> QED
  BY <1>1, <1>3, <1>5, ServerCInv

-----------------------------------------------------------------------------
(* All of them.                                                            *)

LEMMA InitCInv == Init => CInv
<1> SUFFICES ASSUME Init PROVE CInv
  OBVIOUS
<1>1. SInv
  BY SInitSInv DEF Init
<1>2. Types
  <2>1. input \in [Clients -> Inputs] /\ \A c \in Clients : Len(input[c]) \in Nat
    BY InputsAssumption DEF Init
  <2>2. \A c \in Clients : next[c] \in 1 .. Len(input[c]) + 1
    BY <2>1 DEF Init
  <2>3. log \in [Clients -> Seq(LogEntry)]
    BY DEF Init
  <2> QED
    BY <1>1, <2>1, <2>2, <2>3 DEF Init, Types, TypeOK, SInv
<1>3. ASSUME NEW c \in Clients
      PROVE  Link(c) /\ Transit(c) /\ Counted(c) /\ Credited(c) /\ Numbered(c)
  <2>1. /\ spc = "setup" /\ phase[c] = "none" /\ cpc[c] = "connect"
        /\ up[c] = Quiet /\ down[c] = Quiet /\ transaction_count[c] = 0 /\ log[c] = <<>>
        /\ job_count = 0 /\ transaction_numbers[c] = 0
    BY DEF Init, SInit, Machines
  <2>2. Quiet.data = <<>> /\ Quiet.fin = FALSE /\ Quiet.rst = FALSE
    BY DEF Quiet
  <2>3. Link(c)
    BY <2>1, <2>2 DEF Link, PeerClosed, Listening
  <2>4. InWork(c) = 0 /\ Outstanding(c) = 0
    BY <2>1, <2>2 DEF InWork, Outstanding
  <2>5. Transit(c)
    BY <2>1, <2>2, <2>4 DEF Transit, Waiting
  <2>6. Replies(c) = {} /\ Cardinality(Replies(c)) = 0
    BY <2>1, FS_EmptySet DEF Replies
  <2>7. Counted(c) /\ Credited(c)
    BY <2>1, <2>2, <2>6 DEF Counted, Credited
  <2>8. Numbers(c) = {}
    BY <2>1, <2>2, <2>6 DEF Numbers
  <2>9. DOMAIN down[c].data = {}
    BY <2>1, <2>2
  <2> QED
    BY <2>3, <2>5, <2>6, <2>7, <2>8, <2>9 DEF Numbered
<1> QED
  BY <1>1, <1>2, <1>3 DEF CInv

LEMMA NextCInv == CInv /\ [Next]_vars => CInv'
<1> SUFFICES ASSUME CInv, [Next]_vars PROVE CInv'
  OBVIOUS
<1>1. ASSUME (ServerStep \/ ServerFault) /\ UNCHANGED cvars PROVE CInv'
  BY <1>1, IdleCInv, DropCInv, AcceptCInv, ReceiveCInv, FinishCInv, ClosesCInv
     DEF ServerStep, ServerFault
<1>2. ASSUME NEW c \in Clients, ClientStep(c) \/ Kill(c) PROVE CInv'
  BY <1>2, ClientCInv
<1>3. ASSUME UNCHANGED vars PROVE CInv'
  <2>1. /\ UNCHANGED <<spc, fds, revents, idx, run_server, compress_array, machine, stale,
                       job_count, transaction_numbers, faults, phase, up, down>>
        /\ UNCHANGED cvars
    BY <1>3 DEF vars, svars, table, stats, conns
  <2>2. SInv' /\ Types'
    BY <2>1 DEF CInv, SInv, STypeOK, SizeBounded, Accepted, Listening, Table, Place, Reports,
                Credit, current_size, Types, TypeOK, cvars
  <2>3. ASSUME NEW c \in Clients PROVE Link(c)' /\ Transit(c)' /\ Counted(c)'
    <3>1. Same(c) /\ InWork(c)' = InWork(c) /\ (Listening' => Listening)
      BY <2>1 DEF Same, InWork, Listening, cvars
    <3> QED
      BY <2>1, <3>1, SameKept DEF CInv
  <2>4. \A c \in Clients : RepliesKept(c)
    BY <2>1 DEF RepliesKept, Replies, cvars
  <2>5. \A c \in Clients : Credited(c)' /\ Numbered(c)'
    BY <2>1, <2>4, NumbersKept DEF CInv, cvars
  <2> QED
    BY <2>2, <2>3, <2>5 DEF CInv
<1> QED
  BY <1>1, <1>2, <1>3 DEF Next

\* The two programs keep the inductive invariant: the table, the connections
\* and the logs fit together after every step (server.cpp, client.cpp).
THEOREM Invariant == Spec => []CInv
BY InitCInv, NextCInv, PTL DEF Spec

\* Every variable keeps its type, for any clients and inputs, whatever is
\* killed and whatever fails (server.cpp, client.cpp).
THEOREM TypeCorrect == Spec => []TypeOK
<1>1. CInv => TypeOK
  BY DEF CInv, Types
<1> QED
  BY <1>1, Invariant, PTL

\* The table of descriptors is exact, however many clients come, go and die in
\* one round, and never outgrows its array (server.cpp 117-139, 208-229).
THEOREM TableCorrect == Spec => []TableExact
<1>1. CInv => TableExact
  BY SInvTableExact DEF CInv
<1> QED
  BY <1>1, Invariant, PTL

\* The server never sends into a connection that was reset (server.cpp 201).
THEOREM SendsSafely == Spec => []NoSendAfterReset
<1>1. ASSUME CInv PROVE NoSendAfterReset
  <2> SUFFICES ASSUME spc = "work" PROVE fds[idx] \in Clients /\ ~up[fds[idx]].rst
    BY DEF NoSendAfterReset
  <2>1. fds[idx] \in Clients
    BY <1>1 DEF CInv, SInv, Place
  <2>2. PICK c \in Clients : c = fds[idx]
    BY <2>1
  <2>3. InWork(c) = 1 /\ Transit(c)
    BY <1>1, <2>2 DEF InWork, CInv
  <2> QED
    BY <2>2, <2>3 DEF Transit
<1> QED
  BY <1>1, Invariant, PTL

\* No request is lost, doubled or run together with another (server.cpp
\* 155-207, client.cpp 45-53).
THEOREM RequestsKept == Spec => []OneRequest
<1>1. CInv => OneRequest
  BY DEF CInv, Transit, OneRequest, Connected
<1> QED
  BY <1>1, Invariant, PTL

\* A client goes on only with its reply, or after the server closed its
\* connection (client.cpp 53-57).
THEOREM RepliesAwaited == Spec => []RepliedUnlessClosed
<1>1. CInv => RepliedUnlessClosed
  BY DEF CInv, Counted, RepliedUnlessClosed
<1> QED
  BY <1>1, Invariant, PTL

\* The jobs are credited to the machines that sent them (server.cpp 190-201,
\* 263-270).
THEOREM JobsCredited == Spec => []CreditedToSender
<1>1. CInv => CreditedToSender
  BY DEF CInv, SInv, Credit, Credited, CreditedToSender
<1> QED
  BY <1>1, Invariant, PTL

\* No number is given twice, and each client's numbers increase (server.cpp
\* 195-201).
THEOREM NumbersUnique == Spec => []RepliesNumbered
<1>1. ASSUME CInv PROVE RepliesNumbered
  <2> SUFFICES ASSUME NEW c \in Clients, NEW k \in Replies(c)
               PROVE  /\ log[c][k].number \in 1 .. job_count
                      /\ \A j \in Replies(c) : j < k => log[c][j].number < log[c][k].number
                      /\ \A d \in Clients \ {c} : \A j \in Replies(d) :
                            log[d][j].number # log[c][k].number
    BY DEF RepliesNumbered
  <2>1. \A d \in Clients : \A j \in Replies(d) : log[d][j].number \in Numbers(d)
    BY DEF Numbers
  <2>2. \A d \in Clients \ {c} : Numbers(c) \cap Numbers(d) = {}
    BY <1>1 DEF CInv, Numbered
  <2>3. \A d \in Clients \ {c} : \A j \in Replies(d) : log[d][j].number # log[c][k].number
    BY <2>1, <2>2
  <2> QED
    BY <1>1, <2>1, <2>3 DEF CInv, Numbered
<1> QED
  BY <1>1, Invariant, PTL

\* A client that waits for a job is in the backlog or polled, so that poll
\* does not time out before its job is taken (server.cpp 104-107).
LEMMA QuietAtTimeout ==
    ASSUME CInv, PollTimesOut, NEW c \in Clients, Waiting(c)
    PROVE  down[c].data # <<>>
<1> SUFFICES ASSUME down[c].data = <<>> PROVE FALSE
  OBVIOUS
<1>1. /\ spc = "poll" /\ ~SomethingReady /\ Listening /\ Table
      /\ cpc[c] = "recv"
  BY DEF PollTimesOut, CInv, SInv, Listening, Waiting
<1>2. phase[c] \in {"backlog", "open"} /\ ~PeerClosed(down[c])
  BY <1>1, ClientTypes DEF CInv, Link
<1>3. up[c].data # <<>>
  <2>1. Outstanding(c) = 1 /\ InWork(c) = 0
    BY <1>1, <1>2 DEF CInv, Transit, InWork
  <2>2. PICK a \in Nat : a = Len(up[c].data) /\ (up[c].data = <<>> <=> a = 0)
    BY UpTypes DEF CInv, SInv
  <2>3. Len(down[c].data) = 0
    OBVIOUS
  <2>4. Outstanding(c) = a + 0 + 0
    BY <2>1, <2>2, <2>3 DEF Outstanding
  <2>5. a = 1
    BY ONLY <2>1, <2>2, <2>4
  <2> QED
    BY <2>2, <2>5
<1>4. Listener \notin Clients
  BY ServerAssumption
<1>5. CASE phase[c] = "backlog"
  <2>1. 1 \in DOMAIN fds /\ fds[1] = Listener
    BY <1>1 DEF Table, CInv, SInv, STypeOK
  <2>2. Backlog # {}
    BY <1>5 DEF Backlog
  <2> QED
    BY <1>1, <2>1, <2>2 DEF SomethingReady
<1>6. CASE phase[c] = "open"
  <2>1. PICK k \in DOMAIN fds : fds[k] = c
    BY <1>1, <1>6 DEF Table
  <2>2. Readable(c)
    BY <1>3 DEF Readable
  <2> QED
    BY <1>1, <1>4, <2>1, <2>2 DEF SomethingReady
<1> QED
  BY <1>2, <1>5, <1>6

\* The timeout never beats a request (server.cpp 104-107).
THEOREM TimeoutIsQuiet == Spec => TimeoutOnlyWhenQuiet
<1>1. CInv /\ [Next]_vars =>
          [PollTimesOut => \A c \in Clients : Waiting(c) => down[c].data # <<>>]_vars
  BY QuietAtTimeout
<1> QED
  BY <1>1, Invariant, PTL DEF Spec, TimeoutOnlyWhenQuiet

-----------------------------------------------------------------------------
(* The job service that the clients see.                                   *)

\* The state of a request, from what is in the server's socket, in the server's
\* hands and in the client's socket, and where the client is.
StateOf(sent, working, reply, pc) ==
    IF sent # <<>> \/ working # 0 THEN [state |-> "pending"]
    ELSE IF reply # <<>> THEN [state |-> "answered", number |-> Head(reply)]
    ELSE IF pc = "recv" THEN Service!Lost ELSE Service!None

LEMMA StateOfFacts ==
    ASSUME NEW sent, NEW working, NEW reply, NEW pc
    PROVE  /\ sent # <<>> \/ working # 0 =>
                  StateOf(sent, working, reply, pc).state = "pending"
           /\ sent # <<>> \/ working # 0 =>
                  StateOf(sent, working, reply, pc) = [state |-> "pending"]
           /\ sent = <<>> /\ working = 0 /\ reply # <<>> =>
                  /\ StateOf(sent, working, reply, pc)
                         = [state |-> "answered", number |-> Head(reply)]
                  /\ StateOf(sent, working, reply, pc).state = "answered"
           /\ sent = <<>> /\ working = 0 /\ reply = <<>> /\ pc = "recv" =>
                  /\ StateOf(sent, working, reply, pc) = Service!Lost
                  /\ StateOf(sent, working, reply, pc).state = "lost"
           /\ sent = <<>> /\ working = 0 /\ reply = <<>> /\ pc # "recv" =>
                  /\ StateOf(sent, working, reply, pc) = Service!None
                  /\ StateOf(sent, working, reply, pc).state = "none"
BY DEF StateOf, Service!Lost, Service!None

LEMMA RequestState ==
    ASSUME NEW d \in Clients
    PROVE  /\ req[d] = StateOf(up[d].data, InWork(d), down[d].data, cpc[d])
           /\ req'[d] = StateOf(up'[d].data, InWork(d)', down'[d].data, cpc'[d])
<1>1. req[d] = StateOf(up[d].data, InWork(d), down[d].data, cpc[d])
  <2>1. (InWork(d) # 0) <=> (spc = "work" /\ fds[idx] = d)
    BY DEF InWork
  <2> QED
    BY <2>1 DEF req, StateOf, Service!Lost, Service!None
<1>2. req'[d] = StateOf(up'[d].data, InWork(d)', down'[d].data, cpc'[d])
  <2>1. (InWork(d)' # 0) <=> (spc' = "work" /\ fds'[idx'] = d)
    BY DEF InWork
  <2> QED
    BY <2>1 DEF req, StateOf, Service!Lost, Service!None
<1> QED
  BY <1>1, <1>2

\* Client d's request is where it was.
Unmoved(d) ==
    /\ up'[d].data = up[d].data /\ InWork(d)' = InWork(d) /\ down'[d].data = down[d].data
    /\ (cpc'[d] = "recv") = (cpc[d] = "recv")

LEMMA UnmovedKept ==
    ASSUME NEW d \in Clients, Unmoved(d) PROVE req'[d] = req[d]
BY RequestState DEF Unmoved, StateOf

LEMMA Stutters ==
    ASSUME \A d \in Clients : req'[d] = req[d], job_count' = job_count
    PROVE  UNCHANGED <<req, job_count>>
<1>1. req' = req
  BY DEF req
<1> QED
  BY <1>1

LEMMA Moves ==
    ASSUME NEW c \in Clients, \A d \in Clients \ {c} : Unmoved(d),
           NEW from, NEW to, req[c].state = from, req'[c] = to
    PROVE  Service!Move(c, from, to)
<1>1. \A d \in Clients \ {c} : req'[d] = req[d]
  BY UnmovedKept
<1>2. DOMAIN req = Clients /\ DOMAIN req' = Clients
  BY DEF req
<1>3. req = [d \in Clients |-> req[d]] /\ req' = [d \in Clients |-> req'[d]]
  BY DEF req
<1> HIDE DEF req
<1>4. req' = [req EXCEPT ![c] = to]
  BY <1>1, <1>2, <1>3
<1> QED
  BY <1>4 DEF Service!Move

ServiceStep == [Service!Next]_<<req, job_count>>

LEMMA UnmovedServiceStep ==
    ASSUME \A d \in Clients : Unmoved(d), job_count' = job_count PROVE ServiceStep
BY UnmovedKept, Stutters DEF ServiceStep

\* One request moves as one of the service's may.
LEMMA MoveServiceStep ==
    ASSUME NEW c \in Clients, \A d \in Clients \ {c} : Unmoved(d),
           \/ /\ job_count' = job_count
              /\ \/ req[c].state = "none" /\ req'[c] = [state |-> "pending"]
                 \/ req[c].state = "pending" /\ req'[c] = Service!Lost
                 \/ req[c].state = "pending" /\ req'[c] = Service!None
                 \/ req[c].state = "none" /\ req'[c] = Service!Lost
                 \/ req[c].state = "answered" /\ req'[c] = Service!None
                 \/ req[c].state = "lost" /\ req'[c] = Service!None
           \/ /\ job_count' = job_count + 1 /\ req[c].state = "pending"
              /\ \/ req'[c] = [state |-> "answered", number |-> job_count + 1]
                 \/ req'[c] = Service!None
    PROVE  ServiceStep
<1>1. CASE job_count' = job_count /\ req[c].state = "none" /\ req'[c] = [state |-> "pending"]
  <2>1. Service!Submit(c)
    BY <1>1, Moves DEF Service!Submit
  <2> QED
    BY <2>1 DEF ServiceStep, Service!Next
<1>2. CASE job_count' = job_count /\ req[c].state = "pending" /\ req'[c] = Service!Lost
  <2>1. Service!Refuse(c)
    BY <1>2, Moves DEF Service!Refuse
  <2> QED
    BY <2>1 DEF ServiceStep, Service!Next
<1>3. CASE job_count' = job_count /\ req[c].state = "pending" /\ req'[c] = Service!None
  <2>1. Service!Refuse(c)
    BY <1>3, Moves DEF Service!Refuse
  <2> QED
    BY <2>1 DEF ServiceStep, Service!Next
<1>4. CASE job_count' = job_count /\ req[c].state = "none" /\ req'[c] = Service!Lost
  <2>1. Service!Refuse(c)
    BY <1>4, Moves DEF Service!Refuse
  <2> QED
    BY <2>1 DEF ServiceStep, Service!Next
<1>5. CASE job_count' = job_count /\ req[c].state = "answered" /\ req'[c] = Service!None
  <2>1. Service!Collect(c)
    BY <1>5, Moves DEF Service!Collect
  <2> QED
    BY <2>1 DEF ServiceStep, Service!Next
<1>6. CASE job_count' = job_count /\ req[c].state = "lost" /\ req'[c] = Service!None
  <2>1. Service!GiveUp(c)
    BY <1>6, Moves DEF Service!GiveUp
  <2> QED
    BY <2>1 DEF ServiceStep, Service!Next
<1>7. CASE /\ job_count' = job_count + 1 /\ req[c].state = "pending"
           /\ \/ req'[c] = [state |-> "answered", number |-> job_count + 1]
              \/ req'[c] = Service!None
  <2>1. Service!Do(c)
    BY <1>7, Moves DEF Service!Do
  <2> QED
    BY <2>1 DEF ServiceStep, Service!Next
<1> QED
  BY <1>1, <1>2, <1>3, <1>4, <1>5, <1>6, <1>7

\* The client ends: a request that is lost is given up.
LEMMA HangServiceStep ==
    ASSUME CInv, CInv', NEW c \in Clients, NEW l \in {"done", "failed", "killed"}, Hang(c, l),
           cpc[c] \in {"read", "recv"}, UNCHANGED server
    PROVE  ServiceStep
<1>1. /\ UNCHANGED <<spc, fds, idx, job_count>> /\ down' = down
      /\ up'[c].data = up[c].data /\ cpc'[c] = l
      /\ \A d \in Clients \ {c} : up'[d] = up[d] /\ cpc'[d] = cpc[d]
  BY HangFacts DEF CInv, SInv, Types, TypeOK, server, table, stats
<1>2. \A d \in Clients : InWork(d)' = InWork(d)
  BY <1>1 DEF InWork
<1>3. \A d \in Clients \ {c} : Unmoved(d)
  BY <1>1, <1>2 DEF Unmoved
<1>4. CASE cpc[c] = "read"
  <2>1. Unmoved(c)
    BY <1>1, <1>2, <1>4 DEF Unmoved
  <2> QED
    BY <1>1, <1>3, <2>1, UnmovedServiceStep
<1>5. CASE /\ cpc[c] = "recv"
           /\ up[c].data = <<>> /\ InWork(c) = 0 /\ down[c].data = <<>>
  <2>1. req[c].state = "lost" /\ req'[c] = Service!None
    BY <1>1, <1>2, <1>5, RequestState, StateOfFacts
  <2> QED
    BY <1>1, <1>3, <2>1, MoveServiceStep
<1>6. CASE ~(up[c].data = <<>> /\ InWork(c) = 0 /\ down[c].data = <<>>)
  <2>1. req'[c] = req[c]
    <3>1. /\ req[c] = StateOf(up[c].data, InWork(c), down[c].data, cpc[c])
          /\ req'[c] = StateOf(up[c].data, InWork(c), down[c].data, cpc'[c])
      BY <1>1, <1>2, RequestState
    <3> QED
      BY <1>6, <3>1 DEF StateOf
  <2>2. \A d \in Clients : req'[d] = req[d]
    BY <1>3, <2>1, UnmovedKept
  <2> QED
    BY <1>1, <2>2, Stutters DEF ServiceStep
<1> QED
  BY <1>4, <1>5, <1>6

\* The steps of a client.
LEMMA ClientServiceStep ==
    ASSUME CInv, CInv', NEW c \in Clients, ClientStep(c) \/ Kill(c)
    PROVE  ServiceStep
<1>1. UNCHANGED server => /\ job_count' = job_count
                          /\ \A d \in Clients : InWork(d)' = InWork(d)
  BY DEF server, table, stats, InWork
<1>2. cpc \in [Clients -> {"connect", "read", "recv", "done", "failed", "killed"}]
  BY DEF CInv, Types, TypeOK
<1>3. /\ up \in [Clients -> Stream(Request)] /\ down \in [Clients -> Stream(Nat)]
      /\ up' \in [Clients -> Stream(Request)] /\ down' \in [Clients -> Stream(Nat)]
  BY DEF CInv, SInv, STypeOK
<1>4. CASE Connect(c) \/ ConnectFails(c) \/ SleepLine(c)
  <2>1. /\ UNCHANGED <<server, up, down>>
        /\ \A d \in Clients : (cpc'[d] = "recv") = (cpc[d] = "recv")
    BY <1>2, <1>4 DEF Connect, ConnectFails, SleepLine, Goto, svars, conns, server
  <2>2. \A d \in Clients : Unmoved(d)
    BY <1>1, <2>1 DEF Unmoved
  <2> QED
    BY <1>1, <2>1, <2>2, UnmovedServiceStep
<1>5. CASE SendFails(c) \/ ReceiveFails(c) \/ BadLine(c) \/ EndOfInput(c) \/ Kill(c)
  <2>1. /\ \E l \in {"done", "failed", "killed"} : Hang(c, l)
        /\ UNCHANGED server /\ cpc[c] \in {"read", "recv"}
    BY <1>5 DEF SendFails, ReceiveFails, BadLine, EndOfInput, Kill, Return, Transaction
  <2> QED
    BY <2>1, HangServiceStep
<1>6. CASE Send(c)
  <2> DEFINE d2 == Append(up[c].data, LineOf(c))
  <2>1. /\ up' = [up EXCEPT ![c] = [up[c] EXCEPT !.data = d2]]
        /\ cpc' = [cpc EXCEPT ![c] = "recv"] /\ cpc[c] = "read" /\ LineOf(c) \in Request
        /\ UNCHANGED <<server, down>>
    BY <1>6 DEF Send, Goto, Transaction
  <2>2. up[c].data = <<>> /\ down[c].data = <<>> /\ InWork(c) = 0
    BY <2>1, ReadingFacts
  <2>3. d2 # <<>>
    BY <2>1, <2>2
  <2> HIDE DEF d2
  <2>4. up'[c].data = d2 /\ \A d \in Clients \ {c} : up'[d] = up[d] /\ cpc'[d] = cpc[d]
    BY <1>2, <1>3, <2>1 DEF Stream
  <2>5. \A d \in Clients \ {c} : Unmoved(d)
    BY <1>1, <2>1, <2>4 DEF Unmoved
  <2>6. req[c].state = "none" /\ req'[c] = [state |-> "pending"]
    BY <2>1, <2>2, <2>3, <2>4, RequestState, StateOfFacts
  <2> QED
    BY <1>1, <2>1, <2>5, <2>6, MoveServiceStep
<1>7. CASE SendTooLate(c)
  <2>1. /\ down' = [down EXCEPT ![c] = [down[c] EXCEPT !.rst = TRUE]]
        /\ cpc' = [cpc EXCEPT ![c] = "recv"] /\ cpc[c] = "read"
        /\ UNCHANGED <<server, up>>
    BY <1>7 DEF SendTooLate, Goto, Transaction
  <2>2. up[c].data = <<>> /\ down[c].data = <<>> /\ InWork(c) = 0
    BY <2>1, ReadingFacts
  <2>3. /\ down'[c].data = down[c].data /\ cpc'[c] = "recv"
        /\ \A d \in Clients \ {c} : down'[d] = down[d] /\ cpc'[d] = cpc[d]
    BY <1>2, <1>3, <2>1 DEF Stream
  <2>4. \A d \in Clients \ {c} : Unmoved(d)
    BY <1>1, <2>1, <2>3 DEF Unmoved
  <2>5. req[c].state = "none" /\ req'[c] = Service!Lost
    BY <1>1, <2>1, <2>2, <2>3, RequestState, StateOfFacts
  <2> QED
    BY <1>1, <2>1, <2>4, <2>5, MoveServiceStep
<1>8. CASE ReceiveReply(c)
  <2> DEFINE none == <<>>
  <2>1. /\ down' = [down EXCEPT ![c] = [down[c] EXCEPT !.data = none]]
        /\ cpc' = [cpc EXCEPT ![c] = "read"] /\ down[c].data # <<>>
        /\ UNCHANGED <<server, up>>
    BY <1>8 DEF ReceiveReply, Goto
  <2>2. up[c].data = <<>> /\ InWork(c) = 0
    BY <2>1, OnlyOne
  <2>3. none = <<>>
    OBVIOUS
  <2> HIDE DEF none
  <2>4. /\ down'[c].data = none /\ cpc'[c] = "read"
        /\ \A d \in Clients \ {c} : down'[d] = down[d] /\ cpc'[d] = cpc[d]
    BY <1>2, <1>3, <2>1 DEF Stream
  <2>5. \A d \in Clients \ {c} : Unmoved(d)
    BY <1>1, <2>1, <2>4 DEF Unmoved
  <2>6. req[c].state = "answered" /\ req'[c] = Service!None
    BY <1>1, <2>1, <2>2, <2>3, <2>4, RequestState, StateOfFacts
  <2> QED
    BY <1>1, <2>1, <2>5, <2>6, MoveServiceStep
<1>9. CASE ReceiveNothing(c)
  <2>1. /\ cpc[c] = "recv" /\ cpc' = [cpc EXCEPT ![c] = "read"]
        /\ down[c].data = <<>> /\ down[c].fin /\ UNCHANGED <<server, up, down>>
    BY <1>9 DEF ReceiveNothing, Goto, svars, conns, server
  <2>2. up[c].data = <<>> /\ InWork(c) = 0
    BY <2>1, NothingFacts
  <2>3. cpc'[c] = "read" /\ \A d \in Clients \ {c} : cpc'[d] = cpc[d]
    BY <1>2, <2>1
  <2>4. \A d \in Clients \ {c} : Unmoved(d)
    BY <1>1, <2>1, <2>3 DEF Unmoved
  <2>5. req[c].state = "lost" /\ req'[c] = Service!None
    BY <1>1, <2>1, <2>2, <2>3, RequestState, StateOfFacts
  <2> QED
    BY <1>1, <2>1, <2>4, <2>5, MoveServiceStep
<1> QED
  BY <1>4, <1>5, <1>6, <1>7, <1>8, <1>9 DEF ClientStep

\* The steps of the server.
LEMMA ServerServiceStep ==
    ASSUME CInv, CInv', ServerStep \/ ServerFault, UNCHANGED cvars
    PROVE  ServiceStep
<1>1. cpc' = cpc
  BY DEF cvars
<1>2. CASE \/ Setup \/ SetupFails \/ Poll \/ PollTimesOut \/ PollFails \/ ScanError
           \/ ScanListener \/ AcceptDone \/ AcceptFails \/ EndScan \/ Cleanup
           \/ \E c \in Clients : \/ ScanHup(c) \/ ScanClosed(c) \/ Accept(c)
                                 \/ ScanIdle(c) \/ ScanPollFails(c)
  <2>1. /\ job_count' = job_count /\ up' = up /\ spc # "work" /\ spc' # "work"
    BY <1>2 DEF Setup, SetupFails, Poll, PollTimesOut, PollFails, ScanError, ScanListener,
       AcceptDone, AcceptFails, EndScan, Cleanup, ScanHup, ScanClosed, Drop, CloseConnection,
       Accept, ScanIdle, ScanPollFails, AtClient, AtEntry, stats, conns
  <2>2. \A d \in Clients : down'[d].data = down[d].data
    <3>1. CASE Cleanup
      BY <3>1, CloseAllFacts DEF Cleanup, CInv, SInv, STypeOK
    <3>2. ASSUME NEW c \in Clients, ScanHup(c) \/ ScanClosed(c)
          PROVE  \A d \in Clients : down'[d].data = down[d].data
      <4>1. /\ down'[c] = Closing(up[c], down[c])
            /\ \A d \in Clients \ {c} : down'[d] = down[d]
        BY <3>2, CloseConnectionFacts DEF ScanHup, ScanClosed, Drop, CInv, SInv
      <4>2. down'[c].data = down[c].data
        BY <4>1, UpTypes, DownTypes, ClosingFacts DEF CInv, SInv
      <4> QED
        BY <4>1, <4>2
    <3>3. CASE down' = down
      BY <3>3
    <3> QED
      BY <1>2, <3>1, <3>2, <3>3
         DEF Setup, SetupFails, Poll, PollTimesOut, PollFails, ScanError, ScanListener,
             AcceptDone, AcceptFails, EndScan, Accept, ScanIdle, ScanPollFails, conns
  <2>3. \A d \in Clients : Unmoved(d)
    BY <1>1, <2>1, <2>2 DEF Unmoved, InWork
  <2> QED
    BY <2>1, <2>3, UnmovedServiceStep
<1>3. ASSUME NEW c \in Clients, ScanJob(c) \/ ScanNegative(c) \/ ScanSpaced(c)
      PROVE  ServiceStep
  <2>1. /\ Receive(c) /\ spc = "scan" /\ fds[idx] = c /\ job_count' = job_count
        /\ up[c].data # <<>>
        /\ \/ spc' = "work" /\ fds'[idx'] = c
           \/ spc' # "work"
    BY <1>3 DEF ScanJob, ScanNegative, ScanSpaced, Receive, AtClient, AtEntry, table, stats
  <2>2. up'[c].data = <<>> /\ \A d \in Clients \ {c} : up'[d] = up[d]
    BY <2>1, ReceiveFacts DEF CInv, SInv
  <2>3. \A d \in Clients : down'[d].data = down[d].data
    <3>1. CASE ScanSpaced(c)
      <4>1. up' \in [Clients -> Stream(Request)] /\ CloseAll(up')
        BY <3>1 DEF ScanSpaced, CInv, SInv, STypeOK
      <4> QED
        BY <4>1, CloseAllFacts DEF CInv, SInv
    <3> QED
      BY <1>3, <3>1 DEF ScanJob, ScanNegative
  <2>4. \A d \in Clients \ {c} : Unmoved(d)
    BY <1>1, <2>1, <2>2, <2>3 DEF Unmoved, InWork
  <2>5. down'[c].data = <<>>
    BY <2>1, <2>3, OnlyOne
  <2>6. req[c] = [state |-> "pending"] /\ req[c].state = "pending"
    BY <2>1, RequestState, StateOfFacts
  <2>7. CASE spc' = "work"
    <3>1. InWork(c)' # 0
      BY <2>1, <2>7 DEF InWork
    <3>2. req'[c] = [state |-> "pending"]
      BY <3>1, RequestState, StateOfFacts
    <3>3. \A d \in Clients : req'[d] = req[d]
      BY <2>4, <2>6, <3>2, UnmovedKept
    <3> QED
      BY <2>1, <3>3, Stutters DEF ServiceStep
  <2>8. CASE spc' # "work"
    <3>1. InWork(c)' = 0
      BY <2>8 DEF InWork
    <3>2. req'[c] = Service!Lost \/ req'[c] = Service!None
      BY <2>2, <2>5, <3>1, RequestState, StateOfFacts
    <3> QED
      BY <2>1, <2>4, <2>6, <3>2, MoveServiceStep
  <2> QED
    BY <2>7, <2>8
<1>4. CASE Finish
  <2>1. PICK c \in Clients : c = fds[idx]
    BY <1>4 DEF Finish, CInv, SInv, Place
  <2> DEFINE n == job_count + 1
  <2>2. /\ spc = "work" /\ spc' = "scan" /\ SendNumber(c, n) /\ job_count' = n /\ n \in Nat
    BY <1>4, <2>1 DEF Finish, Reply, CInv, SInv, STypeOK
  <2>3. /\ \A d \in Clients \ {c} : up'[d] = up[d] /\ down'[d] = down[d]
        /\ up'[c].data = up[c].data
        /\ PeerClosed(up[c]) => down' = down
        /\ ~PeerClosed(up[c]) => down'[c].data = Append(down[c].data, n)
    BY <2>2, SendNumberFacts DEF CInv, SInv
  <2>4. InWork(c) = 1 /\ \A d \in Clients : InWork(d)' = 0
    BY <2>1, <2>2 DEF InWork
  <2>5. \A d \in Clients \ {c} : Unmoved(d)
    BY <1>1, <2>1, <2>2, <2>3 DEF Unmoved, InWork
  <2>6. up[c].data = <<>> /\ down[c].data = <<>>
    BY <2>4, OnlyOne
  <2>7. req[c].state = "pending"
    BY <2>4, RequestState, StateOfFacts
  <2>8. CASE PeerClosed(up[c])
    <3>1. cpc'[c] # "recv"
      BY <1>1, <2>8 DEF CInv, Link
    <3>2. req'[c] = Service!None
      BY <2>3, <2>4, <2>6, <2>8, <3>1, RequestState, StateOfFacts
    <3> QED
      BY <2>2, <2>5, <2>7, <3>2, MoveServiceStep
  <2>9. CASE ~PeerClosed(up[c])
    <3> HIDE DEF n
    <3>1. Append(<<>>, n) # <<>> /\ Head(Append(<<>>, n)) = n
      OBVIOUS
    <3>2. down'[c].data # <<>> /\ Head(down'[c].data) = n
      BY <2>3, <2>6, <2>9, <3>1
    <3>3. req'[c] = [state |-> "answered", number |-> n]
      BY <2>3, <2>4, <2>6, <3>2, RequestState, StateOfFacts
    <3> QED
      BY <2>2, <2>5, <2>7, <3>3, MoveServiceStep DEF n
  <2> QED
    BY <2>8, <2>9
<1> QED
  BY <1>2, <1>3, <1>4 DEF ServerStep, ServerFault

\* The server and its clients are the job service: however they interleave,
\* fail and die, every step is one of the service's or invisible to it
\* (server.cpp 155-207, client.cpp 41-60).
THEOREM IsJobService == Spec => ImplementsJobService
<1>1. Init => Service!Init
  <2> SUFFICES ASSUME Init PROVE Service!Init
    OBVIOUS
  <2>1. ASSUME NEW d \in Clients PROVE req[d] = Service!None
    <3>1. up[d].data = <<>> /\ down[d].data = <<>> /\ cpc[d] # "recv" /\ InWork(d) = 0
      BY DEF Init, SInit, Quiet, InWork
    <3> QED
      BY <3>1, RequestState, StateOfFacts
  <2>2. req = [d \in Clients |-> req[d]]
    BY DEF req
  <2> HIDE DEF req
  <2>3. req = [d \in Clients |-> Service!None]
    BY <2>1, <2>2
  <2> QED
    BY <2>3 DEF Init, SInit, Service!Init
<1>2. CInv /\ CInv' /\ [Next]_vars => ServiceStep
  <2> SUFFICES ASSUME CInv, CInv', [Next]_vars PROVE ServiceStep
    OBVIOUS
  <2>1. CASE (ServerStep \/ ServerFault) /\ UNCHANGED cvars
    BY <2>1, ServerServiceStep
  <2>2. ASSUME NEW c \in Clients, ClientStep(c) \/ Kill(c) PROVE ServiceStep
    BY <2>2, ClientServiceStep
  <2>3. CASE UNCHANGED vars
    <3>1. UNCHANGED <<spc, fds, idx, job_count, up, down, cpc>>
      BY <2>3 DEF vars, svars, table, stats, conns, cvars
    <3>2. \A d \in Clients : Unmoved(d)
      BY <3>1 DEF Unmoved, InWork
    <3> QED
      BY <3>1, <3>2, UnmovedServiceStep
  <2> QED
    BY <2>1, <2>2, <2>3 DEF Next
<1> QED
  BY <1>1, <1>2, Invariant, PTL DEF Spec, ImplementsJobService, Service!Spec, ServiceStep

-----------------------------------------------------------------------------
(* The log of a client.                                                    *)

\* What c's log tells of its lines, and what the first n lines should leave.
Told(c) == Without(log[c], Outcome)
ToTell(lines, n) == Without(SubSeq(lines, 1, n), Unlogged)

\* Where it tells of a transaction, and of one that something else than its
\* reply follows.
Sent(c) == {k \in DOMAIN log[c] : log[c][k] \in Request}
Missed(c) == {k \in Sent(c) : k < Len(log[c]) /\ k + 1 \notin Replies(c)}
LastSent(c) == Len(log[c]) \in Sent(c)

Runs(c) == cpc[c] \in {"connect", "read", "recv"}

\* The log of client c, against its input, its counter and its connection.
Logged(c) ==
    /\ \/ Told(c) = ToTell(input[c], next[c] - 1)
       \/ /\ cpc[c] = "failed" /\ input[c][next[c] - 1] \in Request
          /\ Told(c) = ToTell(input[c], next[c] - 2)
    /\ Runs(c) => transaction_count[c] = Cardinality(Sent(c))
    /\ \A k \in DOMAIN log[c] : log[c][k].kind = "sent" =>
          /\ k = Len(log[c]) /\ ~Runs(c)
          /\ \/ log[c][k].number = Cardinality(Sent(c))
             \/ cpc[c] = "failed" /\ log[c][k].number = Cardinality(Sent(c)) + 1
    /\ cpc[c] = "recv" => LastSent(c)
    /\ \A k \in Replies(c) : k - 1 \in Sent(c) /\ \A j \in Missed(c) : j >= k
    /\ (\/ cpc[c] \in {"read", "recv"} /\ Missed(c) # {}
        \/ cpc[c] = "read" /\ LastSent(c))
       => PeerClosed(down[c]) /\ down[c].data = <<>>

\* Nothing of the log is touched.
LEMMA LogKept ==
    ASSUME NEW c \in Clients, log'[c] = log[c], input'[c] = input[c]
    PROVE  /\ Told(c)' = Told(c)
           /\ Sent(c)' = Sent(c) /\ Replies(c)' = Replies(c)
           /\ Missed(c)' = Missed(c) /\ LastSent(c)' = LastSent(c)
<1>1. Told(c)' = Told(c)
  BY DEF Told
<1>2. Sent(c)' = Sent(c) /\ Replies(c)' = Replies(c)
  BY DEF Sent, Replies
<1> QED
  BY <1>1, <1>2 DEF Missed, LastSent

\* Nothing of the client is touched, and a closed connection stays so.
LEMMA LoggedKept ==
    ASSUME NEW c \in Clients, Logged(c),
           log'[c] = log[c], cpc'[c] = cpc[c], next'[c] = next[c], input'[c] = input[c],
           transaction_count'[c] = transaction_count[c],
           PeerClosed(down[c]) /\ down[c].data = <<>> =>
               PeerClosed(down'[c]) /\ down'[c].data = <<>>
    PROVE  Logged(c)'
<1>1. /\ Told(c)' = Told(c)
      /\ Sent(c)' = Sent(c) /\ Replies(c)' = Replies(c)
      /\ Missed(c)' = Missed(c) /\ LastSent(c)' = LastSent(c)
  BY LogKept
<1>2. Runs(c)' = Runs(c) /\ (PeerClosed(down[c])' <=> PeerClosed(down'[c]))
  BY DEF Runs, PeerClosed
<1> QED
  BY <1>1, <1>2 DEF Logged

LEMMA SentFinite ==
    ASSUME Types, NEW c \in Clients
    PROVE  /\ Sent(c) \subseteq 1 .. Len(log[c]) /\ Missed(c) \subseteq 1 .. (Len(log[c]) - 1)
           /\ IsFiniteSet(Sent(c)) /\ Cardinality(Sent(c)) \in Nat
<1>1. Len(log[c]) \in Nat /\ DOMAIN log[c] = 1 .. Len(log[c])
  BY ClientTypes
<1>2. Sent(c) \subseteq 1 .. Len(log[c])
  BY <1>1 DEF Sent
<1>3. IsFiniteSet(1 .. Len(log[c]))
  BY <1>1, FS_Interval
<1>4. IsFiniteSet(Sent(c)) /\ Cardinality(Sent(c)) \in Nat
  BY <1>2, <1>3, FS_Subset, FS_CardinalityType
<1>5. Missed(c) \subseteq 1 .. (Len(log[c]) - 1)
  BY <1>1, <1>2 DEF Missed
<1> QED
  BY <1>2, <1>4, <1>5

\* One more line of the input read.
LEMMA ToTellGrows ==
    ASSUME Types, NEW c \in Clients, HasLine(c)
    PROVE  ToTell(input[c], next[c]) = IF LineOf(c) \in Unlogged THEN ToTell(input[c], next[c] - 1)
                                ELSE Append(ToTell(input[c], next[c] - 1), LineOf(c))
<1> DEFINE s == input[c]
           n == next[c]
           e == LineOf(c)
           p == SubSeq(s, 1, n - 1)
<1>1. s \in Seq(Line) /\ n \in 1 .. Len(s) /\ e = s[n] /\ e \in Line
  BY ClientTypes DEF HasLine, LineOf
<1>2. p \in Seq(Line) /\ SubSeq(s, 1, n) = Append(p, e)
  BY <1>1, PrefixGrows
<1>3. p \in Seq(Line) /\ e \in Line
  BY <1>1, <1>2
<1> HIDE DEF p, s, n, e
<1>4. Without(Append(p, e), Unlogged) = IF e \in Unlogged THEN Without(p, Unlogged)
                                        ELSE Append(Without(p, Unlogged), e)
  BY ONLY <1>3, WithoutAppend
<1> QED
  BY <1>2, <1>4 DEF ToTell, p, s, n, e

\* One more line in the log.
LEMMA ToldGrows ==
    ASSUME Types, NEW c \in Clients, NEW e \in LogEntry, Log(c, e)
    PROVE  Told(c)' = IF e \in Outcome THEN Told(c) ELSE Append(Told(c), e)
<1> DEFINE s == log[c]
<1>1. s \in Seq(LogEntry) /\ log'[c] = Append(s, e)
  BY ClientTypes, LogFacts
<1> HIDE DEF s
<1>2. Without(Append(s, e), Outcome) = IF e \in Outcome THEN Without(s, Outcome)
                                       ELSE Append(Without(s, Outcome), e)
  BY <1>1, WithoutAppend
<1> QED
  BY <1>1, <1>2 DEF Told, s

LEMMA AppendFacts ==
    ASSUME Types, NEW c \in Clients, NEW e \in LogEntry, Log(c, e)
    PROVE  LET n == Len(log[c]) IN
           /\ Sent(c)' = IF e \in Request THEN Sent(c) \cup {n + 1} ELSE Sent(c)
           /\ Cardinality(Sent(c)')
                 = IF e \in Request THEN Cardinality(Sent(c)) + 1 ELSE Cardinality(Sent(c))
           /\ Missed(c)' \subseteq Missed(c) \cup (IF LastSent(c) /\ e.kind # "done" THEN {n} ELSE {})
           /\ LastSent(c)' <=> e \in Request
<1> DEFINE n == Len(log[c])
<1>1. /\ n \in Nat /\ DOMAIN log[c] = 1 .. n
      /\ DOMAIN log'[c] = 1 .. n + 1 /\ log'[c][n + 1] = e
      /\ \A k \in 1 .. n : log'[c][k] = log[c][k]
      /\ log'[c] \in Seq(LogEntry)
      /\ e.kind # "done" => Replies(c)' = Replies(c)
      /\ e.kind = "done" => Replies(c)' = Replies(c) \cup {n + 1}
  BY ClientTypes, LogFacts
<1>2. Len(log'[c]) = n + 1
  BY <1>1
<1>3. /\ Sent(c) \subseteq 1 .. n /\ n + 1 \notin Sent(c)
      /\ IsFiniteSet(Sent(c)) /\ Cardinality(Sent(c)) \in Nat
  BY <1>1, SentFinite
<1>4. /\ Sent(c)' = {k \in 1 .. n + 1 : log'[c][k] \in Request}
      /\ Sent(c) = {k \in 1 .. n : log[c][k] \in Request}
      /\ \A k \in 1 .. n + 1 : k \in 1 .. n \/ k = n + 1
  BY <1>1 DEF Sent
<1> HIDE DEF n
<1>5. Sent(c)' = IF e \in Request THEN Sent(c) \cup {n + 1} ELSE Sent(c)
  BY <1>1, <1>4
<1>6. Cardinality(Sent(c)')
          = IF e \in Request THEN Cardinality(Sent(c)) + 1 ELSE Cardinality(Sent(c))
  BY <1>3, <1>5, FS_AddElement
<1>7. ASSUME NEW k \in Missed(c)', k \notin Missed(c)
      PROVE  k = n /\ LastSent(c) /\ e.kind # "done"
  <2>1. k \in Sent(c)' /\ k < n + 1 /\ k + 1 \notin Replies(c)'
    BY <1>2, <1>7 DEF Missed
  <2>2. k \in 1 .. n /\ k \in Sent(c)
    BY <1>1, <1>4, <1>5, <2>1
  <2>3. k + 1 \notin Replies(c)
    BY <1>1, <2>1
  <2>4. k = n
    BY <1>1, <1>7, <2>2, <2>3 DEF Missed, n
  <2> QED
    BY <1>1, <2>1, <2>2, <2>4 DEF LastSent, n
<1>8. LastSent(c)' <=> e \in Request
  BY <1>1, <1>2, <1>3, <1>5 DEF LastSent
<1> QED
  BY <1>5, <1>6, <1>7, <1>8 DEF n

\* The client ends without a word.
LEMMA EndLogged ==
    ASSUME CInv, NEW c \in Clients, Logged(c), Runs(c), ~Runs(c)', input' = input, log' = log,
           \/ next'[c] = next[c]
           \/ next'[c] = next[c] + 1 /\ cpc'[c] = "failed" /\ LineOf(c) \in Request
    PROVE  Logged(c)'
<1>1. /\ Told(c)' = Told(c)
      /\ Sent(c)' = Sent(c) /\ Replies(c)' = Replies(c) /\ Missed(c)' = Missed(c)
  BY LogKept
<1>2. cpc[c] # "failed" /\ cpc'[c] \notin {"connect", "read", "recv"} /\ next[c] \in Nat
  BY ClientTypes DEF Runs, CInv
<1>3. Told(c) = ToTell(input[c], next[c] - 1) /\ \A k \in DOMAIN log[c] : log[c][k].kind # "sent"
  BY <1>2 DEF Logged
<1>4. \/ Told(c)' = ToTell(input[c], next'[c] - 1)
      \/ /\ cpc'[c] = "failed" /\ input[c][next'[c] - 1] \in Request
         /\ Told(c)' = ToTell(input[c], next'[c] - 2)
  <2>1. CASE next'[c] = next[c]
    BY <1>1, <1>3, <2>1
  <2>2. ASSUME next'[c] = next[c] + 1, cpc'[c] = "failed", LineOf(c) \in Request
        PROVE  /\ cpc'[c] = "failed" /\ input[c][next'[c] - 1] \in Request
               /\ Told(c)' = ToTell(input[c], next'[c] - 2)
    <3>1. next'[c] - 1 = next[c] /\ next'[c] - 2 = next[c] - 1
      BY <1>2, <2>2
    <3> QED
      BY <1>1, <1>3, <2>2, <3>1 DEF LineOf
  <2> QED
    BY <2>1, <2>2
<1> QED
  BY <1>1, <1>2, <1>3, <1>4 DEF Logged

\* The client ends with its summary.
LEMMA SummaryLogged ==
    ASSUME CInv, NEW c \in Clients, Logged(c), Runs(c), ~Runs(c)', input' = input,
           NEW m \in Nat, Log(c, [kind |-> "sent", number |-> m]),
           \/ next'[c] = next[c] /\ m = transaction_count[c]
           \/ /\ next'[c] = next[c] + 1 /\ m = transaction_count[c] + 1
              /\ cpc'[c] = "failed" /\ LineOf(c) \in Request
    PROVE  Logged(c)'
<1> DEFINE e == [kind |-> "sent", number |-> m]
           n == Len(log[c])
<1>1. /\ e \in LogEntry /\ e \in Outcome /\ e \notin Request
      /\ e.kind = "sent" /\ e.number = m /\ Log(c, e) /\ Types
  BY DEF LogEntry, Outcome, Request, CInv
<1> HIDE DEF e
<1>2. /\ n \in Nat /\ DOMAIN log[c] = 1 .. n /\ DOMAIN log'[c] = 1 .. n + 1
      /\ log'[c][n + 1] = e /\ \A k \in 1 .. n : log'[c][k] = log[c][k]
      /\ Replies(c)' = Replies(c) /\ Len(log'[c]) = n + 1
  <2>1. /\ log'[c] \in Seq(LogEntry) /\ DOMAIN log'[c] = 1 .. n + 1 /\ n \in Nat
    BY <1>1, LogFacts, ClientTypes
  <2> QED
    BY <1>1, <2>1, LogFacts, ClientTypes
<1>3. Sent(c)' = Sent(c) /\ Missed(c)' \subseteq Missed(c) \cup {n}
  BY <1>1, AppendFacts
<1>4. Told(c)' = Told(c)
  BY <1>1, ToldGrows
<1>5. Sent(c) \subseteq 1 .. n /\ Replies(c) \subseteq 1 .. n
  BY <1>1, SentFinite, RepliesFinite
<1> HIDE DEF n
<1>6. cpc[c] # "failed" /\ cpc'[c] \notin {"connect", "read", "recv"} /\ next[c] \in Nat
  BY <1>1, ClientTypes DEF Runs
<1>7. /\ Told(c) = ToTell(input[c], next[c] - 1) /\ transaction_count[c] = Cardinality(Sent(c))
      /\ \A k \in DOMAIN log[c] : log[c][k].kind # "sent"
  BY <1>6 DEF Logged
<1>8. \/ Told(c)' = ToTell(input[c], next'[c] - 1)
      \/ /\ cpc'[c] = "failed" /\ input[c][next'[c] - 1] \in Request
         /\ Told(c)' = ToTell(input[c], next'[c] - 2)
  <2>1. CASE next'[c] = next[c]
    BY <1>4, <1>7, <2>1
  <2>2. ASSUME next'[c] = next[c] + 1, cpc'[c] = "failed", LineOf(c) \in Request
        PROVE  /\ cpc'[c] = "failed" /\ input[c][next'[c] - 1] \in Request
               /\ Told(c)' = ToTell(input[c], next'[c] - 2)
    <3>1. next'[c] - 1 = next[c] /\ next'[c] - 2 = next[c] - 1
      BY <1>6, <2>2
    <3> QED
      BY <1>4, <1>7, <2>2, <3>1 DEF LineOf
  <2> QED
    BY <2>1, <2>2
<1>9. \A k \in DOMAIN log'[c] : log'[c][k].kind = "sent" =>
          /\ k = Len(log'[c])
          /\ \/ log'[c][k].number = Cardinality(Sent(c))
             \/ cpc'[c] = "failed" /\ log'[c][k].number = Cardinality(Sent(c)) + 1
  <2> SUFFICES ASSUME NEW k \in 1 .. n + 1, log'[c][k].kind = "sent"
               PROVE  /\ k = n + 1
                      /\ \/ log'[c][k].number = Cardinality(Sent(c))
                         \/ cpc'[c] = "failed" /\ log'[c][k].number = Cardinality(Sent(c)) + 1
    BY <1>2
  <2>1. k = n + 1
    <3> SUFFICES ASSUME k \in 1 .. n PROVE FALSE
      BY <1>2
    <3> QED
      BY <1>2, <1>7
  <2> QED
    BY <1>1, <1>2, <1>7, <2>1
<1>10. ASSUME NEW k \in Replies(c)
       PROVE  k - 1 \in Sent(c) /\ \A j \in Missed(c)' : j >= k
  <2>1. k \in 1 .. n /\ k - 1 \in Sent(c) /\ \A j \in Missed(c) : j >= k
    BY <1>5 DEF Logged
  <2> QED
    BY <1>2, <1>3, <2>1
<1> QED
  BY <1>2, <1>3, <1>6, <1>8, <1>9, <1>10 DEF Logged, Runs

\* The client logs a line of its input and goes on.
LEMMA LineLogged ==
    ASSUME CInv, NEW c \in Clients, Logged(c), cpc[c] = "read", HasLine(c), input' = input,
           next'[c] = next[c] + 1,
           NEW e \in LogEntry, e = LineOf(c), Log(c, e),
           e \notin Outcome, e \notin Unlogged, e.kind # "done", e.kind # "sent",
           transaction_count'[c] = IF e \in Request THEN transaction_count[c] + 1
                                                    ELSE transaction_count[c],
           cpc'[c] = IF e \in Request THEN "recv" ELSE "read",
           PeerClosed(down[c]) => PeerClosed(down'[c]), down'[c].data = down[c].data
    PROVE  Logged(c)'
<1> DEFINE n == Len(log[c])
<1>1. Types /\ next[c] \in Nat /\ transaction_count[c] \in Nat
  BY ClientTypes DEF CInv
<1>2. /\ n \in Nat /\ DOMAIN log[c] = 1 .. n /\ DOMAIN log'[c] = 1 .. n + 1
      /\ log'[c][n + 1] = e /\ \A k \in 1 .. n : log'[c][k] = log[c][k]
      /\ Replies(c)' = Replies(c)
  BY <1>1, LogFacts, ClientTypes
<1>3. /\ Sent(c) \subseteq Sent(c)'
      /\ Cardinality(Sent(c)')
            = IF e \in Request THEN Cardinality(Sent(c)) + 1 ELSE Cardinality(Sent(c))
      /\ Missed(c)' \subseteq Missed(c) \cup (IF LastSent(c) THEN {n} ELSE {})
      /\ LastSent(c)' <=> e \in Request
  BY <1>1, AppendFacts
<1>4. Replies(c) \subseteq 1 .. n
  BY <1>1, RepliesFinite
<1>5. Told(c)' = Append(Told(c), e)
  BY <1>1, ToldGrows
<1> HIDE DEF n
<1>6. /\ Told(c) = ToTell(input[c], next[c] - 1) /\ transaction_count[c] = Cardinality(Sent(c))
      /\ \A k \in DOMAIN log[c] : log[c][k].kind # "sent"
  BY DEF Logged, Runs
<1>7. Told(c)' = ToTell(input[c], next'[c] - 1)
  <2>1. ToTell(input[c], next[c]) = Append(ToTell(input[c], next[c] - 1), e)
    BY <1>1, ToTellGrows
  <2>2. next'[c] - 1 = next[c]
    BY <1>1
  <2> QED
    BY <1>5, <1>6, <2>1, <2>2
<1>8. transaction_count'[c] = Cardinality(Sent(c)')
  BY <1>3, <1>6
<1>9. \A k \in DOMAIN log'[c] : log'[c][k].kind # "sent"
  BY <1>2, <1>6
<1>10. ASSUME NEW k \in Replies(c)
       PROVE  k - 1 \in Sent(c)' /\ \A j \in Missed(c)' : j >= k
  <2>1. k \in 1 .. n /\ k - 1 \in Sent(c) /\ \A j \in Missed(c) : j >= k
    BY <1>4 DEF Logged
  <2> QED
    BY <1>2, <1>3, <2>1
<1>11. Missed(c)' # {} => PeerClosed(down'[c]) /\ down'[c].data = <<>>
  BY <1>3 DEF Logged
<1>12. (LastSent(c) /\ cpc[c] = "read")' = FALSE
  BY <1>3
<1>13. PeerClosed(down[c])' <=> PeerClosed(down'[c])
  BY DEF PeerClosed
<1> QED
  BY <1>2, <1>3, <1>7, <1>8, <1>9, <1>10, <1>11, <1>12, <1>13 DEF Logged, Runs

\* The client passes over a line that is not logged.
LEMMA LinePassed ==
    ASSUME CInv, NEW c \in Clients, Logged(c), cpc[c] = "read", HasLine(c), input' = input,
           LineOf(c) \in Unlogged, log' = log, cpc' = cpc, down' = down,
           next'[c] = next[c] + 1, transaction_count' = transaction_count
    PROVE  Logged(c)'
<1>1. /\ Told(c)' = Told(c)
      /\ Sent(c)' = Sent(c) /\ Replies(c)' = Replies(c)
      /\ Missed(c)' = Missed(c) /\ LastSent(c)' = LastSent(c)
  BY LogKept
<1>2. next'[c] - 1 = next[c]
  BY ClientTypes DEF CInv
<1>3. ToTell(input[c], next[c]) = ToTell(input[c], next[c] - 1)
  BY ToTellGrows DEF CInv
<1>4. Told(c)' = ToTell(input[c], next'[c] - 1)
  BY <1>1, <1>2, <1>3 DEF Logged
<1>5. Runs(c)' = Runs(c) /\ PeerClosed(down[c])' = PeerClosed(down[c])
  BY DEF Runs, PeerClosed
<1> QED
  BY <1>1, <1>4, <1>5 DEF Logged

\* The reply stands right after its job.
LEMMA ReplyLogged ==
    ASSUME CInv, NEW c \in Clients, Logged(c), ReceiveReply(c)
    PROVE  Logged(c)'
<1> DEFINE n == Len(log[c])
           e == [kind |-> "done", number |-> Head(down[c].data)]
<1>1. /\ cpc[c] = "recv" /\ down[c].data # <<>> /\ cpc' = [cpc EXCEPT ![c] = "read"]
      /\ Log(c, e) /\ e.kind = "done" /\ Types
      /\ UNCHANGED <<input, next, transaction_count>>
  BY DEF ReceiveReply, LogJob, FirstCharacter, Goto, CInv
<1>2. e \in LogEntry /\ e \in Outcome /\ e \notin Request
  <2>1. down[c].data[1] \in Nat
    BY <1>1, OnlyOne
  <2>2. Head(down[c].data) = down[c].data[1]
    BY <1>1, DownTypes DEF CInv, SInv
  <2> QED
    BY <2>1, <2>2 DEF LogEntry, Outcome, Request
<1> HIDE DEF e
<1>3. cpc'[c] = "read"
  BY <1>1 DEF Types, TypeOK
<1>4. /\ n \in Nat /\ DOMAIN log[c] = 1 .. n /\ DOMAIN log'[c] = 1 .. n + 1
      /\ log'[c][n + 1] = e /\ \A k \in 1 .. n : log'[c][k] = log[c][k]
      /\ Replies(c)' = Replies(c) \cup {n + 1}
  BY <1>1, <1>2, LogFacts, ClientTypes
<1>5. Sent(c)' = Sent(c) /\ Missed(c)' \subseteq Missed(c) /\ ~LastSent(c)'
  <2>1. /\ Sent(c)' = Sent(c) /\ (LastSent(c)' <=> e \in Request)
        /\ Missed(c)' \subseteq Missed(c) \cup (IF LastSent(c) /\ e.kind # "done" THEN {n} ELSE {})
    BY <1>1, <1>2, AppendFacts
  <2> QED
    BY <1>1, <1>2, <2>1
<1>6. n \in Sent(c) /\ Missed(c) = {}
  BY <1>1 DEF Logged, LastSent
<1> HIDE DEF n
<1>7. Told(c)' = ToTell(input[c], next'[c] - 1)
  <2>1. Told(c)' = Told(c)
    BY <1>1, <1>2, ToldGrows
  <2> QED
    BY <1>1, <2>1 DEF Logged
<1>8. \A k \in DOMAIN log'[c] : log'[c][k].kind # "sent"
  <2>1. \A k \in 1 .. n : log[c][k].kind # "sent"
    BY <1>1, <1>4 DEF Logged, Runs
  <2> QED
    BY <1>1, <1>4, <2>1
<1>9. \A k \in Replies(c)' : k - 1 \in Sent(c)
  <2>1. \A k \in Replies(c) : k - 1 \in Sent(c)
    BY DEF Logged
  <2>2. (n + 1) - 1 \in Sent(c)
    BY <1>4, <1>6
  <2> QED
    BY <1>4, <2>1, <2>2
<1> QED
  BY <1>1, <1>3, <1>5, <1>6, <1>7, <1>8, <1>9 DEF Logged, Runs

\* What the client is left with when there is no reply.
LEMMA NothingLogged ==
    ASSUME CInv, NEW c \in Clients, Logged(c), ReceiveNothing(c)
    PROVE  Logged(c)'
<1>1. /\ cpc[c] = "recv" /\ cpc' = [cpc EXCEPT ![c] = "read"]
      /\ down[c].data = <<>> /\ down[c].fin /\ down' = down
      /\ UNCHANGED <<input, next, transaction_count, log>>
  BY DEF ReceiveNothing, LogJob, FirstCharacter, Goto, svars, conns
<1>2. cpc'[c] = "read"
  BY <1>1 DEF CInv, Types, TypeOK
<1>3. /\ Told(c)' = Told(c)
      /\ Sent(c)' = Sent(c) /\ Replies(c)' = Replies(c) /\ Missed(c)' = Missed(c)
  BY <1>1, LogKept
<1>4. PeerClosed(down[c])'
  BY <1>1 DEF PeerClosed
<1> QED
  BY <1>1, <1>2, <1>3, <1>4 DEF Logged, Runs

LEMMA ConnectLogged ==
    ASSUME CInv, NEW c \in Clients, Logged(c), Connect(c)
    PROVE  Logged(c)'
<1>1. /\ cpc[c] = "connect" /\ cpc' = [cpc EXCEPT ![c] = "read"]
      /\ UNCHANGED <<input, next, transaction_count, log>>
  BY DEF Connect, Goto
<1>2. cpc'[c] = "read" /\ log[c] = <<>>
  BY <1>1 DEF CInv, Types, TypeOK, Counted
<1>3. /\ Told(c)' = Told(c)
      /\ Sent(c)' = Sent(c) /\ Replies(c)' = Replies(c)
      /\ Missed(c)' = Missed(c) /\ LastSent(c)' = LastSent(c)
  BY <1>1, LogKept
<1>4. Sent(c) = {}
  BY <1>2 DEF Sent
<1>5. Missed(c) = {} /\ ~LastSent(c)
  BY <1>4 DEF Missed, LastSent
<1> QED
  BY <1>1, <1>2, <1>3, <1>5 DEF Logged, Runs

LEMMA ClientLogged ==
    ASSUME CInv, NEW c \in Clients, Logged(c), ClientStep(c) \/ Kill(c)
    PROVE  Logged(c)'
<1>1. /\ cpc \in [Clients -> {"connect", "read", "recv", "done", "failed", "killed"}]
      /\ down \in [Clients -> Stream(Nat)] /\ transaction_count[c] \in Nat
  BY ClientTypes DEF CInv, Types, TypeOK, SInv, STypeOK
<1>2. CASE Connect(c) \/ ReceiveReply(c) \/ ReceiveNothing(c)
  BY <1>2, ConnectLogged, ReplyLogged, NothingLogged
<1>3. CASE BadLine(c) \/ Kill(c)
  <2>1. /\ Runs(c) /\ UNCHANGED <<input, next, log>>
        /\ \E l \in {"failed", "killed"} : cpc' = [cpc EXCEPT ![c] = l]
    BY <1>3 DEF BadLine, Kill, Hang, Goto, Runs
  <2>2. ~Runs(c)'
    BY <1>1, <2>1 DEF Runs
  <2> QED
    BY <2>1, <2>2, EndLogged
<1>4. CASE ReceiveFails(c) \/ EndOfInput(c)
  <2>1. /\ Runs(c) /\ UNCHANGED <<input, next, transaction_count>>
        /\ \E l \in {"failed", "done"} : cpc' = [cpc EXCEPT ![c] = l]
        /\ Log(c, [kind |-> "sent", number |-> transaction_count'[c]])
    BY <1>4 DEF ReceiveFails, EndOfInput, Return, Hang, Goto, Runs
  <2>2. ~Runs(c)'
    BY <1>1, <2>1 DEF Runs
  <2> QED
    BY <1>1, <2>1, <2>2, SummaryLogged
<1>5. CASE ConnectFails(c)
  <2>1. /\ Runs(c) /\ UNCHANGED <<input, next, transaction_count>>
        /\ cpc' = [cpc EXCEPT ![c] = "failed"]
        /\ Log(c, [kind |-> "sent", number |-> 0])
        /\ transaction_count[c] = 0
    BY <1>5 DEF ConnectFails, Goto, Runs, CInv, Counted
  <2>2. ~Runs(c)'
    BY <1>1, <2>1 DEF Runs
  <2> QED
    BY <2>1, <2>2, SummaryLogged
<1>6. CASE SendFails(c)
  <2>1. /\ Transaction(c) /\ input' = input /\ cpc' = [cpc EXCEPT ![c] = "failed"]
        /\ \/ Log(c, [kind |-> "sent", number |-> transaction_count'[c]])
           \/ log' = log
    BY <1>6 DEF SendFails, Return, Hang, Goto
  <2>2. /\ cpc[c] = "read" /\ next'[c] = next[c] + 1 /\ LineOf(c) \in Request
        /\ transaction_count'[c] = transaction_count[c] + 1
    BY <2>1, TransactionFacts
  <2>3. Runs(c) /\ ~Runs(c)' /\ cpc'[c] = "failed" /\ transaction_count'[c] \in Nat
    BY <1>1, <2>1, <2>2 DEF Runs
  <2> QED
    BY <2>1, <2>2, <2>3, EndLogged, SummaryLogged
<1>7. CASE Send(c) \/ SendTooLate(c)
  <2> DEFINE e == LineOf(c)
  <2>1. /\ Transaction(c) /\ input' = input /\ cpc' = [cpc EXCEPT ![c] = "recv"]
        /\ LogJob(c, e)
        /\ \/ down' = down
           \/ down' = [down EXCEPT ![c] = [down[c] EXCEPT !.rst = TRUE]]
    BY <1>7 DEF Send, SendTooLate, Goto
  <2>2. /\ cpc[c] = "read" /\ next'[c] = next[c] + 1 /\ HasLine(c) /\ e \in Request
        /\ transaction_count'[c] = transaction_count[c] + 1
    BY <2>1, TransactionFacts DEF Transaction
  <2>3. cpc'[c] = "recv"
    BY <1>1, <2>1
  <2>4. /\ down'[c].data = down[c].data
        /\ PeerClosed(down[c]) => PeerClosed(down'[c])
    <3>1. CASE down' = down
      BY <3>1
    <3>2. CASE down' = [down EXCEPT ![c] = [down[c] EXCEPT !.rst = TRUE]]
      <4>1. PICK t \in Stream(Nat) : /\ t = [down[c] EXCEPT !.rst = TRUE]
                                     /\ t.data = down[c].data /\ t.fin = down[c].fin /\ t.rst = TRUE
        BY <1>1, ResetFacts
      <4>2. down'[c] = t
        BY <1>1, <3>2, <4>1
      <4> QED
        BY <4>1, <4>2 DEF PeerClosed
    <3> QED
      BY <2>1, <3>1, <3>2
  <2>5. /\ Log(c, e) /\ e \in LogEntry /\ e \notin Outcome /\ e \notin Unlogged
        /\ e.kind # "done"
    BY <2>1, <2>2, RequestLogged
  <2>6. e.kind # "sent"
    BY <2>2 DEF Request
  <2> HIDE DEF e
  <2> QED
    BY <2>1, <2>2, <2>3, <2>4, <2>5, <2>6, LineLogged DEF e
<1>8. CASE SleepLine(c)
  <2> DEFINE e == LineOf(c)
  <2>1. /\ cpc[c] = "read" /\ HasLine(c) /\ e.kind = "pause" /\ LogJob(c, e)
        /\ next' = [next EXCEPT ![c] = @ + 1]
        /\ UNCHANGED <<svars, cpc, input, transaction_count>>
    BY <1>8 DEF SleepLine
  <2>2. next'[c] = next[c] + 1 /\ down' = down
    BY <2>1 DEF CInv, Types, svars, conns
  <2>3. /\ e \notin Request
        /\ \/ e \in Unlogged /\ log' = log
           \/ /\ Log(c, e) /\ e \in LogEntry /\ e.kind # "done"
              /\ e \notin Outcome /\ e \notin Unlogged
    BY <2>1, PauseLogged DEF CInv
  <2>4. CASE e \in Unlogged /\ log' = log
    BY <2>1, <2>2, <2>4, LinePassed
  <2>5. CASE /\ Log(c, e) /\ e \in LogEntry /\ e.kind # "done"
             /\ e \notin Outcome /\ e \notin Unlogged
    BY <2>1, <2>2, <2>3, <2>5, LineLogged
  <2> QED
    BY <2>3, <2>4, <2>5
<1> QED
  BY <1>2, <1>3, <1>4, <1>5, <1>6, <1>7, <1>8 DEF ClientStep

\* A client's step leaves the other clients alone.
LEMMA OthersSame ==
    ASSUME CInv, NEW c \in Clients, ClientStep(c) \/ Kill(c), NEW d \in Clients \ {c}
    PROVE  Same(d)
<1>1. /\ cpc \in [Clients -> {"connect", "read", "recv", "done", "failed", "killed"}]
      /\ next \in [Clients -> Nat] /\ transaction_count \in [Clients -> Nat]
      /\ log \in [Clients -> Seq(LogEntry)]
      /\ phase \in [Clients -> {"none", "backlog", "open", "closed"}]
      /\ up \in [Clients -> Stream(Request)] /\ down \in [Clients -> Stream(Nat)]
  BY DEF CInv, Types, TypeOK, SInv, STypeOK
<1>2. input' = input
  BY <1>1 DEF ClientStep, Connect, ConnectFails, Send, SendTooLate, SendFails, ReceiveReply,
     ReceiveNothing, ReceiveFails, SleepLine, BadLine, EndOfInput, Kill
<1>3. log'[d] = log[d]
  BY <1>1 DEF ClientStep, Connect, ConnectFails, Send, SendTooLate, SendFails, ReceiveReply,
     ReceiveNothing, ReceiveFails, SleepLine, BadLine, EndOfInput, Kill, Return, Log, LogJob
<1>4. next'[d] = next[d] /\ transaction_count'[d] = transaction_count[d]
  BY <1>1 DEF ClientStep, Connect, ConnectFails, Send, SendTooLate, SendFails, ReceiveReply,
     ReceiveNothing, ReceiveFails, SleepLine, BadLine, EndOfInput, Kill, Transaction
<1>5. cpc'[d] = cpc[d]
  BY <1>1 DEF ClientStep, Connect, ConnectFails, Send, SendTooLate, SendFails, ReceiveReply,
     ReceiveNothing, ReceiveFails, SleepLine, BadLine, EndOfInput, Kill, Return, Hang, Goto
<1>6. phase'[d] = phase[d] /\ up'[d] = up[d] /\ down'[d] = down[d]
  BY <1>1 DEF ClientStep, Connect, ConnectFails, Send, SendTooLate, SendFails, ReceiveReply,
     ReceiveNothing, ReceiveFails, SleepLine, BadLine, EndOfInput, Kill, Return, Hang,
     svars, conns
<1> QED
  BY <1>2, <1>3, <1>4, <1>5, <1>6 DEF Same

\* A connection that the server has closed stays closed, and gets no reply.
LEMMA ClosedForGood ==
    ASSUME CInv, ServerStep \/ ServerFault, NEW d \in Clients, phase[d] = "closed"
    PROVE  phase'[d] = "closed" /\ down'[d].data = down[d].data
<1>1. CASE conns' = conns
  BY <1>1 DEF conns
<1>2. ASSUME NEW c \in Clients, ScanHup(c) \/ ScanClosed(c)
      PROVE  phase'[d] = "closed" /\ down'[d].data = down[d].data
  <2>1. CloseConnection(c) /\ spc = "scan" /\ fds[idx] = c /\ idx <= current_size
    BY <1>2 DEF ScanHup, ScanClosed, Drop, AtClient, AtEntry
  <2>2. c # d
    BY <2>1, AtOpen DEF CInv
  <2> QED
    BY <2>1, <2>2, CloseConnectionFacts DEF CInv, SInv
<1>3. ASSUME NEW c \in Clients, Accept(c)
      PROVE  phase'[d] = "closed" /\ down'[d].data = down[d].data
  BY <1>3 DEF Accept, Backlog, CInv, SInv, STypeOK
<1>4. ASSUME NEW c \in Clients, ScanJob(c) \/ ScanNegative(c)
      PROVE  phase'[d] = "closed" /\ down'[d].data = down[d].data
  BY <1>4 DEF ScanJob, ScanNegative
<1>5. CASE Cleanup \/ \E c \in Clients : ScanSpaced(c)
  <2>1. \E u \in [Clients -> Stream(Request)] : CloseAll(u)
    BY <1>5, ReceiveFacts DEF Cleanup, ScanSpaced, CInv, SInv, STypeOK
  <2> QED
    BY <2>1, CloseAllFacts DEF CInv, SInv
<1>6. CASE Finish
  <2>1. PICK c \in Clients : c = fds[idx]
    BY <1>6 DEF Finish, CInv, SInv, Place
  <2>2. /\ SendNumber(c, job_count + 1) /\ job_count + 1 \in Nat /\ phase' = phase
        /\ spc = "work" /\ idx <= current_size
    BY <1>6, <2>1 DEF Finish, Reply, CInv, SInv, STypeOK, Place
  <2>3. c # d
    BY <2>1, <2>2, AtOpen DEF CInv
  <2> QED
    BY <2>2, <2>3, SendNumberFacts DEF CInv, SInv
<1> QED
  BY <1>1, <1>2, <1>3, <1>4, <1>5, <1>6
     DEF ServerStep, ServerFault, Setup, SetupFails, Poll, PollTimesOut, PollFails, ScanError,
         ScanListener, AcceptDone, AcceptFails, ScanIdle, ScanPollFails, EndScan

LInv == CInv /\ \A c \in Clients : Logged(c)

\* The logs keep fitting the inputs and the connections (client.cpp 29-60).
THEOREM LogInvariant == Spec => []LInv
<1>1. Init => LInv
  <2> SUFFICES ASSUME Init PROVE LInv
    OBVIOUS
  <2>1. ASSUME NEW c \in Clients PROVE Logged(c)
    <3>1. log[c] = <<>> /\ cpc[c] = "connect" /\ next[c] = 1 /\ transaction_count[c] = 0
      BY <2>1 DEF Init
    <3>2. Sent(c) = {} /\ Replies(c) = {} /\ DOMAIN log[c] = {}
      BY <3>1 DEF Sent, Replies
    <3>3. Missed(c) = {} /\ Cardinality(Sent(c)) = 0
      BY <3>2, FS_EmptySet DEF Missed
    <3>4. Told(c) = ToTell(input[c], next[c] - 1)
      <4>1. SubSeq(input[c], 1, next[c] - 1) = <<>>
        BY <3>1, SubSeqEmpty
      <4>2. \A X : Without(<<>>, X) = <<>>
        BY WithoutEmpty
      <4> QED
        BY <3>1, <4>1, <4>2 DEF Told, ToTell
    <3> QED
      BY <3>1, <3>2, <3>3, <3>4 DEF Logged
  <2> QED
    BY <2>1, InitCInv DEF LInv
<1>2. LInv /\ [Next]_vars => LInv'
  <2> SUFFICES ASSUME LInv, [Next]_vars PROVE LInv'
    OBVIOUS
  <2>1. CInv /\ CInv'
    BY NextCInv DEF LInv
  <2>2. ASSUME NEW d \in Clients PROVE Logged(d)'
    <3>1. Logged(d) /\ (PeerClosed(down[d]) <=> phase[d] = "closed")
                    /\ (PeerClosed(down[d])' <=> phase'[d] = "closed")
      BY <2>1 DEF LInv, CInv, Link
    <3>2. CASE (ServerStep \/ ServerFault) /\ UNCHANGED cvars
      <4>1. phase[d] = "closed" => phase'[d] = "closed" /\ down'[d].data = down[d].data
        BY <2>1, <3>2, ClosedForGood
      <4>2. PeerClosed(down'[d]) <=> phase'[d] = "closed"
        BY <3>1 DEF PeerClosed
      <4> QED
        BY <3>1, <3>2, <4>1, <4>2, LoggedKept DEF cvars
    <3>3. ASSUME NEW c \in Clients, ClientStep(c) \/ Kill(c) PROVE Logged(d)'
      <4>1. CASE c = d
        BY <2>1, <3>1, <3>3, <4>1, ClientLogged
      <4>2. CASE c # d
        <5>1. Same(d)
          BY <2>1, <3>3, <4>2, OthersSame
        <5> QED
          BY <3>1, <5>1, LoggedKept DEF Same
      <4> QED
        BY <4>1, <4>2
    <3>4. CASE UNCHANGED vars
      BY <3>1, <3>4, LoggedKept DEF vars, cvars, svars, conns
    <3> QED
      BY <3>2, <3>3, <3>4 DEF Next
  <2> QED
    BY <2>1, <2>2 DEF LInv
<1> QED
  BY <1>1, <1>2, PTL DEF Spec

\* The log of a client tells what the client did, whatever the server does
\* and whoever dies (client.cpp 29-60, 80-102, main.cpp 31-43).
THEOREM LogsFollowInput == Spec => []LogFollowsInput
<1>1. ASSUME LInv PROVE LogFollowsInput
  <2> SUFFICES ASSUME NEW c \in Clients
               PROVE
        /\ \/ Told(c) = ToTell(input[c], next[c] - 1)
           \/ /\ cpc[c] = "failed" /\ input[c][next[c] - 1] \in Request
              /\ Told(c) = ToTell(input[c], next[c] - 2)
        /\ \A k \in Replies(c) :
              /\ k - 1 \in Sent(c)
              /\ \A j \in 1 .. k - 1 :
                    ~(j \in Sent(c) /\ j < Len(log[c]) /\ j + 1 \notin Replies(c))
        /\ \A k \in DOMAIN log[c] : log[c][k].kind = "sent" =>
              /\ k = Len(log[c])
              /\ \/ log[c][k].number = Cardinality(Sent(c))
                 \/ cpc[c] = "failed" /\ log[c][k].number = Cardinality(Sent(c)) + 1
    BY DEF LogFollowsInput, Told, ToTell, Sent
  <2>1. Types /\ Logged(c) /\ Replies(c) \subseteq 1 .. Len(log[c]) /\ Len(log[c]) \in Nat
    BY <1>1, RepliesFinite, ClientTypes DEF LInv, CInv
  <2>2. \/ Told(c) = ToTell(input[c], next[c] - 1)
        \/ /\ cpc[c] = "failed" /\ input[c][next[c] - 1] \in Request
           /\ Told(c) = ToTell(input[c], next[c] - 2)
    BY <2>1 DEF Logged
  <2>3. ASSUME NEW k \in Replies(c)
        PROVE  /\ k - 1 \in Sent(c)
               /\ \A j \in 1 .. k - 1 :
                     ~(j \in Sent(c) /\ j < Len(log[c]) /\ j + 1 \notin Replies(c))
    <3>1. k - 1 \in Sent(c) /\ \A j \in Missed(c) : j >= k
      BY <2>1 DEF Logged
    <3>2. \A j \in 1 .. k - 1 : j \notin Missed(c)
      BY <2>1, <3>1
    <3> QED
      BY <3>1, <3>2 DEF Missed
  <2>4. \A k \in DOMAIN log[c] : log[c][k].kind = "sent" =>
              /\ k = Len(log[c])
              /\ \/ log[c][k].number = Cardinality(Sent(c))
                 \/ cpc[c] = "failed" /\ log[c][k].number = Cardinality(Sent(c)) + 1
    BY <2>1 DEF Logged
  <2> QED
    BY <2>2, <2>3, <2>4
<1> QED
  BY <1>1, LogInvariant, PTL
=============================================================================
