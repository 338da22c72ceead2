--------------------------- MODULE ProdConProofs ---------------------------
(***************************************************************************)
(* Proofs about ProdCon, for any number of consumers and any inputs.  The  *)
(* program is one caller of the queue among those QSpec allows, so what    *)
(* ConcurrentQueueProofs proves of the queue holds inside the program.     *)
(***************************************************************************)
EXTENDS ProdCon, ConcurrentQueueProofs, DataLemmas

\* The main thread is not a consumer.
LEMMA MainAlone == Main \in Threads /\ Main \notin Consumers /\ Threads = {Main} \cup Consumers
BY QueueAssumption, ProdConAssumption DEF Threads

\* The line main reads is a line of the input.
LEMMA LineRead ==
    ASSUME TypeOK, HasLine
    PROVE  input[next] \in Line /\ next + 1 \in 1 .. Len(input) + 1
BY ProdConAssumption, SMT DEF TypeOK, HasLine

-----------------------------------------------------------------------------
(* The program as a caller of the queue.                                    *)

\* Every step of main is a call on the queue or does not touch it.
LEMMA MainCalls ==
    ASSUME TypeOK, MainStep
    PROVE  [QNext]_qvars
<1> USE MainAlone, ProdConAssumption
<1>1. CASE ReadTransaction
  <2>1. input[next].n \in Longs /\ CallPush(Main, parse_job(input[next].n))
    BY <1>1, LineRead, SMT DEF ReadTransaction, Line
  <2> QED
    BY <2>1 DEF QNext, Call
<1>2. CASE Pushed
  BY <1>2 DEF Pushed, QNext, Call
<1>3. CASE EndOfInput
  BY <1>3 DEF EndOfInput, QNext, Call
<1>4. ASSUME NEW c \in Consumers, InsertWorkCount(c) \/ StartConsumer(c)
      PROVE  [QNext]_qvars
  BY <1>4 DEF InsertWorkCount, StartConsumer
<1>5. CASE WorkLogged \/ ReadSleep \/ Slept \/ ReadBadLine
  BY <1>5 DEF WorkLogged, ReadSleep, Slept, ReadBadLine
<1>6. CASE ProducerReturns \/ JoinAll \/ PrintStats
  BY <1>6 DEF ProducerReturns, JoinAll, PrintStats
<1> QED
  BY <1>1, <1>2, <1>3, <1>4, <1>5, <1>6 DEF MainStep

\* So is every step of a consumer.
LEMMA ConsumerCalls ==
    ASSUME NEW c \in Consumers, ConsumerStep(c)
    PROVE  [QNext]_qvars
<1>1. c \in Threads
  BY DEF Threads
<1>2. CASE TestEOF(c)
  BY <1>1, <1>2 DEF TestEOF, QNext, Call
<1>3. CASE Ask(c)
  BY <1>1, <1>3 DEF Ask, QNext, Call
<1>4. CASE Receive(c)
  BY <1>1, <1>4 DEF Receive, QNext, Call
<1>5. CASE TestSize(c) \/ PoppedNothing(c) \/ Complete(c) \/ CountWork(c)
  BY <1>5 DEF TestSize, PoppedNothing, Complete, CountWork
<1> QED
  BY <1>2, <1>3, <1>4, <1>5 DEF ConsumerStep

\* Every step of the program is a step of the queue's general caller.
LEMMA NextCalls == TypeOK /\ [Next]_vars => [QNext]_qvars
<1> SUFFICES ASSUME TypeOK, [Next]_vars
             PROVE  [QNext]_qvars
  OBVIOUS
<1>1. CASE UNCHANGED vars
  BY <1>1 DEF vars
<1>2. ASSUME NEW t \in Threads, ThreadStep(t)
      PROVE  [QNext]_qvars
  BY <1>2, MainCalls, ConsumerCalls DEF ThreadStep, QNext
<1>3. ASSUME NEW t \in Threads, SpuriousWakeup(t)
      PROVE  [QNext]_qvars
  BY <1>3 DEF QNext
<1> QED
  BY <1>1, <1>2, <1>3 DEF Next

-----------------------------------------------------------------------------
(* The inductive invariant.                                                 *)

LinesOK == lines \in [States -> Nat]

\* The initial state satisfies both invariants.
LEMMA PInitInv == Init => PInv /\ QInv
<1> SUFFICES ASSUME Init PROVE PInv /\ QInv
  OBVIOUS
<1> USE MainAlone, ProdConAssumption
<1>1. QInv /\ QTypeOK
  BY QInitInv DEF Init, QInv
<1>2. at = [t \in Threads |-> "idle"] /\ tasks = <<>> /\ cq_isEOF = FALSE
  BY DEF Init, QInit
<1>3. /\ pc \in [Threads -> MainAt \cup ConsumerAt]
      /\ pc[Main] = "insert" /\ \A c \in Consumers : pc[c] = "none"
  BY SMT DEF Init, MainAt, ConsumerAt
<1>4. input \in Inputs /\ next \in 1 .. Len(input) + 1
  BY SMT DEF Init
<1>5. stats \in [Counters -> Nat] /\ lines \in [States -> Nat] /\ job \in [Consumers -> Values \cup {NoJob}]
  BY DEF Init
<1>6. DOMAIN work_count \subseteq Consumers /\ work_count \in [DOMAIN work_count -> Nat]
  BY DEF Init
<1>7. TypeOK
  BY <1>1, <1>3, <1>4, <1>5, <1>6 DEF TypeOK, MainAt, ConsumerAt, Init
<1>8. CallsMatch /\ PopAnswers /\ StartUp
  BY <1>2, <1>3, SMT DEF CallsMatch, PopAnswers, StartUp, PushAt, PopAt, SizeAt, EofAt, Init
<1>9. Closing
  BY <1>2, <1>3, SMT DEF Closing, Init
<1> QED
  BY <1>1, <1>7, <1>8, <1>9 DEF PInv

\* A step of main or of a consumer keeps the type of the counts of log lines.
LEMMA LinesTyped ==
    ASSUME LinesOK, MainStep \/ \E c \in Consumers : ConsumerStep(c)
    PROVE  LinesOK'
<1>1. ASSUME NEW k \in States, print(k)
      PROVE  LinesOK'
  BY <1>1, SMT DEF LinesOK, print
<1>2. {"work", "sleep", "end", "ask", "receive", "complete"} \subseteq States
  BY DEF States, Counters
<1>3. UNCHANGED lines \/ \E k \in States : print(k)
  <2>1. CASE MainStep
    <3>1. WorkLogged \/ Slept \/ ProducerReturns => \E k \in States : print(k)
      BY <1>2 DEF WorkLogged, Slept, ProducerReturns
    <3>2. ASSUME NEW c \in Consumers, InsertWorkCount(c) \/ StartConsumer(c)
          PROVE  UNCHANGED lines
      BY <3>2 DEF InsertWorkCount, StartConsumer
    <3>3. ASSUME \/ ReadTransaction \/ Pushed \/ ReadSleep \/ ReadBadLine
                 \/ EndOfInput \/ JoinAll \/ PrintStats
          PROVE  UNCHANGED lines
      BY <3>3 DEF ReadTransaction, Pushed, ReadSleep, ReadBadLine, EndOfInput, JoinAll,
             PrintStats
    <3> QED
      BY <2>1, <3>1, <3>2, <3>3 DEF MainStep
  <2>2. ASSUME NEW c \in Consumers, ConsumerStep(c)
        PROVE  UNCHANGED lines \/ \E k \in States : print(k)
    BY <1>2, <2>2, SMT DEF ConsumerStep, TestEOF, TestSize, Ask, PoppedNothing, Receive,
       Complete, CountWork
  <2> QED
    BY <2>1, <2>2
<1> QED
  BY <1>1, <1>3 DEF LinesOK

\* A step of main keeps the types of the program's variables.
LEMMA MainTypes ==
    ASSUME TypeOK, QTypeOK', LinesOK', MainStep
    PROVE  TypeOK'
<1> USE MainAlone, ProdConAssumption
    DEF TypeOK, LinesOK, Move, incrementCounter, Counters, MainAt, ConsumerAt
<1>1. ASSUME NEW c \in Consumers, InsertWorkCount(c)
      PROVE  TypeOK'
  <2>1. DOMAIN work_count' = DOMAIN work_count \cup {c}
    BY <1>1 DEF InsertWorkCount
  <2>2. work_count' \in [DOMAIN work_count \cup {c} -> Nat]
    BY <1>1, SMT DEF InsertWorkCount
  <2>3. pc' \in [Threads -> MainAt \cup ConsumerAt] /\ pc'[Main] \in MainAt
        /\ \A d \in Consumers : pc'[d] \in ConsumerAt
    BY <1>1, SMT DEF InsertWorkCount
  <2> QED
    BY <1>1, <2>1, <2>2, <2>3 DEF InsertWorkCount
<1>2. ASSUME NEW c \in Consumers, StartConsumer(c)
      PROVE  TypeOK'
  <2>1. pc' \in [Threads -> MainAt \cup ConsumerAt]
    BY <1>2, SMT DEF StartConsumer
  <2>2. pc'[Main] \in MainAt /\ \A d \in Consumers : pc'[d] \in ConsumerAt
    BY <1>2, SMT DEF StartConsumer
  <2> QED
    BY <1>2, <2>1, <2>2 DEF StartConsumer
<1>3. CASE ReadTransaction
  BY <1>3, LineRead, SMT DEF ReadTransaction
<1>4. CASE Pushed
  BY <1>4, SMT DEF Pushed
<1>5. CASE WorkLogged
  BY <1>5, SMT DEF WorkLogged
<1>6. CASE ReadSleep
  BY <1>6, LineRead, SMT DEF ReadSleep
<1>7. CASE Slept
  BY <1>7, SMT DEF Slept
<1>8. CASE ReadBadLine
  BY <1>8, SMT DEF ReadBadLine
<1>9. CASE EndOfInput
  BY <1>9, SMT DEF EndOfInput
<1>10. CASE ProducerReturns \/ JoinAll \/ PrintStats
  BY <1>10, SMT DEF ProducerReturns, JoinAll, PrintStats
<1> QED
  BY <1>1, <1>2, <1>3, <1>4, <1>5, <1>6, <1>7, <1>8, <1>9, <1>10 DEF MainStep

\* So does a step of a consumer.
LEMMA ConsumerTypes ==
    ASSUME TypeOK, PopAnswers, QTypeOK', LinesOK', NEW c \in Consumers, ConsumerStep(c)
    PROVE  TypeOK'
<1> USE MainAlone, ProdConAssumption
    DEF TypeOK, LinesOK, Move, incrementCounter, Counters, MainAt, ConsumerAt
<1>1. CASE TestEOF(c)
  <2>1. CASE ~isEOF /\ Move(c, "test_eof", "ask")
    BY <1>1, <2>1, SMT DEF TestEOF
  <2>2. CASE isEOF /\ Move(c, "test_eof", "test_size")
    BY <1>1, <2>2, SMT DEF TestEOF
  <2> QED
    BY <1>1, <2>1, <2>2 DEF TestEOF
<1>2. CASE TestSize(c)
  BY <1>2, SMT DEF TestSize
<1>3. CASE Ask(c)
  BY <1>3, SMT DEF Ask
<1>4. CASE PoppedNothing(c)
  BY <1>4, SMT DEF PoppedNothing
<1>5. CASE Receive(c)
  BY <1>5, SMT DEF Receive, PopAnswers
<1>6. CASE Complete(c)
  BY <1>6, SMT DEF Complete
<1>7. CASE CountWork(c)
  <2>0. \A D : work_count \in [D -> Nat]
                => [work_count EXCEPT ![c] = @ + 1] \in [D -> Nat]
    <3> SUFFICES ASSUME NEW D, work_count \in [D -> Nat]
                 PROVE  [work_count EXCEPT ![c] = @ + 1] \in [D -> Nat]
      OBVIOUS
    <3>1. \A d \in D : work_count[d] \in Nat /\ work_count[d] + 1 \in Nat
      BY SMT
    <3> QED
      BY <3>1
  <2>1. work_count' \in [DOMAIN work_count -> Nat]
    BY <1>7, <2>0, Zenon DEF CountWork
  <2>2. DOMAIN work_count' = DOMAIN work_count
    BY <2>1
  <2> QED
    BY <1>7, <2>1, <2>2, SMT DEF CountWork
<1> QED
  BY <1>1, <1>2, <1>3, <1>4, <1>5, <1>6, <1>7 DEF ConsumerStep

-----------------------------------------------------------------------------
(* The agreement between the program's places and the queue's.              *)

Agree == CallsMatch /\ PopAnswers /\ StartUp /\ Closing

\* A step of main keeps it.
LEMMA MainAgrees ==
    ASSUME PInv, QInv, MainStep
    PROVE  Agree'
<1> USE MainAlone, ProdConAssumption
    DEF PInv, Agree, TypeOK, CallsMatch, PopAnswers, StartUp, Closing, Move,
        QTypeOK, PushAt, PopAt, SizeAt, EofAt, Goto, qvars, locks
<1>1. ASSUME NEW c \in Consumers, InsertWorkCount(c)
      PROVE  Agree'
  BY <1>1, SMT DEF InsertWorkCount
<1>2. ASSUME NEW c \in Consumers, StartConsumer(c)
      PROVE  Agree'
  <2>1. pc' \in [Threads -> MainAt \cup ConsumerAt]
    BY <1>2, SMT DEF StartConsumer, MainAt, ConsumerAt
  <2>2. /\ pc[Main] = "start" /\ pc'[Main] \in {"insert", "read"}
        /\ pc[c] = "none" /\ pc'[c] = "test_eof"
        /\ \A d \in Consumers : d # c => pc'[d] = pc[d]
    BY <1>2, SMT DEF StartConsumer
  <2>3. UNCHANGED <<qvars, isEOF>>
    BY <1>2 DEF StartConsumer
  <2>4. CallsMatch' /\ PopAnswers'
    BY <2>2, <2>3, SMT
  <2>5. StartUp'
    <3>1. /\ tasks' = <<>> /\ ~cq_isEOF' /\ ~isEOF'
          /\ \A d \in Consumers :
                /\ pc[d] \in {"none", "test_eof", "ask", "popping"}
                /\ pc[d] = "popping" => at'[d] \in {"pop.lock_job", "pop.test",
                                                   "pop.wait", "pop.blocked"}
      BY <2>2, <2>3
    <3> QED
      BY <2>2, <3>1, SMT
  <2>6. Closing'
    BY <2>2, <2>3, SMT
  <2> QED
    BY <2>4, <2>5, <2>6
<1>3. CASE ReadTransaction
  BY <1>3, SMT DEF ReadTransaction, CallPush
<1>4. CASE Pushed
  BY <1>4, SMT DEF Pushed, CallSize
<1>5. CASE WorkLogged \/ ReadSleep \/ Slept
  BY <1>5, SMT DEF WorkLogged, ReadSleep, Slept
<1>6. CASE ReadBadLine
  BY <1>6, SMT DEF ReadBadLine
<1>7. CASE EndOfInput
  BY <1>7, SMT DEF EndOfInput, CallNotifyConsumers
<1>8. CASE ProducerReturns
  BY <1>8, SMT DEF ProducerReturns
<1>9. CASE JoinAll
  BY <1>9, SMT DEF JoinAll
<1>10. CASE PrintStats
  BY <1>10, SMT DEF PrintStats
<1> QED
  BY <1>1, <1>2, <1>3, <1>4, <1>5, <1>6, <1>7, <1>8, <1>9, <1>10 DEF MainStep

\* So does a step of a consumer.
LEMMA ConsumerAgrees ==
    ASSUME PInv, QInv, NEW c \in Consumers, ConsumerStep(c)
    PROVE  Agree'
<1> USE MainAlone, ProdConAssumption
    DEF PInv, Agree, TypeOK, CallsMatch, PopAnswers, StartUp, Closing, Move,
        QTypeOK, PushAt, PopAt, SizeAt, EofAt, Goto, qvars, locks
<1>1. CASE TestEOF(c)
  <2>1. CASE ~isEOF /\ Move(c, "test_eof", "ask")
    BY <1>1, <2>1, SMT DEF TestEOF
  <2>2. CASE isEOF /\ Move(c, "test_eof", "test_size")
    BY <1>1, <2>2, SMT DEF TestEOF, CallSize
  <2> QED
    BY <1>1, <2>1, <2>2 DEF TestEOF
<1>2. CASE TestSize(c)
  <2>1. ret[c] \in Int
    BY QueueAssumption, SMT DEF Threads, NoJob
  <2>2. CASE ret[c] > 0 /\ Move(c, "test_size", "ask")
    BY <1>2, <2>2, SMT DEF TestSize
  <2>3. CASE ret[c] <= 0 /\ Move(c, "test_size", "exited")
    BY <1>2, <2>3, SMT DEF TestSize
  <2> QED
    BY <1>2, <2>1, <2>2, <2>3, SMT DEF TestSize
<1>3. CASE Ask(c)
  BY <1>3, SMT DEF Ask, CallPop
<1>4. CASE PoppedNothing(c)
  BY <1>4, SMT DEF PoppedNothing
<1>5. CASE Receive(c)
  BY <1>5, SMT DEF Receive, CallSize
<1>6. CASE Complete(c)
  BY <1>6, SMT DEF Complete
<1>7. CASE CountWork(c)
  BY <1>7, SMT DEF CountWork
<1> QED
  BY <1>1, <1>2, <1>3, <1>4, <1>5, <1>6, <1>7 DEF ConsumerStep

\* So does a step of a thread inside Push,
LEMMA PushAgrees ==
    ASSUME PInv, QInv, NEW t \in Threads, PushStep(t), UNCHANGED pvars
    PROVE  Agree'
<1> USE MainAlone, QueueAssumption, ProdConAssumption
    DEF PInv, Agree, TypeOK, CallsMatch, PopAnswers, StartUp, Closing, pvars,
        QInv, QTypeOK, TestsStillHold, JobAvailable, PushAt, PopAt, SizeAt,
        EofAt, Goto, locks
<1>1. CASE PushLockSlot(t)
  BY <1>1, SMT DEF PushLockSlot
<1>2. CASE PushWait(t)
  BY <1>2, SMT DEF PushWait
<1>3. CASE PushProceed(t)
  BY <1>3, SMT DEF PushProceed
<1>4. CASE PushLockJob(t)
  BY <1>4, SMT DEF PushLockJob
<1>5. CASE PushLockQueue(t)
  BY <1>5, SMT DEF PushLockQueue
<1>6. CASE PushPut(t)
  BY <1>6, SMTT(30) DEF PushPut, GotoAndWake, NotifyOne, JobWaiters
<1> QED
  BY <1>1, <1>2, <1>3, <1>4, <1>5, <1>6 DEF PushStep

\* inside Pop,
LEMMA PopAgrees ==
    ASSUME PInv, QInv, NEW t \in Threads, PopStep(t), UNCHANGED pvars
    PROVE  Agree'
<1> USE MainAlone, QueueAssumption, ProdConAssumption
    DEF PInv, Agree, TypeOK, CallsMatch, PopAnswers, StartUp, Closing, pvars,
        QInv, QTypeOK, TestsStillHold, JobAvailable, PushAt, PopAt, SizeAt,
        EofAt, Goto, locks
<1>1. CASE PopLockJob(t)
  BY <1>1, SMT DEF PopLockJob
<1>2. CASE PopTestFails(t)
  BY <1>2, SMT DEF PopTestFails
<1>3. CASE PopWait(t)
  BY <1>3, SMT DEF PopWait
<1>4. CASE PopProceed(t)
  BY <1>4, SMT DEF PopProceed
<1>5. CASE PopLockSlot(t)
  BY <1>5, SMT DEF PopLockSlot
<1>6. CASE PopLockQueue(t)
  BY <1>6, SMT DEF PopLockQueue
<1>7. CASE PopTake(t)
  BY <1>7, SMT DEF PopTake, GotoAndWake, SlotWaiters
<1>8. CASE PopNothing(t)
  BY <1>8, SMT DEF PopNothing, NoJob
<1> QED
  BY <1>1, <1>2, <1>3, <1>4, <1>5, <1>6, <1>7, <1>8 DEF PopStep

\* inside Size or NotifyConsumers, or one that is woken by nobody.
LEMMA OthersAgree ==
    ASSUME PInv, QInv, NEW t \in Threads, UNCHANGED pvars,
           SizeStep(t) \/ EofStep(t) \/ SpuriousWakeup(t)
    PROVE  Agree'
<1> USE MainAlone, QueueAssumption, ProdConAssumption
    DEF PInv, Agree, TypeOK, CallsMatch, PopAnswers, StartUp, Closing, pvars,
        QInv, QTypeOK, TestsStillHold, JobAvailable, PushAt, PopAt, SizeAt,
        EofAt, Goto, locks
<1>1. CASE SizeLock(t)
  BY <1>1, SMT DEF SizeLock
<1>2. CASE SizeRead(t)
  <2>1. /\ at[t] = "size.read" /\ at' = [at EXCEPT ![t] = "idle"]
        /\ ret' = [ret EXCEPT ![t] = Len(tasks)]
        /\ UNCHANGED <<tasks, cq_isEOF>>
    BY <1>2 DEF SizeRead
  <2>2. CallsMatch' /\ PopAnswers'
    BY <2>1, SMT
  <2>3. StartUp'
    BY <2>1, SMT
  <2>4. Len(tasks) <= 0 => tasks = <<>>
    BY SMT
  <2>5. \A c \in Consumers :
            pc[c] = "test_size" =>
                isEOF /\ (at'[c] = "idle" /\ ret'[c] <= 0 => tasks = <<>>)
    BY <2>1, <2>4
  <2>6. Closing'
    BY <2>1, <2>5
  <2> QED
    BY <2>2, <2>3, <2>6
<1>3. CASE EofSet(t)
  BY <1>3, SMT DEF EofSet
<1>4. CASE EofNotify(t)
  BY <1>4, SMT DEF EofNotify, GotoAndWake, JobWaiters
<1>5. CASE SpuriousWakeup(t)
  BY <1>5, SMT DEF SpuriousWakeup, SlotWaiters, JobWaiters
<1> QED
  BY <1>1, <1>2, <1>3, <1>4, <1>5 DEF SizeStep, EofStep

\* Every step of the program preserves both inductive invariants.
LEMMA NextInv == PInv /\ QInv /\ [Next]_vars => PInv' /\ QInv'
<1> SUFFICES ASSUME PInv, QInv, [Next]_vars
             PROVE  PInv' /\ QInv'
  OBVIOUS
<1>1. QInv'
  BY NextCalls, QNextInv DEF PInv
<1>2. TypeOK /\ PopAnswers /\ QTypeOK' /\ LinesOK
  BY <1>1 DEF PInv, QInv, TypeOK, LinesOK
<1>3. CASE UNCHANGED vars
  <2>1. TypeOK'
    BY <1>2, <1>3 DEF vars, pvars, TypeOK
  <2>2. Agree'
    BY <1>3 DEF vars, pvars, qvars, PInv, Agree, CallsMatch, PopAnswers,
                StartUp, Closing
  <2> QED
    BY <1>1, <2>1, <2>2 DEF PInv, Agree
<1>4. CASE MainStep
  BY <1>1, <1>2, <1>4, LinesTyped, MainTypes, MainAgrees DEF PInv, Agree
<1>5. ASSUME NEW c \in Consumers, ConsumerStep(c)
      PROVE  PInv' /\ QInv'
  BY <1>1, <1>2, <1>5, LinesTyped, ConsumerTypes, ConsumerAgrees DEF PInv, Agree
<1>6. ASSUME NEW t \in Threads, UNCHANGED pvars,
             QueueStep(t) \/ SpuriousWakeup(t)
      PROVE  PInv' /\ QInv'
  <2>1. TypeOK'
    BY <1>2, <1>6 DEF pvars, TypeOK
  <2>2. Agree'
    BY <1>6, PushAgrees, PopAgrees, OthersAgree DEF QueueStep
  <2> QED
    BY <1>1, <2>1, <2>2 DEF PInv, Agree
<1> QED
  BY <1>3, <1>4, <1>5, <1>6 DEF Next, ThreadStep

\* The flags, the queue and the places of the threads agree in every state of
\* the program, from start-up to shutdown.
THEOREM PInvHolds == Spec => []PInv
<1>1. Init => PInv /\ QInv
  BY PInitInv
<1>2. PInv /\ QInv /\ [Next]_vars => PInv' /\ QInv'
  BY NextInv
<1> QED
  BY <1>1, <1>2, PTL DEF Spec

\* Every variable of the program keeps its type.
THEOREM TypeCorrect == Spec => []TypeOK
<1>1. PInv => TypeOK
  BY DEF PInv
<1> QED
  BY <1>1, PInvHolds, PTL

\* The program is a caller of the queue: whatever is proved of QSpec holds in
\* it, with the queue's properties as instances.
THEOREM ProgramUsesQueue == Spec => QSpec
<1>1. Init => QInit
  BY DEF Init
<1>2. TypeOK /\ [Next]_vars => [QNext]_qvars
  BY NextCalls
<1> QED
  BY <1>1, <1>2, TypeCorrect, PTL DEF Spec, QSpec

\* In the program, too, one notify_one per Push is enough, whatever the number
\* of consumers.
THEOREM ProgramWakeups == Spec => []NoMissedWakeup
BY ProgramUsesQueue, WakeupsSuffice, PTL

\* No consumer gives up while a job may still come.
THEOREM ConsumersStay == Spec => []ExitOnlyAtEnd
<1>1. PInv => ExitOnlyAtEnd
  BY DEF PInv, Closing, ExitOnlyAtEnd
<1> QED
  BY <1>1, PInvHolds, PTL

\* Neither the entries main inserts without counter_mutex nor the statistics
\* it prints without it are written by a consumer at the same time.
THEOREM StatsUnshared == Spec => []NoStatsRace
<1>1. PInv => NoStatsRace
  BY SMT DEF PInv, StartUp, Closing, NoStatsRace
<1> QED
  BY <1>1, PInvHolds, PTL

-----------------------------------------------------------------------------
(* Counting: the lines read, the jobs on their way, the lines of the log.   *)

\* The lines of each kind among the first k of an input.
JobsIn(in, k)   == Cardinality(UpTo({i \in Nat : in[i].type = "T"}, k))
ValidIn(in, k)  == Cardinality(UpTo({i \in Nat : /\ in[i].type = "T"
                                                /\ parse_job(in[i].n) # NoJob}, k))
SleepsIn(in, k) == Cardinality(UpTo({i \in Nat : in[i].type # "T"}, k))

LEMMA LinesCounted ==
    ASSUME NEW k \in Nat
    PROVE  /\ LinesOf(k, IsJob) = JobsIn(input, k)
           /\ LinesOf(k, IsValid) = ValidIn(input, k)
           /\ LinesOf(k, IsSleep) = SleepsIn(input, k)
<1>1. {i \in 1 .. k : IsJob(input[i].type, input[i].n)}
      = UpTo({i \in Nat : input[i].type = "T"}, k)
  BY DEF UpTo, IsJob
<1>2. {i \in 1 .. k : IsValid(input[i].type, input[i].n)}
      = UpTo({i \in Nat : input[i].type = "T" /\ parse_job(input[i].n) # NoJob}, k)
  BY DEF UpTo, IsValid
<1>3. {i \in 1 .. k : IsSleep(input[i].type, input[i].n)}
      = UpTo({i \in Nat : input[i].type # "T"}, k)
  BY DEF UpTo, IsSleep
<1> QED
  BY <1>1, <1>2, <1>3 DEF LinesOf, JobsIn, ValidIn, SleepsIn

\* What reading one more line does to the counts.
LEMMA OneMoreLine ==
    ASSUME NEW in, NEW k \in Nat
    PROVE  /\ JobsIn(in, k) \in Nat /\ ValidIn(in, k) \in Nat /\ SleepsIn(in, k) \in Nat
           /\ in[k + 1].type = "T" => /\ JobsIn(in, k + 1) = JobsIn(in, k) + 1
                                      /\ SleepsIn(in, k + 1) = SleepsIn(in, k)
           /\ in[k + 1].type # "T" => /\ JobsIn(in, k + 1) = JobsIn(in, k)
                                      /\ SleepsIn(in, k + 1) = SleepsIn(in, k) + 1
                                      /\ ValidIn(in, k + 1) = ValidIn(in, k)
           /\ in[k + 1].type = "T" /\ parse_job(in[k + 1].n) # NoJob =>
                 ValidIn(in, k + 1) = ValidIn(in, k) + 1
           /\ parse_job(in[k + 1].n) = NoJob => ValidIn(in, k + 1) = ValidIn(in, k)
<1> DEFINE J == {i \in Nat : in[i].type = "T"}
           V == {i \in Nat : in[i].type = "T" /\ parse_job(in[i].n) # NoJob}
           S == {i \in Nat : in[i].type # "T"}
<1>1. k + 1 \in Nat
  OBVIOUS
<1>2. k + 1 \in J <=> in[k + 1].type = "T"
  BY <1>1
<1>3. k + 1 \in V <=> in[k + 1].type = "T" /\ parse_job(in[k + 1].n) # NoJob
  BY <1>1
<1>4. k + 1 \in S <=> in[k + 1].type # "T"
  BY <1>1
<1>5. JobsIn(in, k) = Cardinality(UpTo(J, k)) /\ JobsIn(in, k + 1) = Cardinality(UpTo(J, k + 1))
  BY DEF JobsIn
<1>6. ValidIn(in, k) = Cardinality(UpTo(V, k)) /\ ValidIn(in, k + 1) = Cardinality(UpTo(V, k + 1))
  BY DEF ValidIn
<1>7. SleepsIn(in, k) = Cardinality(UpTo(S, k)) /\ SleepsIn(in, k + 1) = Cardinality(UpTo(S, k + 1))
  BY DEF SleepsIn
<1> HIDE DEF J, V, S
<1> QED
  BY <1>2, <1>3, <1>4, <1>5, <1>6, <1>7, CountUpTo

\* A valid job is a job.
LEMMA ValidAmongJobs ==
    ASSUME NEW in, NEW k \in Nat
    PROVE  ValidIn(in, k) <= JobsIn(in, k)
<1> DEFINE J == UpTo({i \in Nat : in[i].type = "T"}, k)
           V == UpTo({i \in Nat : in[i].type = "T" /\ parse_job(in[i].n) # NoJob}, k)
<1>1. IsFiniteSet(J)
  BY CountUpTo
<1>2. V \in SUBSET J
  BY DEF UpTo
<1>3. Cardinality(V) <= Cardinality(J)
  BY <1>1, <1>2, FS_Subset
<1> QED
  BY <1>3 DEF ValidIn, JobsIn

\* A call of incrementCounter or of print moves one count by one.
LEMMA CounterMoves ==
    ASSUME TypeOK, NEW k \in Counters, incrementCounter(k)
    PROVE  stats'[k] = stats[k] + 1 /\ \A j \in Counters \ {k} : stats'[j] = stats[j]
BY DEF TypeOK, incrementCounter

LEMMA LogMoves ==
    ASSUME TypeOK, NEW k \in States, print(k)
    PROVE  lines'[k] = lines[k] + 1 /\ \A j \in States \ {k} : lines'[j] = lines[j]
BY DEF TypeOK, print

\* 1 while main is at l.
MainIs(l) == IF pc[Main] = l THEN 1 ELSE 0

\* The consumers that are at l.
AtPlace(l) == {c \in Consumers : pc[c] = l}

\* What main has counted and logged of the lines it has read.
MainCounts ==
    /\ stats["work"] + MainIs("pushing") = JobsIn(input, next - 1)
    /\ stats["sleep"] + MainIs("sleeping") = SleepsIn(input, next - 1)
    /\ lines["work"] + MainIs("logging") = stats["work"]
    /\ lines["sleep"] = stats["sleep"]
    /\ lines["end"] = MainIs("join") + MainIs("summary") + MainIs("done")
    /\ pc[Main] \in {"closing", "join", "summary", "done"} => next = Len(input) + 1

\* What the consumers have counted, logged and credited of the jobs received.
ConsumerCounts ==
    /\ lines["ask"] = stats["ask"]
    /\ stats["receive"] = stats["complete"] + Cardinality(AtPlace("logging"))
    /\ lines["receive"] = stats["complete"]
    /\ stats["complete"] = lines["complete"] + Cardinality(AtPlace("counting"))
    /\ Completed = lines["complete"]
    /\ \A c \in Consumers : pc[c] # "none" => c \in DOMAIN work_count

\* A consumer leaves alone what main counts.
LEMMA ConsumerKeepsMain ==
    ASSUME TypeOK, NEW c \in Consumers, ConsumerStep(c)
    PROVE  /\ UNCHANGED <<input, next>> /\ pc'[Main] = pc[Main]
           /\ stats'["work"] = stats["work"] /\ stats'["sleep"] = stats["sleep"]
           /\ lines'["work"] = lines["work"] /\ lines'["sleep"] = lines["sleep"]
           /\ lines'["end"] = lines["end"]
<1>1. UNCHANGED <<input, next>>
  BY DEF ConsumerStep, TestEOF, TestSize, Ask, PoppedNothing, Receive, Complete, CountWork
<1>2. \E l : pc' = [pc EXCEPT ![c] = l]
  BY DEF ConsumerStep, TestEOF, TestSize, Ask, PoppedNothing, Receive, Complete, CountWork,
         Move
<1>3. pc'[Main] = pc[Main]
  BY <1>2, MainAlone DEF TypeOK
<1>4. \/ UNCHANGED stats
      \/ incrementCounter("ask") \/ incrementCounter("receive") \/ incrementCounter("complete")
  BY DEF ConsumerStep, TestEOF, TestSize, Ask, PoppedNothing, Receive, Complete, CountWork
<1>5. stats'["work"] = stats["work"] /\ stats'["sleep"] = stats["sleep"]
  BY <1>4, CounterMoves DEF Counters
<1>6. \/ UNCHANGED lines
      \/ print("ask") \/ print("receive") \/ print("complete")
  BY DEF ConsumerStep, TestEOF, TestSize, Ask, PoppedNothing, Receive, Complete, CountWork
<1>7. /\ lines'["work"] = lines["work"] /\ lines'["sleep"] = lines["sleep"]
      /\ lines'["end"] = lines["end"]
  BY <1>6, LogMoves DEF States, Counters
<1> QED
  BY <1>1, <1>3, <1>5, <1>7

\* main's counts follow the lines it reads.
LEMMA MainCountsKept ==
    ASSUME TypeOK, MainCounts, MainStep
    PROVE  MainCounts'
<1> USE MainAlone
<1>1. PICK k \in Nat : k = next - 1 /\ next = k + 1 /\ next \in Nat
  BY DEF TypeOK
<1>2. /\ stats["work"] \in Nat /\ stats["sleep"] \in Nat
      /\ lines["work"] \in Nat /\ lines["sleep"] \in Nat /\ lines["end"] \in Nat
  BY DEF TypeOK, Counters, States
<1>3. JobsIn(input, k) \in Nat /\ SleepsIn(input, k) \in Nat
  BY OneMoreLine
<1>4. /\ stats["work"] + MainIs("pushing") = JobsIn(input, k)
      /\ stats["sleep"] + MainIs("sleeping") = SleepsIn(input, k)
  BY <1>1 DEF MainCounts
<1>5. ASSUME NEW l, pc'[Main] = l, UNCHANGED <<input, next, stats, lines>>,
             \A m \in {"pushing", "sleeping", "logging", "join", "summary", "done"} :
                 l # m /\ pc[Main] # m,
             l = "closing" => next = Len(input) + 1
      PROVE  MainCounts'
  BY <1>5 DEF MainCounts, MainIs
<1>6. ASSUME NEW c \in Consumers, InsertWorkCount(c)
      PROVE  MainCounts'
  <2>1. pc[Main] = "insert" /\ pc'[Main] = "start"
    BY <1>6 DEF InsertWorkCount, Move, TypeOK
  <2> QED
    BY <1>5, <1>6, <2>1 DEF InsertWorkCount
<1>7. ASSUME NEW c \in Consumers, StartConsumer(c)
      PROVE  MainCounts'
  <2>1. pc[Main] = "start" /\ pc'[Main] \in {"insert", "read"}
    BY <1>7 DEF StartConsumer, TypeOK
  <2> QED
    BY <1>5, <1>7, <2>1 DEF StartConsumer
<1>8. CASE ReadTransaction
  <2>1. pc[Main] = "read" /\ pc'[Main] = "pushing" /\ UNCHANGED <<input, stats, lines>>
    BY <1>8 DEF ReadTransaction, Move, TypeOK
  <2>2. next' = next + 1 /\ next' - 1 = k + 1 /\ input[k + 1].type = "T"
    BY <1>1, <1>8 DEF ReadTransaction
  <2>3. /\ JobsIn(input, k + 1) = JobsIn(input, k) + 1
        /\ SleepsIn(input, k + 1) = SleepsIn(input, k)
    BY <2>2, OneMoreLine
  <2>4. JobsIn(input, next - 1)' = JobsIn(input, k + 1) /\ SleepsIn(input, next - 1)' = SleepsIn(input, k + 1)
    BY <2>1, <2>2
  <2> QED
    BY <1>2, <1>3, <1>4, <2>1, <2>3, <2>4 DEF MainCounts, MainIs
<1>9. CASE ReadSleep
  <2>1. pc[Main] = "read" /\ pc'[Main] = "sleeping" /\ UNCHANGED <<input, stats, lines>>
    BY <1>9 DEF ReadSleep, Move, TypeOK
  <2>2. next' = next + 1 /\ next' - 1 = k + 1 /\ input[k + 1].type # "T"
    BY <1>1, <1>9 DEF ReadSleep
  <2>3. /\ JobsIn(input, k + 1) = JobsIn(input, k)
        /\ SleepsIn(input, k + 1) = SleepsIn(input, k) + 1
    BY <2>2, OneMoreLine
  <2>4. JobsIn(input, next - 1)' = JobsIn(input, k + 1) /\ SleepsIn(input, next - 1)' = SleepsIn(input, k + 1)
    BY <2>1, <2>2
  <2> QED
    BY <1>2, <1>3, <1>4, <2>1, <2>3, <2>4 DEF MainCounts, MainIs
<1>10. CASE Pushed
  <2>1. pc[Main] = "pushing" /\ pc'[Main] = "logging" /\ UNCHANGED <<input, next, lines>>
    BY <1>10 DEF Pushed, Move, TypeOK
  <2>2. stats'["work"] = stats["work"] + 1 /\ stats'["sleep"] = stats["sleep"]
    BY <1>10, CounterMoves DEF Pushed, Counters
  <2> QED
    BY <1>2, <2>1, <2>2 DEF MainCounts, MainIs
<1>11. CASE WorkLogged
  <2>1. pc[Main] = "logging" /\ pc'[Main] = "read" /\ UNCHANGED <<input, next, stats>>
    BY <1>11 DEF WorkLogged, Move, TypeOK
  <2>2. /\ lines'["work"] = lines["work"] + 1 /\ lines'["sleep"] = lines["sleep"]
        /\ lines'["end"] = lines["end"]
    BY <1>11, LogMoves DEF WorkLogged, States, Counters
  <2> QED
    BY <1>2, <2>1, <2>2 DEF MainCounts, MainIs
<1>12. CASE Slept
  <2>1. pc[Main] = "sleeping" /\ pc'[Main] = "read" /\ UNCHANGED <<input, next>>
    BY <1>12 DEF Slept, Move, TypeOK
  <2>2. stats'["sleep"] = stats["sleep"] + 1 /\ stats'["work"] = stats["work"]
    BY <1>12, CounterMoves DEF Slept, Counters
  <2>3. /\ lines'["sleep"] = lines["sleep"] + 1 /\ lines'["work"] = lines["work"]
        /\ lines'["end"] = lines["end"]
    BY <1>12, LogMoves DEF Slept, States, Counters
  <2> QED
    BY <1>2, <2>1, <2>2, <2>3 DEF MainCounts, MainIs
<1>13. CASE ReadBadLine
  <2>1. pc[Main] = "read" /\ pc'[Main] = "aborted"
    BY <1>13 DEF ReadBadLine, Move, TypeOK
  <2> QED
    BY <1>5, <1>13, <2>1 DEF ReadBadLine
<1>14. CASE EndOfInput
  <2>1. pc[Main] = "read" /\ pc'[Main] = "closing"
    BY <1>14 DEF EndOfInput, Move, TypeOK
  <2>2. next = Len(input) + 1
    <3>1. next \in 1 .. Len(input) + 1 /\ ~(next <= Len(input)) /\ Len(input) \in Nat
      BY <1>14, ProdConAssumption DEF EndOfInput, HasLine, TypeOK
    <3> QED
      BY <3>1
  <2> QED
    BY <1>5, <1>14, <2>1, <2>2 DEF EndOfInput
<1>15. CASE ProducerReturns
  <2>1. pc[Main] = "closing" /\ pc'[Main] = "join" /\ UNCHANGED <<input, next, stats>>
    BY <1>15 DEF ProducerReturns, Move, TypeOK
  <2>2. /\ lines'["end"] = lines["end"] + 1 /\ lines'["work"] = lines["work"]
        /\ lines'["sleep"] = lines["sleep"]
    BY <1>15, LogMoves DEF ProducerReturns, States, Counters
  <2> QED
    BY <1>2, <2>1, <2>2 DEF MainCounts, MainIs
<1>16. CASE JoinAll \/ PrintStats
  <2>1. \/ pc[Main] = "join" /\ pc'[Main] = "summary"
        \/ pc[Main] = "summary" /\ pc'[Main] = "done"
    BY <1>16 DEF JoinAll, PrintStats, Move, TypeOK
  <2>2. UNCHANGED <<input, next, stats, lines>>
    BY <1>16 DEF JoinAll, PrintStats
  <2> QED
    BY <1>2, <2>1, <2>2 DEF MainCounts, MainIs
<1> QED
  BY <1>6, <1>7, <1>8, <1>9, <1>10, <1>11, <1>12, <1>13, <1>14, <1>15, <1>16 DEF MainStep

\* A step of main keeps the counts of the consumers.
LEMMA MainKeepsConsumers ==
    ASSUME TypeOK, ConsumerCounts, MainStep
    PROVE  ConsumerCounts'
<1> USE MainAlone
<1>1. /\ stats'["ask"] = stats["ask"] /\ stats'["receive"] = stats["receive"]
      /\ stats'["complete"] = stats["complete"]
  <2>1. UNCHANGED stats \/ incrementCounter("work") \/ incrementCounter("sleep")
    BY DEF MainStep, InsertWorkCount, StartConsumer, ReadTransaction, Pushed, WorkLogged,
           ReadSleep, Slept, ReadBadLine, EndOfInput, ProducerReturns, JoinAll, PrintStats
  <2> QED
    BY <2>1, CounterMoves DEF Counters
<1>2. /\ lines'["ask"] = lines["ask"] /\ lines'["receive"] = lines["receive"]
      /\ lines'["complete"] = lines["complete"]
  <2>1. UNCHANGED lines \/ print("work") \/ print("sleep") \/ print("end")
    BY DEF MainStep, InsertWorkCount, StartConsumer, ReadTransaction, Pushed, WorkLogged,
           ReadSleep, Slept, ReadBadLine, EndOfInput, ProducerReturns, JoinAll, PrintStats
  <2> QED
    BY <2>1, LogMoves DEF States, Counters
<1>3. \/ \A c \in Consumers : pc'[c] = pc[c]
      \/ \E c \in Consumers : /\ c \in DOMAIN work_count /\ UNCHANGED work_count
                              /\ pc[c] = "none" /\ pc'[c] = "test_eof"
                              /\ \A d \in Consumers \ {c} : pc'[d] = pc[d]
  <2>1. ASSUME NEW c \in Consumers, StartConsumer(c)
        PROVE  /\ c \in DOMAIN work_count /\ UNCHANGED work_count
               /\ pc[c] = "none" /\ pc'[c] = "test_eof"
               /\ \A d \in Consumers \ {c} : pc'[d] = pc[d]
    BY <2>1, SMT DEF StartConsumer, TypeOK
  <2>2. ASSUME \A c \in Consumers : ~StartConsumer(c)
        PROVE  \E l : pc' = [pc EXCEPT ![Main] = l]
    BY <2>2 DEF MainStep, Move, InsertWorkCount, ReadTransaction, Pushed, WorkLogged,
           ReadSleep, Slept, ReadBadLine, EndOfInput, ProducerReturns, JoinAll, PrintStats
  <2>3. (\E l : pc' = [pc EXCEPT ![Main] = l]) => \A c \in Consumers : pc'[c] = pc[c]
    BY DEF TypeOK
  <2> QED
    BY <2>1, <2>2, <2>3, Zenon
<1>4. AtPlace("logging")' = AtPlace("logging") /\ AtPlace("counting")' = AtPlace("counting")
  BY <1>3 DEF AtPlace
<1>5. CASE UNCHANGED work_count
  <2>1. Completed' = Completed
    BY <1>5 DEF Completed
  <2>2. \A c \in Consumers : pc'[c] # "none" => c \in DOMAIN work_count'
    BY <1>3, <1>5 DEF ConsumerCounts
  <2> QED
    BY <1>1, <1>2, <1>4, <2>1, <2>2 DEF ConsumerCounts
<1>6. ASSUME NEW c \in Consumers, InsertWorkCount(c)
      PROVE  ConsumerCounts'
  <2> DEFINE D == DOMAIN work_count
             w == [d \in D \cup {c} |-> IF d = c THEN 0 ELSE work_count[d]]
  <2>1. c \notin D /\ work_count' = w
    BY <1>6 DEF InsertWorkCount
  <2>2. IsFiniteSet(D) /\ IsFiniteSet(D \cup {c}) /\ \A d \in D : work_count[d] \in Nat
    BY QueueAssumption, FS_Subset, FS_AddElement DEF TypeOK
  <2>3. DOMAIN w = D \cup {c} /\ w[c] = 0 /\ \A d \in D : w[d] = work_count[d]
    BY <2>1
  <2> HIDE DEF w, D
  <2>4. SumFunctionOnSet(w, D) = SumFunctionOnSet(work_count, D)
    BY <2>2, <2>3, SumSame
  <2>5. SumFunctionOnSet(work_count, D) \in Nat
    BY <2>2, SumUnfold
  <2>6. (D \cup {c}) \ {c} = D
    BY <2>1
  <2>7. \A d \in D \cup {c} : w[d] \in Nat
    BY <2>2, <2>3
  <2>8. SumFunctionOnSet(w, D \cup {c}) = w[c] + SumFunctionOnSet(w, (D \cup {c}) \ {c})
    BY <2>2, <2>7, SumRemove
  <2>9. Completed' = Completed
    BY <2>1, <2>3, <2>4, <2>5, <2>6, <2>8 DEF Completed, D
  <2>10. \A d \in Consumers : pc'[d] = pc[d]
    BY <1>6 DEF InsertWorkCount, Move, TypeOK
  <2>11. \A d \in Consumers : pc'[d] # "none" => d \in DOMAIN work_count'
    BY <2>1, <2>3, <2>10 DEF ConsumerCounts, D
  <2> QED
    BY <1>1, <1>2, <1>4, <2>9, <2>11 DEF ConsumerCounts
<1>7. UNCHANGED work_count \/ \E c \in Consumers : InsertWorkCount(c)
  BY DEF MainStep, StartConsumer, ReadTransaction, Pushed, WorkLogged,
         ReadSleep, Slept, ReadBadLine, EndOfInput, ProducerReturns, JoinAll, PrintStats
<1> QED
  BY <1>5, <1>6, <1>7

\* The counts of the consumers follow the jobs they receive.
LEMMA ConsumerCountsKept ==
    ASSUME TypeOK, ConsumerCounts, NEW c \in Consumers, ConsumerStep(c)
    PROVE  ConsumerCounts'
<1> USE MainAlone
<1> DEFINE L == Cardinality(AtPlace("logging"))
           K == Cardinality(AtPlace("counting"))
<1>1. /\ stats["ask"] \in Nat /\ stats["receive"] \in Nat /\ stats["complete"] \in Nat
      /\ lines["ask"] \in Nat /\ lines["receive"] \in Nat /\ lines["complete"] \in Nat
  BY DEF TypeOK, Counters, States
<1>2. PICK m : m = pc'[c] /\ pc' = [pc EXCEPT ![c] = m]
  BY DEF ConsumerStep, TestEOF, TestSize, Ask, PoppedNothing, Receive, Complete, CountWork,
         Move, TypeOK
<1>3. pc[c] # "none" /\ c \in DOMAIN work_count
  BY DEF ConsumerStep, TestEOF, TestSize, Ask, PoppedNothing, Receive, Complete, CountWork,
         Move, ConsumerCounts
<1>4. DOMAIN work_count' = DOMAIN work_count
  BY DEF ConsumerStep, TestEOF, TestSize, Ask, PoppedNothing, Receive, Complete, CountWork
<1>5. \A d \in Consumers : pc'[d] # "none" => d \in DOMAIN work_count'
  BY <1>2, <1>3, <1>4 DEF TypeOK, ConsumerCounts
<1>6. IsFiniteSet(AtPlace("logging")) /\ IsFiniteSet(AtPlace("counting"))
  BY QueueAssumption, FS_Subset DEF AtPlace
<1>7. L \in Nat /\ K \in Nat
  BY <1>6, FS_CardinalityType
<1>8. ASSUME UNCHANGED <<stats, lines, work_count>>,
             pc[c] \notin {"logging", "counting"}, m \notin {"logging", "counting"}
      PROVE  ConsumerCounts'
  <2>1. AtPlace("logging")' = AtPlace("logging") /\ AtPlace("counting")' = AtPlace("counting")
    BY <1>2, <1>8 DEF AtPlace, TypeOK
  <2> QED
    BY <1>5, <1>8, <2>1 DEF ConsumerCounts, Completed
<1>9. CASE TestEOF(c) \/ TestSize(c) \/ PoppedNothing(c)
  <2>1. /\ UNCHANGED <<stats, lines, work_count>>
        /\ pc[c] \in {"test_eof", "test_size", "popping"}
        /\ m \in {"ask", "test_size", "exited", "test_eof"}
    BY <1>9, <1>2 DEF TestEOF, TestSize, PoppedNothing, Move, TypeOK
  <2> QED
    BY <1>8, <2>1
<1>10. CASE Ask(c)
  <2>1. pc[c] = "ask" /\ m = "popping" /\ UNCHANGED work_count
    BY <1>10, <1>2 DEF Ask, Move, TypeOK
  <2>2. AtPlace("logging")' = AtPlace("logging") /\ AtPlace("counting")' = AtPlace("counting")
    BY <1>2, <2>1 DEF AtPlace, TypeOK
  <2>3. /\ stats'["ask"] = stats["ask"] + 1 /\ stats'["receive"] = stats["receive"]
        /\ stats'["complete"] = stats["complete"]
    BY <1>10, CounterMoves DEF Ask, Counters
  <2>4. /\ lines'["ask"] = lines["ask"] + 1 /\ lines'["receive"] = lines["receive"]
        /\ lines'["complete"] = lines["complete"]
    BY <1>10, LogMoves DEF Ask, Counters, States
  <2> QED
    BY <1>5, <2>1, <2>2, <2>3, <2>4 DEF ConsumerCounts, Completed
<1>11. CASE Receive(c)
  <2>1. pc[c] = "popping" /\ m = "logging" /\ UNCHANGED <<work_count, lines>>
    BY <1>11, <1>2 DEF Receive, Move, TypeOK
  <2>2. /\ AtPlace("logging")' = AtPlace("logging") \cup {c}
        /\ c \notin AtPlace("logging")
        /\ AtPlace("counting")' = AtPlace("counting")
    BY <1>2, <2>1 DEF AtPlace, TypeOK
  <2>3. Cardinality(AtPlace("logging")') = L + 1
    BY <1>6, <2>2, FS_AddElement
  <2>4. /\ stats'["receive"] = stats["receive"] + 1 /\ stats'["ask"] = stats["ask"]
        /\ stats'["complete"] = stats["complete"]
    BY <1>11, CounterMoves DEF Receive, Counters
  <2>5. stats["receive"] = stats["complete"] + L
    BY DEF ConsumerCounts
  <2> HIDE DEF L
  <2>6. stats'["receive"] = stats'["complete"] + Cardinality(AtPlace("logging")')
    BY <1>1, <1>7, <2>3, <2>4, <2>5
  <2> QED
    BY <1>5, <2>1, <2>2, <2>4, <2>6 DEF ConsumerCounts, Completed
<1>12. CASE Complete(c)
  <2>1. pc[c] = "logging" /\ m = "counting" /\ UNCHANGED work_count
    BY <1>12, <1>2 DEF Complete, Move, TypeOK
  <2>2. /\ AtPlace("logging")' = AtPlace("logging") \ {c}
        /\ c \in AtPlace("logging")
        /\ AtPlace("counting")' = AtPlace("counting") \cup {c}
        /\ c \notin AtPlace("counting")
    BY <1>2, <2>1 DEF AtPlace, TypeOK
  <2>3. Cardinality(AtPlace("logging")') = L - 1 /\ Cardinality(AtPlace("counting")') = K + 1
    <3>1. Cardinality(AtPlace("logging")') = L - 1
      BY <1>6, <2>2, FS_RemoveElement
    <3>2. Cardinality(AtPlace("counting")') = K + 1
      BY <1>6, <2>2, FS_AddElement
    <3> QED
      BY <3>1, <3>2
  <2>4. /\ stats'["complete"] = stats["complete"] + 1 /\ stats'["ask"] = stats["ask"]
        /\ stats'["receive"] = stats["receive"]
    BY <1>12, CounterMoves DEF Complete, Counters
  <2>5. /\ lines'["receive"] = lines["receive"] + 1 /\ lines'["ask"] = lines["ask"]
        /\ lines'["complete"] = lines["complete"]
    BY <1>12, LogMoves DEF Complete, Counters, States
  <2>6. /\ stats["receive"] = stats["complete"] + L
        /\ stats["complete"] = lines["complete"] + K
        /\ lines["receive"] = stats["complete"]
    BY DEF ConsumerCounts
  <2> HIDE DEF L, K
  <2>7. /\ stats'["receive"] = stats'["complete"] + Cardinality(AtPlace("logging")')
        /\ stats'["complete"] = lines'["complete"] + Cardinality(AtPlace("counting")')
        /\ lines'["receive"] = stats'["complete"]
    BY <1>1, <1>7, <2>3, <2>4, <2>5, <2>6
  <2> QED
    BY <1>5, <2>1, <2>4, <2>5, <2>7 DEF ConsumerCounts, Completed
<1>13. CASE CountWork(c)
  <2>1. pc[c] = "counting" /\ m = "test_eof" /\ UNCHANGED stats
    BY <1>13, <1>2 DEF CountWork, Move, TypeOK
  <2>2. /\ AtPlace("counting")' = AtPlace("counting") \ {c}
        /\ c \in AtPlace("counting")
        /\ AtPlace("logging")' = AtPlace("logging")
    BY <1>2, <2>1 DEF AtPlace, TypeOK
  <2>3. Cardinality(AtPlace("counting")') = K - 1
    BY <1>6, <2>2, FS_RemoveElement
  <2>4. /\ lines'["complete"] = lines["complete"] + 1 /\ lines'["ask"] = lines["ask"]
        /\ lines'["receive"] = lines["receive"]
    BY <1>13, LogMoves DEF CountWork, Counters, States
  <2>5. /\ stats["complete"] = lines["complete"] + K
        /\ Completed = lines["complete"]
    BY DEF ConsumerCounts
  <2>6. stats'["complete"] = lines'["complete"] + Cardinality(AtPlace("counting")')
    <3> HIDE DEF K
    <3> QED
      BY <1>1, <1>7, <2>1, <2>3, <2>4, <2>5
  <2>7. Completed' = Completed + 1
    <3> DEFINE D == DOMAIN work_count
    <3>1. IsFiniteSet(D) /\ \A d \in D : work_count[d] \in Nat
      BY QueueAssumption, FS_Subset DEF TypeOK
    <3>2. work_count'[c] = work_count[c] + 1 /\ \A d \in D \ {c} : work_count'[d] = work_count[d]
      BY <1>3, <1>13 DEF CountWork
    <3>3. c \in D /\ D = DOMAIN work_count'
      BY <1>3, <1>4
    <3> HIDE DEF D
    <3>4. SumFunctionOnSet(work_count', D) = SumFunctionOnSet(work_count, D) + 1
      BY <3>1, <3>2, <3>3, SumIncrement
    <3> QED
      BY <3>3, <3>4 DEF Completed, D
  <2> QED
    BY <1>5, <2>1, <2>2, <2>4, <2>5, <2>6, <2>7 DEF ConsumerCounts
<1> QED
  BY <1>9, <1>10, <1>11, <1>12, <1>13 DEF ConsumerStep

-----------------------------------------------------------------------------
(* Jobs between the input and the consumers, and the asks for them.         *)

\* The consumers whose Pop has returned a job they have not received yet.
Answered == {c \in Consumers : pc[c] = "popping" /\ at[c] = "idle" /\ ret[c] # NoJob}

\* The consumers that may have asked in vain: those inside Pop, and, once the
\* queue is closed and empty, those that will not ask again.
Owed == {c \in Consumers :
           \/ pc[c] = "popping" /\ at[c] # "idle"
           \/ /\ cq_isEOF /\ tasks = <<>>
              /\ \/ pc[c] = "popping" /\ ret[c] = NoJob
                 \/ pc[c] \in {"test_eof", "exited"}
                 \/ pc[c] = "test_size" /\ (at[c] = "idle" => ret[c] <= 0)}

\* JobsConserved, on the input alone.
JobsCount ==
    ValidIn(input, next - 1)
    = (IF InPush /\ arg[Main] # NoJob THEN 1 ELSE 0)
      + Cardinality(Others(tasks, NoJob)) + Cardinality(Answered) + stats["receive"]

\* Every ask has a job of the input that is not waiting for one, or a consumer
\* that may have asked in vain.
AsksOwed ==
    stats["ask"] + (IF InPush THEN 1 ELSE 0) + Len(tasks)
    <= JobsIn(input, next - 1) + Cardinality(Owed)

LEMMA CountsTyped ==
    ASSUME TypeOK
    PROVE  /\ \E k \in Nat : k = next - 1 /\ next = k + 1
           /\ IsFiniteSet(Answered) /\ Cardinality(Answered) \in Nat
           /\ IsFiniteSet(Owed) /\ Cardinality(Owed) \in Nat
           /\ tasks \in Seq(Values) /\ Len(tasks) \in Nat
           /\ Cardinality(Others(tasks, NoJob)) \in Nat
           /\ stats["ask"] \in Nat /\ stats["receive"] \in Nat
<1>1. \E k \in Nat : k = next - 1 /\ next = k + 1
  <2>1. next \in Nat /\ next >= 1
    BY DEF TypeOK
  <2>2. next - 1 \in Nat /\ next = (next - 1) + 1
    BY <2>1
  <2> QED
    BY <2>2
<1>2. IsFiniteSet(Answered) /\ Cardinality(Answered) \in Nat
  BY QueueAssumption, FS_Subset, FS_CardinalityType DEF Answered
<1>3. IsFiniteSet(Owed) /\ Cardinality(Owed) \in Nat
  <2>1. Owed \in SUBSET Consumers
    BY DEF Owed
  <2> QED
    BY <2>1, QueueAssumption, FS_Subset, FS_CardinalityType
<1>4. tasks \in Seq(Values) /\ Len(tasks) \in Nat
  BY LenProperties DEF TypeOK, QTypeOK
<1>5. Cardinality(Others(tasks, NoJob)) \in Nat
  <2>1. IsFiniteSet(1 .. Len(tasks)) /\ DOMAIN tasks = 1 .. Len(tasks)
    BY <1>4, LenProperties, FS_Interval
  <2>2. Others(tasks, NoJob) \in SUBSET (1 .. Len(tasks))
    BY <2>1 DEF Others
  <2> QED
    BY <2>1, <2>2, FS_Subset, FS_CardinalityType
<1>6. stats["ask"] \in Nat /\ stats["receive"] \in Nat
  BY DEF TypeOK, Counters
<1> QED
  BY <1>1, <1>2, <1>3, <1>4, <1>5, <1>6

\* A step of main moves no job out of the queue or into it.
LEMMA MainJobs ==
    ASSUME PInv, MainStep
    PROVE  /\ UNCHANGED <<tasks, input>> /\ Answered' = Answered /\ Owed \subseteq Owed'
           /\ stats'["ask"] = stats["ask"] /\ stats'["receive"] = stats["receive"]
           /\ ~ReadTransaction => UNCHANGED arg /\ (InPush' <=> InPush)
           /\ ~ReadTransaction /\ ~ReadSleep => UNCHANGED next
<1> USE MainAlone
<1>1. UNCHANGED <<tasks, input, cq_isEOF, ret>>
  BY DEF MainStep, InsertWorkCount, StartConsumer, ReadTransaction, Pushed, WorkLogged,
         ReadSleep, Slept, ReadBadLine, EndOfInput, ProducerReturns, JoinAll, PrintStats,
         CallPush, CallSize, CallNotifyConsumers, qvars
<1>2. stats'["ask"] = stats["ask"] /\ stats'["receive"] = stats["receive"]
  <2>1. UNCHANGED stats \/ incrementCounter("work") \/ incrementCounter("sleep")
    BY DEF MainStep, InsertWorkCount, StartConsumer, ReadTransaction, Pushed, WorkLogged,
           ReadSleep, Slept, ReadBadLine, EndOfInput, ProducerReturns, JoinAll, PrintStats
  <2> QED
    BY <2>1, CounterMoves DEF Counters, PInv
<1>3. UNCHANGED at \/ \E l : at' = [at EXCEPT ![Main] = l]
  BY DEF MainStep, InsertWorkCount, StartConsumer, ReadTransaction, Pushed, WorkLogged,
         ReadSleep, Slept, ReadBadLine, EndOfInput, ProducerReturns, JoinAll, PrintStats,
         CallPush, CallSize, CallNotifyConsumers, qvars, Goto
<1>4. \A c \in Consumers : at'[c] = at[c]
  BY <1>3 DEF PInv, TypeOK, QTypeOK
<1>5. \A c \in Consumers : \/ pc'[c] = pc[c]
                           \/ pc[c] = "none" /\ pc'[c] = "test_eof"
  <2>1. ASSUME NEW d \in Consumers, StartConsumer(d), NEW c \in Consumers
        PROVE  pc'[c] = pc[c] \/ (pc[c] = "none" /\ pc'[c] = "test_eof")
    BY <2>1, SMT DEF StartConsumer, PInv, TypeOK
  <2>2. ASSUME \A c \in Consumers : ~StartConsumer(c)
        PROVE  \E l : pc' = [pc EXCEPT ![Main] = l]
    BY <2>2 DEF MainStep, Move, InsertWorkCount, ReadTransaction, Pushed, WorkLogged,
           ReadSleep, Slept, ReadBadLine, EndOfInput, ProducerReturns, JoinAll, PrintStats
  <2>3. (\E l : pc' = [pc EXCEPT ![Main] = l]) => \A c \in Consumers : pc'[c] = pc[c]
    BY DEF PInv, TypeOK
  <2> QED
    BY <2>1, <2>2, <2>3, Zenon
<1>6. Answered' = Answered
  BY <1>1, <1>4, <1>5 DEF Answered
<1>7. Owed \subseteq Owed'
  <2> SUFFICES ASSUME NEW c \in Owed PROVE c \in Owed'
    OBVIOUS
  <2>1. c \in Consumers /\ pc[c] # "none" /\ pc'[c] = pc[c] /\ at'[c] = at[c]
    BY <1>4, <1>5 DEF Owed
  <2> QED
    BY <1>1, <2>1 DEF Owed
<1>8. ~ReadTransaction => UNCHANGED arg /\ (InPush' <=> InPush)
  <2>1. ASSUME UNCHANGED qvars
        PROVE  UNCHANGED arg /\ (InPush' <=> InPush)
    BY <2>1 DEF qvars, InPush
  <2>2. ASSUME at[Main] = "idle", UNCHANGED arg, at'[Main] \in {"size.lock", "eof.set"}
        PROVE  UNCHANGED arg /\ (InPush' <=> InPush)
    BY <2>2 DEF InPush, PushAt
  <2>3. ASSUME CallSize(Main) \/ CallNotifyConsumers(Main)
        PROVE  at[Main] = "idle" /\ UNCHANGED arg /\ at'[Main] \in {"size.lock", "eof.set"}
    BY <2>3 DEF CallSize, CallNotifyConsumers, Goto, PInv, TypeOK, QTypeOK
  <2>4. ReadTransaction \/ UNCHANGED qvars \/ CallSize(Main) \/ CallNotifyConsumers(Main)
    BY DEF MainStep, InsertWorkCount, StartConsumer, Pushed, WorkLogged,
           ReadSleep, Slept, ReadBadLine, EndOfInput, ProducerReturns, JoinAll, PrintStats
  <2> QED
    BY <2>1, <2>2, <2>3, <2>4
<1>9. ~ReadTransaction /\ ~ReadSleep => UNCHANGED next
  BY DEF MainStep, InsertWorkCount, StartConsumer, Pushed, WorkLogged,
         Slept, ReadBadLine, EndOfInput, ProducerReturns, JoinAll, PrintStats
<1> QED
  BY <1>1, <1>2, <1>6, <1>7, <1>8, <1>9

\* Sets of consumers are finite.
LEMMA ConsumerSets ==
    ASSUME NEW S \in SUBSET Consumers, NEW T \in SUBSET S
    PROVE  /\ IsFiniteSet(S) /\ Cardinality(S) \in Nat /\ Cardinality(T) \in Nat
           /\ Cardinality(T) <= Cardinality(S)
<1>1. IsFiniteSet(S) /\ IsFiniteSet(T)
  BY QueueAssumption, FS_Subset
<1> QED
  BY <1>1, FS_Subset, FS_CardinalityType

\* main's steps keep the account of the jobs,
LEMMA MainKeepsJobs ==
    ASSUME PInv, MainStep, JobsCount
    PROVE  JobsCount'
<1> USE MainAlone
<1>1. TypeOK
  BY DEF PInv
<1>2. PICK k \in Nat : k = next - 1 /\ next = k + 1
  BY <1>1, CountsTyped
<1>3. /\ UNCHANGED <<tasks, input>> /\ Answered' = Answered /\ stats'["receive"] = stats["receive"]
      /\ ~ReadTransaction => UNCHANGED arg /\ (InPush' <=> InPush)
      /\ ~ReadTransaction /\ ~ReadSleep => UNCHANGED next
  BY MainJobs
<1>4. Cardinality(Others(tasks, NoJob))' = Cardinality(Others(tasks, NoJob))
  BY <1>3
<1>5. CASE ReadTransaction
  <2> DEFINE n == input[next].n
  <2>1. ~InPush
    BY <1>5 DEF ReadTransaction, Move, InPush, PushAt
  <2>2. InPush' /\ arg'[Main] = parse_job(n)
    BY <1>1, <1>5, ProdConAssumption
       DEF ReadTransaction, CallPush, Goto, InPush, PushAt, TypeOK, QTypeOK
  <2>3. next' - 1 = k + 1 /\ input[k + 1].type = "T" /\ input[k + 1].n = n
    BY <1>2, <1>5 DEF ReadTransaction
  <2>4. ValidIn(input, next - 1)' = ValidIn(input, k + 1)
    BY <1>3, <2>3
  <2>5. ValidIn(input, k) = Cardinality(Others(tasks, NoJob)) + Cardinality(Answered)
                            + stats["receive"]
    <3>1. /\ Cardinality(Others(tasks, NoJob)) \in Nat /\ Cardinality(Answered) \in Nat
          /\ stats["receive"] \in Nat
      BY <1>1, CountsTyped
    <3> QED
      BY <1>2, <2>1, <3>1 DEF JobsCount
  <2>6. CASE parse_job(n) # NoJob
    <3>1. ValidIn(input, k + 1) = ValidIn(input, k) + 1
      BY <2>3, <2>6, OneMoreLine
    <3>2. /\ Cardinality(Others(tasks, NoJob)) \in Nat /\ Cardinality(Answered) \in Nat
          /\ stats["receive"] \in Nat
      BY <1>1, CountsTyped
    <3>3. ValidIn(input, k + 1) = 1 + Cardinality(Others(tasks, NoJob)) + Cardinality(Answered)
                                  + stats["receive"]
      BY <2>5, <3>1, <3>2
    <3> QED
      BY <1>3, <1>4, <2>2, <2>4, <2>6, <3>3 DEF JobsCount
  <2>7. CASE parse_job(n) = NoJob
    <3>1. ValidIn(input, k + 1) = ValidIn(input, k)
      BY <2>3, <2>7, OneMoreLine
    <3>2. /\ Cardinality(Others(tasks, NoJob)) \in Nat /\ Cardinality(Answered) \in Nat
          /\ stats["receive"] \in Nat
      BY <1>1, CountsTyped
    <3>3. ValidIn(input, k + 1) = 0 + Cardinality(Others(tasks, NoJob)) + Cardinality(Answered)
                                  + stats["receive"]
      BY <2>5, <3>1, <3>2
    <3> QED
      BY <1>3, <1>4, <2>2, <2>4, <2>7, <3>3 DEF JobsCount
  <2> QED
    BY <2>6, <2>7
<1>6. CASE ReadSleep
  <2>1. next' - 1 = k + 1 /\ input[k + 1].type # "T"
    BY <1>2, <1>6 DEF ReadSleep
  <2>2. ValidIn(input, next - 1)' = ValidIn(input, k)
    BY <1>3, <2>1, OneMoreLine
  <2>3. ~ReadTransaction
    BY <1>6 DEF ReadSleep, ReadTransaction
  <2> QED
    BY <1>2, <1>3, <1>4, <2>2, <2>3 DEF JobsCount
<1>7. CASE ~ReadTransaction /\ ~ReadSleep
  <2>1. ValidIn(input, next - 1)' = ValidIn(input, next - 1)
    BY <1>3, <1>7
  <2> QED
    BY <1>3, <1>4, <1>7, <2>1 DEF JobsCount
<1> QED
  BY <1>5, <1>6, <1>7

\* and the account of the asks.
LEMMA MainKeepsAsks ==
    ASSUME PInv, MainStep, AsksOwed
    PROVE  AsksOwed'
<1> USE MainAlone
<1>1. TypeOK
  BY DEF PInv
<1>2. PICK k \in Nat : k = next - 1 /\ next = k + 1
  BY <1>1, CountsTyped
<1>3. /\ UNCHANGED <<tasks, input>> /\ Owed \subseteq Owed' /\ stats'["ask"] = stats["ask"]
      /\ ~ReadTransaction => UNCHANGED arg /\ (InPush' <=> InPush)
      /\ ~ReadTransaction /\ ~ReadSleep => UNCHANGED next
  BY MainJobs
<1>4. PICK o \in Nat, w \in Nat :
         o = Cardinality(Owed) /\ w = Cardinality(Owed') /\ o <= w
  <2>1. Owed' \in SUBSET Consumers
    BY DEF Owed
  <2> QED
    BY <1>3, <2>1, ConsumerSets
<1>5. PICK a \in Nat, l \in Nat : /\ a = stats["ask"] /\ a = stats'["ask"]
                                  /\ l = Len(tasks) /\ l = Len(tasks')
  BY <1>1, <1>3, CountsTyped
<1>6. JobsIn(input, k) \in Nat
  BY OneMoreLine
<1>7. a + (IF InPush THEN 1 ELSE 0) + l <= JobsIn(input, k) + o
  BY <1>2, <1>4, <1>5 DEF AsksOwed
<1>8. CASE ReadTransaction
  <2>1. ~InPush
    BY <1>8 DEF ReadTransaction, Move, InPush, PushAt
  <2>2. next' - 1 = k + 1 /\ input[k + 1].type = "T"
    BY <1>2, <1>8 DEF ReadTransaction
  <2>3. JobsIn(input, next - 1)' = JobsIn(input, k) + 1
    BY <1>3, <2>2, OneMoreLine
  <2>4. a + (IF InPush' THEN 1 ELSE 0) + l <= JobsIn(input, k) + 1 + w
    BY <1>4, <1>6, <1>7, <2>1
  <2> QED
    BY <1>4, <1>5, <2>3, <2>4 DEF AsksOwed
<1>9. CASE ~ReadTransaction
  <2>1. JobsIn(input, next - 1)' = JobsIn(input, k)
    <3>1. CASE ReadSleep
      <4>1. next' - 1 = k + 1 /\ input[k + 1].type # "T"
        BY <1>2, <3>1 DEF ReadSleep
      <4> QED
        BY <1>3, <4>1, OneMoreLine
    <3>2. CASE ~ReadSleep
      <4>1. next' - 1 = k
        BY <1>2, <1>3, <1>9, <3>2
      <4> QED
        BY <1>3, <4>1
    <3> QED
      BY <3>1, <3>2
  <2>2. a + (IF InPush' THEN 1 ELSE 0) + l <= JobsIn(input, k) + w
    BY <1>3, <1>4, <1>6, <1>7, <1>9
  <2> QED
    BY <1>4, <1>5, <2>1, <2>2 DEF AsksOwed
<1> QED
  BY <1>8, <1>9

\* A consumer's own steps leave the queue alone; Receive takes an answer, and
\* Ask adds a consumer that may ask in vain.
LEMMA ConsumerJobs ==
    ASSUME PInv, NEW c \in Consumers, ConsumerStep(c)
    PROVE  /\ UNCHANGED <<tasks, input, next, arg>> /\ (InPush' <=> InPush)
           /\ Receive(c) => /\ c \in Answered /\ Answered' = Answered \ {c}
                            /\ stats'["receive"] = stats["receive"] + 1
           /\ ~Receive(c) => Answered' = Answered /\ stats'["receive"] = stats["receive"]
           /\ Ask(c) => /\ c \notin Owed /\ c \in Owed'
                        /\ stats'["ask"] = stats["ask"] + 1
           /\ ~Ask(c) => stats'["ask"] = stats["ask"]
           /\ Owed \subseteq Owed'
<1> USE MainAlone DEF PInv
<1>1. UNCHANGED <<tasks, input, next, arg, cq_isEOF, ret>>
  BY DEF ConsumerStep, TestEOF, TestSize, Ask, PoppedNothing, Receive, Complete, CountWork,
         CallPop, CallSize, qvars
<1>2. UNCHANGED at \/ \E l : at' = [at EXCEPT ![c] = l]
  BY DEF ConsumerStep, TestEOF, TestSize, Ask, PoppedNothing, Receive, Complete, CountWork,
         CallPop, CallSize, qvars, Goto
<1>3. at'[Main] = at[Main] /\ \A d \in Consumers \ {c} : at'[d] = at[d]
  BY <1>2 DEF TypeOK, QTypeOK
<1>4. InPush' <=> InPush
  BY <1>3 DEF InPush
<1>5. \E l : pc' = [pc EXCEPT ![c] = l]
  BY DEF ConsumerStep, TestEOF, TestSize, Ask, PoppedNothing, Receive, Complete, CountWork,
         Move
<1>6. \A d \in Consumers \ {c} : pc'[d] = pc[d]
  BY <1>5 DEF TypeOK
<1>7. Answered \ {c} = Answered' \ {c} /\ Owed \ {c} \subseteq Owed'
  <2>1. Answered \ {c} = Answered' \ {c}
    BY <1>1, <1>3, <1>6 DEF Answered
  <2>2. \A d \in Owed \ {c} : d \in Owed'
    BY <1>1, <1>3, <1>6 DEF Owed
  <2> QED
    BY <2>1, <2>2
<1>8. UNCHANGED stats \/ incrementCounter("ask") \/ incrementCounter("receive")
      \/ incrementCounter("complete")
  BY DEF ConsumerStep, TestEOF, TestSize, Ask, PoppedNothing, Receive, Complete, CountWork
<1>9. CASE Receive(c)
  <2>1. /\ pc[c] = "popping" /\ pc'[c] = "logging" /\ at[c] = "idle" /\ ret[c] # NoJob
        /\ incrementCounter("receive")
    BY <1>9 DEF Receive, Move, TypeOK
  <2>2. c \in Answered /\ c \notin Answered' /\ c \notin Owed
    BY <2>1 DEF Answered, Owed
  <2>3. Answered' = Answered \ {c} /\ Owed \subseteq Owed'
    BY <1>7, <2>2
  <2>4. stats'["receive"] = stats["receive"] + 1 /\ stats'["ask"] = stats["ask"]
    BY <2>1, CounterMoves DEF Counters
  <2>5. ~Ask(c)
    BY <2>1 DEF Ask, Move
  <2> QED
    BY <1>1, <1>4, <1>9, <2>2, <2>3, <2>4, <2>5
<1>10. CASE Ask(c)
  <2>1. /\ pc[c] = "ask" /\ pc'[c] = "popping" /\ at'[c] = "pop.lock_job"
        /\ incrementCounter("ask")
    BY <1>10 DEF Ask, Move, CallPop, Goto, TypeOK, QTypeOK, Threads
  <2>2. c \notin Answered /\ c \notin Answered' /\ c \notin Owed /\ c \in Owed'
    BY <2>1 DEF Answered, Owed
  <2>3. Answered' = Answered /\ Owed \subseteq Owed'
    BY <1>7, <2>2
  <2>4. stats'["ask"] = stats["ask"] + 1 /\ stats'["receive"] = stats["receive"]
    BY <2>1, CounterMoves DEF Counters
  <2>5. ~Receive(c)
    BY <2>1 DEF Receive, Move
  <2> QED
    BY <1>1, <1>4, <1>10, <2>2, <2>3, <2>4, <2>5
<1>11. CASE ~Receive(c) /\ ~Ask(c)
  <2>1. UNCHANGED stats \/ incrementCounter("complete")
    BY <1>11 DEF ConsumerStep, TestEOF, TestSize, PoppedNothing, Complete, CountWork
  <2>2. stats'["ask"] = stats["ask"] /\ stats'["receive"] = stats["receive"]
    BY <2>1, CounterMoves DEF Counters
  <2>3. /\ c \notin Answered /\ c \notin Answered'
        /\ c \in Owed => c \in Owed'
    <3>1. CASE TestEOF(c)
      <4>1. \/ ~isEOF /\ pc[c] = "test_eof" /\ pc'[c] = "ask"
            \/ pc[c] = "test_eof" /\ pc'[c] = "test_size" /\ at'[c] = "size.lock"
        BY <3>1 DEF TestEOF, Move, CallSize, Goto, TypeOK, QTypeOK
      <4> QED
        BY <1>1, <4>1 DEF Answered, Owed, Closing
    <3>2. CASE TestSize(c)
      <4>1. /\ pc[c] = "test_size" /\ at[c] = "idle"
            /\ pc'[c] = IF ret[c] > 0 THEN "ask" ELSE "exited"
        BY <3>2 DEF TestSize, Move, TypeOK
      <4>2. ret[c] \in Int
        BY QueueAssumption, SMT DEF TypeOK, QTypeOK, Threads, NoJob
      <4>3. c \in Owed => ret[c] <= 0
        BY <4>1 DEF Owed
      <4>4. c \in Owed => pc'[c] = "exited"
        BY <4>1, <4>2, <4>3
      <4> QED
        BY <1>1, <4>1, <4>4 DEF Answered, Owed
    <3>3. CASE PoppedNothing(c)
      <4>1. /\ pc[c] = "popping" /\ pc'[c] = "test_eof" /\ at[c] = "idle"
            /\ ret[c] = NoJob
        BY <3>3 DEF PoppedNothing, Move, TypeOK
      <4> QED
        BY <1>1, <4>1 DEF Answered, Owed
    <3>4. CASE Complete(c) \/ CountWork(c)
      <4>1. /\ pc[c] \in {"logging", "counting"} /\ pc'[c] \in {"counting", "test_eof"}
        BY <3>4 DEF Complete, CountWork, Move, TypeOK
      <4> QED
        BY <4>1 DEF Answered, Owed
    <3> QED
      BY <1>11, <3>1, <3>2, <3>3, <3>4 DEF ConsumerStep
  <2>4. Answered' = Answered /\ Owed \subseteq Owed'
    BY <1>7, <2>3
  <2> QED
    BY <1>1, <1>4, <1>11, <2>2, <2>4
<1> QED
  BY <1>9, <1>10, <1>11

\* A consumer's own steps keep both accounts.
LEMMA ConsumerKeepsJobs ==
    ASSUME PInv, NEW c \in Consumers, ConsumerStep(c), JobsCount, AsksOwed
    PROVE  JobsCount' /\ AsksOwed'
<1>1. TypeOK
  BY DEF PInv
<1>2. PICK k \in Nat : k = next - 1 /\ next = k + 1
  BY <1>1, CountsTyped
<1>3. UNCHANGED <<tasks, input, next, arg>> /\ (InPush' <=> InPush)
  BY ConsumerJobs
<1>4. /\ ValidIn(input, next - 1)' = ValidIn(input, next - 1)
      /\ JobsIn(input, next - 1)' = JobsIn(input, next - 1)
      /\ Cardinality(Others(tasks, NoJob))' = Cardinality(Others(tasks, NoJob))
      /\ Len(tasks)' = Len(tasks)
  BY <1>3
<1>5. JobsCount'
  <2>1. CASE Receive(c)
    <3>1. /\ c \in Answered /\ Answered' = Answered \ {c}
          /\ stats'["receive"] = stats["receive"] + 1
      BY <2>1, ConsumerJobs
    <3>2. IsFiniteSet(Answered)
      BY <1>1, CountsTyped
    <3>3. Cardinality(Answered') = Cardinality(Answered) - 1
      BY <3>1, <3>2, FS_RemoveElement
    <3>4. /\ Cardinality(Others(tasks, NoJob)) \in Nat /\ Cardinality(Answered) \in Nat
          /\ stats["receive"] \in Nat
      BY <1>1, CountsTyped
    <3> QED
      BY <1>3, <1>4, <3>1, <3>3, <3>4 DEF JobsCount
  <2>2. CASE ~Receive(c)
    <3>1. Answered' = Answered /\ stats'["receive"] = stats["receive"]
      BY <2>2, ConsumerJobs
    <3> QED
      BY <1>3, <1>4, <3>1 DEF JobsCount
  <2> QED
    BY <2>1, <2>2
<1>6. AsksOwed'
  <2>1. Owed \subseteq Owed' /\ Owed' \in SUBSET Consumers
    BY ConsumerJobs DEF Owed
  <2>2. PICK a \in Nat, l \in Nat, j \in Nat, o \in Nat, w \in Nat :
           /\ a = stats["ask"] /\ l = Len(tasks) /\ j = JobsIn(input, next - 1)
           /\ o = Cardinality(Owed) /\ w = Cardinality(Owed') /\ o <= w
    <3>1. /\ stats["ask"] \in Nat /\ Len(tasks) \in Nat /\ JobsIn(input, next - 1) \in Nat
      BY <1>1, <1>2, CountsTyped, OneMoreLine
    <3>2. /\ Cardinality(Owed) \in Nat /\ Cardinality(Owed') \in Nat
          /\ Cardinality(Owed) <= Cardinality(Owed')
      BY <2>1, ConsumerSets
    <3> QED
      BY <3>1, <3>2
  <2>3. a + (IF InPush THEN 1 ELSE 0) + l <= j + o
    BY <2>2 DEF AsksOwed
  <2>4. CASE Ask(c)
    <3>1. /\ c \notin Owed /\ c \in Owed' /\ stats'["ask"] = stats["ask"] + 1
      BY <2>4, ConsumerJobs
    <3>2. Owed \in SUBSET (Owed' \ {c}) /\ Owed' \ {c} \in SUBSET Consumers
      BY <2>1, <3>1
    <3>3. Cardinality(Owed) <= Cardinality(Owed' \ {c})
      BY <3>2, ConsumerSets
    <3>4. Cardinality(Owed' \ {c}) = Cardinality(Owed') - 1
      BY <2>1, <3>1, ConsumerSets, FS_RemoveElement
    <3>5. o <= w - 1
      BY <2>2, <3>3, <3>4
    <3>6. (a + 1) + (IF InPush' THEN 1 ELSE 0) + l <= j + w
      BY <1>3, <2>3, <3>5
    <3> QED
      BY <1>4, <2>2, <3>1, <3>6 DEF AsksOwed
  <2>5. CASE ~Ask(c)
    <3>1. stats'["ask"] = stats["ask"]
      BY <2>5, ConsumerJobs
    <3>2. a + (IF InPush' THEN 1 ELSE 0) + l <= j + w
      BY <1>3, <2>2, <2>3
    <3> QED
      BY <1>4, <2>2, <3>1, <3>2 DEF AsksOwed
  <2> QED
    BY <2>4, <2>5
<1> QED
  BY <1>5, <1>6

\* Inside the queue only PushPut and PopTake move a job.
LEMMA QueueQuiet ==
    ASSUME PInv, QInv, NEW t \in Threads, UNCHANGED pvars,
           QueueStep(t) \/ SpuriousWakeup(t), ~PushPut(t), ~PopTake(t)
    PROVE  UNCHANGED <<tasks, arg>> /\ (InPush' <=> InPush) /\ Answered' = Answered
           /\ Owed \subseteq Owed'
<1> USE MainAlone, QueueAssumption
<1>1. UNCHANGED <<tasks, arg>> /\ (cq_isEOF => cq_isEOF')
  BY DEF QueueStep, PushStep, PopStep, SizeStep, EofStep, PushLockSlot, PushWait, PushProceed,
         PushLockJob, PushLockQueue, PopLockJob, PopTestFails, PopWait, PopProceed,
         PopLockSlot, PopLockQueue, PopNothing, SizeLock, SizeRead, EofSet, EofNotify,
         SpuriousWakeup
<1>2. UNCHANGED pc
  BY DEF pvars
<1>3. InPush' <=> InPush
  <2> USE DEF InPush, PInv, TypeOK, QTypeOK, PushAt, PopAt, SizeAt, EofAt, Goto, GotoAndWake,
              SlotWaiters, JobWaiters
  <2>1. CASE PushStep(t)
    BY <2>1 DEF PushStep, PushLockSlot, PushWait, PushProceed, PushLockJob, PushLockQueue
  <2>2. CASE PopStep(t)
    BY <2>2 DEF PopStep, PopLockJob, PopTestFails, PopWait, PopProceed, PopLockSlot,
                PopLockQueue, PopNothing
  <2>3. CASE SizeStep(t) \/ EofStep(t)
    BY <2>3 DEF SizeStep, EofStep, SizeLock, SizeRead, EofSet, EofNotify
  <2>4. CASE SpuriousWakeup(t)
    BY <2>4 DEF SpuriousWakeup
  <2> QED
    BY <2>1, <2>2, <2>3, <2>4 DEF QueueStep
<1>4. ASSUME NEW c \in Consumers, pc[c] = "popping"
      PROVE  /\ at[c] = "idle" => at'[c] = "idle" /\ ret'[c] = ret[c]
             /\ at[c] # "idle" /\ at'[c] = "idle" => ret'[c] = NoJob /\ cq_isEOF /\ tasks = <<>>
  <2> USE <1>4 DEF PInv, TypeOK, QTypeOK, CallsMatch, PushAt, PopAt, SizeAt, EofAt, Goto,
              GotoAndWake, SlotWaiters, JobWaiters
  <2>1. CASE PushStep(t)
    BY <2>1 DEF PushStep, PushLockSlot, PushWait, PushProceed, PushLockJob, PushLockQueue
  <2>2. CASE PopNothing(t)
    <3>1. /\ at[t] = "pop.take" /\ tasks = <<>> /\ ret' = [ret EXCEPT ![t] = NoJob]
          /\ at' = [at EXCEPT ![t] = "idle"]
      BY <2>2 DEF PopNothing
    <3>2. cq_isEOF
      BY <3>1 DEF QInv, TestsStillHold, JobAvailable
    <3> QED
      BY <3>1, <3>2
  <2>3. CASE PopStep(t) /\ ~PopNothing(t)
    BY <2>3, SMT DEF PopStep, PopLockJob, PopTestFails, PopWait, PopProceed, PopLockSlot,
                PopLockQueue
  <2>4. CASE SizeStep(t) \/ EofStep(t)
    <3>1. CASE SizeLock(t)
      BY <3>1 DEF SizeLock
    <3>2. CASE SizeRead(t)
      BY <3>2 DEF SizeRead
    <3>3. CASE EofSet(t)
      BY <3>3 DEF EofSet
    <3>4. CASE EofNotify(t)
      BY <3>4, SMT DEF EofNotify
    <3> QED
      BY <2>4, <3>1, <3>2, <3>3, <3>4 DEF SizeStep, EofStep
  <2>5. CASE SpuriousWakeup(t)
    <3>1. at' = [at EXCEPT ![t] = IF t \in SlotWaiters THEN "push.lock_slot" ELSE "pop.lock_job"]
          /\ at[t] # "idle" /\ UNCHANGED ret
      BY <2>5 DEF SpuriousWakeup
    <3> QED
      BY <3>1
  <2> QED
    BY <2>1, <2>2, <2>3, <2>4, <2>5 DEF QueueStep
<1>5. Answered' = Answered
  BY <1>2, <1>4 DEF Answered
<1>6. ASSUME NEW c \in Consumers, pc[c] = "test_size", tasks = <<>>,
             at[c] = "idle" => ret[c] <= 0
      PROVE  at'[c] = "idle" => ret'[c] <= 0
  <2> USE <1>6 DEF PInv, TypeOK, QTypeOK, CallsMatch, PushAt, PopAt, SizeAt, EofAt, Goto,
              GotoAndWake, SlotWaiters, JobWaiters
  <2>1. CASE PushStep(t) \/ PopStep(t)
    BY <2>1 DEF PushStep, PushLockSlot, PushWait, PushProceed, PushLockJob, PushLockQueue,
                PopStep, PopLockJob, PopTestFails, PopWait, PopProceed, PopLockSlot,
                PopLockQueue, PopNothing
  <2>2. CASE SizeRead(t)
    <3>1. /\ at' = [at EXCEPT ![t] = "idle"] /\ ret' = [ret EXCEPT ![t] = Len(tasks)]
      BY <2>2 DEF SizeRead
    <3>2. Len(tasks) <= 0
      BY <1>6
    <3> QED
      BY <3>1, <3>2
  <2>3. CASE SizeLock(t) \/ EofStep(t)
    <3>1. CASE SizeLock(t)
      BY <3>1 DEF SizeLock
    <3>2. CASE EofSet(t)
      BY <3>2 DEF EofSet
    <3>3. CASE EofNotify(t)
      BY <3>3, SMT DEF EofNotify
    <3> QED
      BY <2>3, <3>1, <3>2, <3>3 DEF EofStep
  <2>4. CASE SpuriousWakeup(t)
    BY <2>4 DEF SpuriousWakeup
  <2> QED
    BY <2>1, <2>2, <2>3, <2>4 DEF QueueStep, SizeStep
<1>7. Owed \subseteq Owed'
  <2> SUFFICES ASSUME NEW c \in Owed PROVE c \in Owed'
    OBVIOUS
  <2>1. c \in Consumers
    BY DEF Owed
  <2>2. CASE pc[c] = "popping"
    BY <1>1, <1>2, <1>4, <2>1, <2>2 DEF Owed
  <2>3. CASE pc[c] = "test_size"
    BY <1>1, <1>2, <1>6, <2>1, <2>3 DEF Owed
  <2>4. CASE pc[c] \in {"test_eof", "exited"}
    BY <1>1, <1>2, <2>1, <2>4 DEF Owed
  <2> QED
    BY <2>2, <2>3, <2>4 DEF Owed
<1> QED
  BY <1>1, <1>3, <1>5, <1>7

\* Push puts the job main holds into the queue.
LEMMA PutJobs ==
    ASSUME PInv, QInv, NEW t \in Threads, UNCHANGED pvars, PushPut(t)
    PROVE  /\ InPush /\ ~InPush' /\ arg[Main] \in Values /\ UNCHANGED arg
           /\ tasks' = Append(tasks, arg[Main])
           /\ Answered' = Answered /\ Owed \subseteq Owed'
<1> USE MainAlone, ProdConAssumption
    DEF PInv, TypeOK, QTypeOK, CallsMatch, PushAt, PopAt, SizeAt, EofAt, pvars
<1>1. t = Main /\ at[Main] = "push.put" /\ pc[Main] = "pushing"
  BY DEF PushPut
<1>2. tasks' = Append(tasks, arg[Main]) /\ UNCHANGED <<arg, ret, cq_isEOF>>
  BY <1>1 DEF PushPut
<1>3. PICK W \in NotifyOne(JobWaiters) : GotoAndWake(Main, "idle", W, "pop.lock_job")
  BY <1>1 DEF PushPut
<1>4. \A c \in W : c \in Consumers /\ at[c] = "pop.blocked"
  BY DEF NotifyOne, JobWaiters
<1>5. /\ at'[Main] = "idle"
      /\ \A c \in Consumers : (at'[c] = "idle" <=> at[c] = "idle")
  BY <1>3, <1>4 DEF GotoAndWake
<1>6. InPush /\ ~InPush' /\ arg[Main] \in Values
  BY <1>1, <1>5 DEF InPush
<1>7. Answered' = Answered
  BY <1>2, <1>5 DEF Answered
<1>8. ~cq_isEOF
  BY <1>1 DEF Closing
<1>9. Owed \subseteq Owed'
  BY <1>5, <1>8 DEF Owed
<1> QED
  BY <1>2, <1>6, <1>7, <1>9

\* Pop takes the first job out of the queue, for the consumer to receive.
LEMMA TakeJobs ==
    ASSUME PInv, QInv, NEW t \in Threads, UNCHANGED pvars, PopTake(t)
    PROVE  /\ UNCHANGED arg /\ (InPush' <=> InPush)
           /\ tasks # <<>> /\ tasks' = Tail(tasks)
           /\ t \in Consumers /\ t \notin Answered
           /\ Answered' = IF Head(tasks) # NoJob THEN Answered \cup {t} ELSE Answered
           /\ Owed \ {t} \subseteq Owed'
<1> USE MainAlone, ProdConAssumption
    DEF PInv, TypeOK, QTypeOK, CallsMatch, PushAt, PopAt, SizeAt, EofAt, pvars
<1>1. t \in Consumers /\ t # Main /\ at[t] = "pop.take" /\ pc[t] = "popping"
  BY DEF PopTake
<1>2. /\ tasks # <<>> /\ tasks' = Tail(tasks) /\ UNCHANGED <<arg, cq_isEOF>>
      /\ ret' = [ret EXCEPT ![t] = Head(tasks)]
      /\ GotoAndWake(t, "idle", SlotWaiters, "push.lock_slot")
  BY DEF PopTake
<1>3. at'[t] = "idle" /\ \A c \in Consumers \ {t} : at'[c] = at[c]
  BY <1>1, <1>2 DEF GotoAndWake, SlotWaiters
<1>4. InPush' <=> InPush
  BY <1>1, <1>2 DEF GotoAndWake, SlotWaiters, InPush
<1>5. t \notin Answered
  BY <1>1 DEF Answered
<1>6. ret'[t] = Head(tasks) /\ \A c \in Consumers \ {t} : ret'[c] = ret[c]
  BY <1>1, <1>2
<1>7. t \in Answered' <=> Head(tasks) # NoJob
  BY <1>1, <1>3, <1>6 DEF Answered
<1>8. Answered' \ {t} = Answered \ {t}
  BY <1>3, <1>6 DEF Answered
<1>9. Answered' = IF Head(tasks) # NoJob THEN Answered \cup {t} ELSE Answered
  <2>1. CASE Head(tasks) # NoJob
    BY ONLY <1>5, <1>7, <1>8, <2>1
  <2>2. CASE Head(tasks) = NoJob
    BY ONLY <1>5, <1>7, <1>8, <2>2
  <2> QED
    BY <2>1, <2>2
<1>10. ASSUME NEW c \in Owed, c # t PROVE c \in Owed'
  <2>1. c \in Consumers /\ pc[c] = "popping" /\ at[c] # "idle"
    BY <1>2, <1>10 DEF Owed
  <2> QED
    BY <1>3, <1>10, <2>1 DEF Owed
<1> QED
  BY <1>1, <1>2, <1>4, <1>5, <1>9, <1>10

\* The steps inside the queue keep both accounts.
LEMMA QueueKeepsJobs ==
    ASSUME PInv, QInv, NEW t \in Threads, UNCHANGED pvars,
           QueueStep(t) \/ SpuriousWakeup(t), JobsCount, AsksOwed
    PROVE  JobsCount' /\ AsksOwed'
<1>1. TypeOK
  BY DEF PInv
<1>2. PICK k \in Nat : k = next - 1 /\ next = k + 1
  BY <1>1, CountsTyped
<1>3. /\ ValidIn(input, next - 1)' = ValidIn(input, next - 1)
      /\ JobsIn(input, next - 1)' = JobsIn(input, next - 1) /\ UNCHANGED stats
  BY DEF pvars
<1>4. PICK v \in Nat, j \in Nat, a \in Nat, r \in Nat, l \in Nat, q \in Nat, n \in Nat, o \in Nat :
         /\ v = ValidIn(input, next - 1) /\ j = JobsIn(input, next - 1)
         /\ a = stats["ask"] /\ r = stats["receive"]
         /\ l = Len(tasks) /\ q = Cardinality(Others(tasks, NoJob))
         /\ n = Cardinality(Answered) /\ o = Cardinality(Owed)
  <2>1. ValidIn(input, next - 1) \in Nat /\ JobsIn(input, next - 1) \in Nat
    BY <1>2, OneMoreLine
  <2> QED
    BY <1>1, <2>1, CountsTyped
<1>5. /\ v = (IF InPush /\ arg[Main] # NoJob THEN 1 ELSE 0) + q + n + r
      /\ a + (IF InPush THEN 1 ELSE 0) + l <= j + o
  BY <1>4 DEF JobsCount, AsksOwed
<1>6. Owed' \in SUBSET Consumers
  BY DEF Owed
<1>7. CASE ~PushPut(t) /\ ~PopTake(t)
  <2>1. UNCHANGED <<tasks, arg>> /\ (InPush' <=> InPush) /\ Answered' = Answered
        /\ Owed \subseteq Owed'
    BY <1>7, QueueQuiet
  <2>2. JobsCount'
    BY <1>3, <1>4, <1>5, <2>1 DEF JobsCount
  <2>3. PICK w \in Nat : w = Cardinality(Owed') /\ o <= w
    BY <1>4, <1>6, <2>1, ConsumerSets
  <2>4. AsksOwed'
    <3>1. a + (IF InPush' THEN 1 ELSE 0) + l <= j + w
      BY <1>5, <2>1, <2>3
    <3> QED
      BY <1>3, <1>4, <2>1, <2>3, <3>1 DEF AsksOwed
  <2> QED
    BY <2>2, <2>4
<1>8. CASE PushPut(t)
  <2>1. /\ InPush /\ ~InPush' /\ arg[Main] \in Values /\ UNCHANGED arg
        /\ tasks' = Append(tasks, arg[Main])
        /\ Answered' = Answered /\ Owed \subseteq Owed'
    BY <1>8, PutJobs
  <2>2. tasks \in Seq(Values)
    BY <1>1, CountsTyped
  <2>3. JobsCount'
    <3>1. Cardinality(Others(tasks, NoJob))' = q + (IF arg[Main] # NoJob THEN 1 ELSE 0)
      <4>1. /\ arg[Main] # NoJob => Cardinality(Others(tasks', NoJob)) = q + 1
            /\ arg[Main] = NoJob => Cardinality(Others(tasks', NoJob)) = q
        BY <1>4, <2>1, <2>2, OthersAppend
      <4> QED
        BY <4>1
    <3>2. v = 0 + (q + (IF arg[Main] # NoJob THEN 1 ELSE 0)) + n + r
      BY <1>5, <2>1
    <3> QED
      BY <1>3, <1>4, <2>1, <3>1, <3>2 DEF JobsCount
  <2>4. PICK w \in Nat : w = Cardinality(Owed') /\ o <= w
    BY <1>4, <1>6, <2>1, ConsumerSets
  <2>5. AsksOwed'
    <3>1. Len(tasks') = l + 1
      BY <1>4, <2>1, <2>2, AppendProperties
    <3>2. a + 0 + (l + 1) <= j + w
      BY <1>5, <2>1, <2>4
    <3> QED
      BY <1>3, <1>4, <2>1, <2>4, <3>1, <3>2 DEF AsksOwed
  <2> QED
    BY <2>3, <2>5
<1>9. CASE PopTake(t)
  <2>1. /\ UNCHANGED arg /\ (InPush' <=> InPush)
        /\ tasks # <<>> /\ tasks' = Tail(tasks)
        /\ t \in Consumers /\ t \notin Answered
        /\ Answered' = IF Head(tasks) # NoJob THEN Answered \cup {t} ELSE Answered
        /\ Owed \ {t} \subseteq Owed'
    BY <1>9, TakeJobs
  <2>2. tasks \in Seq(Values)
    BY <1>1, CountsTyped
  <2>3. JobsCount'
    <3>1. PICK p \in Nat : p = Cardinality(Others(tasks', NoJob))
      BY <2>1, <2>2, OthersTail
    <3>2. /\ Head(tasks) # NoJob => q = p + 1
          /\ Head(tasks) = NoJob => q = p
      BY <1>4, <2>1, <2>2, <3>1, OthersTail
    <3>3. PICK m \in Nat : m = Cardinality(Answered')
      <4>1. Answered' \in SUBSET Consumers
        BY DEF Answered
      <4> QED
        BY <4>1, ConsumerSets
    <3>4. /\ Head(tasks) # NoJob => m = n + 1
          /\ Head(tasks) = NoJob => m = n
      <4>1. IsFiniteSet(Answered)
        BY <1>1, CountsTyped
      <4>2. Cardinality(Answered \cup {t}) = Cardinality(Answered) + 1
        BY <2>1, <4>1, FS_AddElement
      <4> QED
        BY <1>4, <2>1, <3>3, <4>2
    <3>5. q + n = p + m
      BY <3>2, <3>4
    <3>6. v = (IF InPush' /\ arg'[Main] # NoJob THEN 1 ELSE 0) + p + m + r
      BY <1>5, <2>1, <3>5
    <3> QED
      BY <1>3, <1>4, <3>1, <3>3, <3>6 DEF JobsCount
  <2>4. PICK w \in Nat : w = Cardinality(Owed') /\ o <= w + 1
    <3>1. Cardinality(Owed \ {t}) <= Cardinality(Owed') /\ Cardinality(Owed') \in Nat
      BY <1>6, <2>1, ConsumerSets
    <3>2. IsFiniteSet(Owed)
      BY <1>1, CountsTyped
    <3>3. Cardinality(Owed \ {t}) = IF t \in Owed THEN o - 1 ELSE o
      BY <1>4, <3>2, FS_RemoveElement
    <3>4. o - 1 <= Cardinality(Owed')
      BY <3>1, <3>3
    <3> QED
      BY <3>1, <3>4
  <2>5. AsksOwed'
    <3>1. Len(tasks') = l - 1
      BY <1>4, <2>1, <2>2, HeadTailProperties
    <3>2. a + (IF InPush' THEN 1 ELSE 0) + (l - 1) <= j + w
      BY <1>5, <2>1, <2>4
    <3> QED
      BY <1>3, <1>4, <2>4, <3>1, <3>2 DEF AsksOwed
  <2> QED
    BY <2>3, <2>5
<1> QED
  BY <1>7, <1>8, <1>9

-----------------------------------------------------------------------------
(* The counting invariant, and the properties that follow from it.          *)

CountInv == MainCounts /\ ConsumerCounts /\ JobsCount /\ AsksOwed

\* At the start there is nothing to count.
LEMMA InitCounts == Init => CountInv
<1> SUFFICES ASSUME Init PROVE CountInv
  OBVIOUS
<1> USE MainAlone
<1>1. /\ JobsIn(input, next - 1) = 0 /\ ValidIn(input, next - 1) = 0
      /\ SleepsIn(input, next - 1) = 0
  <2>1. \A S : UpTo(S, 0) = {}
    BY DEF UpTo
  <2>2. next - 1 = 0
    BY DEF Init
  <2> QED
    BY <2>1, <2>2, FS_EmptySet DEF JobsIn, ValidIn, SleepsIn
<1>2. /\ stats = [k \in Counters |-> 0] /\ lines = [k \in States |-> 0]
      /\ pc[Main] = "insert" /\ \A c \in Consumers : pc[c] = "none"
      /\ at = [t \in Threads |-> "idle"] /\ tasks = <<>> /\ cq_isEOF = FALSE
  BY DEF Init, QInit
<1>3. MainCounts
  BY <1>1, <1>2 DEF MainCounts, MainIs, Counters, States
<1>4. AtPlace("logging") = {} /\ AtPlace("counting") = {} /\ Answered = {} /\ Owed = {}
  BY <1>2 DEF AtPlace, Answered, Owed
<1>5. Completed = 0
  <2>1. DOMAIN work_count = {}
    BY DEF Init
  <2>2. SumFunctionOnSet(work_count, {}) = 0
    BY FS_EmptySet, SumUnfold
  <2> QED
    BY <2>1, <2>2 DEF Completed
<1>6. /\ Cardinality(AtPlace("logging")) = 0 /\ Cardinality(AtPlace("counting")) = 0
      /\ Cardinality(Answered) = 0 /\ Cardinality(Owed) = 0
  BY <1>4, FS_EmptySet
<1>7. ConsumerCounts
  <2>1. /\ stats["ask"] = 0 /\ stats["receive"] = 0 /\ stats["complete"] = 0
        /\ lines["ask"] = 0 /\ lines["receive"] = 0 /\ lines["complete"] = 0
    BY <1>2 DEF Counters, States
  <2> QED
    BY <1>2, <1>5, <1>6, <2>1 DEF ConsumerCounts
<1>8. ~InPush
  BY <1>2 DEF InPush, PushAt
<1>9. Cardinality(Others(tasks, NoJob)) = 0 /\ Len(tasks) = 0
  <2>1. Others(tasks, NoJob) = {} /\ Len(tasks) = 0
    BY <1>2 DEF Others
  <2> QED
    BY <2>1, FS_EmptySet
<1>10. JobsCount
  BY <1>1, <1>2, <1>6, <1>8, <1>9 DEF JobsCount, Counters
<1>11. AsksOwed
  BY <1>1, <1>2, <1>6, <1>8, <1>9 DEF AsksOwed, Counters
<1> QED
  BY <1>3, <1>7, <1>10, <1>11 DEF CountInv

\* Every step keeps the counts.
LEMMA NextCounts == PInv /\ QInv /\ CountInv /\ [Next]_vars => CountInv'
<1> SUFFICES ASSUME PInv, QInv, CountInv, [Next]_vars
             PROVE  CountInv'
  OBVIOUS
<1> USE DEF CountInv
<1>1. TypeOK
  BY DEF PInv
<1>2. CASE UNCHANGED vars
  BY <1>2 DEF vars, pvars, qvars, MainCounts, MainIs, ConsumerCounts, AtPlace, Completed,
              JobsCount, InPush, Answered, AsksOwed, Owed
<1>3. CASE MainStep
  BY <1>1, <1>3, MainCountsKept, MainKeepsConsumers, MainKeepsJobs, MainKeepsAsks
<1>4. ASSUME NEW c \in Consumers, ConsumerStep(c)
      PROVE  CountInv'
  <2>1. MainCounts'
    BY <1>1, <1>4, ConsumerKeepsMain DEF MainCounts, MainIs
  <2> QED
    BY <1>1, <1>4, <2>1, ConsumerCountsKept, ConsumerKeepsJobs
<1>5. ASSUME NEW t \in Threads, UNCHANGED pvars, QueueStep(t) \/ SpuriousWakeup(t)
      PROVE  CountInv'
  <2>1. MainCounts' /\ ConsumerCounts'
    BY <1>5 DEF pvars, MainCounts, MainIs, ConsumerCounts, AtPlace, Completed
  <2> QED
    BY <1>5, <2>1, QueueKeepsJobs
<1> QED
  BY <1>2, <1>3, <1>4, <1>5 DEF Next, ThreadStep

\* What is read, pushed, queued, popped, received, completed, credited and
\* logged adds up in every state of the program (prodcon.cpp 89-131).
THEOREM CountsAddUp == Spec => [](PInv /\ CountInv)
<1>1. Init => PInv /\ QInv /\ CountInv
  BY PInitInv, InitCounts
<1>2. PInv /\ QInv /\ CountInv /\ [Next]_vars => PInv' /\ QInv' /\ CountInv'
  BY NextInv, NextCounts
<1> QED
  BY <1>1, <1>2, PTL DEF Spec

\* No job is lost or taken twice between the input and a consumer.
THEOREM NoJobLost == Spec => []JobsConserved
<1>1. PInv /\ CountInv => JobsConserved
  <2> SUFFICES ASSUME PInv, CountInv PROVE JobsConserved
    OBVIOUS
  <2>1. TypeOK
    BY DEF PInv
  <2>2. PICK k \in Nat : k = next - 1
    BY <2>1, CountsTyped
  <2>3. LinesOf(next - 1, IsValid) = ValidIn(input, next - 1) /\ ValidIn(input, next - 1) \in Nat
    BY <2>2, LinesCounted, OneMoreLine
  <2>4. PICK q \in Nat, n \in Nat, r \in Nat :
           /\ q = Cardinality({i \in DOMAIN tasks : tasks[i] # NoJob})
           /\ n = Cardinality({c \in Consumers : /\ pc[c] = "popping" /\ at[c] = "idle"
                                                 /\ ret[c] # NoJob})
           /\ r = stats["receive"]
    BY <2>1, CountsTyped DEF Others, Answered
  <2>5. ValidIn(input, next - 1) = (IF InPush /\ arg[Main] # NoJob THEN 1 ELSE 0) + q + n + r
    BY <2>4 DEF CountInv, JobsCount, Others, Answered
  <2>6. ValidIn(input, next - 1) - (IF InPush /\ arg[Main] # NoJob THEN 1 ELSE 0) = q + n + r
    BY <2>3, <2>5
  <2> QED
    BY <2>3, <2>4, <2>6 DEF JobsConserved
<1> QED
  BY <1>1, CountsAddUp, PTL

\* Over a whole run there is at most one fruitless ask per consumer.
THEOREM FewAsksInVain == Spec => []AsksBounded
<1>1. PInv /\ CountInv => AsksBounded
  <2> SUFFICES ASSUME PInv, CountInv PROVE AsksBounded
    OBVIOUS
  <2>1. TypeOK
    BY DEF PInv
  <2>2. PICK k \in Nat : k = next - 1
    BY <2>1, CountsTyped
  <2>3. LinesOf(next - 1, IsJob) = JobsIn(input, next - 1) /\ JobsIn(input, next - 1) \in Nat
    BY <2>2, LinesCounted, OneMoreLine
  <2>4. Cardinality(Owed) <= Cardinality(Consumers) /\ Cardinality(Consumers) \in Nat
    <3>1. Owed \in SUBSET Consumers /\ Consumers \in SUBSET Consumers
      BY DEF Owed
    <3> QED
      BY <3>1, ConsumerSets
  <2>5. PICK a \in Nat, l \in Nat, o \in Nat :
           a = stats["ask"] /\ l = Len(tasks) /\ o = Cardinality(Owed)
    BY <2>1, CountsTyped
  <2>6. a + (IF InPush THEN 1 ELSE 0) + l <= JobsIn(input, next - 1) + o
    BY <2>5 DEF CountInv, AsksOwed
  <2>7. a <= JobsIn(input, next - 1) + Cardinality(Consumers)
    BY <2>3, <2>4, <2>5, <2>6
  <2> QED
    BY <2>3, <2>5, <2>7 DEF AsksBounded
<1> QED
  BY <1>1, CountsAddUp, PTL

\* When main prints the statistics, nothing is on its way any more.
LEMMA AllDone ==
    ASSUME PInv, CountInv, pc[Main] = "done"
    PROVE  /\ next - 1 = Len(input) /\ Len(input) \in Nat
           /\ stats["work"] = JobsIn(input, Len(input))
           /\ stats["sleep"] = SleepsIn(input, Len(input))
           /\ stats["receive"] = ValidIn(input, Len(input))
           /\ stats["complete"] = stats["receive"] /\ Completed = stats["complete"]
           /\ \A k \in Counters : lines[k] = stats[k]
           /\ lines["end"] = 1
<1>1. TypeOK
  BY DEF PInv
<1>2. /\ \A c \in Consumers : pc[c] = "exited"
      /\ tasks = <<>>
  <2>1. \A c \in Consumers : pc[c] = "exited" /\ tasks = <<>>
    BY DEF PInv, Closing
  <2> QED
    BY <2>1, ProdConAssumption
<1>3. next - 1 = Len(input) /\ Len(input) \in Nat
  <2>1. next = Len(input) + 1 /\ Len(input) \in Nat
    BY <1>1, ProdConAssumption DEF CountInv, MainCounts, TypeOK
  <2> QED
    BY <2>1
<1>4. /\ stats["work"] \in Nat /\ stats["sleep"] \in Nat /\ stats["ask"] \in Nat
      /\ stats["receive"] \in Nat /\ stats["complete"] \in Nat
      /\ lines["work"] \in Nat /\ lines["complete"] \in Nat
  BY <1>1 DEF TypeOK, Counters, States
<1>5. /\ stats["work"] = JobsIn(input, Len(input))
      /\ stats["sleep"] = SleepsIn(input, Len(input))
      /\ lines["work"] = stats["work"] /\ lines["sleep"] = stats["sleep"]
      /\ lines["end"] = 1
  BY <1>3, <1>4 DEF CountInv, MainCounts, MainIs
<1>6. AtPlace("logging") = {} /\ AtPlace("counting") = {} /\ Answered = {}
  BY <1>2 DEF AtPlace, Answered
<1>7. /\ stats["receive"] = stats["complete"] /\ lines["receive"] = stats["complete"]
      /\ stats["complete"] = lines["complete"] /\ Completed = lines["complete"]
      /\ lines["ask"] = stats["ask"]
  BY <1>4, <1>6, FS_EmptySet DEF CountInv, ConsumerCounts
<1>8. stats["receive"] = ValidIn(input, Len(input))
  <2>1. ~InPush
    BY DEF PInv, CallsMatch, InPush
  <2>2. Others(tasks, NoJob) = {}
    BY <1>2 DEF Others
  <2> QED
    BY <1>3, <1>4, <1>6, <2>1, <2>2, FS_EmptySet DEF CountInv, JobsCount
<1> QED
  BY <1>3, <1>5, <1>7, <1>8 DEF Counters

\* The statistics main prints account for every line of the input.
THEOREM InputAccounted == Spec => []StatsAccountForInput
<1>1. PInv /\ CountInv => StatsAccountForInput
  <2> SUFFICES ASSUME PInv, CountInv, pc[Main] = "done"
               PROVE  /\ stats.work = LinesOf(Len(input), IsJob)
                      /\ stats.sleep = LinesOf(Len(input), IsSleep)
                      /\ stats.receive = LinesOf(Len(input), IsValid)
                      /\ stats.complete = stats.receive
                      /\ Completed = stats.complete
    BY DEF StatsAccountForInput
  <2> QED
    BY AllDone, LinesCounted
<1> QED
  BY <1>1, CountsAddUp, PTL

\* The log agrees with the statistics when they are printed, and runs ahead of
\* the WORK lines by one job at most.
THEOREM LogAgrees == Spec => []LogMatchesStats
<1>1. PInv /\ CountInv => LogMatchesStats
  <2> SUFFICES ASSUME PInv, CountInv PROVE LogMatchesStats
    OBVIOUS
  <2>1. TypeOK
    BY DEF PInv
  <2>2. PICK k \in Nat : k = next - 1
    BY <2>1, CountsTyped
  <2>3. PICK v \in Nat, j \in Nat, q \in Nat, n \in Nat, r \in Nat, g \in Nat :
           /\ v = ValidIn(input, next - 1) /\ j = JobsIn(input, next - 1) /\ v <= j
           /\ q = Cardinality(Others(tasks, NoJob)) /\ n = Cardinality(Answered)
           /\ r = stats["receive"] /\ g = Cardinality(AtPlace("logging"))
    <3>1. /\ ValidIn(input, next - 1) \in Nat /\ JobsIn(input, next - 1) \in Nat
          /\ ValidIn(input, next - 1) <= JobsIn(input, next - 1)
      BY <2>2, OneMoreLine, ValidAmongJobs
    <3>2. AtPlace("logging") \in SUBSET Consumers
      BY DEF AtPlace
    <3>3. Cardinality(AtPlace("logging")) \in Nat
      BY <3>2, ConsumerSets
    <3> QED
      BY <2>1, <3>1, <3>3, CountsTyped
  <2>4. /\ stats["work"] \in Nat /\ stats["complete"] \in Nat
        /\ lines["work"] \in Nat /\ lines["receive"] \in Nat
    BY <2>1 DEF TypeOK, Counters, States
  <2>5. r <= v
    BY <2>3 DEF CountInv, JobsCount
  <2>6. lines["receive"] <= r
    BY <2>3, <2>4 DEF CountInv, ConsumerCounts
  <2>7. j <= lines["work"] + 1
    BY <2>3, <2>4 DEF CountInv, MainCounts, MainIs
  <2>8. lines["receive"] <= lines["work"] + 1
    BY <2>3, <2>4, <2>5, <2>6, <2>7
  <2> QED
    BY <2>8, AllDone DEF LogMatchesStats
<1> QED
  BY <1>1, CountsAddUp, PTL
=============================================================================
