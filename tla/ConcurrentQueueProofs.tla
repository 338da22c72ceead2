----------------------- MODULE ConcurrentQueueProofs -----------------------
(***************************************************************************)
(* Proofs about ConcurrentQueue, for any number of producers and           *)
(* consumers, any capacity and any set of values.                          *)
(***************************************************************************)
EXTENDS ConcurrentQueue, FiniteSetTheorems, TLAPS

\* The initial state satisfies the inductive invariant.
LEMMA QInitInv == QInit => QInv
<1> SUFFICES ASSUME QInit PROVE QInv
  OBVIOUS
<1>1. (CHOOSE v \in Values : TRUE) \in Values
  <2>1. \E v \in Values : TRUE
    BY QueueAssumption
  <2> QED
    BY <2>1
<1>2. QTypeOK
  <2>1. arg \in [Producers -> Values]
    BY <1>1 DEF QInit
  <2>2. /\ tasks = <<>> /\ cq_isEOF = FALSE /\ spurious = 0
        /\ slot_avail = NoThread /\ job_avail = NoThread
        /\ queue_mutex = NoThread
        /\ at = [t \in Threads |-> "idle"]
        /\ ret = [t \in Threads |-> NoJob]
    BY DEF QInit
  <2>3. tasks \in Seq(Values) /\ Len(tasks) <= max_size
    BY <2>2, QueueAssumption, SMT
  <2>4. /\ at \in [Threads -> {"idle"} \cup PushAt \cup PopAt \cup SizeAt \cup EofAt]
        /\ \A t \in Threads : /\ at[t] \in PushAt \cup EofAt => t \in Producers
                              /\ at[t] \in PopAt => t \in Consumers
    BY <2>2, SMT DEF PushAt, PopAt, EofAt
  <2>5. ret \in [Threads -> Values \cup {NoJob} \cup Nat]
    BY <2>2, SMT
  <2>6. spurious \in 0 .. MaxSpurious
    BY <2>2, QueueAssumption, SMT
  <2> QED
    BY <2>1, <2>2, <2>3, <2>4, <2>5, <2>6 DEF QTypeOK
<1>3. LockOwners /\ TestsStillHold
  BY QueueAssumption, SMT
  DEF QInit, LockOwners, TestsStillHold, SlotHeld, JobHeld, QueueHeld, Threads
<1> QED
  BY <1>2, <1>3 DEF QInv

\* A step of Push preserves the inductive invariant.
LEMMA PushStepInv ==
    ASSUME QInv, NEW t \in Threads, PushStep(t)
    PROVE  QInv'
<1> USE QueueAssumption
    DEF QInv, QTypeOK, LockOwners, TestsStillHold, SlotHeld, JobHeld, QueueHeld,
        PushAt, PopAt, SizeAt, EofAt, SlotAvailable, JobAvailable
<1> USE DEF Threads, NoJob, Goto
<1>1. CASE PushLockSlot(t)
  BY <1>1, SMT DEF PushLockSlot
<1>2. CASE PushWait(t)
  BY <1>2, SMT DEF PushWait
<1>3. CASE PushProceed(t)
  BY <1>3, SMT DEF PushProceed, locks
<1>4. CASE PushLockJob(t)
  BY <1>4, SMT DEF PushLockJob
<1>5. CASE PushLockQueue(t)
  BY <1>5, SMT DEF PushLockQueue
<1>6. CASE PushPut(t)
  BY <1>6, SMT DEF PushPut, GotoAndWake, NotifyOne, JobWaiters, ReleaseAll
<1> QED
  BY <1>1, <1>2, <1>3, <1>4, <1>5, <1>6 DEF PushStep

\* A step of Pop preserves the inductive invariant.
LEMMA PopStepInv ==
    ASSUME QInv, NEW t \in Threads, PopStep(t)
    PROVE  QInv'
<1> USE QueueAssumption
    DEF QInv, QTypeOK, LockOwners, TestsStillHold, SlotHeld, JobHeld, QueueHeld,
        PushAt, PopAt, SizeAt, EofAt, SlotAvailable, JobAvailable
<1> USE DEF Threads, NoJob, Goto
<1>1. CASE PopLockJob(t)
  BY <1>1, SMT DEF PopLockJob
<1>2. CASE PopTestFails(t)
  BY <1>2, SMT DEF PopTestFails, locks
<1>3. CASE PopWait(t)
  BY <1>3, SMT DEF PopWait
<1>4. CASE PopProceed(t)
  BY <1>4, SMT DEF PopProceed, locks
<1>5. CASE PopLockSlot(t)
  BY <1>5, SMT DEF PopLockSlot
<1>6. CASE PopLockQueue(t)
  BY <1>6, SMT DEF PopLockQueue
<1>7. CASE PopTake(t)
  BY <1>7, SMT DEF PopTake, GotoAndWake, SlotWaiters, ReleaseAll
<1>8. CASE PopNothing(t)
  BY <1>8, SMT DEF PopNothing, ReleaseAll
<1> QED
  BY <1>1, <1>2, <1>3, <1>4, <1>5, <1>6, <1>7, <1>8 DEF PopStep

\* A step of Size preserves the inductive invariant.
LEMMA SizeStepInv ==
    ASSUME QInv, NEW t \in Threads, SizeStep(t)
    PROVE  QInv'
<1> USE QueueAssumption
    DEF QInv, QTypeOK, LockOwners, TestsStillHold, SlotHeld, JobHeld, QueueHeld,
        PushAt, PopAt, SizeAt, EofAt, SlotAvailable, JobAvailable
<1> USE DEF Threads, NoJob, Goto
<1>1. CASE SizeLock(t)
  BY <1>1, SMT DEF SizeLock
<1>2. CASE SizeRead(t)
  BY <1>2, SMT DEF SizeRead
<1> QED
  BY <1>1, <1>2 DEF SizeStep

\* A step of NotifyConsumers preserves the inductive invariant.
LEMMA EofStepInv ==
    ASSUME QInv, NEW t \in Threads, EofStep(t)
    PROVE  QInv'
<1> USE QueueAssumption
    DEF QInv, QTypeOK, LockOwners, TestsStillHold, SlotHeld, JobHeld, QueueHeld,
        PushAt, PopAt, SizeAt, EofAt, SlotAvailable, JobAvailable
<1> USE DEF Threads, NoJob, Goto
<1>1. CASE EofSet(t)
  BY <1>1, SMT DEF EofSet, locks
<1>2. CASE EofNotify(t)
  BY <1>2, SMT DEF EofNotify, locks, GotoAndWake, JobWaiters
<1> QED
  BY <1>1, <1>2 DEF EofStep

\* The start of a call preserves the inductive invariant.
LEMMA CallInv ==
    ASSUME QInv, NEW t \in Threads, Call(t)
    PROVE  QInv'
<1> USE QueueAssumption
    DEF QInv, QTypeOK, LockOwners, TestsStillHold, SlotHeld, JobHeld, QueueHeld,
        PushAt, PopAt, SizeAt, EofAt, SlotAvailable, JobAvailable
<1> USE DEF Threads, NoJob, Goto, locks
<1>1. ASSUME t \in Producers, NEW v \in Values, CallPush(t, v)
      PROVE  QInv'
  BY <1>1, SMT DEF CallPush
<1>2. CASE t \in Producers /\ CallNotifyConsumers(t)
  BY <1>2, SMT DEF CallNotifyConsumers
<1>3. CASE t \in Consumers /\ CallPop(t)
  BY <1>3, SMT DEF CallPop
<1>4. CASE CallSize(t)
  BY <1>4, SMT DEF CallSize
<1> QED
  BY <1>1, <1>2, <1>3, <1>4 DEF Call

\* A spurious wakeup preserves the inductive invariant.
LEMMA SpuriousInv ==
    ASSUME QInv, NEW t \in Threads, SpuriousWakeup(t)
    PROVE  QInv'
BY QueueAssumption, SMT
DEF SpuriousWakeup, SlotWaiters, JobWaiters, Threads, NoJob, Goto, locks,
    QInv, QTypeOK, LockOwners, TestsStillHold, SlotHeld, JobHeld, QueueHeld,
    PushAt, PopAt, SizeAt, EofAt, SlotAvailable, JobAvailable

\* Stuttering preserves the inductive invariant.
LEMMA StutterInv == QInv /\ UNCHANGED qvars => QInv'
BY DEF qvars, QInv, QTypeOK, LockOwners, TestsStillHold, SlotHeld, JobHeld, QueueHeld,
    PushAt, PopAt, SizeAt, EofAt, SlotAvailable, JobAvailable

\* Every step of the queue preserves the inductive invariant.
LEMMA QNextInv == QInv /\ [QNext]_qvars => QInv'
BY PushStepInv, PopStepInv, SizeStepInv, EofStepInv, CallInv, SpuriousInv,
   StutterInv DEF QNext, QueueStep

\* Every lock has the owner its places say and every passed test still holds.
THEOREM QInvHolds == QSpec => []QInv
<1>1. QInit => QInv
  BY QInitInv
<1>2. QInv /\ [QNext]_qvars => QInv'
  BY QNextInv
<1> QED
  BY <1>1, <1>2, PTL DEF QSpec

\* The variables keep their types and the queue its capacity.
THEOREM QTypeCorrect == QSpec => []QTypeOK
<1>1. QInv => QTypeOK
  BY DEF QInv
<1> QED
  BY <1>1, QInvHolds, PTL

\* No thread reads or changes the std::queue while another is about to change
\* it: whoever changes it owns all three mutexes, whoever reads it one.
THEOREM NoRaceOnTasks == QSpec => []NoTasksRace
<1>1. QInv => NoTasksRace
  BY QueueAssumption, SMT
  DEF QInv, LockOwners, NoTasksRace, Reading, Writing, SlotHeld, JobHeld,
      QueueHeld
<1> QED
  BY <1>1, QInvHolds, PTL

-----------------------------------------------------------------------------
(* The producers' wait.                                                     *)

\* A step keeps the producers that sleep on is_slot_available in front of a
\* full queue.
LEMMA SleepersStep ==
    QInv /\ ProducerSleepsOnlyWhileFull /\ [QNext]_qvars
        => ProducerSleepsOnlyWhileFull'
<1> SUFFICES ASSUME QInv, ProducerSleepsOnlyWhileFull, [QNext]_qvars
             PROVE  ProducerSleepsOnlyWhileFull'
  OBVIOUS
<1> USE QueueAssumption
    DEF QInv, QTypeOK, TestsStillHold, SlotAvailable, Threads, Goto, locks,
        ProducerSleepsOnlyWhileFull, SlotWaiters
<1>1. CASE UNCHANGED qvars
  BY <1>1, SMT DEF qvars
<1>2. ASSUME NEW t \in Threads, Call(t)
      PROVE  ProducerSleepsOnlyWhileFull'
  BY <1>2, SMT DEF Call, CallPush, CallPop, CallSize, CallNotifyConsumers
<1>3. ASSUME NEW t \in Threads, PushStep(t)
      PROVE  ProducerSleepsOnlyWhileFull'
  <2>1. CASE PushWait(t)
    BY <2>1, SMT DEF PushWait
  <2>2. CASE PushPut(t)
    <3>1. Len(tasks) < max_size /\ SlotWaiters = {}
      BY <2>2, SMT DEF PushPut
    <3>2. ASSUME NEW u \in Producers, at'[u] = "push.blocked"
          PROVE  at[u] = "push.blocked"
      BY <2>2, <3>2, SMT DEF PushPut, GotoAndWake
    <3> QED
      BY <3>1, <3>2, Zenon
  <2>3. CASE PushLockSlot(t) \/ PushProceed(t) \/ PushLockJob(t) \/ PushLockQueue(t)
    BY <2>3, SMT DEF PushLockSlot, PushProceed, PushLockJob, PushLockQueue
  <2> QED
    BY <1>3, <2>1, <2>2, <2>3 DEF PushStep
<1>4. ASSUME NEW t \in Threads, PopStep(t)
      PROVE  ProducerSleepsOnlyWhileFull'
  <2>1. CASE PopTake(t)
    <3>1. ASSUME NEW u \in Producers
          PROVE  at'[u] # "push.blocked"
      BY <2>1, SMT DEF PopTake, GotoAndWake
    <3> QED
      BY <3>1, Zenon
  <2>2. CASE PopLockJob(t) \/ PopTestFails(t) \/ PopWait(t) \/ PopProceed(t)
    BY <2>2, SMT DEF PopLockJob, PopTestFails, PopWait, PopProceed
  <2>3. CASE PopLockSlot(t) \/ PopLockQueue(t) \/ PopNothing(t)
    BY <2>3, SMT DEF PopLockSlot, PopLockQueue, PopNothing
  <2> QED
    BY <1>4, <2>1, <2>2, <2>3 DEF PopStep
<1>5. ASSUME NEW t \in Threads, SizeStep(t) \/ EofStep(t) \/ SpuriousWakeup(t)
      PROVE  ProducerSleepsOnlyWhileFull'
  BY <1>5, SMT DEF SizeStep, SizeLock, SizeRead, EofStep, EofSet, EofNotify,
                   GotoAndWake, JobWaiters, SpuriousWakeup
<1> QED
  BY <1>1, <1>2, <1>3, <1>4, <1>5 DEF QNext, QueueStep

\* No Pop that makes room leaves a producer asleep.
THEOREM ProducersWoken == QSpec => []ProducerSleepsOnlyWhileFull
<1>1. QInit => ProducerSleepsOnlyWhileFull
  BY QueueAssumption, SMT
  DEF QInit, ProducerSleepsOnlyWhileFull, SlotWaiters, Threads
<1> QED
  BY <1>1, SleepersStep, QInvHolds, PTL DEF QSpec

-----------------------------------------------------------------------------
(* The consumers' wait.                                                     *)

\* The consumers in Pop are finitely many, now and after a step.
LEMMA PoppingSize ==
    /\ IsFiniteSet(Popping) /\ Cardinality(Popping) \in Nat
    /\ IsFiniteSet(Popping') /\ Cardinality(Popping') \in Nat
<1>1. Popping \subseteq Consumers /\ Popping' \subseteq Consumers
  BY DEF Popping
<1>2. \A S : S \subseteq Consumers => IsFiniteSet(S) /\ Cardinality(S) \in Nat
  BY FS_Subset, FS_CardinalityType, QueueAssumption
<1> QED
  BY <1>1, <1>2

\* A step that leaves the queue alone, sends nobody to sleep and takes nobody
\* out of Pop cannot miss a wakeup.
LEMMA NobodyLeaves ==
    ASSUME QInv, NoMissedWakeup, UNCHANGED tasks,
           Popping \subseteq Popping', JobWaiters' \subseteq JobWaiters
    PROVE  NoMissedWakeup'
<1>1. Cardinality(Popping) <= Cardinality(Popping')
  BY PoppingSize, FS_Subset
<1>2. Len(tasks) \in Nat
  BY DEF QInv, QTypeOK
<1>3. CASE JobWaiters' = {}
  BY <1>3 DEF NoMissedWakeup
<1>4. CASE JobWaiters # {}
  <2>1. Len(tasks) <= Cardinality(Popping)
    BY <1>4 DEF NoMissedWakeup
  <2>2. Len(tasks') <= Cardinality(Popping')
    BY <1>1, <1>2, <2>1, PoppingSize, SMT
  <2> QED
    BY <2>2 DEF NoMissedWakeup
<1> QED
  BY <1>3, <1>4

\* With an empty queue there is nothing to miss.
LEMMA NothingToMiss == tasks' = <<>> => NoMissedWakeup'
BY PoppingSize, SMT DEF NoMissedWakeup

\* notify_one wakes a consumer for the job that was pushed.
LEMMA PushWakesOne ==
    ASSUME QInv, NoMissedWakeup, NEW t \in Threads, PushPut(t)
    PROVE  NoMissedWakeup'
<1> USE QueueAssumption DEF Threads
<1>1. PICK W \in NotifyOne(JobWaiters) : GotoAndWake(t, "idle", W, "pop.lock_job")
  BY DEF PushPut
<1>2. CASE JobWaiters = {}
  <2>1. JobWaiters' = {}
    BY <1>1, <1>2, SMT DEF JobWaiters, NotifyOne, GotoAndWake
  <2> QED
    BY <2>1 DEF NoMissedWakeup
<1>3. CASE JobWaiters # {}
  <2>1. PICK w \in JobWaiters : W = {w}
    BY <1>1, <1>3 DEF NotifyOne
  <2>2. w \in Consumers /\ w \notin Popping
    BY SMT DEF JobWaiters, Popping
  <2>3. t \in Producers
    BY SMT DEF QInv, QTypeOK, PushPut, PushAt
  <2>4. Popping' = Popping \cup {w}
    <3>1. \A c \in Consumers :
              at'[c] = IF c = w THEN "pop.lock_job" ELSE at[c]
      BY <1>1, <2>1, <2>3, SMT DEF GotoAndWake
    <3> QED
      BY <2>2, <3>1, SMT DEF Popping
  <2>5. Cardinality(Popping') = Cardinality(Popping) + 1
    BY <2>2, <2>4, PoppingSize, FS_AddElement
  <2>6. Len(tasks) <= Cardinality(Popping)
    BY <1>3 DEF NoMissedWakeup
  <2>7. Len(tasks) \in Nat /\ Len(tasks') = Len(tasks) + 1
    BY <2>3, SMT DEF QInv, QTypeOK, PushPut
  <2>8. Len(tasks') <= Cardinality(Popping')
    BY <2>5, <2>6, <2>7, PoppingSize, SMT
  <2> QED
    BY <2>8 DEF NoMissedWakeup
<1> QED
  BY <1>2, <1>3

\* The consumer that leaves Pop with a job leaves one job less behind.
LEMMA TakerLeaves ==
    ASSUME QInv, NoMissedWakeup, NEW t \in Threads, PopTake(t)
    PROVE  NoMissedWakeup'
<1> USE QueueAssumption DEF Threads
<1>1. t \in Consumers /\ t \in Popping
  BY SMT DEF QInv, QTypeOK, PopTake, PopAt, Popping
<1>2. \A c \in Consumers : at'[c] = IF c = t THEN "idle" ELSE at[c]
  BY SMT DEF PopTake, GotoAndWake, SlotWaiters
<1>3. Popping' = Popping \ {t} /\ JobWaiters' \subseteq JobWaiters
  BY <1>1, <1>2, SMT DEF Popping, JobWaiters
<1>4. Cardinality(Popping') = Cardinality(Popping) - 1
  BY <1>1, <1>3, PoppingSize, FS_RemoveElement
<1>5. Len(tasks) \in Nat /\ Len(tasks') = Len(tasks) - 1
  BY SMT DEF QInv, QTypeOK, PopTake
<1>6. JobWaiters # {} => Len(tasks') <= Cardinality(Popping')
  BY <1>4, <1>5, PoppingSize, SMT DEF NoMissedWakeup
<1> QED
  BY <1>3, <1>6 DEF NoMissedWakeup

\* Every step leaves each job in the queue a consumer that will come for it.
LEMMA WakeupStep ==
    QInv /\ NoMissedWakeup /\ [QNext]_qvars => NoMissedWakeup'
<1> SUFFICES ASSUME QInv, NoMissedWakeup, [QNext]_qvars
             PROVE  NoMissedWakeup'
  OBVIOUS
<1> DEFINE Calm == /\ UNCHANGED tasks
                   /\ Popping \subseteq Popping'
                   /\ JobWaiters' \subseteq JobWaiters
<1>0. Calm => NoMissedWakeup'
  BY NobodyLeaves
<1> USE QueueAssumption
    DEF QInv, QTypeOK, Threads, Goto, locks, Popping, JobWaiters, PushAt, EofAt,
        PopAt
<1>1. CASE UNCHANGED qvars
  <2>1. Calm
    BY <1>1, SMT DEF qvars
  <2> QED
    BY <1>0, <2>1
<1>2. ASSUME NEW t \in Threads, Call(t)
      PROVE  NoMissedWakeup'
  <2>1. Calm
    BY <1>2, SMT DEF Call, CallPush, CallPop, CallSize, CallNotifyConsumers
  <2> QED
    BY <1>0, <2>1
<1>3. ASSUME NEW t \in Threads, PushStep(t)
      PROVE  NoMissedWakeup'
  <2>1. CASE PushPut(t)
    BY <2>1, PushWakesOne
  <2>2. CASE PushLockSlot(t) \/ PushWait(t) \/ PushProceed(t) \/ PushLockJob(t)
             \/ PushLockQueue(t)
    <3>1. Calm
      BY <2>2, SMT DEF PushLockSlot, PushWait, PushProceed, PushLockJob,
                       PushLockQueue
    <3> QED
      BY <1>0, <3>1
  <2> QED
    BY <1>3, <2>1, <2>2 DEF PushStep
<1>4. ASSUME NEW t \in Threads, PopStep(t)
      PROVE  NoMissedWakeup'
  <2>1. CASE PopTake(t)
    BY <2>1, TakerLeaves
  <2>2. CASE PopTestFails(t) \/ PopWait(t) \/ PopNothing(t)
    <3>1. tasks' = <<>>
      BY <2>2, SMT DEF PopTestFails, PopWait, PopNothing, JobAvailable,
                       TestsStillHold
    <3> QED
      BY <3>1, NothingToMiss
  <2>3. CASE PopLockJob(t) \/ PopProceed(t) \/ PopLockSlot(t) \/ PopLockQueue(t)
    <3>1. Calm
      BY <2>3, SMT DEF PopLockJob, PopProceed, PopLockSlot, PopLockQueue
    <3> QED
      BY <1>0, <3>1
  <2> QED
    BY <1>4, <2>1, <2>2, <2>3 DEF PopStep
<1>5. ASSUME NEW t \in Threads, SizeStep(t) \/ EofStep(t) \/ SpuriousWakeup(t)
      PROVE  NoMissedWakeup'
  <2>1. Calm
    BY <1>5, SMT DEF SizeStep, SizeLock, SizeRead, EofStep, EofSet, EofNotify,
                     GotoAndWake, SpuriousWakeup, SlotWaiters
  <2> QED
    BY <1>0, <2>1
<1> QED
  BY <1>1, <1>2, <1>3, <1>4, <1>5 DEF QNext, QueueStep

\* One notify_one per Push is enough.
THEOREM WakeupsSuffice == QSpec => []NoMissedWakeup
<1>1. QInit => NoMissedWakeup
  BY QueueAssumption, SMT DEF QInit, NoMissedWakeup, JobWaiters, Threads
<1> QED
  BY <1>1, WakeupStep, QInvHolds, PTL DEF QSpec

-----------------------------------------------------------------------------
(* The queue implements the bounded FIFO.                                   *)

\* A step of a thread inside a call is a step of the abstract queue or leaves
\* the abstract queue alone.
LEMMA QueueStepRefines ==
    ASSUME QInv, NEW t \in Threads, QueueStep(t)
    PROVE  [Abstract!Next]_Abstract!vars
<1> USE QueueAssumption DEF Abstract!vars, locks
<1>1. CASE PushPut(t)
  <2>1. t \in Producers /\ arg[t] \in Values /\ Len(tasks) < max_size
    BY <1>1, SMT DEF QInv, QTypeOK, TestsStillHold, SlotAvailable, PushPut,
                     PushAt, Threads
  <2>2. Abstract!Put(arg[t])
    BY <1>1, <2>1, SMT DEF PushPut, Abstract!Put
  <2> QED
    BY <2>1, <2>2 DEF Abstract!Next
<1>2. CASE PopTake(t)
  <2>1. Abstract!Get(t)
    BY <1>2, SMT DEF PopTake, Abstract!Get, Abstract!Answer
  <2> QED
    BY <2>1 DEF Abstract!Next
<1>3. CASE PopNothing(t)
  <2>1. cq_isEOF
    BY <1>3, SMT DEF PopNothing, QInv, TestsStillHold, JobAvailable
  <2>2. Abstract!GetNothing(t)
    BY <1>3, <2>1, SMT DEF PopNothing, Abstract!GetNothing, Abstract!Answer
  <2> QED
    BY <2>2 DEF Abstract!Next
<1>4. CASE SizeRead(t)
  <2>1. Abstract!Count(t)
    BY <1>4, SMT DEF SizeRead, Abstract!Count, Abstract!Answer
  <2> QED
    BY <2>1 DEF Abstract!Next
<1>5. CASE EofSet(t)
  <2>1. Abstract!Close
    BY <1>5, SMT DEF EofSet, Abstract!Close
  <2> QED
    BY <2>1 DEF Abstract!Next
<1>6. CASE PushLockSlot(t) \/ PushWait(t) \/ PushProceed(t) \/ PushLockJob(t)
           \/ PushLockQueue(t)
  BY <1>6 DEF PushLockSlot, PushWait, PushProceed, PushLockJob, PushLockQueue
<1>7. CASE PopLockJob(t) \/ PopTestFails(t) \/ PopWait(t) \/ PopProceed(t)
           \/ PopLockSlot(t) \/ PopLockQueue(t)
  BY <1>7 DEF PopLockJob, PopTestFails, PopWait, PopProceed, PopLockSlot,
              PopLockQueue
<1>8. CASE SizeLock(t) \/ EofNotify(t)
  BY <1>8 DEF SizeLock, EofNotify
<1> QED
  BY <1>1, <1>2, <1>3, <1>4, <1>5, <1>6, <1>7, <1>8
  DEF QueueStep, PushStep, PopStep, SizeStep, EofStep

\* Every step of the queue is a step of the bounded FIFO or a stutter.
LEMMA QNextRefines ==
    QInv /\ [QNext]_qvars => [Abstract!Next]_Abstract!vars
<1> SUFFICES ASSUME QInv, [QNext]_qvars
             PROVE  [Abstract!Next]_Abstract!vars
  OBVIOUS
<1>1. CASE UNCHANGED qvars
  BY <1>1 DEF qvars, Abstract!vars
<1>2. ASSUME NEW t \in Threads, Call(t)
      PROVE  [Abstract!Next]_Abstract!vars
  BY <1>2 DEF Call, CallPush, CallPop, CallSize, CallNotifyConsumers,
              Abstract!vars
<1>3. ASSUME NEW t \in Threads, SpuriousWakeup(t)
      PROVE  [Abstract!Next]_Abstract!vars
  BY <1>3 DEF SpuriousWakeup, Abstract!vars
<1> QED
  BY <1>1, <1>2, <1>3, QueueStepRefines DEF QNext

\* The three mutexes and two condition variables implement a bounded FIFO
\* whose calls take effect one at a time.
THEOREM QueueImplements == QSpec => ImplementsBoundedQueue
<1>1. QInit => Abstract!Init
  BY DEF QInit, Abstract!Init
<1> QED
  BY <1>1, QNextRefines, QInvHolds, PTL
  DEF QSpec, ImplementsBoundedQueue, Abstract!Spec

=============================================================================
