-------------------------- MODULE ConcurrentQueue --------------------------
(***************************************************************************)
(* Assignment2's class ConcurrentQueue (cqueue.cpp), one action per lock   *)
(* acquisition, predicate test, blocking wait and critical section.        *)
(*                                                                         *)
(* Three mutexes guard one std::queue: Push takes slot_avail, job_avail,   *)
(* queue_mutex in that order, Pop takes job_avail, slot_avail,             *)
(* queue_mutex.  at[t] is the place of thread t inside a call ("idle" when *)
(* it is in none).  A thread blocked in condition_variable::wait sits at   *)
(* "push.blocked" or "pop.blocked"; being woken means going back to        *)
(* re-acquire the mutex, after which wait(lock, pred) tests again.         *)
(* The scope exit that releases every lock belongs to the step that ends   *)
(* the critical section.                                                   *)
(***************************************************************************)
EXTENDS Integers, Sequences, FiniteSets

CONSTANTS Producers,    \* threads that call Push and NotifyConsumers
          Consumers,    \* threads that call Pop
          Values,       \* the ints that may be pushed
          max_size,     \* capacity given to the constructor
          MaxSpurious,  \* bound on spurious wakeups in a behaviour
          NoThread      \* the owner of a free mutex

ASSUME QueueAssumption ==
    /\ IsFiniteSet(Producers) /\ IsFiniteSet(Consumers)
    /\ Producers \cap Consumers = {}
    /\ NoThread \notin Producers \cup Consumers
    /\ Values \subseteq Int /\ Values # {}
    /\ max_size \in Nat \ {0}
    /\ MaxSpurious \in Nat

Threads == Producers \cup Consumers

\* Pop's answer when there is nothing to pop.  It is an int like any job.
NoJob == -1

VARIABLES tasks,        \* the std::queue<int>
          cq_isEOF,     \* the member isEOF
          slot_avail, job_avail, queue_mutex,   \* owners of the three mutexes
          at,           \* where each thread is inside a call
          arg,          \* the int each producer is pushing
          ret,          \* what each thread's last Pop or Size returned
          spurious      \* how many spurious wakeups have happened

locks == <<slot_avail, job_avail, queue_mutex>>
qvars == <<tasks, cq_isEOF, slot_avail, job_avail, queue_mutex, at, arg, ret,
           spurious>>

PushAt == {"push.lock_slot", "push.test", "push.blocked", "push.lock_job",
           "push.lock_queue", "push.put"}
PopAt  == {"pop.lock_job", "pop.test", "pop.wait", "pop.blocked",
           "pop.lock_slot", "pop.lock_queue", "pop.take"}
SizeAt == {"size.lock", "size.read"}
EofAt  == {"eof.set", "eof.notify"}

QInit == /\ tasks = <<>>
         /\ cq_isEOF = FALSE
         /\ slot_avail = NoThread
         /\ job_avail = NoThread
         /\ queue_mutex = NoThread
         /\ at = [t \in Threads |-> "idle"]
         /\ arg = [p \in Producers |-> CHOOSE v \in Values : TRUE]
         /\ ret = [t \in Threads |-> NoJob]
         /\ spurious = 0

-----------------------------------------------------------------------------
(* The predicates and the condition variables.                             *)

\* Faulty variants of the predicates, for the property tests.
SlotAvailableOffByOne == Len(tasks) <= max_size
JobAvailableUnchecked == TRUE

\* [this] { return tasks.size() < max_size; }
SlotAvailable == Len(tasks) < max_size

\* [this] { return isEOF || tasks.size() > 0; }
JobAvailable == cq_isEOF \/ Len(tasks) > 0

\* The threads blocked on is_slot_available and on is_job_available.
SlotWaiters == {t \in Producers : at[t] = "push.blocked"}
JobWaiters  == {t \in Consumers : at[t] = "pop.blocked"}

\* The sets of threads that notify_one may wake among W.
NotifyOne(W) == IF W = {} THEN {{}} ELSE {{w} : w \in W}

Goto(t, l) == at' = [at EXCEPT ![t] = l]

\* Thread t goes to l and the threads of W leave their wait to re-acquire
\* their mutex at relock.
GotoAndWake(t, l, W, relock) ==
    at' = [u \in Threads |-> IF u = t THEN l
                             ELSE IF u \in W THEN relock ELSE at[u]]

\* The scope exit of Push and Pop: the three guards are destroyed.
ReleaseAll == /\ slot_avail' = NoThread
              /\ job_avail' = NoThread
              /\ queue_mutex' = NoThread

-----------------------------------------------------------------------------
(* Push(int t)                                                             *)

CallPush(t, v) ==
    /\ at[t] = "idle"
    /\ arg' = [arg EXCEPT ![t] = v]
    /\ Goto(t, "push.lock_slot")
    /\ UNCHANGED <<tasks, cq_isEOF, locks, ret, spurious>>

PushLockSlot(t) ==
    /\ at[t] = "push.lock_slot"
    /\ slot_avail = NoThread
    /\ slot_avail' = t
    /\ Goto(t, "push.test")
    /\ UNCHANGED <<tasks, cq_isEOF, job_avail, queue_mutex, arg, ret, spurious>>

\* Nothing but a holder of slot_avail makes room, so the test and the wait
\* are one step.
PushWait(t) ==
    /\ at[t] = "push.test"
    /\ ~SlotAvailable
    /\ slot_avail' = NoThread
    /\ Goto(t, "push.blocked")
    /\ UNCHANGED <<tasks, cq_isEOF, job_avail, queue_mutex, arg, ret, spurious>>

PushProceed(t) ==
    /\ at[t] = "push.test"
    /\ SlotAvailable
    /\ Goto(t, "push.lock_job")
    /\ UNCHANGED <<tasks, cq_isEOF, locks, arg, ret, spurious>>

\* Faulty variant: Push without its lock_guard on job_avail.
PushNoJobLock(t) ==
    /\ at[t] = "push.lock_job"
    /\ Goto(t, "push.lock_queue")
    /\ UNCHANGED <<tasks, cq_isEOF, locks, arg, ret, spurious>>

PushLockJob(t) ==
    /\ at[t] = "push.lock_job"
    /\ job_avail = NoThread
    /\ job_avail' = t
    /\ Goto(t, "push.lock_queue")
    /\ UNCHANGED <<tasks, cq_isEOF, slot_avail, queue_mutex, arg, ret, spurious>>

PushLockQueue(t) ==
    /\ at[t] = "push.lock_queue"
    /\ queue_mutex = NoThread
    /\ queue_mutex' = t
    /\ Goto(t, "push.put")
    /\ UNCHANGED <<tasks, cq_isEOF, slot_avail, job_avail, arg, ret, spurious>>

\* Faulty variant: the job is pushed but no consumer is notified.
PushWithoutNotify(t) ==
    /\ at[t] = "push.put"
    /\ tasks' = Append(tasks, arg[t])
    /\ Goto(t, "idle")
    /\ ReleaseAll
    /\ UNCHANGED <<cq_isEOF, arg, ret, spurious>>

PushPut(t) ==
    /\ at[t] = "push.put"
    /\ tasks' = Append(tasks, arg[t])
    /\ \E W \in NotifyOne(JobWaiters) : GotoAndWake(t, "idle", W, "pop.lock_job")
    /\ ReleaseAll
    /\ UNCHANGED <<cq_isEOF, arg, ret, spurious>>

-----------------------------------------------------------------------------
(* int Pop()                                                               *)

CallPop(t) ==
    /\ at[t] = "idle"
    /\ Goto(t, "pop.lock_job")
    /\ UNCHANGED <<tasks, cq_isEOF, locks, arg, ret, spurious>>

PopLockJob(t) ==
    /\ at[t] = "pop.lock_job"
    /\ job_avail = NoThread
    /\ job_avail' = t
    /\ Goto(t, "pop.test")
    /\ UNCHANGED <<tasks, cq_isEOF, slot_avail, queue_mutex, arg, ret, spurious>>

\* The test and the wait are two steps: between them the thread holds
\* job_avail but is not yet on the condition variable, and NotifyConsumers,
\* which takes no lock, may run.
PopTestFails(t) ==
    /\ at[t] = "pop.test"
    /\ ~JobAvailable
    /\ Goto(t, "pop.wait")
    /\ UNCHANGED <<tasks, cq_isEOF, locks, arg, ret, spurious>>

PopWait(t) ==
    /\ at[t] = "pop.wait"
    /\ job_avail' = NoThread
    /\ Goto(t, "pop.blocked")
    /\ UNCHANGED <<tasks, cq_isEOF, slot_avail, queue_mutex, arg, ret, spurious>>

PopProceed(t) ==
    /\ at[t] = "pop.test"
    /\ JobAvailable
    /\ Goto(t, "pop.lock_slot")
    /\ UNCHANGED <<tasks, cq_isEOF, locks, arg, ret, spurious>>

PopLockSlot(t) ==
    /\ at[t] = "pop.lock_slot"
    /\ slot_avail = NoThread
    /\ slot_avail' = t
    /\ Goto(t, "pop.lock_queue")
    /\ UNCHANGED <<tasks, cq_isEOF, job_avail, queue_mutex, arg, ret, spurious>>

PopLockQueue(t) ==
    /\ at[t] = "pop.lock_queue"
    /\ queue_mutex = NoThread
    /\ queue_mutex' = t
    /\ Goto(t, "pop.take")
    /\ UNCHANGED <<tasks, cq_isEOF, slot_avail, job_avail, arg, ret, spurious>>

\* Faulty variant: a job is taken but the producers are not notified.
PopTakeWithoutNotify(t) ==
    /\ at[t] = "pop.take"
    /\ tasks # <<>>
    /\ ret' = [ret EXCEPT ![t] = Head(tasks)]
    /\ tasks' = Tail(tasks)
    /\ Goto(t, "idle")
    /\ ReleaseAll
    /\ UNCHANGED <<cq_isEOF, arg, spurious>>

\* Faulty variant: front() without pop().
PopTakeKeepsJob(t) ==
    /\ at[t] = "pop.take"
    /\ tasks # <<>>
    /\ ret' = [ret EXCEPT ![t] = Head(tasks)]
    /\ GotoAndWake(t, "idle", SlotWaiters, "push.lock_slot")
    /\ ReleaseAll
    /\ UNCHANGED <<tasks, cq_isEOF, arg, spurious>>

PopTake(t) ==
    /\ at[t] = "pop.take"
    /\ tasks # <<>>
    /\ ret' = [ret EXCEPT ![t] = Head(tasks)]
    /\ tasks' = Tail(tasks)
    /\ GotoAndWake(t, "idle", SlotWaiters, "push.lock_slot")
    /\ ReleaseAll
    /\ UNCHANGED <<cq_isEOF, arg, spurious>>

PopNothing(t) ==
    /\ at[t] = "pop.take"
    /\ tasks = <<>>
    /\ ret' = [ret EXCEPT ![t] = NoJob]
    /\ Goto(t, "idle")
    /\ ReleaseAll
    /\ UNCHANGED <<tasks, cq_isEOF, arg, spurious>>

-----------------------------------------------------------------------------
(* int Size()                                                              *)

CallSize(t) ==
    /\ at[t] = "idle"
    /\ Goto(t, "size.lock")
    /\ UNCHANGED <<tasks, cq_isEOF, locks, arg, ret, spurious>>

\* Faulty variant: Size reads the queue without queue_mutex.
SizeNoLock(t) ==
    /\ at[t] = "size.lock"
    /\ Goto(t, "size.read")
    /\ UNCHANGED <<tasks, cq_isEOF, locks, arg, ret, spurious>>

SizeLock(t) ==
    /\ at[t] = "size.lock"
    /\ queue_mutex = NoThread
    /\ queue_mutex' = t
    /\ Goto(t, "size.read")
    /\ UNCHANGED <<tasks, cq_isEOF, slot_avail, job_avail, arg, ret, spurious>>

SizeRead(t) ==
    /\ at[t] = "size.read"
    /\ ret' = [ret EXCEPT ![t] = Len(tasks)]
    /\ queue_mutex' = NoThread
    /\ Goto(t, "idle")
    /\ UNCHANGED <<tasks, cq_isEOF, slot_avail, job_avail, arg, spurious>>

-----------------------------------------------------------------------------
(* void NotifyConsumers(bool done): takes no lock.  The only caller passes *)
(* true.                                                                   *)

CallNotifyConsumers(t) ==
    /\ at[t] = "idle"
    /\ Goto(t, "eof.set")
    /\ UNCHANGED <<tasks, cq_isEOF, locks, arg, ret, spurious>>

EofSet(t) ==
    /\ at[t] = "eof.set"
    /\ cq_isEOF' = TRUE
    /\ Goto(t, "eof.notify")
    /\ UNCHANGED <<tasks, locks, arg, ret, spurious>>

\* Faulty variant: notify_one instead of notify_all.
EofNotifyOne(t) ==
    /\ at[t] = "eof.notify"
    /\ \E W \in NotifyOne(JobWaiters) : GotoAndWake(t, "idle", W, "pop.lock_job")
    /\ UNCHANGED <<tasks, cq_isEOF, locks, arg, ret, spurious>>

EofNotify(t) ==
    /\ at[t] = "eof.notify"
    /\ GotoAndWake(t, "idle", JobWaiters, "pop.lock_job")
    /\ UNCHANGED <<tasks, cq_isEOF, locks, arg, ret, spurious>>

-----------------------------------------------------------------------------
\* A condition variable may wake a waiter that nobody notified.  MaxSpurious
\* bounds how often.
SpuriousWakeup(t) ==
    /\ t \in SlotWaiters \cup JobWaiters
    /\ spurious < MaxSpurious
    /\ spurious' = spurious + 1
    /\ Goto(t, IF t \in SlotWaiters THEN "push.lock_slot" ELSE "pop.lock_job")
    /\ UNCHANGED <<tasks, cq_isEOF, locks, arg, ret>>

\* A step of thread t inside a call.
PushStep(t) == \/ PushLockSlot(t) \/ PushWait(t) \/ PushProceed(t)
               \/ PushLockJob(t) \/ PushLockQueue(t) \/ PushPut(t)
PopStep(t) == \/ PopLockJob(t) \/ PopTestFails(t) \/ PopWait(t) \/ PopProceed(t)
              \/ PopLockSlot(t) \/ PopLockQueue(t) \/ PopTake(t) \/ PopNothing(t)
SizeStep(t) == SizeLock(t) \/ SizeRead(t)
EofStep(t) == EofSet(t) \/ EofNotify(t)
QueueStep(t) == PushStep(t) \/ PopStep(t) \/ SizeStep(t) \/ EofStep(t)

\* The most general caller: any producer and any consumer, in any order.
Call(t) == \/ /\ t \in Producers
              /\ \/ \E v \in Values : CallPush(t, v)
                 \/ CallNotifyConsumers(t)
           \/ t \in Consumers /\ CallPop(t)
           \/ CallSize(t)

QNext == \E t \in Threads : Call(t) \/ QueueStep(t) \/ SpuriousWakeup(t)

QSpec == QInit /\ [][QNext]_qvars

-----------------------------------------------------------------------------
(* Properties.                                                             *)

\* Every variable keeps its type, and the queue its capacity.
QTypeOK ==
    /\ tasks \in Seq(Values) /\ Len(tasks) <= max_size
    /\ cq_isEOF \in BOOLEAN
    /\ slot_avail \in Threads \cup {NoThread}
    /\ job_avail \in Threads \cup {NoThread}
    /\ queue_mutex \in Threads \cup {NoThread}
    /\ at \in [Threads -> {"idle"} \cup PushAt \cup PopAt \cup SizeAt \cup EofAt]
    /\ \A t \in Threads : /\ at[t] \in PushAt \cup EofAt => t \in Producers
                          /\ at[t] \in PopAt => t \in Consumers
    /\ arg \in [Producers -> Values]
    /\ ret \in [Threads -> Values \cup {NoJob} \cup Nat]
    /\ spurious \in 0 .. MaxSpurious

\* The steps that read the std::queue, and those that change it.  The two
\* wait predicates read tasks.size() under one mutex only, and not the same
\* one, and Size reads it under the third.
Reading == {"push.test", "pop.test", "size.read"}
Writing == {"push.put", "pop.take"}

\* No data race on tasks: while a thread is about to change the queue no
\* other thread is about to read or change it, although Push's predicate,
\* Pop's predicate and Size each hold a different single mutex
\* (cqueue.cpp 51, 63, 79).
NoTasksRace ==
    \A t, u \in Threads :
        t # u /\ at[t] \in Writing => at[u] \notin Reading \cup Writing

\* The consumers that will still test the queue, or are about to take a job.
Popping == {c \in Consumers :
              at[c] \in {"pop.lock_job", "pop.test", "pop.lock_slot",
                        "pop.lock_queue", "pop.take"}}

\* The inductive invariant the properties rest on: which mutexes a thread
\* holds at each place, and what the tests it has passed still say about the
\* queue.
SlotHeld  == {"push.test", "push.lock_job", "push.lock_queue", "push.put",
              "pop.lock_queue", "pop.take"}
JobHeld   == {"pop.test", "pop.wait", "pop.lock_slot", "pop.lock_queue",
              "pop.take", "push.lock_queue", "push.put"}
QueueHeld == {"push.put", "pop.take", "size.read"}

LockOwners ==
    \A t \in Threads : /\ slot_avail = t <=> at[t] \in SlotHeld
                       /\ job_avail = t <=> at[t] \in JobHeld
                       /\ queue_mutex = t <=> at[t] \in QueueHeld

TestsStillHold ==
    \A t \in Threads :
        /\ at[t] \in {"push.lock_job", "push.lock_queue", "push.put"} =>
              SlotAvailable
        /\ at[t] = "pop.wait" => tasks = <<>>
        /\ at[t] \in {"pop.lock_slot", "pop.lock_queue", "pop.take"} =>
              JobAvailable

\* Every lock is held exactly by the thread that is between its acquisition
\* and its release, and the answer of a predicate that a thread goes on with
\* stays true until it has used it, although the other two mutexes let other
\* threads run (cqueue.cpp 50-54, 62-69).
QInv == QTypeOK /\ LockOwners /\ TestsStillHold

\* One notify_one per Push is enough (cqueue.cpp 55): as long as some
\* consumer sleeps on is_job_available, each job in the queue has a consumer
\* awake in Pop that will come for it, however the woken ones are overtaken.
NoMissedWakeup == JobWaiters # {} => Len(tasks) <= Cardinality(Popping)

\* A producer sleeps on is_slot_available only while the queue is full: no
\* Pop that made room can leave it asleep (cqueue.cpp 51, 69).
ProducerSleepsOnlyWhileFull == SlotWaiters # {} => Len(tasks) = max_size

\* The queue implements the bounded FIFO: each call takes effect at the step
\* that holds queue_mutex, jobs come out once, in the order they went in,
\* never more than max_size are held, and Pop answers NoJob only when the
\* queue is empty and NotifyConsumers has set isEOF.
Abstract == INSTANCE BoundedQueue
    WITH Callers <- Threads, Capacity <- max_size,
         buf <- tasks, closed <- cq_isEOF, reply <- ret
ImplementsBoundedQueue == Abstract!Spec
=============================================================================
