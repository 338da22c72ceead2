------------------------------ MODULE ProdCon ------------------------------
(***************************************************************************)
(* Assignment2's program prodcon (prodcon.cpp): the main thread starts the *)
(* consumers, then reads lines and pushes the transactions into the        *)
(* ConcurrentQueue; the consumers pop them; main closes the queue at the   *)
(* end of the input, joins the consumers and prints the statistics.        *)
(*                                                                         *)
(* pc[t] is the place of thread t in its own function, at[t] its place     *)
(* inside the call it makes on the queue: a step of the former needs       *)
(* at[t] = "idle".  A call of incrementCounter is one step, because it     *)
(* holds counter_mutex throughout; the accesses to stats that do not take  *)
(* the mutex are steps of their own (see NoStatsRace).  A call of          *)
(* Printer::print is part of the step before or after it: print holds      *)
(* printer_mutex throughout, and only print touches the log.               *)
(***************************************************************************)
EXTENDS ConcurrentQueue, Functions

CONSTANTS Main,       \* the main thread, which is the producer
          Inputs,     \* the inputs the program may be given
          Longs,      \* the numbers that may stand in a line
          IntBits,    \* width of an int
          BadNumber   \* the number of a line whose text stoll rejects

\* One line of the input as parse_job sees it: the first character is 'T'
\* or anything else, the rest a number or not.
Line == [type : {"T", "S"}, n : Longs \cup {BadNumber}]

\* stoll reads the number as a long, and the pair returned holds an int.
parse_job(n) ==
    LET half == 2 ^ (IntBits - 1) IN ((n + half) % (2 * half)) - half

ASSUME ProdConAssumption ==
    /\ Producers = {Main}
    /\ Consumers # {}
    /\ max_size = 2 * Cardinality(Consumers)
    /\ Inputs # {} /\ Inputs \subseteq Seq(Line)
    /\ \A n \in Longs : parse_job(n) \in Values
    /\ BadNumber \notin Longs

VARIABLES pc,          \* where each thread is in main/producer or consumer
          isEOF,       \* the global isEOF
          input,       \* the lines on standard input
          next,        \* index of the next line to read
          job,         \* consumer's local variable job
          stats,       \* the counters of the struct statistics
          lines,       \* how many lines of each state the log has
          work_count   \* its map from consumer to completed jobs

pvars == <<pc, isEOF, input, next, job, stats, lines, work_count>>
vars == <<qvars, pvars>>

MainAt == {"insert", "start", "read", "pushing", "logging", "sleeping",
           "closing", "join", "summary", "done", "aborted"}
ConsumerAt == {"none", "test_eof", "test_size", "ask", "popping", "logging",
               "counting", "exited"}

Counters == {"work", "ask", "receive", "complete", "sleep"}
States == Counters \cup {"end"}

Init == /\ QInit
        /\ pc = [t \in Threads |-> IF t = Main THEN "insert" ELSE "none"]
        /\ isEOF = FALSE
        /\ input \in Inputs
        /\ next = 1
        /\ job = [c \in Consumers |-> NoJob]
        /\ stats = [k \in Counters |-> 0]
        /\ lines = [k \in States |-> 0]
        /\ work_count = [c \in {} |-> 0]

\* Thread t, between two calls on the queue, moves from a to b.
Move(t, a, b) == /\ pc[t] = a
                 /\ at[t] = "idle"
                 /\ pc' = [pc EXCEPT ![t] = b]

\* One more line of state k.
print(k) == lines' = [lines EXCEPT ![k] = @ + 1]

incrementCounter(k) == stats' = [stats EXCEPT ![k] = @ + 1]

-----------------------------------------------------------------------------
(* main: starting the consumers.                                           *)

InsertWorkCount(c) ==
    /\ Move(Main, "insert", "start")
    /\ c \notin DOMAIN work_count
    /\ work_count' = [d \in DOMAIN work_count \cup {c} |->
                        IF d = c THEN 0 ELSE work_count[d]]
    /\ UNCHANGED <<qvars, isEOF, input, next, job, stats, lines>>

\* The thread whose entry was just inserted starts; after the last one main
\* goes on to producer().
StartConsumer(c) ==
    /\ pc[Main] = "start"
    /\ c \in DOMAIN work_count /\ pc[c] = "none"
    /\ pc' = [pc EXCEPT
                ![Main] = IF DOMAIN work_count = Consumers THEN "read" ELSE "insert",
                ![c] = "test_eof"]
    /\ UNCHANGED <<qvars, isEOF, input, next, job, stats, lines, work_count>>

-----------------------------------------------------------------------------
(* producer()                                                              *)

HasLine == next <= Len(input)

ReadTransaction ==
    /\ Move(Main, "read", "pushing")
    /\ HasLine /\ input[next].type = "T" /\ input[next].n # BadNumber
    /\ next' = next + 1
    /\ CallPush(Main, parse_job(input[next].n))
    /\ UNCHANGED <<isEOF, input, job, stats, lines, work_count>>

\* Push has returned: the job is counted, then Size is called for the log.
Pushed ==
    /\ Move(Main, "pushing", "logging")
    /\ incrementCounter("work")
    /\ CallSize(Main)
    /\ UNCHANGED <<isEOF, input, next, job, lines, work_count>>

WorkLogged ==
    /\ Move(Main, "logging", "read")
    /\ print("work")
    /\ UNCHANGED <<qvars, isEOF, input, next, job, stats, work_count>>

ReadSleep ==
    /\ Move(Main, "read", "sleeping")
    /\ HasLine /\ input[next].type # "T" /\ input[next].n # BadNumber
    /\ next' = next + 1
    /\ UNCHANGED <<qvars, isEOF, input, job, stats, lines, work_count>>

Slept ==
    /\ Move(Main, "sleeping", "read")
    /\ incrementCounter("sleep")
    /\ print("sleep")
    /\ UNCHANGED <<qvars, isEOF, input, next, job, work_count>>

\* stoll throws, nothing catches it: std::terminate ends the whole process.
ReadBadLine ==
    /\ Move(Main, "read", "aborted")
    /\ HasLine /\ input[next].n = BadNumber
    /\ UNCHANGED <<qvars, isEOF, input, next, job, stats, lines, work_count>>

\* Faulty variant: the global isEOF is forgotten.
EndOfInputUnset ==
    /\ Move(Main, "read", "closing")
    /\ ~HasLine
    /\ CallNotifyConsumers(Main)
    /\ UNCHANGED <<isEOF, input, next, job, stats, lines, work_count>>

EndOfInput ==
    /\ Move(Main, "read", "closing")
    /\ ~HasLine
    /\ isEOF' = TRUE
    /\ CallNotifyConsumers(Main)
    /\ UNCHANGED <<input, next, job, stats, lines, work_count>>

ProducerReturns ==
    /\ Move(Main, "closing", "join")
    /\ print("end")
    /\ UNCHANGED <<qvars, isEOF, input, next, job, stats, work_count>>

-----------------------------------------------------------------------------
(* main: joining the consumers and printing the statistics.                *)

\* Faulty variant: only one thread of the pool is joined.
JoinOne ==
    /\ Move(Main, "join", "summary")
    /\ \E c \in Consumers : pc[c] = "exited"
    /\ UNCHANGED <<qvars, isEOF, input, next, job, stats, lines, work_count>>

JoinAll ==
    /\ Move(Main, "join", "summary")
    /\ \A c \in Consumers : pc[c] = "exited"
    /\ UNCHANGED <<qvars, isEOF, input, next, job, stats, lines, work_count>>

PrintStats ==
    /\ Move(Main, "summary", "done")
    /\ UNCHANGED <<qvars, isEOF, input, next, job, stats, lines, work_count>>

-----------------------------------------------------------------------------
(* consumer(int id)                                                        *)

\* Faulty variant: while (!isEOF), without the test of Size.
TestEOFOnly(c) ==
    /\ Move(c, "test_eof", IF isEOF THEN "exited" ELSE "ask")
    /\ UNCHANGED <<qvars, isEOF, input, next, job, stats, lines, work_count>>

TestEOF(c) ==
    \/ /\ ~isEOF
       /\ Move(c, "test_eof", "ask")
       /\ UNCHANGED <<qvars, isEOF, input, next, job, stats, lines, work_count>>
    \/ /\ isEOF
       /\ Move(c, "test_eof", "test_size")
       /\ CallSize(c)
       /\ UNCHANGED <<isEOF, input, next, job, stats, lines, work_count>>

TestSize(c) ==
    /\ Move(c, "test_size", IF ret[c] > 0 THEN "ask" ELSE "exited")
    /\ UNCHANGED <<qvars, isEOF, input, next, job, stats, lines, work_count>>

Ask(c) ==
    /\ Move(c, "ask", "popping")
    /\ incrementCounter("ask")
    /\ CallPop(c)
    /\ print("ask")
    /\ UNCHANGED <<isEOF, input, next, job, work_count>>

PoppedNothing(c) ==
    /\ Move(c, "popping", "test_eof")
    /\ ret[c] = NoJob
    /\ job' = [job EXCEPT ![c] = NoJob]
    /\ UNCHANGED <<qvars, isEOF, input, next, stats, lines, work_count>>

\* Faulty variant: the answer of Pop is not compared with -1.
ReceiveUnchecked(c) ==
    /\ Move(c, "popping", "logging")
    /\ job' = [job EXCEPT ![c] = ret[c]]
    /\ incrementCounter("receive")
    /\ CallSize(c)
    /\ UNCHANGED <<isEOF, input, next, lines, work_count>>

Receive(c) ==
    /\ Move(c, "popping", "logging")
    /\ ret[c] # NoJob
    /\ job' = [job EXCEPT ![c] = ret[c]]
    /\ incrementCounter("receive")
    /\ CallSize(c)
    /\ UNCHANGED <<isEOF, input, next, lines, work_count>>

\* The RECEIVE line is printed, and Trans(job) runs.
Complete(c) ==
    /\ Move(c, "logging", "counting")
    /\ incrementCounter("complete")
    /\ print("receive")
    /\ UNCHANGED <<qvars, isEOF, input, next, job, work_count>>

CountWork(c) ==
    /\ Move(c, "counting", "test_eof")
    /\ work_count' = [work_count EXCEPT ![c] = @ + 1]
    /\ print("complete")
    /\ UNCHANGED <<qvars, isEOF, input, next, job, stats>>

-----------------------------------------------------------------------------
MainStep == \/ \E c \in Consumers : InsertWorkCount(c) \/ StartConsumer(c)
            \/ ReadTransaction \/ Pushed \/ WorkLogged
            \/ ReadSleep \/ Slept \/ ReadBadLine
            \/ EndOfInput \/ ProducerReturns \/ JoinAll \/ PrintStats

ConsumerStep(c) == \/ TestEOF(c) \/ TestSize(c) \/ Ask(c) \/ PoppedNothing(c)
                   \/ Receive(c) \/ Complete(c) \/ CountWork(c)

\* After abort or the return of main no thread of the process runs.
Running == pc[Main] \notin {"aborted", "done"}

ThreadStep(t) == /\ Running
                 /\ \/ t = Main /\ MainStep
                    \/ t \in Consumers /\ ConsumerStep(t)
                    \/ QueueStep(t) /\ UNCHANGED pvars

Next == \E t \in Threads :
            \/ ThreadStep(t)
            \/ Running /\ SpuriousWakeup(t) /\ UNCHANGED pvars

Spec == Init /\ [][Next]_vars

\* The scheduler runs every thread that stays able to run.  Spurious wakeups
\* are never owed.
FairSpec == Spec /\ \A t \in Threads : WF_vars(ThreadStep(t))

-----------------------------------------------------------------------------
(* Properties.                                                             *)

\* Every variable keeps its type, and the counters stay naturals.
TypeOK ==
    /\ QTypeOK
    /\ pc \in [Threads -> MainAt \cup ConsumerAt]
    /\ pc[Main] \in MainAt /\ \A c \in Consumers : pc[c] \in ConsumerAt
    /\ isEOF \in BOOLEAN
    /\ input \in Inputs
    /\ next \in 1 .. Len(input) + 1
    /\ job \in [Consumers -> Values \cup {NoJob}]
    /\ stats \in [Counters -> Nat] /\ lines \in [States -> Nat]
    /\ DOMAIN work_count \subseteq Consumers
    /\ work_count \in [DOMAIN work_count -> Nat]

\* The lines among the first k that satisfy P(type, n).
LinesOf(k, P(_, _)) ==
    Cardinality({i \in 1 .. k : P(input[i].type, input[i].n)})

IsJob(type, n)   == type = "T"
IsValid(type, n) == type = "T" /\ parse_job(n) # NoJob
IsSleep(type, n) == type # "T"

Completed == SumFunctionOnSet(work_count, DOMAIN work_count)

\* The statistics main prints account for the whole input: every T line was
\* pushed and every other line slept (WORK, SLEEP); every job except those
\* that are -1 as an int, which Pop's callers cannot tell from "no job", was
\* received, completed and credited to one consumer (prodcon.cpp 24-26,
\* 96-101, 119-125, 165).
StatsAccountForInput ==
    pc[Main] = "done" =>
        /\ stats.work = LinesOf(Len(input), IsJob)
        /\ stats.sleep = LinesOf(Len(input), IsSleep)
        /\ stats.receive = LinesOf(Len(input), IsValid)
        /\ stats.complete = stats.receive
        /\ Completed = stats.complete

\* The log tells what the statistics count: when they are printed it has as
\* many lines of each state, and one END; and at any moment at most one job
\* has its RECEIVE line before its WORK line, the one main has pushed and not
\* logged yet (prodcon.cpp 94-102, 118-130, 165; printer.cpp 27-59).
LogMatchesStats ==
    /\ pc[Main] = "done" => /\ \A k \in Counters : lines[k] = stats[k]
                            /\ lines["end"] = 1
    /\ lines["receive"] <= lines["work"] + 1

\* The job main is pushing, if its Push has not put it in the queue yet.
InPush == at[Main] \in PushAt

\* No job is lost or taken twice on its way: at any moment the valid jobs
\* read so far, less the one Push still holds, are those in the queue, those
\* a Pop has just returned and those received (cqueue.cpp 54, 67; prodcon.cpp
\* 95-97, 119).
JobsConserved ==
    LinesOf(next - 1, IsValid) - (IF InPush /\ arg[Main] # NoJob THEN 1 ELSE 0)
    = Cardinality({i \in DOMAIN tasks : tasks[i] # NoJob})
      + Cardinality({c \in Consumers : /\ pc[c] = "popping" /\ at[c] = "idle"
                                       /\ ret[c] # NoJob})
      + stats.receive

\* A consumer that sees the end of the input stops asking: over a whole run
\* there is at most one fruitless ASK per consumer besides the jobs numbered
\* -1 (prodcon.cpp 92-96: the global isEOF is set before the queue's).
AsksBounded ==
    stats.ask <= LinesOf(next - 1, IsJob) + Cardinality(Consumers)

\* No consumer gives up while a job may still come for it: once one has
\* exited, the input is at its end and the queue is empty for good
\* (prodcon.cpp 92, 128).
ExitOnlyAtEnd ==
    (\E c \in Consumers : pc[c] = "exited") => isEOF /\ tasks = <<>>

\* main touches stats without counter_mutex when it inserts the entries of
\* work_count (while the consumers already started run) and when it prints:
\* no consumer is then about to write what main touches (prodcon.cpp 150,
\* 165).
NoStatsRace ==
    /\ pc[Main] = "insert" => \A c \in Consumers : pc[c] # "counting"
    /\ pc[Main] = "summary" =>
          \A c \in Consumers : pc[c] \notin {"ask", "popping", "logging", "counting"}

-----------------------------------------------------------------------------
(* The inductive invariant of the program.                                 *)

\* A thread is inside a call only at the place of its function that makes it.
CallsMatch ==
    /\ at[Main] \in PushAt => pc[Main] = "pushing"
    /\ at[Main] \in EofAt => pc[Main] = "closing"
    /\ \A c \in Consumers :
          /\ at[c] \in PopAt => pc[c] = "popping"
          /\ at[c] \in SizeAt => pc[c] \in {"test_size", "logging"}

\* A Pop that has returned answered a job or NoJob.
PopAnswers ==
    \A c \in Consumers :
        pc[c] = "popping" /\ at[c] = "idle" => ret[c] \in Values \cup {NoJob}

\* While main still starts consumers there is no job and no end of input, so
\* those already running are at most asleep in their first Pop.
StartUp ==
    pc[Main] \in {"insert", "start"} =>
        /\ tasks = <<>> /\ ~cq_isEOF /\ ~isEOF
        /\ \A c \in Consumers :
              /\ pc[c] \in {"none", "test_eof", "ask", "popping"}
              /\ pc[c] = "popping" => at[c] \in {"pop.lock_job", "pop.test",
                                                "pop.wait", "pop.blocked"}

\* What a consumer knows about the end of the input when it leaves its loop.
Closing ==
    /\ cq_isEOF => isEOF
    /\ isEOF <=> pc[Main] \in {"closing", "join", "summary", "done"}
    /\ \A c \in Consumers :
          /\ pc[c] = "test_size" =>
                isEOF /\ (at[c] = "idle" /\ ret[c] <= 0 => tasks = <<>>)
          /\ pc[c] = "exited" => isEOF /\ tasks = <<>>
    /\ pc[Main] \in {"summary", "done"} =>
          \A c \in Consumers : pc[c] = "exited"

\* The two isEOF flags, the queue and the places of main and the consumers
\* agree at every step of start-up and shutdown (prodcon.cpp 92, 128-129,
\* 149-162).
PInv == TypeOK /\ CallsMatch /\ PopAnswers /\ StartUp /\ Closing

\* Push holds slot_avail and waits for job_avail; a Pop holds job_avail and
\* waits for slot_avail.
LockCycle == \E c \in Consumers : /\ at[Main] = "push.lock_job"
                                  /\ at[c] = "pop.lock_slot"

\* NotifyConsumers has returned, and a consumer that tested isEOF before is
\* only now going to wait.
WakeupLost == /\ pc[Main] \in {"closing", "join"} /\ at[Main] = "idle"
              /\ \E c \in Consumers : at[c] = "pop.wait"

\* The program ends, unless the lock cycle of Push and Pop or the wakeup
\* that NotifyConsumers loses stops it: it has no third way to hang.
EndsOrKnownHang == <>(~Running \/ LockCycle \/ WakeupLost)

\* Push and Pop are thread safe (cqueue.cpp 47, 59): no Push and Pop block
\* each other for ever.
NoLockCycle == ~LockCycle

\* NotifyConsumers releases the threads waiting for the queue to be filled
\* (cqueue.cpp 84): once it has returned, every consumer leaves its wait.
ReleasedAtEOF ==
    \A c \in Consumers :
        (pc[Main] = "join" /\ at[c] = "pop.blocked") ~> (at[c] # "pop.blocked")
=============================================================================
