# A verification of the CMPUT 379 assignments

The repository holds three C++ programs: a small shell (Assignment1), a
producer/consumer program on a home-made concurrent queue (Assignment2, `prodcon`)
and a transaction server with its client (Assignment3). The modules here model what
these programs *do*: every definition is translated from the source, and the lines
it stands for are in `PROJECT.json` under `map`.

## 1. Inventory

| Component | State | Operations | Talks to |
|---|---|---|---|
| Assignment2 `ConcurrentQueue` (cqueue.cpp) | `tasks`, `isEOF`, three mutexes, two condition variables | `Push`, `Pop`, `Size`, `NotifyConsumers` | called by all threads of prodcon |
| Assignment2 `prodcon` (prodcon.cpp) | global `isEOF`, `stats`, standard input | start-up, `producer`, `consumer`, `incrementCounter`, join, summary | the queue, `Trans`, `Sleep` |
| Assignment2/3 `Trans`, `Sleep` (tands.cpp) | the global `TransSave` | `Trans(n)`, `Sleep(n)` | called by consumers and by main with no lock |
| Assignment2 `Printer` | log file, its mutex | `print` | called by all threads |
| Assignment3 `Server` (server.cpp) | table `fds`, `buffer`, `stats` | `Setup`, `Run`, `UpdateStats`, `Cleanup` | clients, over TCP |
| Assignment3 `Client` (client.cpp) | socket, `transaction_count`, log | connect, `Send`, `LogJob` | the server, over TCP |
| Assignment3 helpers, `Logger` | - | `parse_job`, checks of port and address, log file | server and client |
| Assignment1 `Shell` (shell.cpp) | process table `pcb`, child processes | run a command, `jobs`, `kill`, `suspend`, `resume`, `wait`, `sleep`, `exit`, `UpdatePCB` | the kernel's children |
| Assignment1 `Parser` (parser.cpp) | the command line | limits, redirections, `&`, the jobs table | the shell |

`Assignment1/Assignment1` is an earlier copy of the shell and `Assignment3/submission`
is identical to Assignment3; the models follow the top-level files, except for the
fixed array of arguments that only the earlier parser has.

What is hard in each of them, and what makes it correct:

* **ConcurrentQueue**. `Push` waits under `slot_avail`, `Pop` under `job_avail`, and
  the queue itself is changed under all three mutexes, taken in different orders.
  `NotifyConsumers` takes none. It should be a bounded FIFO, free of data races, in
  which no wakeup is lost and nobody blocks for ever.
* **prodcon**. Two end-of-file flags, consumers that test one, then call `Size`, then
  `Pop`; counters updated in separate critical sections and read at the end. The
  summary should account for the input, the log, written by all threads one step behind
  what they do, should agree with the summary, and the program should end.
* **tands**. One `int` shared by all threads without a lock. Sleep should get a valid
  duration.
* **parse_job**, in both programs, narrows a 64-bit number to `int`: what is a positive
  job in the input can be a negative one, or -1, to the program.
* **Server**. One buffer for all clients, a table of descriptors that grows and is
  marked during a scan and is compacted afterwards, timeouts, requests that get no
  reply, clients that die at any point, one counter that numbers the jobs of all
  clients. Every request should be answered once and be credited to its sender, each
  with a number of its own, and no connection lost.
* **Client**. `recv` may return a reply, nothing, or an error; it may start before the
  server listens. Its log should tell what happened.
* **Shell**. Children end at any moment; their status can be reaped at several places;
  the table should reflect the children, `jobs` should list them although `ps` ran
  earlier, and no command should hang but one that has to.
* **Parser**. Blanks, redirections and `&` anywhere in the text; the limits checked
  first are all that keeps the arguments inside the earlier parser's array.

Each hazard is listed at its line in `PROJECT.json` under `hazards`.

## 2. Modules

| Module | Role |
|---|---|
| `BoundedQueue` | abstract specification: a bounded FIFO with a close operation, each call one step |
| `ConcurrentQueue` | cqueue.cpp, one action per lock, test, wait and critical section |
| `ProdCon` | prodcon.cpp on top of it (EXTENDS `ConcurrentQueue`) |
| `Tands` | the memory accesses of `Trans` and `Sleep` |
| `JobService` | abstract specification: what a client may rely on, one request at a time, done at most once, answered with the number of the job it was, or lost |
| `PollServer` | server.cpp, one action per stretch between system calls, and the TCP connections |
| `ClientServer` | the clients, composed with the server (EXTENDS `PollServer`) |
| `FdTable` | the loops that compact the server's table, statement by statement |
| `Parser` | parser.cpp and helpers.cpp: what becomes of a text, as operators on its characters and tokens |
| `Shell` | shell.cpp on top of it (EXTENDS `Parser`), one action per stretch between calls that may block, and the kernel's processes |
| `Compaction` | a sequence without its entries of some kind: what the server's table is compacted to, and what cleaning leaves of a line |
| `ConcurrentQueueProofs`, `ProdConProofs`, `TandsProofs`, `PollServerProofs`, `ClientServerProofs`, `FdTableProofs`, `ShellProofs` | theorems and their proofs |
| `DataLemmas` | lemmas on sums, sequences and recursive functions that these proofs share |
| `MC*` | instances for TLC |

Definitions called "faulty variant" are plausible bugs. They are not part of any
specification: each shows that a property fails when the code has that bug.

### ConcurrentQueue and ProdCon

`at[t]` is the place of thread `t` inside a call on the queue, `pc[t]` its place in
its own function; a step of the latter needs `at[t] = "idle"`. A mutex is the thread
that owns it. A thread asleep in a condition variable is at `push.blocked` or
`pop.blocked`; `notify_one` moves one such thread to the place where it re-acquires
its mutex, `notify_all` all of them, and `SpuriousWakeup` may move one at any time,
at most `MaxSpurious` times. `Pop`'s test and its wait are two steps, because
`NotifyConsumers`, which takes no lock, may run between them; `Push`'s are one, since
all who change the outcome of its test hold `slot_avail`. `incrementCounter` is one
step (it holds `counter_mutex` throughout). Reads and writes of the plain `bool`s
`isEOF` are atomic, as they are in the default build, which does not optimise.
`Values` contains -1, which is both a job a line `T-1` can push and `Pop`'s "nothing".
A line whose number `stoll` rejects ends the process (`ReadBadLine`).
`parse_job` narrows the numbers of the input (`Longs`) to ints of `IntBits` bits.
`lines` counts the lines of each state in the log: `Printer::print` writes one line
under its own mutex, so a call of it is part of a step beside it, always in a step
other than the one that counts the event when a call of `Size` stands between.

### PollServer and ClientServer

`spc` is the place of the server: in `setup`, before it listens; in `poll`, in the
`scan` of the descriptors, in the `accept` loop, in `Trans` (`work`), in `Cleanup`.
`fds` is the first `num_fds` entries of the array, with the client's name for its
descriptor; `revents` what the round's poll reported, of which `Run` only tests for
exactly `POLLERR`/`POLLNVAL` or exactly `POLLHUP`. A connection is two streams of
messages, each with two marks for its reader, `fin` and `rst`. Closing a socket with
unread messages resets the connection, sending to a closed socket is answered by a
reset; this is what the code's error paths see of TCP. `stale` is the length of the
message a negative job leaves in `buffer`: a shorter message is then read with its tail,
and the machine's name is `Garbled`; so it is for a job with more words after it
(`T5 x`, kind `tailed`), since the name is all that follows the first space. A request
carries the number the client sent, and the server's `parse_job` narrows it, so
`T4294967295` is dropped like a negative job. `ScanSpaced` is the number after a space
(`T 5`, kind `spaced`), which the client's `stoll` reads and the server's does not. The
30 s and 100 ms timeouts are the possibility that nothing is ready (`PollTimesOut`,
`ScanIdle`). `MaxFaults` bounds the failing system calls, those of `Setup` included; a
client may be killed whenever it runs (`Kill`).

A client's `main` takes every line whose first character is not `T` for a pause, logs
and sleeps. What is logged depends on that character (`LogJob`): a `pause` of type `S`
is; so is one of type `D`, which in the file looks like a reply and in the model is told
from one by its kind; any other is not (`Unlogged`). `bad` is a line from which `stoll`
reads no number, the empty line among them. `log[c]` is the log file of client `c`: the
lines it logged, the replies, and the summary that the destructor writes when `main`
returns (`Return`), but not when the client is killed or an exception ends it (`Hang`
alone).

`ClientServer` implements `JobService`: a client's request is pending while it is in
the server's socket or in its hands, answered while the reply is on its way, and lost
when the client waits for nothing. The mapping needs no history, and hides the table,
the rounds, the buffer and the connections.

`FdTable` is the compaction on the array itself: the inner loop reads one entry past
`num_fds`, which is past the array when the table is full and may then be anything.

### Parser and Shell

A text is a sequence of `Characters`, in which every name, file or number counts as one
character in the runs (a longer one in the proofs); `SplitStringToVector` makes a line of it, a sequence of tokens. `line` is the
line the shell runs; which action follows is decided by what the parser makes of it. An
empty text and one that `ValidateInput` rejects are read again. `Commands` are the
commands written in the usual way (words, then redirections, then `&`, with one to
`MaxBlanks` blanks between them), whose `Text` must be parsed back to the command;
`OtherTexts` are blanks alone and at the ends, misplaced signs, wrong arguments and
texts beyond the limits. A sign inside a token (`a>b`) is taken for a redirection and
also kept as an argument; a `&` that is not last is dropped.

`pcb` is the set of pids in the process table; the command stored with each is only
printed. `ps` is what `popen` and `ReadPSResults` brought for `jobs`: the shell's
children and perhaps other processes on its terminal, each in its state at that
moment. `BuildJobsTable` and the printing come later (`PrintJobs`), when children may
have ended. `proc` says what each pid is: free, a running, stopped or
finished child, or a process that is none of the shell's. `spc` is the place of
`run`: reading a line, about to run a command, in `jobs`, blocked in `waitpid`, or after the
shell ended (by `exit`, or by one of its error paths). A child ends, and a foreign
process starts or ends, between any two steps of the shell, so a pid of the table
may be free or belong to someone else. `UpdatePCB` is one step: a child that ends
while the loop runs is as one that ended before it or after it. After the shell
ended nothing more is modelled.

## 3. Runs

| Run | Instance | Shows |
|---|---|---|
| `queue` | 1 producer, 2 consumers, capacity 2, any calls in any order, 1 spurious wakeup, jobs -1 and 7 | lock discipline (`QInv`), no race on `tasks`, `NoMissedWakeup`, `ProducerSleepsOnlyWhileFull`, and that the class implements `BoundedQueue` |
| `prodcon_short` | 2 consumers, every input of at most 3 lines of four kinds (one a number that becomes -1), 1 spurious wakeup | statistics, the log, conservation of jobs, bounded `ASK`s, no early exit, no race on `stats`, `PInv` |
| `prodcon_ends` | 2 consumers; three lines, or five jobs for a queue of 4 | under fairness the program ends or is in one of two known hangs |
| `prodcon_lock_cycle` | as above | **violation**: `Push` and `Pop` block each other |
| `prodcon_lost_wakeup` | as above | **violation**: a consumer misses `NotifyConsumers` |
| `tands` | 2 consumers, 4 calls of `Trans`, arguments around the clamp's bounds | `TransSave` and the duration outside the racy window |
| `server` | 2 clients, four inputs with a line of every kind and type, 1 failing system call, kills | the table, the requests, the statistics, the numbers of the replies, the clients' logs, the timeout, answers, termination, and that all of it implements `JobService` |
| `server_stats` | 2 clients, lines of a letter and a number only | **violation**: credit to a machine that does not exist |
| `server_reply` | 2 clients, lines of a letter and a number only | **violation**: `recv` = 0 taken for a reply |
| `shell` | 3 pids, a table of 2 entries, some 60 texts in any order | commands are parsed as typed, exec's arguments fit, no child is lost from sight or from the jobs table, `exit` leaves none, each turn reaps all that finished, the table's size, and every command ends |
| `shell_table` | 2 pids | **violation**: a process found finished stays in the table |
| `fd_table` | every table of up to 5 entries over 2 descriptors and -1, any leftover | the compaction keeps the open descriptors in order, and ends |

Why the bounds are enough. In `queue` the capacity is reached, a consumer can be
overtaken by the other one after it was notified, and every order of the four calls
occurs; what larger instances could add is settled by the proofs. The inputs of
`prodcon_short` have each kind of line in each position, with one to three lines in
front of the end of the input; `prodcon_ends` has more jobs than slots and fewer jobs
than consumers. In `server` two clients are the least with which one connection's
events interfere with another's; an input has a second request after a first, and
the run includes a round that closes one entry and accepts another. Several closings
in one round are covered for all tables by `fd_table`. An `int` has 4 bits
(`IntBits`), so that 15 is the long that becomes -1. In `shell` the table is full
with a pid to spare for a foreground child or a foreign process, and the limits on a
line (15 characters, 5 arguments, 2 characters in a token) are such that usual commands
are accepted with single blanks, the longest are refused with double ones, and each
limit is passed by some other text. Symmetry is used in
`prodcon_short` only, which has no temporal property. Deadlock is not checked: the
programs end, a shell may wait for ever for a child it suspended, and the two ways
prodcon hangs are stated as properties.

Fairness. `prodcon_ends` assumes that the scheduler runs each thread that stays able
to run; it does not assume strong fairness of the mutexes, spurious wakeups or that a
blocked thread is woken. `server` assumes the same of the server and each client, and
neither kills nor failures. The inputs are finite and at hand, so reading them is
owed. `shell` assumes only that the shell runs when it can (`FairSpec`): nobody owes it
a line, and that children end is a premise of `CommandsEnd` (`ChildrenEnd`), which
says nothing of stopped ones. Under it every command comes back or ends the shell,
except `wait` for a stopped child.

What the violations mean. `prodcon_lock_cycle`: main holds `slot_avail` and asks for
`job_avail` while a consumer holds `job_avail` and asks for `slot_avail`.
`prodcon_lost_wakeup`: `isEOF` is set and notified without `job_avail`, between a
consumer's test and its wait. `server_stats`: `T-5` is dropped by `continue` before
the buffer is cleared; another client's `T5` is then read with the last character of
the old message. `server_reply`: after the server's timeout `recv` returns 0, `Send`
reports success and the next transaction is sent into the void. `shell_table`:
`UpdatePCB` erases what has finished and then assigns `pcb` the copy it made before,
so the table only grows, up to the size at which background commands are refused.

## 4. Proofs

Every invariant and action property of the passing runs, and both refinements, are
proved; what is left to TLC is named at the end of this section. The proofs hold for
every value of the constants that satisfies the modules' assumptions: disjoint finite
sets of threads, a positive capacity, two slots per consumer as `main` makes them, input
lines of the kinds modelled; a finite set of clients fewer than `MAX_CONNECTIONS` (the
code does not check it, see section 5), finite inputs; for `FdTable` an array of any
positive size; a finite set of pids, a positive size of the table, and texts made of
characters, the usual commands being those with at least one word and no blank or sign
inside a word or a file. The invariants below were model-checked before they were
proved.

* `ConcurrentQueueProofs`. The inductive invariant is `QInv`: types and capacity,
  which mutexes a thread holds at each place (`LockOwners`), and what a passed test
  still says about the queue (`TestsStillHold`). The last part is what the code relies
  on: a `Push` that saw room holds `slot_avail`, and all who add or take need it.
  `NoTasksRace` follows from `LockOwners`, because a writer holds all three mutexes.
  `ProducersWoken` and `WakeupsSuffice` are inductive relative to `QInv`; the second
  counts the consumers awake in `Pop`, one of whom leaves for each job taken.
  `QueueImplements` maps the critical sections to the steps of `BoundedQueue` and
  every other step to a stutter.
* `ProdConProofs`. `PInv` adds the places of main and the consumers: calls match
  places (`CallsMatch`, `PopAnswers`), nothing is queued while consumers are started
  (`StartUp`), and what a consumer has seen when it exits (`Closing`).
  `ProgramUsesQueue` shows that the program makes only calls the queue's own
  specification allows, so the queue's theorems carry over (`ProgramWakeups`).
  `CountInv` is about numbers: what main has counted of the lines it has read
  (`MainCounts`), what the consumers have counted, logged and credited of the jobs they
  received (`ConsumerCounts`), where each job read is now (`JobsCount`) and which asks
  are still without a job (`AsksOwed`). `NoJobLost` and `FewAsksInVain` do not follow
  from the counters alone: between `Pop`'s critical section and the counter a job is
  counted by the place of its consumer, and one that was woken still owes an ask.
  `InputAccounted` and `LogAgrees` follow when all of those places are empty.
* `TandsProofs`. The invariant says that a register waiting to be stored by `&=` holds
  one byte, unless another call is in its window.
* `PollServerProofs`. `SInv` is the server's own part. `Table` says of the array, by
  position, what `TableExact` says of it as a set; `Place` and `Reports` say which entry
  the scan is at and that a `POLLHUP` it has yet to come to is that of a reset
  connection, which is what keeps it inductive while clients die during a scan;
  `SizeBounded` counts the connections accepted, because a slot whose connection was
  closed is free only after the round; `Credit` is the sum behind the statistics.
  A client's step only connects it, or changes its streams without taking a reset
  back, and so keeps `SInv`.
* `ClientServerProofs`. `CInv` adds, per client, its connection (`Link`), its request
  (`Transit`: at most one of request, job in hand and reply exists), its counters
  (`Counted`, `Credited`) and its numbers (`Numbered`). From it follow `TypeOK`,
  `TableExact`, `NoSendAfterReset`, `OneRequest`, `RepliedUnlessClosed`,
  `CreditedToSender` and `RepliesNumbered`, the action property `TimeoutOnlyWhenQuiet`
  (an open entry is in the table, so a request in its socket would be reported), and
  `IsJobService`: each step of the code is one step of `JobService` for one client, or
  none. `LogsFollowInput` needs a second invariant, `Logged`, which compares what the
  log tells, without the replies and the summary, with the input read so far, without
  the lines that are not logged (`RequestLogged`, `PauseLogged`), and its requests with
  the counter, and knows that after a transaction without a reply the connection is
  closed for good.
* `FdTableProofs`. `FInv` relates the array to the table before: without the -1 entries
  both are the same sequence, where in the middle of the inner loop the array is read as
  it will be once the entry found is closed over (`Closed`). What the loop reads one past
  `num_fds` therefore never gets into the result.
* `ShellProofs`. `TypeOK` holds for any size of the table because a pid is entered
  only after the size was compared. `ChildrenKnown` and `ExitLeavesNoChild` are
  inductive together: `exit` frees exactly the children in the table, and those are
  all, because one that is not in it is waited for before the next command.
  `TurnReapsAll` follows. `JobsListsChildren` is inductive relative to them: all
  children are in the table when `ps` runs, and from then to the printing a child can
  only end. `CommandsParsed` shows that the parser gives back every usual command:
  `Reads` says what the splitting has of a text so far (the tokens that are complete and
  the one that is not), and is kept by a blank and by any other character; `LineOf` says
  what the tokens are to the rest of the parser, and is kept by each redirection that is
  added. `ArgumentsFit` needs of `ValidateInput` only its limit on the tokens, of which
  the cleaning leaves no more.
* `DataLemmas`. Induction theorems that take an operator cannot be used here, so
  induction is done through sets: a set of numbers that has 0 and with n also n + 1 has
  all (`NatSetInduction`, from the library's theorem on minimal elements), and likewise
  for subsets and sequences. On these rest the unfolding of the community modules' folds
  (`SumUnfold`, `WithoutAppend`) and of the recursive functions, both by uniqueness.

Only model-checked: the properties that need fairness (`EndsOrKnownHang`, `Answered`,
`AllEnd`, `Ends`, `CommandsEnd`), which are out of the prover's reach.

## 5. Not modelled

Command lines and the checks of port and address, the wording, times and columns of the
logs and summaries, what an earlier run left in a log file, the time statistics, the
arithmetic inside `Trans`'s loop, the full descriptor table (the
accept loop does not compare `num_fds` with `MAX_CONNECTIONS`; the assumption on the
number of clients excludes it, and with it the bound on `fds` in `TypeOK`, which
therefore says nothing about the missing check), messages split by TCP (they are far shorter than a
segment). Of the shell: the commands stored in the
table and the columns, times (`FormatTime`) and count of active processes that `jobs`
prints, tabs in a text, what redirection does beyond a file that cannot be opened,
pid 0 as an argument, and the endless prompt at the end of the input.

Some things that are modelled no property promises anything about: after `stoll` ended
the server or `prodcon` (`aborted`, `ReadBadLine`) the jobs under way are lost, and
`Answered`, `AllEnd` and `NoJobLost` make an exception or an end of it; and the inputs
of the clients are finite, so that a client which the scan or the accept loop keeps
waiting for as long as others send is not seen to starve. `ArgumentsFit` leaves one slot
of slack, because the code does: `ValidateInput` refuses a line that reaches `MAX_ARGS`
tokens, and the array has room for that many beside the null pointer at its end.

Faults of a single function that any test of it shows, met on the way and left out:
`Trans` overflows an `int` for arguments above 21474 (tands.cpp:22); the server's summary
divides by a negative time when only negative jobs came (server.cpp:25); `jobs` shows the
command of an earlier process with the same pid (shell.cpp:120) and its `FormatTime`
drops the first field (parser.cpp:164); a number too large for `stoi` ends the shell
(shell.cpp:58, modelled as `Throws`).

In `tands` a `Sleep` that falls between the two assignments of a `Trans` may add any
`int` to its duration; `SleepValidUnlessRacing` states exactly the rest.

## 6. Plan

1. Done: all three programs modelled and checked, their abstract specifications
   implemented, and every safety property of the passing runs proved.
2. The parser on the tokens it was not written for (a sign inside a token): what
   `File` and `CleanUserInput` make of them in general, for `Throws` and `RunFails`.
3. `FdTable` as the implementation of `Compaction` in the server's step `EndScan`,
   stated as one theorem instead of two models that use the same operator.
4. From `FInv`, a variant that decreases: the safety half of `Ends`.
