------------------------------- MODULE Shell -------------------------------
(***************************************************************************)
(* Assignment1's class Shell (shell.cpp): one command per turn of run(),   *)
(* the process table pcb, and the shell's children, which end whenever     *)
(* they want.  A step of the shell is what it does up to the next call     *)
(* that may block.                                                         *)
(*                                                                         *)
(* pcb is the set of pids in the table: the command and state stored with  *)
(* them are only printed, and left out.  A pid that is free may be given   *)
(* to a new child or to a process that is none of the shell's.  The pids   *)
(* the user types are positive (pid 0, the shell's own group, is left      *)
(* out).                                                                   *)
(***************************************************************************)
EXTENDS Parser, FiniteSets

CONSTANTS Pids,             \* the pids the system gives and the user types
          MAX_PT_ENTRIES,   \* size of the process table
          Commands,         \* the commands the user types in the usual way
          MaxBlanks,        \* bound on the blanks between two tokens of those
          OtherTexts        \* and the other texts the user types

\* A number that is no pid is too large for stoi.
ASSUME ShellAssumption ==
    /\ IsFiniteSet(Pids) /\ Pids # {} /\ Pids \subseteq Numbers
    /\ MAX_PT_ENTRIES \in Nat \ {0}

\* What the user types are texts.
ASSUME TextAssumption ==
    /\ Commands \subseteq UsualCommand /\ MaxBlanks \in Nat
    /\ OtherTexts \subseteq Seq(Characters)
    /\ {Blank, "<", ">", "&"} \subseteq Characters

VARIABLES pcb,      \* pids in the process table
          proc,     \* the system's processes
          spc,      \* where the shell is
          line,     \* the line it runs (<<>> when it runs none)
          target,   \* the pid it waits for, when it waits
          ps        \* the state of each process that ps has listed

vars == <<pcb, proc, spc, line, target, ps>>

Child == {"running", "stopped", "zombie"}
Children == {p \in Pids : proc[p] \in Child}
Zombies == {p \in Pids : proc[p] = "zombie"}
Free == {p \in Pids : proc[p] = "free"}

Init == /\ pcb = {}
        /\ proc = [p \in Pids |-> "free"]
        /\ spc = "prompt"
        /\ line = <<>>
        /\ target \in Pids
        /\ ps = [p \in {} |-> "free"]

\* The commands in the usual way, each with the line its texts are split into.
Typed == {[command |-> c, line |-> SplitStringToVector(Text(c, n))] :
             c \in Commands, n \in 1 .. MaxBlanks}

\* An empty text, and what ValidateInput rejects, is read again.
Lines ==
    {SplitStringToVector(text) :
        text \in {t \in {Text(c, n) : c \in Commands, n \in 1 .. MaxBlanks} \cup OtherTexts :
                     t # <<>> /\ ValidateInput(t)}}

\* Of the processes, those of S come to a state and no other changes.
Become(S, state) == proc' = [p \in Pids |-> IF p \in S THEN state ELSE proc[p]]

\* The shell runs the command it read and goes on at l; the command is kept
\* while it waits.
Turn(l) == /\ spc = "command" /\ spc' = l
           /\ line' = IF l = "waiting" THEN line ELSE <<>>

\* The line is a command to run, in the background or not.
Runs(background) == /\ line # <<>> /\ ~isNativeCommand(line)
                    /\ isBackgroundProcess(line) = background
\* The line is the native command c, alone or with the argument n.
Native(c) == /\ line # <<>> /\ isNativeCommand(line)
             /\ CleanUserInput(line) = <<<<c>>>>
NativeOn(c, n) == /\ line # <<>> /\ isNativeCommand(line)
                  /\ CleanUserInput(line) = <<<<c>>, <<n>>>>

-----------------------------------------------------------------------------
(* UpdatePCB, after a line was read.                                       *)

\* Faulty variant: only one finished process is waited for.
UpdateOne ==
    /\ \E S \in SUBSET (pcb \cap Zombies) : Cardinality(S) <= 1 /\ Become(S, "free")
    /\ UNCHANGED pcb

\* Every finished process of the table is reaped.  Those that exited are erased
\* from pcb, but then pcb is assigned the copy made before: it stays as it was.
UpdatePCB ==
    /\ Become(pcb \cap Zombies, "free")
    /\ UNCHANGED pcb

ReadLine ==
    /\ spc = "prompt"
    /\ UpdatePCB
    /\ spc' = "command"
    /\ line' \in Lines
    /\ UNCHANGED <<target, ps>>

-----------------------------------------------------------------------------
(* RunCommand.                                                             *)

Fork(p) == p \in Free /\ Become({p}, "running")

RunForeground(p) ==
    /\ Turn("waiting")
    /\ Runs(FALSE)
    /\ Fork(p)
    /\ target' = p
    /\ UNCHANGED <<pcb, ps>>

\* Faulty variants: the table may exceed its size; the child is not entered.
RunBackgroundUnbounded(p) ==
    /\ Turn("reap")
    /\ Runs(TRUE)
    /\ Cardinality(pcb) <= MAX_PT_ENTRIES
    /\ Fork(p)
    /\ pcb' = pcb \cup {p}
    /\ UNCHANGED <<target, ps>>
RunBackgroundUnlisted(p) ==
    /\ Turn("reap")
    /\ Runs(TRUE)
    /\ Cardinality(pcb) < MAX_PT_ENTRIES
    /\ Fork(p)
    /\ UNCHANGED <<pcb, target, ps>>

RunBackground(p) ==
    /\ Turn("reap")
    /\ Runs(TRUE)
    /\ Cardinality(pcb) < MAX_PT_ENTRIES
    /\ Fork(p)
    /\ pcb' = pcb \cup {p}
    /\ UNCHANGED <<target, ps>>

\* waitpid(-1, WNOHANG) takes any one finished child.
ReapAny ==
    /\ spc = "reap"
    /\ \/ Zombies = {} /\ UNCHANGED proc
       \/ \E p \in Zombies : Become({p}, "free")
    /\ spc' = "prompt"
    /\ UNCHANGED <<pcb, line, target, ps>>

RefuseBackground ==
    /\ Turn("prompt")
    /\ Runs(TRUE)
    /\ Cardinality(pcb) >= MAX_PT_ENTRIES
    /\ UNCHANGED <<pcb, proc, target, ps>>

\* A redirected file cannot be opened, or fork fails: the shell exits.
RunFails ==
    /\ Turn("failed")
    /\ Runs(FALSE) \/ (Runs(TRUE) /\ Cardinality(pcb) < MAX_PT_ENTRIES)
    /\ UNCHANGED <<pcb, proc, target, ps>>

-----------------------------------------------------------------------------
(* The native commands.                                                    *)

\* Invalid arguments, sleep, and jobs when ps cannot be run.
NoChange ==
    /\ Turn("prompt")
    /\ line # <<>> /\ isNativeCommand(line)
    /\ \/ ~HasValidArg(CleanUserInput(line))
       \/ Native("jobs")
       \/ \E n \in Pids : NativeOn("sleep", n)
    /\ UNCHANGED <<pcb, proc, target, ps>>

\* popen and ReadPSResults: ps lists the shell's children, those processes of
\* others that share its terminal, and itself with a pid that was free.
Jobs ==
    /\ Turn("jobs")
    /\ Native("jobs")
    /\ \E S \in SUBSET (Pids \ Children) : ps' = [p \in Children \cup S |-> proc[p]]
    /\ UNCHANGED <<pcb, proc, target>>

\* Faulty variant: only the processes that run are listed.
BuildRunningTable ==
    [p \in {q \in DOMAIN ps \cap pcb : ps[q] = "running"} |-> ps[p]]

\* The rows of ps whose pid is in the table, with the state that ps saw.
BuildJobsTable == [p \in DOMAIN ps \cap pcb |-> ps[p]]

PrintJobs ==
    /\ spc = "jobs"
    /\ spc' = "prompt"
    /\ ps' = [p \in {} |-> "free"]
    /\ UNCHANGED <<pcb, proc, line, target>>

\* A line of blanks has no first token, and stoi rejects a number that is too
\* large: both throw, and the shell is aborted.
Throws ==
    /\ Turn("failed")
    /\ \/ line = <<>>
       \/ \E c \in WithNumber, n \in Numbers \ Pids : NativeOn(c, n)
    /\ UNCHANGED <<pcb, proc, target, ps>>

\* kill, resume and suspend of a pid that no process has, or one that the
\* shell may not signal: the shell exits.
SignalFails(p) ==
    /\ Turn("failed")
    /\ \E c \in {"kill", "resume", "suspend"} : NativeOn(c, p)
    /\ p \notin Children
    /\ UNCHANGED <<pcb, proc, target, ps>>

\* Faulty variant: SIGTERM, which a stopped process does not act on.
TerminateChild(p) ==
    /\ Turn("waiting")
    /\ NativeOn("kill", p)
    /\ p \in Children
    /\ Become({p} \ {q \in Pids : proc[q] = "stopped"}, "zombie")
    /\ target' = p
    /\ UNCHANGED <<pcb, ps>>

KillChild(p) ==
    /\ Turn("waiting")
    /\ NativeOn("kill", p)
    /\ p \in Children
    /\ Become({p}, "zombie")
    /\ target' = p
    /\ UNCHANGED <<pcb, ps>>

\* waitpid fails: the process is not a child.
KillForeign(p) ==
    /\ Turn("prompt")
    /\ NativeOn("kill", p)
    /\ proc[p] = "foreign"
    /\ Become({p}, "free")
    /\ UNCHANGED <<pcb, target, ps>>

\* SIGCONT and SIGSTOP change a child that is in the given state; the entry's
\* state is set and waitpid(p, WNOHANG) follows.
Signal(p, from, to) ==
    /\ Turn("poll")
    /\ p \notin Free /\ p \in pcb
    /\ Become(IF proc[p] = from THEN {p} ELSE {}, to)
    /\ target' = p
    /\ UNCHANGED <<pcb, ps>>

Resume(p) == NativeOn("resume", p) /\ Signal(p, "stopped", "running")
Suspend(p) == NativeOn("suspend", p) /\ Signal(p, "running", "stopped")

PollTarget ==
    /\ spc = "poll"
    /\ Become({target} \cap Zombies, "free")
    /\ spc' = "prompt"
    /\ UNCHANGED <<pcb, line, target, ps>>

\* resume or suspend of a process that is not in the table: the signal is
\* sent, then pcb.at throws and the shell is aborted.
SignalUnlisted(p) ==
    /\ Turn("failed")
    /\ NativeOn("resume", p) \/ NativeOn("suspend", p)
    /\ p \notin Free /\ p \notin pcb
    /\ UNCHANGED <<pcb, proc, target, ps>>

WaitChild(p) ==
    /\ Turn("waiting")
    /\ NativeOn("wait", p)
    /\ p \in Children
    /\ target' = p
    /\ UNCHANGED <<pcb, proc, ps>>

WaitOther(p) ==
    /\ Turn("prompt")
    /\ NativeOn("wait", p)
    /\ p \notin Children
    /\ UNCHANGED <<pcb, proc, target, ps>>

\* waitpid(target) returns.
Waited ==
    /\ spc = "waiting"
    /\ target \in Zombies
    /\ Become({target}, "free")
    /\ spc' = "prompt"
    /\ line' = <<>>
    /\ UNCHANGED <<pcb, target, ps>>

\* Faulty variant: the children in the table are killed but for the stopped.
ExitRunningOnly ==
    /\ Turn("exited")
    /\ Native("exit")
    /\ Become({p \in pcb : proc[p] # "stopped"}, "free")
    /\ UNCHANGED <<pcb, target, ps>>

\* Every process of the table is killed and, if it is a child, waited for.
\* A pid of an earlier child may now be a process of others, which dies if
\* the shell may signal it.
Exit ==
    /\ Turn("exited")
    /\ Native("exit")
    /\ \E S \in SUBSET {p \in pcb : proc[p] = "foreign"} : Become(pcb \ S, "free")
    /\ UNCHANGED <<pcb, target, ps>>

-----------------------------------------------------------------------------
(* The processes.                                                          *)

Alive == spc \notin {"exited", "failed"}

Ends(p) ==
    /\ Alive
    /\ \/ proc[p] = "running" /\ Become({p}, "zombie")
       \/ proc[p] = "foreign" /\ Become({p}, "free")
    /\ UNCHANGED <<pcb, spc, line, target, ps>>

ForeignStarts(p) ==
    /\ Alive
    /\ p \in Free
    /\ Become({p}, "foreign")
    /\ UNCHANGED <<pcb, spc, line, target, ps>>

RunCommand(p) == \/ RunForeground(p) \/ RunBackground(p)
                 \/ RefuseBackground \/ RunFails
NativeCommand(p) == \/ NoChange \/ Jobs \/ Throws \/ SignalFails(p) \/ KillChild(p) \/ KillForeign(p)
                    \/ Resume(p) \/ Suspend(p) \/ SignalUnlisted(p)
                    \/ WaitChild(p) \/ WaitOther(p) \/ Exit

\* What the shell does with a line, up to the next prompt.
ShellStep == \/ ReapAny \/ PollTarget \/ Waited \/ PrintJobs
             \/ \E p \in Pids : RunCommand(p) \/ NativeCommand(p)

Next == \/ ReadLine \/ ShellStep
        \/ \E p \in Pids : Ends(p) \/ ForeignStarts(p)

Spec == Init /\ [][Next]_vars

\* The shell runs when it can; nobody has to type a line.
FairSpec == Spec /\ WF_vars(ShellStep)

-----------------------------------------------------------------------------
\* Every variable keeps its type, and the table its size.
TypeOK ==
    /\ pcb \subseteq Pids /\ Cardinality(pcb) <= MAX_PT_ENTRIES
    /\ proc \in [Pids -> Child \cup {"free", "foreign"}]
    /\ spc \in {"prompt", "command", "reap", "poll", "jobs", "waiting", "exited",
               "failed"}
    /\ line \in Lines \cup {<<>>}
    /\ target \in Pids
    /\ DOMAIN ps \subseteq Pids

\* No child is ever lost from sight: each is in the table, or is the one the
\* shell waits for (shell.cpp 27-40, 117-126).
ChildrenKnown ==
    \A p \in Children : p \in pcb \/ (spc = "waiting" /\ target = p)

\* "kills all child processes and then exits" (shell.cpp 198): the command
\* exit leaves no child behind, stopped and finished ones included.
ExitLeavesNoChild == spc = "exited" => Children = {}

\* Each turn reaps every child that has finished, however it was started,
\* signalled or waited for (shell.cpp 27-40).
TurnReapsAll == [][ReadLine => \A p \in Pids : proc'[p] # "zombie"]_vars

\* A command written in the usual way is run with its words as arguments, its
\* files and "&" taken for what they are, whatever redirections it has and
\* however many blanks (parser.cpp 30-42, 79-124, helpers.cpp 31-51).
ParsedAsTyped ==
    spc = "command" => \A t \in Typed : line = t.line => Parsed(line) = t.command

\* The arguments that exec gets, and the NULL after them, never go past the
\* MAX_ARGS + 1 pointers that the archived copy has for them
\* (Assignment1/parser.cpp 5, 107-120; parser.cpp 140).
ArgsFit ==
    spc = "command" =>
        Len(ConvertVectorToCharArray(CleanUserInput(line))) <= MAX_ARGS + 1

\* The table that jobs prints has every child, with its state unless it has
\* ended since ps ran (shell.cpp 177-193, parser.cpp 184-222).
JobsListsChildren ==
    spc = "jobs" =>
        \A p \in Children :
            /\ p \in DOMAIN BuildJobsTable
            /\ proc[p] # "zombie" => BuildJobsTable[p] = proc[p]

\* The children end by themselves, unless they are stopped.
ChildrenEnd == \A p \in Pids : WF_vars(Ends(p))

\* Every command ends, with the prompt or with the shell, as far as its
\* children do: only a wait for a stopped child may last for ever, and that a
\* process was stopped never keeps kill from coming back (shell.cpp 126,
\* 227-234, 267-270).
CommandsEnd ==
    ChildrenEnd =>
        (spc = "command" ~> \/ spc \in {"prompt", "exited", "failed"}
                            \/ /\ NativeOn("wait", target)
                               /\ proc[target] = "stopped")

\* "updates stored pcb" (shell.cpp 25): a process that UpdatePCB finds finished
\* leaves the table.
TableUpdated == [][ReadLine => pcb' \cap Zombies = {}]_vars
=============================================================================
