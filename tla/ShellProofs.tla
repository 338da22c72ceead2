---------------------------- MODULE ShellProofs ----------------------------
(***************************************************************************)
(* Theorems about the shell, for any set of pids and any size of the       *)
(* process table.                                                          *)
(***************************************************************************)
EXTENDS Shell, DataLemmas

States == Child \cup {"free", "foreign"}

\* Entering one pid in a table with room leaves the table within its size.
LEMMA EnterOne ==
    ASSUME NEW T \in SUBSET Pids, NEW p \in Pids,
           Cardinality(T) < MAX_PT_ENTRIES
    PROVE  Cardinality(T \cup {p}) <= MAX_PT_ENTRIES
<1>1. IsFiniteSet(T)
  BY ShellAssumption, FS_Subset
<1>2. Cardinality(T) \in Nat /\ MAX_PT_ENTRIES \in Nat
  BY <1>1, FS_CardinalityType, ShellAssumption
<1>3. \/ Cardinality(T \cup {p}) = Cardinality(T)
      \/ Cardinality(T \cup {p}) = Cardinality(T) + 1
  BY <1>1, FS_AddElement
<1> QED
  BY <1>2, <1>3

\* A change of processes to a legal state keeps the type of proc.
LEMMA BecomeTyped ==
    ASSUME proc \in [Pids -> States], NEW S, NEW state \in States, Become(S, state)
    PROVE  proc' \in [Pids -> States]
  BY DEF Become

\* The shell's variables keep their types in every step.
LEMMA TypeStep == TypeOK /\ [Next]_vars => TypeOK'
<1> SUFFICES ASSUME TypeOK, [Next]_vars
             PROVE  TypeOK'
  OBVIOUS
<1> USE DEF TypeOK, Turn, Fork, States, Child
<1>1. CASE ReadLine
  BY <1>1, BecomeTyped DEF ReadLine, UpdatePCB
<1>2. CASE ReapAny
  BY <1>2, BecomeTyped DEF ReapAny
<1>3. CASE PollTarget
  BY <1>3, BecomeTyped DEF PollTarget
<1>4. CASE Waited \/ PrintJobs
  BY <1>4, BecomeTyped DEF Waited, PrintJobs
<1>5. ASSUME NEW p \in Pids, RunCommand(p)
      PROVE  TypeOK'
  <2>1. CASE RunForeground(p)
    BY <2>1, BecomeTyped DEF RunForeground
  <2>2. CASE RunBackground(p)
    BY <2>2, BecomeTyped, EnterOne DEF RunBackground
  <2>3. CASE RefuseBackground \/ RunFails
    BY <2>3 DEF RefuseBackground, RunFails
  <2> QED
    BY <1>5, <2>1, <2>2, <2>3 DEF RunCommand
<1>6. ASSUME NEW p \in Pids, NativeCommand(p)
      PROVE  TypeOK'
  <2>1. CASE NoChange \/ Throws \/ SignalFails(p) \/ SignalUnlisted(p) \/ WaitChild(p) \/ WaitOther(p)
    BY <2>1 DEF NoChange, Throws, SignalFails, SignalUnlisted, WaitChild, WaitOther
  <2>2. CASE KillChild(p) \/ KillForeign(p)
    BY <2>2, BecomeTyped DEF KillChild, KillForeign
  <2>3. CASE Resume(p) \/ Suspend(p)
    BY <2>3, BecomeTyped DEF Resume, Suspend, Signal
  <2>4. CASE Exit
    BY <2>4, BecomeTyped DEF Exit
  <2>5. CASE Jobs
    BY <2>5 DEF Jobs, Children
  <2> QED
    BY <1>6, <2>1, <2>2, <2>3, <2>4, <2>5 DEF NativeCommand
<1>7. ASSUME NEW p \in Pids, Ends(p) \/ ForeignStarts(p)
      PROVE  TypeOK'
  BY <1>7, BecomeTyped DEF Ends, ForeignStarts
<1>8. CASE UNCHANGED vars
  BY <1>8 DEF vars
<1> QED
  BY <1>1, <1>2, <1>3, <1>4, <1>5, <1>6, <1>7, <1>8 DEF Next, ShellStep

\* Every variable keeps its type and the table never exceeds its size, however
\* many background commands are given (shell.cpp 89-92).
THEOREM ShellTypeCorrect == Spec => []TypeOK
<1>1. Init => TypeOK
  BY ShellAssumption, FS_EmptySet DEF Init, TypeOK
<1> QED
  BY <1>1, TypeStep, PTL DEF Spec

-----------------------------------------------------------------------------
\* Processes that turn into a state that is no child's add no child.
LEMMA NoNewChild ==
    ASSUME proc \in [Pids -> States], NEW S, NEW state \in {"free", "foreign"},
           Become(S, state)
    PROVE  Children' = Children \ S
  BY DEF Become, Children, Child, States

\* The inductive invariant, with TypeOK: the two parts need each other, since
\* exit frees only the children of the table.
SInv == ChildrenKnown /\ ExitLeavesNoChild

\* The children stay known in every step.
LEMMA SInvStep == TypeOK /\ SInv /\ [Next]_vars => SInv'
<1> SUFFICES ASSUME TypeOK, SInv, [Next]_vars
             PROVE  SInv'
  OBVIOUS
<1>t. proc \in [Pids -> States]
  BY DEF TypeOK, States
<1> USE DEF SInv, ChildrenKnown, ExitLeavesNoChild, Turn
<1>1. CASE ReadLine
  BY <1>1, <1>t, NoNewChild DEF ReadLine, UpdatePCB
<1>2. CASE ReapAny
  <2>1. Children' \subseteq Children
    BY <1>2, <1>t, NoNewChild DEF ReapAny, Children
  <2> QED
    BY <1>2, <2>1 DEF ReapAny
<1>3. CASE PollTarget
  BY <1>3, <1>t, NoNewChild DEF PollTarget
<1>4. CASE Waited \/ PrintJobs
  BY <1>4, <1>t, NoNewChild DEF Waited, PrintJobs, Children
<1>5. ASSUME NEW p \in Pids, RunCommand(p)
      PROVE  SInv'
  <2>1. ASSUME Fork(p)
        PROVE  Children' \subseteq Children \cup {p}
    BY <2>1, <1>t DEF Fork, Become, Children, States
  <2>2. CASE RunForeground(p)
    BY <2>1, <2>2 DEF RunForeground
  <2>3. CASE RunBackground(p)
    BY <2>1, <2>3 DEF RunBackground
  <2>4. CASE RefuseBackground \/ RunFails
    BY <2>4 DEF RefuseBackground, RunFails, Children
  <2> QED
    BY <1>5, <2>2, <2>3, <2>4 DEF RunCommand
<1>6. ASSUME NEW p \in Pids, NativeCommand(p)
      PROVE  SInv'
  <2>1. CASE NoChange \/ Throws \/ SignalFails(p) \/ SignalUnlisted(p) \/ WaitChild(p) \/ WaitOther(p)
    BY <2>1 DEF NoChange, Throws, SignalFails, SignalUnlisted, WaitChild, WaitOther, Children
  <2>2. CASE KillChild(p)
    <3>1. Children' \subseteq Children
      BY <2>2, <1>t DEF KillChild, Become, Children, States
    <3> QED
      BY <2>2, <3>1 DEF KillChild
  <2>3. CASE KillForeign(p)
    BY <2>3, <1>t, NoNewChild DEF KillForeign
  <2>4. CASE Resume(p) \/ Suspend(p)
    <3>1. Children' \subseteq Children
      BY <2>4, <1>t DEF Resume, Suspend, Signal, Become, Children, Child, States
    <3> QED
      BY <2>4, <3>1 DEF Resume, Suspend, Signal
  <2>5. CASE Exit
    <3>1. PICK S \in SUBSET {q \in pcb : proc[q] = "foreign"} : Become(pcb \ S, "free")
      BY <2>5 DEF Exit
    <3>2. Children' = Children \ (pcb \ S)
      BY <3>1, <1>t, NoNewChild
    <3>3. Children \subseteq pcb
      BY <2>5 DEF Exit
    <3>4. S \cap Children = {}
      BY <3>1 DEF Children, Child
    <3> QED
      BY <2>5, <3>2, <3>3, <3>4 DEF Exit
  <2>6. CASE Jobs
    BY <2>6 DEF Jobs, Children
  <2> QED
    BY <1>6, <2>1, <2>2, <2>3, <2>4, <2>5, <2>6 DEF NativeCommand
<1>7. ASSUME NEW p \in Pids, Ends(p) \/ ForeignStarts(p)
      PROVE  SInv'
  <2>1. Children' \subseteq Children
    BY <1>7, <1>t DEF Ends, ForeignStarts, Become, Children, Child, States, Free
  <2> QED
    BY <1>7, <2>1 DEF Ends, ForeignStarts
<1>8. CASE UNCHANGED vars
  BY <1>8 DEF vars, Children
<1> QED
  BY <1>1, <1>2, <1>3, <1>4, <1>5, <1>6, <1>7, <1>8 DEF Next, ShellStep

\* They are known in every reachable state.
LEMMA SInvHolds == Spec => [](TypeOK /\ SInv)
<1>1. Init => SInv
  BY DEF Init, SInv, ChildrenKnown, ExitLeavesNoChild, Children, Child
<1> QED
  BY <1>1, SInvStep, ShellTypeCorrect, PTL DEF Spec

\* No child is lost: one that still exists is in the table or is waited for
\* (shell.cpp 27-40, 117-126).
THEOREM NoChildLost == Spec => []ChildrenKnown
  BY SInvHolds, PTL DEF SInv

\* exit leaves no child behind (shell.cpp 200-222).
THEOREM ExitClean == Spec => []ExitLeavesNoChild
  BY SInvHolds, PTL DEF SInv

\* Each turn reaps every finished child, because every child is in the table
\* when the shell is at its prompt (shell.cpp 27-40).
THEOREM TurnsReap == Spec => TurnReapsAll
<1>1. TypeOK /\ SInv /\ [Next]_vars => [ReadLine => \A p \in Pids : proc'[p] # "zombie"]_vars
  <2> SUFFICES ASSUME TypeOK, SInv, ReadLine, NEW p \in Pids
               PROVE  proc'[p] # "zombie"
    OBVIOUS
  <2>1. Children \subseteq pcb
    BY DEF SInv, ChildrenKnown, ReadLine
  <2>2. p \in Zombies => p \in pcb
    BY <2>1 DEF Zombies, Children, Child
  <2> QED
    BY <2>2 DEF ReadLine, UpdatePCB, Become, Zombies
<1> QED
  BY <1>1, SInvHolds, PTL DEF Spec, TurnReapsAll
-----------------------------------------------------------------------------
\* While the table is being printed, its rows agree with the children in every
\* step, since nobody but the processes themselves moves then.
LEMMA JobsStep ==
    TypeOK /\ SInv /\ JobsListsChildren /\ [Next]_vars => JobsListsChildren'
<1> SUFFICES ASSUME TypeOK, SInv, JobsListsChildren, [Next]_vars, spc' = "jobs"
             PROVE  \A p \in Children' :
                        /\ p \in DOMAIN BuildJobsTable'
                        /\ proc'[p] # "zombie" => BuildJobsTable'[p] = proc'[p]
  BY DEF JobsListsChildren
<1>t. proc \in [Pids -> States]
  BY DEF TypeOK, States
<1>1. CASE Jobs
  <2>1. PICK S \in SUBSET (Pids \ Children) : ps' = [p \in Children \cup S |-> proc[p]]
    BY <1>1 DEF Jobs
  <2>2. Children \subseteq pcb
    BY <1>1 DEF Jobs, Turn, SInv, ChildrenKnown
  <2> QED
    BY <1>1, <2>1, <2>2 DEF Jobs, BuildJobsTable, Children
<1>2. ASSUME NEW q \in Pids, Ends(q) \/ ForeignStarts(q)
      PROVE  \A p \in Children' :
                 /\ p \in DOMAIN BuildJobsTable'
                 /\ proc'[p] # "zombie" => BuildJobsTable'[p] = proc'[p]
  <2>1. BuildJobsTable' = BuildJobsTable /\ spc = "jobs"
    BY <1>2 DEF Ends, ForeignStarts, BuildJobsTable
  <2>2. \A p \in Children' : p \in Children /\ (proc'[p] # "zombie" => proc'[p] = proc[p])
    BY <1>2, <1>t DEF Ends, ForeignStarts, Become, Children, Child, States, Free
  <2>3. \A p \in Children' : p \in Pids /\ (proc'[p] # "zombie" => proc[p] # "zombie")
    BY <1>2, <1>t DEF Ends, ForeignStarts, Become, Children, Child, States, Free
  <2> QED
    BY <2>1, <2>2, <2>3 DEF JobsListsChildren
<1>3. CASE UNCHANGED vars
  BY <1>3 DEF vars, JobsListsChildren, BuildJobsTable, Children
<1>4. ASSUME NEW p \in Pids, RunCommand(p) \/ NativeCommand(p), ~Jobs
      PROVE  FALSE
  BY <1>4 DEF RunCommand, NativeCommand, RunForeground, RunBackground, RefuseBackground,
              RunFails, NoChange, Throws, SignalFails, KillChild, KillForeign, Resume, Suspend,
              Signal, SignalUnlisted, WaitChild, WaitOther, Exit, Turn
<1>5. ~ReadLine /\ ~ReapAny /\ ~PollTarget /\ ~Waited /\ ~PrintJobs
  BY DEF ReadLine, ReapAny, PollTarget, Waited, PrintJobs
<1> QED
  BY <1>1, <1>2, <1>3, <1>4, <1>5 DEF Next, ShellStep

\* The command jobs shows every child, in the state it still has unless it has
\* ended since, whatever the children did before (shell.cpp 177-193).
THEOREM JobsComplete == Spec => []JobsListsChildren
<1>1. Init => JobsListsChildren
  BY DEF Init, JobsListsChildren
<1> QED
  BY <1>1, JobsStep, SInvHolds, PTL DEF Spec

-----------------------------------------------------------------------------
(* The parser.                                                             *)

\* f is the recursion that Fields(text) stands for: f[n] are the fields of the
\* first n characters.
FieldsRec(text, f) ==
    f = [n \in 0 .. Len(text) |->
           IF n = 0 THEN <<<<>>>> ELSE AddCharacter(f[n - 1], text[n])]

\* A character more changes the last field or adds one.
LEMMA OneMore ==
    ASSUME NEW C, NEW q \in Seq(Seq(C)) \ {<<>>}, NEW c \in C
    PROVE  AddCharacter(q, c) \in Seq(Seq(C)) \ {<<>>}
<1>1. <<>> \in Seq(C)
  BY EmptySeq
<1>2. Append(q, <<>>) \in Seq(Seq(C)) \ {<<>>}
  BY <1>1, AppendProperties
<1>3. Len(q) \in Nat \ {0} /\ Len(q) \in 1 .. Len(q)
  BY EmptySeq
<1>4. q[Len(q)] \in Seq(C)
  BY <1>3, ElementOfSeq
<1>5. Append(q[Len(q)], c) \in Seq(C)
  BY <1>4, AppendProperties
<1>6. /\ [q EXCEPT ![Len(q)] = Append(q[Len(q)], c)] \in Seq(Seq(C))
      /\ Len([q EXCEPT ![Len(q)] = Append(q[Len(q)], c)]) = Len(q)
  BY <1>3, <1>5, ExceptSeq
<1>7. [q EXCEPT ![Len(q)] = Append(q[Len(q)], c)] # <<>>
  BY <1>3, <1>6, EmptySeq
<1> QED
  BY <1>2, <1>6, <1>7 DEF AddCharacter

LEMMA FieldsRecExists ==
    ASSUME NEW C, NEW text \in Seq(C)
    PROVE  \E f \in [0 .. Len(text) -> Seq(Seq(C)) \ {<<>>}] : FieldsRec(text, f)
<1> DEFINE n == Len(text)
           V == Seq(Seq(C)) \ {<<>>}
           step == [p \in (1 .. n) \X V |->
                      AddCharacter(p[2], text[p[1]])]
<1>1. n \in Nat /\ \A k \in 1 .. n : text[k] \in C
  BY LenProperties, ElementOfSeq
<1>2. <<<<>>>> \in V
  <2>1. <<>> \in Seq(C)
    BY EmptySeq
  <2> QED
    BY <2>1
<1>3. step \in [(1 .. n) \X V -> V]
  <2>1. ASSUME NEW k \in 1 .. n, NEW q \in V
        PROVE  AddCharacter(q, text[k]) \in V
    <3>1. text[k] \in C
      BY <1>1
    <3> QED
      BY <3>1, OneMore
  <2> QED
    BY <2>1
<1>4. \A k \in 1 .. n, q \in V :
            step[<<k, q>>] = AddCharacter(q, text[k])
  OBVIOUS
<1> HIDE DEF step, V
<1>5. PICK f : Stepwise(n, V, <<<<>>>>, step, f)
  BY <1>1, <1>2, <1>3, StepwiseRecursion, Zenon
<1>6. ASSUME NEW k \in 0 .. n
      PROVE  f[k] = IF k = 0 THEN <<<<>>>>
                    ELSE AddCharacter(f[k - 1], text[k])
  <2>1. CASE k = 0
    BY <1>5, <2>1 DEF Stepwise
  <2>2. CASE k # 0
    <3>1. k \in 1 .. n /\ k - 1 \in 0 .. n
      BY <1>1, <2>2
    <3>2. f[k - 1] \in V /\ f[k] = step[<<k, f[k - 1]>>]
      BY <1>5, <3>1 DEF Stepwise
    <3> QED
      BY <1>4, <2>2, <3>1, <3>2
  <2> QED
    BY <2>1, <2>2
<1>7. FieldsRec(text, f)
  BY <1>5, <1>6 DEF FieldsRec, Stepwise
<1> QED
  BY <1>5, <1>7 DEF V, Stepwise

\* What the recursion gives at each place, and that its values are fields.
LEMMA FieldsUnfold ==
    ASSUME NEW C, NEW text \in Seq(C)
    PROVE  \E f \in [0 .. Len(text) -> Seq(Seq(C)) \ {<<>>}] :
              /\ Fields(text) = f[Len(text)]
              /\ f[0] = <<<<>>>>
              /\ \A k \in 1 .. Len(text) :
                    f[k] = AddCharacter(f[k - 1], text[k])
<1> DEFINE n == Len(text)
           V == Seq(Seq(C)) \ {<<>>}
<1>1. PICK e \in [0 .. n -> V] : FieldsRec(text, e)
  BY FieldsRecExists
<1>2. PICK f : FieldsRec(text, f) /\ Fields(text) = f[n]
  BY <1>1, Zenon DEF FieldsRec, Fields
<1>3. n \in Nat /\ \A k \in 1 .. n : text[k] \in C
  BY LenProperties, ElementOfSeq
<1>4. /\ f[0] = <<<<>>>>
      /\ \A k \in 1 .. n : f[k] = AddCharacter(f[k - 1], text[k])
  BY <1>2, <1>3 DEF FieldsRec
<1> DEFINE N == {k \in Nat : k <= n => f[k] \in V}
<1>5. 0 \in N
  <2>1. <<>> \in Seq(C)
    BY EmptySeq
  <2>2. <<<<>>>> \in V
    BY <2>1
  <2> HIDE DEF V
  <2> QED
    BY <1>4, <2>2
<1>6. ASSUME NEW k \in Nat, k \in N PROVE k + 1 \in N
  <2> SUFFICES ASSUME k + 1 <= n PROVE f[k + 1] \in V
    OBVIOUS
  <2>1. k + 1 \in 1 .. n /\ (k + 1) - 1 = k /\ f[k] \in V /\ text[k + 1] \in C
    BY <1>3, <1>6
  <2>2. AddCharacter(f[k], text[k + 1]) \in V
    BY <2>1, OneMore
  <2> QED
    BY <1>4, <2>1, <2>2
<1>7. N = Nat
  <2>1. N \in SUBSET Nat
    OBVIOUS
  <2> HIDE DEF N
  <2> QED
    BY <1>5, <1>6, <2>1, NatSetInduction
<1>8. f \in [0 .. n -> V]
  <2>1. \A k \in 0 .. n : f[k] \in V
    BY <1>3, <1>7
  <2>2. f = [k \in 0 .. n |-> f[k]]
    BY <1>2 DEF FieldsRec
  <2> QED
    BY <2>1, <2>2
<1> QED
  BY <1>2, <1>4, <1>8

\* The fields of a text with one character more.
LEMMA FieldsAppend ==
    ASSUME NEW C, NEW text \in Seq(C), NEW c \in C
    PROVE  /\ Fields(text) \in Seq(Seq(C)) \ {<<>>}
           /\ Fields(Append(text, c)) = AddCharacter(Fields(text), c)
<1> DEFINE n == Len(text)
           V == Seq(Seq(C)) \ {<<>>}
           more == Append(text, c)
<1>1. /\ n \in Nat /\ more \in Seq(C) /\ Len(more) = n + 1
      /\ more[n + 1] = c /\ \A k \in 1 .. n : more[k] = text[k]
  BY LenProperties, AppendProperties
<1> HIDE DEF more
<1>2. PICK f \in [0 .. Len(text) -> V] :
            /\ Fields(text) = f[Len(text)]
            /\ f[0] = <<<<>>>>
            /\ \A k \in 1 .. Len(text) :
                  f[k] = AddCharacter(f[k - 1], text[k])
  BY FieldsUnfold
<1>3. PICK g \in [0 .. Len(more) -> V] :
            /\ Fields(more) = g[Len(more)]
            /\ g[0] = <<<<>>>>
            /\ \A k \in 1 .. Len(more) :
                  g[k] = AddCharacter(g[k - 1], more[k])
  BY ONLY <1>1, FieldsUnfold
<1> DEFINE N == {k \in Nat : k <= n => g[k] = f[k]}
<1>4. 0 \in N
  BY <1>2, <1>3
<1>5. ASSUME NEW k \in Nat, k \in N PROVE k + 1 \in N
  <2> SUFFICES ASSUME k + 1 <= n PROVE g[k + 1] = f[k + 1]
    OBVIOUS
  <2>1. k + 1 \in 1 .. n /\ k + 1 \in 1 .. Len(more) /\ (k + 1) - 1 = k
    BY <1>1
  <2>2. g[k] = f[k] /\ more[k + 1] = text[k + 1]
    BY <1>1, <1>5, <2>1
  <2> QED
    BY <1>2, <1>3, <2>1, <2>2
<1>6. N = Nat
  <2>1. N \in SUBSET Nat
    OBVIOUS
  <2> HIDE DEF N
  <2> QED
    BY <1>4, <1>5, <2>1, NatSetInduction
<1>7. g[n] = f[n] /\ n + 1 \in 1 .. Len(more) /\ (n + 1) - 1 = n
  BY <1>1, <1>6
<1>8. Fields(more) = AddCharacter(g[n], c)
  BY <1>1, <1>3, <1>7
<1>9. Fields(text) \in V
  BY <1>1, <1>2
<1> QED
  BY <1>2, <1>7, <1>8, <1>9 DEF more

\* The text is read up to its last field, l; w are the tokens before that.
Reads(text, w, l) ==
    /\ l \in Seq(Characters)
    /\ \E f \in Seq(Seq(Characters)) :
          Fields(text) = Append(f, l) /\ Without(f, {<<>>}) = w

Kept(w, l) == IF l = <<>> THEN w ELSE Append(w, l)

LEMMA ReadsNothing == Reads(<<>>, <<>>, <<>>)
<1>1. <<>> \in Seq(Characters) /\ Len(<<>>) = 0
  BY EmptySeq
<1>2. PICK f \in [0 .. Len(<<>>) -> Seq(Seq(Characters)) \ {<<>>}] :
            Fields(<<>>) = f[Len(<<>>)] /\ f[0] = <<<<>>>>
  BY <1>1, FieldsUnfold
<1>3. Fields(<<>>) = Append(<<>>, <<>>)
  BY <1>1, <1>2
<1>4. <<>> \in Seq(Seq(Characters)) /\ \A k \in 1 .. Len(<<>>) : <<>>[k] \notin {<<>>}
  BY EmptySeq
<1>5. Without(<<>>, {<<>>}) = <<>>
  BY ONLY <1>4, WithoutNone
<1> QED
  BY <1>1, <1>3, <1>4, <1>5 DEF Reads

\* A blank ends the token, if there is one.
LEMMA ReadsBlank ==
    ASSUME NEW text \in Seq(Characters), NEW w, NEW l, Reads(text, w, l),
           Blank \in Characters
    PROVE  /\ Append(text, Blank) \in Seq(Characters)
           /\ Reads(Append(text, Blank), Kept(w, l), <<>>)
<1>1. PICK f : /\ f \in Seq(Seq(Characters))
               /\ Fields(text) = Append(f, l) /\ Without(f, {<<>>}) = w
  BY DEF Reads
<1>f. f \in Seq(Seq(Characters))
  BY <1>1
<1>l. l \in Seq(Characters)
  BY DEF Reads
<1>2. l \in Seq(Characters) /\ <<>> \in Seq(Characters)
  BY EmptySeq DEF Reads
<1>3. Fields(Append(text, Blank)) = Append(Append(f, l), <<>>)
  BY <1>1, FieldsAppend DEF AddCharacter
<1>4. Append(f, l) \in Seq(Seq(Characters))
  BY <1>1, <1>2, AppendProperties
<1>5. Without(Append(f, l), {<<>>}) = Kept(w, l)
  <2>1. Without(Append(f, l), {<<>>}) = IF l \in {<<>>} THEN Without(f, {<<>>})
                                        ELSE Append(Without(f, {<<>>}), l)
    BY ONLY <1>f, <1>l, WithoutAppend
  <2> QED
    BY <1>1, <2>1 DEF Kept
<1>6. Append(text, Blank) \in Seq(Characters)
  BY AppendProperties
<1> QED
  BY <1>2, <1>3, <1>4, <1>5, <1>6 DEF Reads

\* Any other character belongs to the token.
LEMMA ReadsCharacter ==
    ASSUME NEW text \in Seq(Characters), NEW w, NEW l, Reads(text, w, l),
           NEW c \in Characters \ {Blank}
    PROVE  /\ Append(text, c) \in Seq(Characters)
           /\ Reads(Append(text, c), w, Append(l, c))
<1>1. PICK f : /\ f \in Seq(Seq(Characters))
               /\ Fields(text) = Append(f, l) /\ Without(f, {<<>>}) = w
  BY DEF Reads
<1>f. f \in Seq(Seq(Characters))
  BY <1>1
<1>l. l \in Seq(Characters)
  BY DEF Reads
<1>2. l \in Seq(Characters) /\ Append(l, c) \in Seq(Characters)
  BY AppendProperties DEF Reads
<1> DEFINE q == Append(f, l)
<1>3. Fields(Append(text, c)) = AddCharacter(q, c)
  BY <1>1, FieldsAppend
<1>4. q[Len(q)] = l
  BY <1>1, <1>2, AppendProperties
<1> HIDE DEF q
<1>5. AddCharacter(q, c) = [q EXCEPT ![Len(q)] = Append(l, c)]
  BY <1>4 DEF AddCharacter
<1>6. [q EXCEPT ![Len(q)] = Append(l, c)] = Append(f, Append(l, c))
  <2> DEFINE e == Append(l, c)
  <2>1. e \in Seq(Characters)
    BY <1>2
  <2> HIDE DEF e
  <2>2. [q EXCEPT ![Len(q)] = e] = Append(f, e)
    BY ONLY <1>f, <1>l, <2>1, AppendOther DEF q
  <2> QED
    BY <2>2 DEF e
<1>7. Append(text, c) \in Seq(Characters)
  BY AppendProperties
<1> QED
  BY <1>1, <1>2, <1>3, <1>5, <1>6, <1>7 DEF Reads

\* The tokens of a text that is read to its end.
LEMMA ReadsAll ==
    ASSUME NEW text \in Seq(Characters), NEW w, NEW l, Reads(text, w, l)
    PROVE  SplitStringToVector(text) = Kept(w, l)
<1>1. PICK f : /\ f \in Seq(Seq(Characters))
               /\ Fields(text) = Append(f, l) /\ Without(f, {<<>>}) = w
  BY DEF Reads
<1>f. f \in Seq(Seq(Characters))
  BY <1>1
<1>l. l \in Seq(Characters)
  BY DEF Reads
<1>2. l \in Seq(Characters)
  BY DEF Reads
<1>3. Without(Append(f, l), {<<>>}) = IF l \in {<<>>} THEN Without(f, {<<>>})
                                      ELSE Append(Without(f, {<<>>}), l)
  BY ONLY <1>f, <1>l, WithoutAppend
<1> QED
  BY <1>1, <1>3 DEF SplitStringToVector, Kept

LEMMA MoreBlanks ==
    ASSUME NEW S, Blank \in S, NEW k \in Nat
    PROVE  Blanks(k) \in Seq(S) /\ Blanks(k + 1) = Append(Blanks(k), Blank)
<1> DEFINE s == Blanks(k)
           t == Blanks(k + 1)
           u == Append(s, Blank)
<1>1. s \in Seq(S) /\ Len(s) = k /\ \A i \in 1 .. k : s[i] = Blank
  BY DEF Blanks
<1>2. t \in Seq(S) /\ Len(t) = k + 1 /\ \A i \in 1 .. k + 1 : t[i] = Blank
  <2>1. k + 1 \in Nat
    OBVIOUS
  <2> HIDE DEF s, u
  <2> QED
    BY <2>1 DEF Blanks
<1> HIDE DEF s, t
<1>3. u \in Seq(S) /\ Len(u) = k + 1 /\ u[k + 1] = Blank /\ \A i \in 1 .. k : u[i] = s[i]
  BY <1>1, AppendProperties
<1> HIDE DEF u
<1>4. \A i \in 1 .. k + 1 : u[i] = Blank
  <2>1. \A i \in 1 .. k + 1 : i \in 1 .. k \/ i = k + 1
    OBVIOUS
  <2> QED
    BY <1>1, <1>3, <2>1
<1>5. t = u
  BY <1>2, <1>3, <1>4, SeqEqual
<1> QED
  BY <1>1, <1>5 DEF s, t, u

\* The blanks after a token end it, however many there are.
LEMMA ReadsBlanks ==
    ASSUME NEW text \in Seq(Characters), NEW w, NEW l, Reads(text, w, l),
           NEW n \in Nat, n # 0
    PROVE  /\ text \o Blanks(n) \in Seq(Characters)
           /\ Reads(text \o Blanks(n), Kept(w, l), <<>>)
<1> DEFINE Good(k) == /\ text \o Blanks(k) \in Seq(Characters)
                      /\ Reads(text \o Blanks(k), Kept(w, l), <<>>)
           N == {k \in Nat : k = 0 \/ Good(k)}
<1>1. Blank \in Characters
  BY TextAssumption
<1>2. Blanks(0) = <<>> /\ text \o <<>> = text
  BY ConcatEmptySeq DEF Blanks
<1>3. 0 \in N
  OBVIOUS
<1>4. ASSUME NEW k \in Nat, k \in N PROVE k + 1 \in N
  <2>1. Blanks(k) \in Seq(Characters) /\ Blanks(k + 1) = Append(Blanks(k), Blank)
    BY <1>1, MoreBlanks
  <2>2. text \o Blanks(k + 1) = Append(text \o Blanks(k), Blank)
    <3>1. text \o Append(Blanks(k), Blank) = Append(text \o Blanks(k), Blank)
      <4>1. Blanks(k) \in Seq(Characters)
        BY <2>1
      <4> QED
        BY <1>1, <4>1, ConcatAppend
    <3> QED
      BY <2>1, <3>1
  <2>3. CASE k = 0
    <3>1. text \o Blanks(k) = text
      BY <1>2, <2>3
    <3>2. /\ Append(text, Blank) \in Seq(Characters)
          /\ Reads(Append(text, Blank), Kept(w, l), <<>>)
      BY <1>1, ReadsBlank
    <3>3. Good(k + 1)
      BY <2>2, <2>3, <3>1, <3>2
    <3> QED
      BY <3>3
  <2>4. CASE k # 0
    <3>1. Good(k)
      BY <1>4, <2>4
    <3>2. /\ Append(text \o Blanks(k), Blank) \in Seq(Characters)
          /\ Reads(Append(text \o Blanks(k), Blank), Kept(Kept(w, l), <<>>), <<>>)
      BY <1>1, <3>1, ReadsBlank
    <3>3. Kept(Kept(w, l), <<>>) = Kept(w, l)
      BY DEF Kept
    <3>4. Good(k + 1)
      BY <2>2, <3>2, <3>3
    <3> QED
      BY <3>4
  <2> QED
    BY <2>3, <2>4
<1>5. N = Nat
  <2>1. N \in SUBSET Nat
    OBVIOUS
  <2> HIDE DEF N
  <2> QED
    BY <1>3, <1>4, <2>1, NatSetInduction
<1> QED
  BY <1>5

\* The characters of a token are read into one field.
LEMMA ReadsToken ==
    ASSUME NEW text \in Seq(Characters), NEW w, Reads(text, w, <<>>),
           NEW token \in Seq(Characters \ {Blank})
    PROVE  /\ text \o token \in Seq(Characters)
           /\ Reads(text \o token, w, token)
<1> DEFINE S == Characters \ {Blank}
           Q == {t \in Seq(S) : /\ t \in Seq(Characters)
                                /\ text \o t \in Seq(Characters)
                                /\ Reads(text \o t, w, t)}
<1>1. <<>> \in Q
  <2>1. <<>> \in Seq(S) /\ <<>> \in Seq(Characters)
    BY EmptySeq
  <2>2. text \o <<>> = text
    BY ConcatEmptySeq
  <2> QED
    BY <2>1, <2>2
<1>2. ASSUME NEW t \in Q, NEW c \in S PROVE Append(t, c) \in Q
  <2>1. text \o Append(t, c) = Append(text \o t, c)
    <3>1. t \in Seq(Characters) /\ c \in Characters
      OBVIOUS
    <3> QED
      BY ONLY <3>1, text \in Seq(Characters), ConcatAppend
  <2>2. Append(t, c) \in Seq(S) /\ Append(t, c) \in Seq(Characters)
    BY AppendProperties
  <2>3. /\ Append(text \o t, c) \in Seq(Characters)
        /\ Reads(Append(text \o t, c), w, Append(t, c))
    BY ReadsCharacter
  <2> QED
    BY <2>1, <2>2, <2>3
<1>3. Q = Seq(S)
  <2>1. Q \in SUBSET Seq(S)
    OBVIOUS
  <2> HIDE DEF Q, S
  <2> QED
    BY <1>1, <1>2, <2>1, SeqSetInduction
<1> QED
  BY <1>3

\* f is the recursion that Joined(tokens, n) stands for: f[k] is the text of the
\* first k tokens.
JoinedRec(tokens, n, f) ==
    f = [k \in 0 .. Len(tokens) |->
           IF k = 0 THEN <<>> ELSE AddToken(f[k - 1], n, k, tokens[k])]

LEMMA OneTokenMore ==
    ASSUME NEW text \in Seq(Characters), NEW n \in Nat, NEW k, NEW token \in Seq(Characters)
    PROVE  AddToken(text, n, k, token) \in Seq(Characters)
<1> DEFINE blanks == Blanks(IF k = 1 THEN 0 ELSE n)
<1>1. blanks \in Seq(Characters)
  <2>1. (IF k = 1 THEN 0 ELSE n) \in Nat
    OBVIOUS
  <2> QED
    BY <2>1, MoreBlanks, TextAssumption
<1> HIDE DEF blanks
<1>2. text \o blanks \in Seq(Characters)
  BY <1>1, ConcatProperties
<1>3. (text \o blanks) \o token \in Seq(Characters)
  BY <1>2, ConcatProperties
<1> QED
  BY <1>3 DEF AddToken, blanks

LEMMA JoinedRecExists ==
    ASSUME NEW tokens \in Seq(Seq(Characters)), NEW n \in Nat
    PROVE  \E f : JoinedRec(tokens, n, f)
<1> DEFINE m == Len(tokens)
           V == Seq(Characters)
           step == [p \in (1 .. m) \X V |->
                      AddToken(p[2], n, p[1], tokens[p[1]])]
<1>1. m \in Nat /\ <<>> \in V
  BY LenProperties, EmptySeq
<1>2. step \in [(1 .. m) \X V -> V]
  <2>1. ASSUME NEW k \in 1 .. m, NEW q \in V
        PROVE  AddToken(q, n, k, tokens[k]) \in V
    <3>1. tokens[k] \in V
      BY ElementOfSeq
    <3> QED
      BY <3>1, OneTokenMore
  <2> QED
    BY <2>1
<1>3. \A k \in 1 .. m, q \in V :
            step[<<k, q>>] = AddToken(q, n, k, tokens[k])
  OBVIOUS
<1> HIDE DEF step, V
<1>4. PICK f : Stepwise(m, V, <<>>, step, f)
  BY <1>1, <1>2, StepwiseRecursion, Zenon
<1>5. ASSUME NEW k \in 0 .. m
      PROVE  f[k] = IF k = 0 THEN <<>>
                    ELSE AddToken(f[k - 1], n, k, tokens[k])
  <2>1. CASE k = 0
    BY <1>4, <2>1 DEF Stepwise
  <2>2. CASE k # 0
    <3>1. k \in 1 .. m /\ k - 1 \in 0 .. m
      BY <1>1, <2>2
    <3>2. f[k - 1] \in V /\ f[k] = step[<<k, f[k - 1]>>]
      BY <1>4, <3>1 DEF Stepwise
    <3> QED
      BY <1>3, <2>2, <3>1, <3>2
  <2> QED
    BY <2>1, <2>2
<1> QED
  BY <1>4, <1>5 DEF JoinedRec, Stepwise

\* A text is its tokens one after another.
LEMMA JoinedUnfold ==
    ASSUME NEW tokens \in Seq(Seq(Characters)), NEW n \in Nat
    PROVE  \E f : /\ Joined(tokens, n) = f[Len(tokens)]
                  /\ f[0] = <<>>
                  /\ \A k \in 0 .. Len(tokens) : f[k] \in Seq(Characters)
                  /\ \A k \in 1 .. Len(tokens) :
                        f[k] = AddToken(f[k - 1], n, k, tokens[k])
<1> DEFINE m == Len(tokens)
<1>1. PICK f : JoinedRec(tokens, n, f) /\ Joined(tokens, n) = f[m]
  BY JoinedRecExists, Zenon DEF JoinedRec, Joined
<1>2. m \in Nat /\ \A k \in 1 .. m : tokens[k] \in Seq(Characters)
  BY LenProperties, ElementOfSeq
<1>3. /\ f[0] = <<>>
      /\ \A k \in 1 .. m : f[k] = AddToken(f[k - 1], n, k, tokens[k])
  <2>1. JoinedRec(tokens, n, f)
    BY <1>1
  <2>2. \A k \in 0 .. m : f[k] = IF k = 0 THEN <<>>
                                  ELSE AddToken(f[k - 1], n, k, tokens[k])
    BY ONLY <2>1, Zenon DEF JoinedRec
  <2>3. 0 \in 0 .. m /\ \A k \in 1 .. m : k \in 0 .. m /\ k # 0
    BY <1>2
  <2> QED
    BY ONLY <2>2, <2>3
<1>4. f[0] \in Seq(Characters)
  BY <1>3, EmptySeq
<1>5. ASSUME NEW k \in 1 .. m, f[k - 1] \in Seq(Characters)
      PROVE  f[k] \in Seq(Characters)
  <2>1. AddToken(f[k - 1], n, k, tokens[k]) \in Seq(Characters)
    BY <1>2, <1>5, OneTokenMore
  <2> QED
    BY <1>3, <2>1
<1>6. \A k \in 0 .. m : f[k] \in Seq(Characters)
  BY ONLY <1>2, <1>4, <1>5, StepByStep
<1> QED
  BY <1>1, <1>3, <1>6

Token == Seq(Characters \ {Blank}) \ {<<>>}

\* The tokens are found again, however many blanks there are between them
\* (helpers.cpp 31-51).
LEMMA SplitJoined ==
    ASSUME NEW tokens \in Seq(Token), tokens # <<>>, NEW n \in Nat, n # 0
    PROVE  SplitStringToVector(Joined(tokens, n)) = tokens
<1> DEFINE m == Len(tokens)
           V == Seq(Characters)
<1>1. m \in Nat /\ m # 0 /\ \A k \in 1 .. m : tokens[k] \in Token
  BY LenProperties, ElementOfSeq, EmptySeq
<1>2. \A t \in Token : t \in V /\ t \in Seq(Characters \ {Blank}) /\ t # <<>>
  BY DEF Token
<1>3. tokens \in Seq(V)
  <2>1. Token \subseteq V
    BY <1>2
  <2> QED
    BY <2>1
<1>4. PICK f : /\ Joined(tokens, n) = f[m]
               /\ f[0] = <<>>
               /\ \A k \in 0 .. m : f[k] \in V
               /\ \A k \in 1 .. m :
                     f[k] = AddToken(f[k - 1], n, k, tokens[k])
  BY <1>3, JoinedUnfold
<1> DEFINE w(k) == SubSeq(tokens, 1, k)
           N == {k \in Nat : k + 1 <= m => Reads(f[k + 1], w(k), tokens[k + 1])}
<1>5. 0 \in N
  <2>1. 1 \in 1 .. m /\ tokens[1] \in Seq(Characters \ {Blank})
    BY <1>1, <1>2
  <2>2. f[1] = AddToken(f[0], n, 1, tokens[1])
    BY <1>4, <2>1
  <2>3. Blanks(0) = <<>> /\ <<>> \in V
    BY EmptySeq DEF Blanks
  <2>4. <<>> \o <<>> = <<>>
    BY <2>3, ConcatEmptySeq
  <2>5. f[1] = <<>> \o tokens[1]
    BY <1>4, <2>2, <2>3, <2>4 DEF AddToken
  <2>6. Reads(<<>> \o tokens[1], <<>>, tokens[1])
    BY <2>1, <2>3, ReadsNothing, ReadsToken
  <2>7. w(0) = <<>>
    BY SubSeqEmpty
  <2>8. Reads(f[1], w(0), tokens[1])
    BY <2>5, <2>6, <2>7
  <2> QED
    BY <2>8
<1>6. ASSUME NEW k \in Nat, k \in N PROVE k + 1 \in N
  <2> SUFFICES ASSUME k + 2 <= m PROVE Reads(f[k + 2], w(k + 1), tokens[k + 2])
    OBVIOUS
  <2>1. /\ k + 1 \in 0 .. m /\ k + 1 \in 1 .. m /\ k + 2 \in 1 .. m
        /\ (k + 2) - 1 = k + 1 /\ k + 2 # 1
    BY <1>1
  <2>2. Reads(f[k + 1], w(k), tokens[k + 1]) /\ f[k + 1] \in V
    BY <1>4, <1>6, <2>1
  <2>3. tokens[k + 1] # <<>> /\ tokens[k + 2] \in Seq(Characters \ {Blank})
    BY <1>1, <1>2, <2>1
  <2>4. Kept(w(k), tokens[k + 1]) = w(k + 1)
    BY <1>1, <2>1, <2>3 DEF Kept
  <2>5. /\ f[k + 1] \o Blanks(n) \in Seq(Characters)
        /\ Reads(f[k + 1] \o Blanks(n), w(k + 1), <<>>)
    BY <2>2, <2>4, ReadsBlanks
  <2>6. Reads(f[k + 1] \o Blanks(n) \o tokens[k + 2], w(k + 1), tokens[k + 2])
    BY <2>3, <2>5, ReadsToken
  <2>7. f[k + 2] = AddToken(f[k + 1], n, k + 2, tokens[k + 2])
    BY <1>4, <2>1
  <2>8. f[k + 2] = f[k + 1] \o Blanks(n) \o tokens[k + 2]
    BY <2>1, <2>7 DEF AddToken
  <2> QED
    BY <2>6, <2>8
<1>7. N = Nat
  <2>1. N \in SUBSET Nat
    OBVIOUS
  <2> HIDE DEF N
  <2> QED
    BY <1>5, <1>6, <2>1, NatSetInduction
<1>8. m - 1 \in Nat /\ (m - 1) + 1 = m /\ m \in 1 .. m /\ m \in 0 .. m
  BY <1>1
<1>9. Reads(f[m], w(m - 1), tokens[m]) /\ f[m] \in V /\ tokens[m] # <<>>
  <2>1. Reads(f[m], w(m - 1), tokens[m])
    <3>1. m - 1 \in N
      BY ONLY <1>7, <1>8
    <3>2. Reads(f[(m - 1) + 1], w(m - 1), tokens[(m - 1) + 1])
      BY <1>8, <3>1
    <3> QED
      BY <1>8, <3>2
  <2> QED
    BY <1>1, <1>2, <1>4, <1>8, <2>1
<1>10. SplitStringToVector(f[m]) = Kept(w(m - 1), tokens[m])
  BY <1>9, ReadsAll
<1>11. Kept(w(m - 1), tokens[m]) = tokens
  BY <1>1, <1>8, <1>9 DEF Kept
<1> QED
  BY <1>4, <1>10, <1>11

\* The tokens that CleanUserInput takes out.
Signed == {token \in Seq(Characters) : token[1] \in {"<", ">", "&"}}

LEMMA Cleaned ==
    ASSUME NEW line0 \in Seq(Seq(Characters))
    PROVE  CleanUserInput(line0) = Without(line0, Signed)
<1> DEFINE X == {token \in Range(line0) : token[1] \in {"<", ">", "&"}}
<1>1. ASSUME NEW k \in 1 .. Len(line0)
      PROVE  line0[k] \in X <=> line0[k] \in Signed
  <2>1. line0[k] \in Seq(Characters) /\ k \in DOMAIN line0
    BY ElementOfSeq, LenProperties
  <2>2. line0[k] \in Range(line0)
    BY <2>1 DEF Range
  <2> QED
    BY <2>1, <2>2 DEF Signed
<1> HIDE DEF X
<1>2. Without(line0, X) = Without(line0, Signed)
  BY <1>1, WithoutSame
<1> QED
  BY <1>2 DEF CleanUserInput, X

\* A token more decides the file if it redirects.
LEMMA FileAppend ==
    ASSUME NEW E, NEW s \in Seq(E), NEW t \in E, NEW c
    PROVE  File(Append(s, t), c) = IF Redirects(t, c) THEN Tail(t) ELSE File(s, c)
<1> DEFINE n == Len(s)
           u == Append(s, t)
           S == {i \in DOMAIN s : Redirects(s[i], c)}
           U == {i \in DOMAIN u : Redirects(u[i], c)}
<1>1. /\ n \in Nat /\ DOMAIN s = 1 .. n /\ DOMAIN u = 1 .. n + 1
      /\ u[n + 1] = t /\ \A i \in 1 .. n : u[i] = s[i]
  BY LenProperties, AppendProperties
<1> HIDE DEF u
<1>2. CASE Redirects(t, c)
  <2>1. n + 1 \in U /\ \A j \in U : j \in 1 .. n + 1
    BY <1>1, <1>2
  <2>2. \A j \in U : j <= n + 1
    BY <1>1, <2>1
  <2> DEFINE last == CHOOSE i \in U : \A j \in U : j <= i
  <2>3. last \in U /\ \A j \in U : j <= last
    BY <2>1, <2>2
  <2>4. last = n + 1
    BY <1>1, <2>1, <2>2, <2>3
  <2>5. File(u, c) = IF U = {} THEN <<>> ELSE Tail(u[last])
    BY DEF File
  <2>6. File(u, c) = Tail(t)
    BY <1>1, <2>1, <2>4, <2>5
  <2> QED
    BY <1>2, <2>6 DEF u
<1>3. CASE ~Redirects(t, c)
  <2>1. U = S
    <3>1. \A i \in 1 .. n + 1 : i \in 1 .. n \/ i = n + 1
      BY <1>1
    <3>2. \A i \in 1 .. n : i \in 1 .. n + 1
      BY <1>1
    <3> QED
      BY <1>1, <1>3, <3>1, <3>2
  <2> DEFINE last == CHOOSE i \in S : \A j \in S : j <= i
  <2>2. File(u, c) = IF S = {} THEN <<>> ELSE Tail(u[last])
    <3>1. File(u, c) = IF U = {} THEN <<>>
                       ELSE Tail(u[CHOOSE i \in U : \A j \in U : j <= i])
      BY DEF File
    <3> HIDE DEF S, U
    <3> QED
      BY <2>1, <3>1, Zenon
  <2>3. File(s, c) = IF S = {} THEN <<>> ELSE Tail(s[last])
    BY DEF File
  <2>4. S # {} => u[last] = s[last]
    <3> SUFFICES ASSUME S # {} PROVE u[last] = s[last]
      OBVIOUS
    <3>1. S \in SUBSET (1 .. n)
      BY <1>1
    <3> HIDE DEF S
    <3>2. Max(S) \in S /\ \A y \in S : y <= Max(S)
      BY <1>1, <3>1, MaxIsLast
    <3>3. last \in S
      BY <3>2
    <3> QED
      BY <1>1, <3>1, <3>3
  <2>5. File(u, c) = File(s, c)
    BY <2>2, <2>3, <2>4
  <2> QED
    BY <1>3, <2>5 DEF u
<1> QED
  BY <1>2, <1>3

Signs == {"<", ">", "&"}

LEMMA BlankIsNoSign == Blank \notin Signs
  BY Zenon DEF Blank, Signs

\* A word is no sign and has none.
LEMMA Words ==
    ASSUME NEW word \in Word
    PROVE  /\ word \in Token /\ word # <<>> /\ word \in Seq(Characters)
           /\ \A i \in DOMAIN word : word[i] \in Characters \ {Blank} /\ word[i] \notin Signs
           /\ word \notin Signed /\ word # <<"&">>
           /\ \A c \in {"<", ">"} : ~Redirects(word, c)
<1> DEFINE C == Characters \ {Blank, "<", ">", "&"}
<1>1. word \in Seq(C) /\ word # <<>>
  BY DEF Word
<1>2. word \in Seq(Characters \ {Blank}) /\ word \in Seq(Characters)
  BY <1>1
<1>3. \A i \in DOMAIN word : word[i] \in C
  BY <1>1, LenProperties, ElementOfSeq
<1>4. \A x \in C : x \in Characters \ {Blank} /\ x \notin Signs
  BY DEF Signs
<1>5. 1 \in DOMAIN word
  BY <1>1, LenProperties, EmptySeq
<1> HIDE DEF C
<1>6. word[1] \notin Signs
  BY <1>3, <1>4, <1>5
<1>7. word \notin Signed
  BY <1>6 DEF Signed, Signs
<1>8. word # <<"&">>
  BY <1>6 DEF Signs
<1>9. \A c \in {"<", ">"} : ~Redirects(word, c)
  BY <1>3, <1>4 DEF Redirects, Signs
<1> QED
  BY <1>1, <1>2, <1>3, <1>4, <1>7, <1>8, <1>9 DEF Token

\* The token of a redirection is taken for that redirection and for nothing else.
LEMMA RedirectionToken ==
    ASSUME NEW sign \in {"<", ">"}, NEW file \in Word
    PROVE  /\ <<sign>> \o file \in Token
           /\ <<sign>> \o file \in Signed
           /\ <<sign>> \o file # <<"&">>
           /\ Redirects(<<sign>> \o file, sign)
           /\ \A c \in {"<", ">"} \ {sign} : ~Redirects(<<sign>> \o file, c)
           /\ Tail(<<sign>> \o file) = file
<1> DEFINE C == Characters \ {Blank}
           t == <<sign>> \o file
<1>1. sign \in Signs /\ sign \in Characters /\ sign # "&"
  BY TextAssumption DEF Signs
<1>2. sign \in C
  BY <1>1, BlankIsNoSign
<1>3. file \in Seq(C) /\ file \in Seq(Characters)
  <2>1. file \in Token
    BY Words
  <2> QED
    BY <2>1 DEF Token
<1> HIDE DEF C
<1>4. <<sign>> \in Seq(C) /\ Len(<<sign>>) = 1 /\ <<sign>>[1] = sign
  BY <1>2
<1>5. /\ t \in Seq(C) /\ Len(t) = 1 + Len(file)
      /\ \A i \in 1 .. 1 + Len(file) : t[i] = IF i <= 1 THEN <<sign>>[i] ELSE file[i - 1]
  BY <1>3, <1>4, ConcatProperties
<1>6. Len(file) \in Nat /\ 1 \in 1 .. 1 + Len(file)
  BY <1>3, LenProperties
<1>7. t[1] = sign /\ DOMAIN t = 1 .. 1 + Len(file)
  BY <1>4, <1>5, <1>6, LenProperties
<1>8. t # <<>>
  BY <1>5, <1>6, EmptySeq
<1>9. Tail(t) = file
  <2>1. /\ Tail(t) \in Seq(C) /\ Len(Tail(t)) = Len(t) - 1
        /\ \A i \in 1 .. Len(Tail(t)) : Tail(t)[i] = t[i + 1]
    BY <1>5, <1>8, HeadTailProperties
  <2>2. ASSUME NEW i \in 1 .. Len(Tail(t)) PROVE Tail(t)[i] = file[i]
    <3>1. i + 1 \in 1 .. 1 + Len(file) /\ ~(i + 1 <= 1) /\ (i + 1) - 1 = i
      BY <1>5, <1>6, <2>1
    <3> QED
      BY <1>5, <2>1, <3>1
  <2>3. Len(Tail(t)) = Len(file)
    BY <1>5, <1>6, <2>1
  <2> HIDE DEF t
  <2> QED
    BY <1>3, <2>1, <2>2, <2>3, SeqEqual
<1> HIDE DEF t
<1>10. Redirects(t, sign)
  <2>1. \A j \in 1 .. (1 - 1) : t[j] \notin {"<", ">"}
    OBVIOUS
  <2> QED
    BY <1>6, <1>7, <2>1 DEF Redirects
<1>11. ASSUME NEW c \in {"<", ">"} \ {sign} PROVE ~Redirects(t, c)
  <2> SUFFICES ASSUME NEW i \in DOMAIN t, t[i] = c,
                      \A j \in 1 .. (i - 1) : t[j] \notin {"<", ">"}
               PROVE  FALSE
    BY DEF Redirects
  <2>1. i # 1
    BY <1>7
  <2>2. 1 \in 1 .. (i - 1)
    BY <1>6, <1>7, <2>1
  <2> QED
    BY <1>7, <2>2
<1>12. t \in Token
  BY <1>5, <1>8 DEF Token, C
<1>13. t \in Seq(Characters)
  BY <1>5 DEF C
<1>14. t \in Signed
  BY <1>1, <1>7, <1>13 DEF Signed, Signs
<1>15. t # <<"&">>
  BY <1>1, <1>7
<1> QED
  BY <1>9, <1>10, <1>11, <1>12, <1>14, <1>15 DEF t

\* The line is s with this file, if it is one, for this sign.
Redirected(line0, s, sign, file) ==
    /\ line0 \in Seq(Token) /\ line0 # <<>>
    /\ Without(line0, Signed) = Without(s, Signed)
    /\ File(line0, sign) = file
    /\ \A c \in {"<", ">"} \ {sign} : File(line0, c) = File(s, c)
    /\ ~isBackgroundProcess(line0)

LEMMA AddRedirection ==
    ASSUME NEW s \in Seq(Token), s # <<>>, NEW sign \in {"<", ">"},
           NEW file \in Word \cup {<<>>}, File(s, sign) = <<>>, ~isBackgroundProcess(s)
    PROVE  Redirected(s \o Redirection(sign, file), s, sign, file)
<1> DEFINE line0 == s \o Redirection(sign, file)
<1>1. ASSUME file = <<>> PROVE Redirected(line0, s, sign, file)
  <2>1. line0 = s
    BY <1>1, ConcatEmptySeq DEF Redirection
  <2> HIDE DEF line0
  <2> QED
    BY <1>1, <2>1 DEF Redirected
<1>2. ASSUME file # <<>> PROVE Redirected(line0, s, sign, file)
  <2> DEFINE t == <<sign>> \o file
  <2>1. /\ t \in Token /\ t \in Signed /\ t # <<"&">> /\ Redirects(t, sign)
        /\ \A c \in {"<", ">"} \ {sign} : ~Redirects(t, c)
        /\ Tail(t) = file
    <3>1. file \in Word
      BY <1>2
    <3> QED
      BY <3>1, RedirectionToken
  <2>2. Redirection(sign, file) = <<t>>
    BY <1>2 DEF Redirection
  <2> HIDE DEF t
  <2>3. line0 = Append(s, t)
    BY <2>1, <2>2, AppendIsConcat
  <2> HIDE DEF line0
  <2>4. line0 \in Seq(Token) /\ line0 # <<>> /\ line0[Len(line0)] = t
    BY <2>1, <2>3, AppendProperties
  <2>5. Without(line0, Signed) = Without(s, Signed)
    BY <2>1, <2>3, WithoutAppend
  <2>6. File(line0, sign) = file
    BY <2>1, <2>3, FileAppend
  <2>7. \A c \in {"<", ">"} \ {sign} : File(line0, c) = File(s, c)
    BY <2>1, <2>3, FileAppend
  <2>8. ~isBackgroundProcess(line0)
    BY <2>1, <2>4 DEF isBackgroundProcess
  <2> QED
    BY <2>4, <2>5, <2>6, <2>7, <2>8 DEF Redirected
<1> QED
  BY <1>1, <1>2

\* A sequence of words names no file and is not in the background.
LEMMA WordsAlone ==
    ASSUME NEW words \in Seq(Word) \ {<<>>}
    PROVE  /\ words \in Seq(Token) /\ words # <<>>
           /\ Without(words, Signed) = words
           /\ \A c \in {"<", ">"} : File(words, c) = <<>>
           /\ ~isBackgroundProcess(words)
<1>1. \A i \in DOMAIN words : words[i] \in Word
  BY LenProperties, ElementOfSeq
<1>2. words \in Seq(Token)
  <2>1. Word \subseteq Token
    BY Words
  <2> QED
    BY <2>1
<1>3. Without(words, Signed) = words
  <2>1. \A i \in 1 .. Len(words) : words[i] \notin Signed
    BY <1>1, Words, LenProperties
  <2> QED
    BY <1>2, <2>1, WithoutNone
<1>4. ASSUME NEW c \in {"<", ">"} PROVE File(words, c) = <<>>
  <2>1. {i \in DOMAIN words : Redirects(words[i], c)} = {}
    BY <1>1, Words
  <2> QED
    BY <2>1 DEF File
<1>5. Len(words) \in DOMAIN words
  BY LenProperties, EmptySeq
<1>6. ~isBackgroundProcess(words)
  BY <1>1, <1>5, Words DEF isBackgroundProcess
<1> QED
  BY <1>2, <1>3, <1>4, <1>6

\* What becomes of a background sign at the end.
LEMMA AddBackground ==
    ASSUME NEW s \in Seq(Token), s # <<>>, ~isBackgroundProcess(s), NEW b \in BOOLEAN,
           NEW line0, line0 = s \o (IF b THEN <<<<"&">>>> ELSE <<>>)
    PROVE  /\ line0 \in Seq(Token) /\ line0 # <<>>
           /\ Without(line0, Signed) = Without(s, Signed)
           /\ \A c \in {"<", ">"} : File(line0, c) = File(s, c)
           /\ isBackgroundProcess(line0) <=> b
<1>1. CASE ~b
  <2>1. line0 = s
    BY <1>1, ConcatEmptySeq
  <2> QED
    BY <1>1, <2>1
<1>2. CASE b
  <2> DEFINE t == <<"&">>
  <2>1. "&" \in Characters \ {Blank} /\ "&" \in Characters
    BY TextAssumption, BlankIsNoSign DEF Signs
  <2>2. t \in Token /\ t \in Signed
    BY <2>1 DEF Token, Signed
  <2>3. \A c \in {"<", ">"} : ~Redirects(t, c)
    BY DEF Redirects
  <2>4. line0 = s \o <<t>>
    BY <1>2
  <2>5. isBackgroundProcess(line0) <=> line0[Len(line0)] = t
    BY DEF isBackgroundProcess
  <2> HIDE DEF t
  <2>6. line0 = Append(s, t)
    BY <2>2, <2>4, AppendIsConcat
  <2>7. line0 \in Seq(Token) /\ line0 # <<>> /\ line0[Len(line0)] = t
    BY <2>2, <2>6, AppendProperties
  <2>8. Without(line0, Signed) = Without(s, Signed)
    BY <2>2, <2>6, WithoutAppend
  <2>9. ASSUME NEW c \in {"<", ">"} PROVE File(line0, c) = File(s, c)
    <3>1. ~Redirects(t, c)
      BY <2>3
    <3>2. s \in Seq(Token) /\ t \in Token
      BY <2>2
    <3>3. File(Append(s, t), c) = File(s, c)
      BY ONLY <3>1, <3>2, FileAppend
    <3> QED
      BY <2>6, <3>3
  <2> QED
    BY <1>2, <2>5, <2>7, <2>8, <2>9
<1> QED
  BY <1>1, <1>2

\* A line, not in the background, of these words and these files.
LineOf(line0, words, in, out) ==
    /\ line0 \in Seq(Token) /\ line0 # <<>>
    /\ Without(line0, Signed) = words
    /\ File(line0, "<") = in /\ File(line0, ">") = out
    /\ ~isBackgroundProcess(line0)

LEMMA AddInput ==
    ASSUME NEW s, NEW words, NEW out, LineOf(s, words, <<>>, out),
           NEW file \in Word \cup {<<>>}
    PROVE  LineOf(s \o Redirection("<", file), words, file, out)
<1> DEFINE line0 == s \o Redirection("<", file)
<1>1. /\ s \in Seq(Token) /\ s # <<>> /\ File(s, "<") = <<>>
      /\ ~isBackgroundProcess(s)
  BY DEF LineOf
<1>2. Redirected(line0, s, "<", file)
  BY <1>1, AddRedirection
<1> HIDE DEF line0
<1>3. LineOf(line0, words, file, out)
  BY <1>2 DEF LineOf, Redirected
<1> QED
  BY <1>3 DEF line0

LEMMA AddOutput ==
    ASSUME NEW s, NEW words, NEW in, LineOf(s, words, in, <<>>),
           NEW file \in Word \cup {<<>>}
    PROVE  LineOf(s \o Redirection(">", file), words, in, file)
<1> DEFINE line0 == s \o Redirection(">", file)
<1>1. /\ s \in Seq(Token) /\ s # <<>> /\ File(s, ">") = <<>>
      /\ ~isBackgroundProcess(s)
  BY DEF LineOf
<1>2. Redirected(line0, s, ">", file)
  BY <1>1, AddRedirection
<1> HIDE DEF line0
<1>3. LineOf(line0, words, in, file)
  BY <1>2 DEF LineOf, Redirected
<1> QED
  BY <1>3 DEF line0

\* The parser finds the command in its tokens.
LEMMA TokensParsed ==
    ASSUME NEW c \in UsualCommand
    PROVE  /\ Tokens(c) \in Seq(Token) /\ Tokens(c) # <<>>
           /\ Parsed(Tokens(c)) = c
<1> DEFINE s1 == c.words
           s2 == s1 \o Redirection("<", c.in)
           s3 == s2 \o Redirection(">", c.out)
           s4 == s3 \o (IF c.background THEN <<<<"&">>>> ELSE <<>>)
<1>1. /\ c.words \in Seq(Word) \ {<<>>} /\ c.in \in Word \cup {<<>>}
      /\ c.out \in Word \cup {<<>>} /\ c.background \in BOOLEAN
      /\ c = [words |-> c.words, in |-> c.in, out |-> c.out, background |-> c.background]
  BY DEF UsualCommand
<1>2. Tokens(c) = s4
  BY DEF Tokens
<1>3. LineOf(s1, c.words, <<>>, <<>>)
  BY <1>1, WordsAlone DEF LineOf
<1> HIDE DEF s1
<1>4. LineOf(s2, c.words, c.in, <<>>)
  BY <1>1, <1>3, AddInput
<1> HIDE DEF s2
<1>5. LineOf(s3, c.words, c.in, c.out)
  BY <1>1, <1>4, AddOutput
<1> HIDE DEF s3
<1>6. /\ s4 \in Seq(Token) /\ s4 # <<>> /\ Without(s4, Signed) = c.words
      /\ File(s4, "<") = c.in /\ File(s4, ">") = c.out
      /\ isBackgroundProcess(s4) <=> c.background
  BY <1>1, <1>5, AddBackground DEF LineOf
<1> HIDE DEF s4
<1>7. CleanUserInput(s4) = c.words
  <2>1. s4 \in Seq(Seq(Characters))
    <3>1. \A t \in Token : t \in Seq(Characters)
      BY DEF Token
    <3> QED
      BY <1>6, <3>1
  <2> QED
    BY <1>6, <2>1, Cleaned
<1>8. isBackgroundProcess(s4) = c.background
  BY <1>1, <1>6 DEF isBackgroundProcess
<1>9. Parsed(s4) = [words |-> c.words, in |-> c.in, out |-> c.out,
                    background |-> c.background]
  BY <1>6, <1>7, <1>8 DEF Parsed, fileIN, fileOUT
<1> QED
  BY <1>1, <1>2, <1>6, <1>9

\* A command written in the usual way is run with its words as arguments, its
\* files and "&" taken for what they are, however many words it has and however
\* many blanks there are (parser.cpp 30-42, 79-124, helpers.cpp 31-51).
THEOREM CommandsParsed == Spec => []ParsedAsTyped
<1>1. \A t \in Typed : Parsed(t.line) = t.command
  <2> SUFFICES ASSUME NEW c \in Commands, NEW n \in 1 .. MaxBlanks
               PROVE  Parsed(SplitStringToVector(Text(c, n))) = c
    BY DEF Typed
  <2>1. c \in UsualCommand /\ n \in Nat /\ n # 0
    BY TextAssumption
  <2>2. Tokens(c) \in Seq(Token) /\ Tokens(c) # <<>> /\ Parsed(Tokens(c)) = c
    BY <2>1, TokensParsed
  <2>3. SplitStringToVector(Text(c, n)) = Tokens(c)
    BY <2>1, <2>2, SplitJoined DEF Text
  <2> QED
    BY <2>2, <2>3
<1>2. ParsedAsTyped
  BY <1>1 DEF ParsedAsTyped
<1> QED
  BY <1>2, PTL

\* A line has fewer than MAX_ARGS tokens.
Fits(l) == /\ CleanUserInput(l) \in Seq(Seq(Characters))
           /\ Len(CleanUserInput(l)) <= MAX_ARGS

LEMMA LinesFit == \A l \in Lines : Fits(l)
<1> SUFFICES ASSUME NEW text, text \in Seq(Characters), ValidateInput(text)
             PROVE  Fits(SplitStringToVector(text))
  <2>1. ASSUME NEW c \in Commands, NEW n \in 1 .. MaxBlanks
        PROVE  Text(c, n) \in Seq(Characters)
    <3>1. c \in UsualCommand /\ n \in Nat
      BY <2>1, TextAssumption
    <3>2. Tokens(c) \in Seq(Seq(Characters))
      <4>1. \A t \in Token : t \in Seq(Characters)
        BY DEF Token
      <4> QED
        BY <3>1, <4>1, TokensParsed
    <3>3. Len(Tokens(c)) \in 0 .. Len(Tokens(c))
      BY <3>2, LenProperties
    <3> QED
      BY <3>1, <3>2, <3>3, JoinedUnfold DEF Text
  <2> QED
    BY <2>1, TextAssumption DEF Lines
<1> DEFINE l == SplitStringToVector(text)
<1>1. Fields(text) \in Seq(Seq(Characters))
  <2>1. PICK f \in [0 .. Len(text) -> Seq(Seq(Characters)) \ {<<>>}] :
              Fields(text) = f[Len(text)]
    BY FieldsUnfold
  <2>2. Len(text) \in 0 .. Len(text)
    BY LenProperties
  <2> QED
    BY <2>1, <2>2
<1>2. l \in Seq(Seq(Characters))
  BY <1>1, WithoutPlaces DEF SplitStringToVector
<1>3. Len(l) \in Nat /\ Len(l) < MAX_ARGS
  BY <1>2, LenProperties DEF ValidateInput
<1> HIDE DEF l
<1>4. CleanUserInput(l) = Without(l, Signed)
  BY <1>2, Cleaned
<1>5. Without(l, Signed) \in Seq(Seq(Characters)) /\ Len(Without(l, Signed)) <= Len(l)
  BY <1>2, WithoutPlaces DEF Places
<1>6. Len(Without(l, Signed)) \in Nat
  BY <1>5, LenProperties
<1>7. Fits(l)
  BY <1>3, <1>4, <1>5, <1>6, ParserAssumption DEF Fits
<1> QED
  BY <1>7 DEF l

\* The arguments that exec gets, and the NULL after them, never go past the
\* MAX_ARGS + 1 pointers that the archived copy has for them, however many
\* words the user types (Assignment1/parser.cpp 5, 107-120; parser.cpp 140).
THEOREM ArgumentsFit == Spec => []ArgsFit
<1>1. \A l \in Lines \cup {<<>>} : Fits(l)
  <2>1. PICK z : z = <<>>
    OBVIOUS
  <2>2. z \in Seq(Seq(Characters)) /\ Len(z) = 0
    BY <2>1, EmptySeq
  <2>3. Without(z, Signed) = z
    <3>1. \A k \in 1 .. Len(z) : z[k] \notin Signed
      BY <2>2
    <3> QED
      BY ONLY <2>2, <3>1, WithoutNone
  <2>4. CleanUserInput(z) = z
    BY ONLY <2>2, <2>3, Cleaned
  <2>5. Fits(z)
    BY ONLY <2>2, <2>4, ParserAssumption DEF Fits, ParserAssumption
  <2> QED
    BY <2>1, <2>5, LinesFit
<1>2. ASSUME TypeOK PROVE ArgsFit
  <2> DEFINE cmd == CleanUserInput(line)
  <2>1. cmd \in Seq(Seq(Characters)) /\ Len(cmd) <= MAX_ARGS
    BY <1>1, <1>2 DEF TypeOK, Fits
  <2>2. <<>> \in Seq(Characters)
    BY EmptySeq
  <2> HIDE DEF cmd
  <2>3. Len(cmd) \in Nat /\ Len(Append(cmd, <<>>)) = Len(cmd) + 1
    BY <2>1, <2>2, LenProperties, AppendProperties
  <2>4. Len(Append(cmd, <<>>)) <= MAX_ARGS + 1
    BY <2>1, <2>3, ParserAssumption
  <2> QED
    BY <2>4 DEF ArgsFit, ConvertVectorToCharArray, cmd
<1>3. Spec => []TypeOK
  BY ShellTypeCorrect
<1> QED
  BY <1>2, <1>3, PTL
=============================================================================
