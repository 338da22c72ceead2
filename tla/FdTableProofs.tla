---------------------------- MODULE FdTableProofs ----------------------------
(***************************************************************************)
(* Proofs about FdTable, for a table of any size with any contents.        *)
(***************************************************************************)
EXTENDS FdTable, DataLemmas

\* The table that the inner loop is making, without the entry found: the
\* entries up to j are in place, the others are still one further on.
Closed == [k \in 1 .. num_fds - 1 |-> IF k <= j THEN fds[k - 1] ELSE fds[k]]

\* What holds between any two statements of the loops: the entries before i
\* are open descriptors, and the table, or the one being made, has the open
\* descriptors that were there in their order.
FInv ==
    /\ TypeOK
    /\ \A k \in 0 .. i - 1 : fds[k] # NoFd
    /\ pc = "inner" => /\ i < num_fds /\ j \in i .. num_fds
                       /\ Without(Closed, {NoFd}) = Without(before, {NoFd})
    /\ pc # "inner" => Without(FirstEntries(num_fds), {NoFd}) = Without(before, {NoFd})
    /\ pc = "done" => i = num_fds

\* The first entries of the array are a sequence of entries.
LEMMA FirstEntriesType ==
    ASSUME fds \in [Index -> Entry], NEW n \in 0 .. MAX_CONNECTIONS
    PROVE  /\ FirstEntries(n) \in Seq(Entry) /\ Len(FirstEntries(n)) = n
           /\ \A k \in 1 .. n : FirstEntries(n)[k] = fds[k - 1]
<1>1. n \in Nat /\ \A k \in 1 .. n : k - 1 \in Index
  BY TableAssumption DEF Index
<1> QED
  BY <1>1 DEF FirstEntries

\* So is the table that the inner loop is making.
LEMMA ClosedType ==
    ASSUME TypeOK, num_fds # 0
    PROVE  /\ Closed \in Seq(Entry) /\ Len(Closed) = num_fds - 1
           /\ \A k \in 1 .. num_fds - 1 : Closed[k] = IF k <= j THEN fds[k - 1] ELSE fds[k]
<1>1. num_fds - 1 \in Nat /\ \A k \in 1 .. num_fds - 1 : k - 1 \in Index /\ k \in Index
  BY TableAssumption DEF TypeOK, Index
<1> QED
  BY <1>1 DEF Closed, TypeOK

LEMMA InitFInv == Init => FInv
<1> SUFFICES ASSUME Init PROVE FInv
  OBVIOUS
<1>1. TypeOK
  <2>1. num_fds \in 0 .. MAX_CONNECTIONS /\ i \in 0 .. num_fds /\ j \in 0 .. MAX_CONNECTIONS
    BY TableAssumption DEF Init
  <2>2. before \in Seq(Entry)
    BY <2>1, FirstEntriesType DEF Init
  <2> QED
    BY <2>1, <2>2 DEF Init, TypeOK
<1> QED
  BY <1>1 DEF Init, FInv

LEMMA KeepFInv == FInv /\ Keep => FInv'
<1> SUFFICES ASSUME FInv, Keep PROVE FInv'
  OBVIOUS
<1>1. TypeOK'
  BY DEF FInv, TypeOK, Keep
<1>2. \A k \in 0 .. i' - 1 : fds'[k] # NoFd
  BY DEF FInv, TypeOK, Keep
<1>3. FirstEntries(num_fds)' = FirstEntries(num_fds)
  BY DEF Keep, FirstEntries
<1> QED
  BY <1>1, <1>2, <1>3 DEF FInv, Keep

LEMMA FindFInv == FInv /\ Find => FInv'
<1> SUFFICES ASSUME FInv, Find PROVE FInv'
  OBVIOUS
<1>1. TypeOK' /\ num_fds' # 0
  BY TableAssumption DEF FInv, TypeOK, Find
<1>2. i' < num_fds' /\ j' \in i' .. num_fds'
  BY DEF FInv, TypeOK, Find
<1>3. \A k \in 0 .. i' - 1 : fds'[k] # NoFd
  BY DEF FInv, TypeOK, Find
<1>4. Without(Closed', {NoFd}) = Without(before, {NoFd})
  <2> DEFINE s == FirstEntries(num_fds)
             t == Closed'
  <2>1. s \in Seq(Entry) /\ Len(s) = num_fds /\ \A k \in 1 .. num_fds : s[k] = fds[k - 1]
    BY FirstEntriesType DEF FInv, TypeOK
  <2>2. /\ t \in Seq(Entry) /\ Len(t) = num_fds - 1
        /\ \A k \in 1 .. num_fds - 1 : t[k] = IF k <= i THEN fds[k - 1] ELSE fds[k]
    <3>1. num_fds' = num_fds /\ fds' = fds /\ j' = i
      BY DEF Find
    <3>2. /\ t \in Seq(Entry) /\ Len(t) = num_fds' - 1
          /\ \A k \in 1 .. num_fds' - 1 : t[k] = IF k <= j' THEN fds'[k - 1] ELSE fds'[k]
      <4>1. t = [k \in 1 .. num_fds - 1 |-> IF k <= i THEN fds[k - 1] ELSE fds[k]]
        BY <3>1 DEF Closed
      <4>2. num_fds - 1 \in Nat /\ \A k \in 1 .. num_fds - 1 : k - 1 \in Index /\ k \in Index
        BY <1>1, <3>1, TableAssumption DEF TypeOK, Index
      <4> QED
        BY <3>1, <4>1, <4>2 DEF FInv, TypeOK
    <3> QED
      BY <3>1, <3>2
  <2>3. i + 1 \in 1 .. num_fds /\ s[i + 1] = NoFd
    <3>1. i \in Nat /\ num_fds \in Nat /\ i < num_fds /\ fds[i] = NoFd
      BY DEF FInv, TypeOK, Find
    <3>2. i + 1 \in 1 .. num_fds /\ (i + 1) - 1 = i
      BY <3>1
    <3> QED
      BY <2>1, <3>1, <3>2
  <2>4. num_fds \in Nat /\ i \in Nat
    BY DEF FInv, TypeOK
  <2> HIDE DEF s, t
  <2>5. \A k \in 1 .. Len(t) : t[k] = IF k < i + 1 THEN s[k] ELSE s[k + 1]
    BY <2>1, <2>2, <2>4
  <2>6. Without(t, {NoFd}) = Without(s, {NoFd})
    <3>1. /\ s \in Seq(Entry) /\ t \in Seq(Entry) /\ Len(t) = Len(s) - 1
          /\ i + 1 \in 1 .. Len(s) /\ s[i + 1] = NoFd
      BY <2>1, <2>2, <2>3
    <3> QED
      BY ONLY <2>5, <3>1, WithoutOneLess
  <2> QED
    BY <2>6 DEF s, t, FInv, Find
<1> QED
  BY <1>1, <1>2, <1>3, <1>4 DEF FInv, Find

LEMMA ShiftFInv == FInv /\ Shift => FInv'
<1> SUFFICES ASSUME FInv, Shift PROVE FInv'
  OBVIOUS
<1>1. PICK fd \in Read(j + 1) : fds' = [fds EXCEPT ![j] = fd]
  BY DEF Shift
<1>2. j \in Index /\ num_fds \in Nat /\ j + 1 <= num_fds /\ j \in Nat /\ i \in Nat /\ i <= j
  BY TableAssumption DEF FInv, TypeOK, Shift, Index
<1>3. fd \in Entry
  BY DEF Read, FInv, TypeOK
<1>4. TypeOK'
  BY <1>1, <1>2, <1>3, TableAssumption DEF FInv, TypeOK, Shift
<1>5. i' < num_fds' /\ j' \in i' .. num_fds'
  BY <1>2 DEF FInv, Shift
<1>6. \A k \in 0 .. i' - 1 : fds'[k] # NoFd
  BY <1>1, <1>2 DEF FInv, TypeOK, Shift
<1>7. Closed' = Closed
  <2>1. ASSUME NEW k \in 1 .. num_fds - 1
        PROVE  (IF k <= j + 1 THEN fds'[k - 1] ELSE fds'[k])
               = (IF k <= j THEN fds[k - 1] ELSE fds[k])
    <3>1. k \in Index /\ k - 1 \in Index
      BY <1>2, TableAssumption DEF FInv, TypeOK, Index
    <3>2. CASE k = j + 1
      <4>1. j + 1 \in Index /\ fd = fds[j + 1]
        BY <3>1, <3>2 DEF Read
      <4> QED
        BY <1>1, <1>2, <3>2, <4>1 DEF FInv, TypeOK
    <3>3. CASE k # j + 1
      <4>1. k - 1 # j /\ (k > j => k # j)
        BY <1>2, <3>3
      <4> QED
        BY <1>1, <1>2, <3>1, <3>3, <4>1 DEF FInv, TypeOK
    <3> QED
      BY <3>2, <3>3
  <2> QED
    BY <2>1 DEF Closed, Shift
<1> QED
  BY <1>4, <1>5, <1>6, <1>7 DEF FInv, Shift

LEMMA ShiftedFInv == FInv /\ Shifted => FInv'
<1> SUFFICES ASSUME FInv, Shifted PROVE FInv'
  OBVIOUS
<1>1. num_fds \in Nat /\ num_fds > 0 /\ num_fds' = num_fds - 1 /\ j = num_fds /\ i <= num_fds - 1
  BY TableAssumption DEF FInv, TypeOK, Shifted
<1>2. TypeOK'
  BY <1>1, TableAssumption DEF FInv, TypeOK, Shifted
<1>3. FirstEntries(num_fds)' = Closed
  BY <1>1 DEF Shifted, FirstEntries, Closed
<1>4. \A k \in 0 .. i' - 1 : fds'[k] # NoFd
  BY DEF FInv, Shifted
<1> QED
  BY <1>2, <1>3, <1>4 DEF FInv, Shifted

LEMMA FinishFInv == FInv /\ Finish => FInv'
<1> SUFFICES ASSUME FInv, Finish PROVE FInv'
  OBVIOUS
<1>1. TypeOK' /\ i' = num_fds'
  BY DEF FInv, TypeOK, Finish
<1>2. FirstEntries(num_fds)' = FirstEntries(num_fds)
  BY DEF Finish, FirstEntries
<1> QED
  BY <1>1, <1>2 DEF FInv, Finish

LEMMA NextFInv == FInv /\ [Next]_vars => FInv'
<1>1. FInv /\ UNCHANGED vars => FInv'
  BY DEF FInv, TypeOK, Closed, FirstEntries, vars
<1> QED
  BY <1>1, KeepFInv, FindFInv, ShiftFInv, ShiftedFInv, FinishFInv DEF Next

\* At the end every entry left is an open descriptor: the table is what the
\* compaction promises.
LEMMA FInvCompact == FInv => Compact
<1> SUFFICES ASSUME FInv, pc = "done"
             PROVE  FirstEntries(num_fds) = Without(before, {NoFd})
  BY DEF Compact
<1> DEFINE s == FirstEntries(num_fds)
<1>1. s \in Seq(Entry) /\ Len(s) = num_fds /\ \A k \in 1 .. num_fds : s[k] = fds[k - 1]
  BY FirstEntriesType DEF FInv, TypeOK
<1>2. \A k \in 1 .. num_fds : k - 1 \in 0 .. i - 1
  BY DEF FInv, TypeOK
<1>3. \A k \in 1 .. Len(s) : s[k] # NoFd
  BY <1>1, <1>2 DEF FInv
<1> HIDE DEF s
<1>4. Without(s, {NoFd}) = s
  BY <1>1, <1>3, WithoutNone
<1> QED
  BY <1>4 DEF s, FInv

\* The loops of the compaction keep the types, and write inside the array,
\* whatever table they start from (server.cpp 217-229).
THEOREM FdTableTypeCorrect == Spec => []TypeOK
<1>1. FInv => TypeOK
  BY DEF FInv
<1> QED
  BY <1>1, InitFInv, NextFInv, PTL DEF Spec

\* The compaction ends with exactly the open descriptors, in their order, for
\* a table of any size and contents, also when it is full and the loop reads
\* one entry past its end (server.cpp 217-229).
THEOREM CompactionCorrect == Spec => []Compact
BY InitFInv, NextFInv, FInvCompact, PTL DEF Spec
=============================================================================
