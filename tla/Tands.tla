------------------------------- MODULE Tands -------------------------------
(***************************************************************************)
(* Assignment2's Trans and Sleep (tands.cpp) as prodcon runs them: every   *)
(* consumer thread calls Trans and the main thread calls Sleep, and they   *)
(* share the plain int TransSave with no lock.  The default build does not *)
(* optimise, so each of the two assignments of Trans is a load and a store *)
(* of its own.                                                             *)
(***************************************************************************)
EXTENDS Integers

CONSTANTS Consumers,   \* the threads that call Trans
          Work,        \* the values Trans's loop leaves in j, as an int
          SleepArgs,   \* the numbers of the input's S lines
          MaxTrans     \* bound on the calls of Trans in a behaviour

MaxInt == 2147483647
MinInt == -MaxInt - 1

ASSUME TandsAssumption ==
    /\ Work \subseteq MinInt .. MaxInt
    /\ SleepArgs \subseteq MinInt .. MaxInt
    /\ MaxTrans \in Nat

VARIABLES TransSave,   \* the global
          pc,          \* the next memory access of each consumer's Trans
          reg,         \* the value it has loaded or is going to store
          trans,       \* how many calls of Trans were made
          tv_nsec      \* the duration of main's last Sleep, split in two:
                       \* its argument and the TransSave it added

vars == <<TransSave, pc, reg, trans, tv_nsec>>

Init == /\ TransSave = 0
        /\ pc = [c \in Consumers |-> "idle"]
        /\ reg = [c \in Consumers |-> 0]
        /\ trans = 0
        /\ tv_nsec = [n |-> 1, save |-> 0]

\* a + b on 32-bit ints, two's complement.
AddInt(a, b) ==
    IF b > 0 /\ a > MaxInt - b THEN (a - MaxInt - 1) + (b - MaxInt - 1)
    ELSE IF b < 0 /\ a < MinInt - b THEN (a + MaxInt + 1) + (b + MaxInt + 1)
    ELSE a + b

\* Faulty variant: &= 0xff is forgotten.
Unmasked(x) == x

\* x & 0xff
Masked(x) == x % 256

Access(c, a, b) == pc[c] = a /\ pc' = [pc EXCEPT ![c] = b]
Load(c) == reg' = [reg EXCEPT ![c] = TransSave] /\ UNCHANGED TransSave
Store(c, v) == TransSave' = v /\ UNCHANGED reg

\* The loop is over; TransSave += j.
AddLoad(c) ==
    /\ trans < MaxTrans
    /\ Access(c, "idle", "add.store")
    /\ trans' = trans + 1
    /\ \E j \in Work : reg' = [reg EXCEPT ![c] = AddInt(TransSave, j)]
    /\ UNCHANGED <<TransSave, tv_nsec>>

AddStore(c) ==
    /\ Access(c, "add.store", "mask.load")
    /\ Store(c, reg[c])
    /\ UNCHANGED <<trans, tv_nsec>>

\* TransSave &= 0xff.
MaskLoad(c) ==
    /\ Access(c, "mask.load", "mask.store")
    /\ Load(c)
    /\ UNCHANGED <<trans, tv_nsec>>

MaskStore(c) ==
    /\ Access(c, "mask.store", "idle")
    /\ Store(c, Masked(reg[c]))
    /\ UNCHANGED <<trans, tv_nsec>>

\* Faulty variant: n == 100 passes.
ClampOffByOne(n) == IF n <= 0 \/ n > 100 THEN 1 ELSE n

\* if (n <= 0 || n >= 100) n = 1
Clamp(n) == IF n <= 0 \/ n >= 100 THEN 1 ELSE n

\* Sleep(n) computes tv_nsec and calls nanosleep.
Sleep(n) ==
    /\ tv_nsec' = [n |-> Clamp(n), save |-> TransSave]
    /\ UNCHANGED <<TransSave, pc, reg, trans>>

Next == \/ \E c \in Consumers : \/ AddLoad(c) \/ AddStore(c)
                                \/ MaskLoad(c) \/ MaskStore(c)
        \/ \E n \in SleepArgs : Sleep(n)

Spec == Init /\ [][Next]_vars

-----------------------------------------------------------------------------
\* Every variable keeps its type: ints stay in 32 bits, and Sleep multiplies
\* a number from 1 to 99.
TypeOK ==
    /\ TransSave \in MinInt .. MaxInt
    /\ pc \in [Consumers -> {"idle", "add.store", "mask.load", "mask.store"}]
    /\ reg \in [Consumers -> MinInt .. MaxInt]
    /\ trans \in 0 .. MaxTrans
    /\ tv_nsec \in [n : 1 .. 99, save : MinInt .. MaxInt]

Masking == {c \in Consumers : pc[c] \in {"mask.load", "mask.store"}}

\* However the loads and stores of concurrent calls of Trans interleave,
\* TransSave exceeds one byte only while some call is between its two
\* assignments (tands.cpp 25-26).
MaskedUnlessInTrans == Masking = {} => TransSave \in 0 .. 255

\* n * 10000000 + TransSave is a duration nanosleep accepts, written without
\* an intermediate result beyond 32 bits.
ValidDuration(n, save) == /\ save >= -(n * 10000000)
                          /\ save <= 999999999 - n * 10000000
ValidNanoseconds == ValidDuration(tv_nsec.n, tv_nsec.save)

\* A Sleep that overlaps no call of Trans between its assignments hands
\* nanosleep a valid duration, whatever number the line had (tands.cpp 39-45).
SleepValidUnlessRacing ==
    [][Masking = {} /\ tv_nsec' # tv_nsec => ValidNanoseconds']_vars
=============================================================================
