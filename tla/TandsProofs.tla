---------------------------- MODULE TandsProofs ----------------------------
(***************************************************************************)
(* Proofs about Tands, for any set of consumers and any results of Trans's *)
(* loop.                                                                   *)
(***************************************************************************)
EXTENDS Tands, TLAPS

\* The bounds of an int.
LEMMA IntBounds == /\ MinInt \in Int /\ MaxInt \in Int
                   /\ MinInt = -MaxInt - 1 /\ MaxInt > 999
BY SMT DEF MinInt, MaxInt

\* The sum of two ints is an int again.
LEMMA AddIntType ==
    ASSUME NEW a \in MinInt .. MaxInt, NEW b \in MinInt .. MaxInt
    PROVE  AddInt(a, b) \in MinInt .. MaxInt
BY IntBounds, SMT DEF AddInt

\* x & 0xff is a byte, whatever int x is.
LEMMA MaskedByte ==
    ASSUME NEW x \in MinInt .. MaxInt
    PROVE  Masked(x) \in 0 .. 255 /\ Masked(x) \in MinInt .. MaxInt
BY IntBounds, SMT DEF Masked

\* Sleep multiplies a number from 1 to 99, whatever the line said.
LEMMA ClampType ==
    ASSUME NEW n \in MinInt .. MaxInt
    PROVE  Clamp(n) \in 1 .. 99
BY IntBounds, SMT DEF Clamp

\* A byte is a TransSave that Sleep can add to any clamped number.
LEMMA ByteIsValid ==
    ASSUME NEW n \in 1 .. 99, NEW b \in 0 .. 255
    PROVE  ValidDuration(n, b)
BY SMT DEF ValidDuration

\* Every step keeps the types.
LEMMA TypeStep == TypeOK /\ [Next]_vars => TypeOK'
<1> SUFFICES ASSUME TypeOK, [Next]_vars
             PROVE  TypeOK'
  OBVIOUS
<1> USE TandsAssumption DEF TypeOK, Access
<1>1. CASE UNCHANGED vars
  BY <1>1 DEF vars
<1>2. ASSUME NEW c \in Consumers, AddLoad(c)
      PROVE  TypeOK'
  <2>1. \A j \in Work : AddInt(TransSave, j) \in MinInt .. MaxInt
    BY AddIntType
  <2>2. reg' \in [Consumers -> MinInt .. MaxInt]
    BY <1>2, <2>1 DEF AddLoad
  <2>3. trans' \in 0 .. MaxTrans
    BY <1>2, SMT DEF AddLoad
  <2>4. pc' \in [Consumers -> {"idle", "add.store", "mask.load", "mask.store"}]
    BY <1>2, SMT DEF AddLoad
  <2> QED
    BY <1>2, <2>2, <2>3, <2>4 DEF AddLoad
<1>3. ASSUME NEW c \in Consumers, AddStore(c)
      PROVE  TypeOK'
  BY <1>3, SMT DEF AddStore, Store
<1>4. ASSUME NEW c \in Consumers, MaskLoad(c)
      PROVE  TypeOK'
  BY <1>4, SMT DEF MaskLoad, Load
<1>5. ASSUME NEW c \in Consumers, MaskStore(c)
      PROVE  TypeOK'
  BY <1>5, MaskedByte, SMT DEF MaskStore, Store
<1>6. ASSUME NEW n \in SleepArgs, Sleep(n)
      PROVE  TypeOK'
  BY <1>6, ClampType, SMT DEF Sleep
<1> QED
  BY <1>1, <1>2, <1>3, <1>4, <1>5, <1>6 DEF Next

\* Every step keeps TransSave a byte outside the calls of Trans.
LEMMA MaskedStep ==
    TypeOK /\ MaskedUnlessInTrans /\ [Next]_vars => MaskedUnlessInTrans'
<1> SUFFICES ASSUME TypeOK, MaskedUnlessInTrans, [Next]_vars
             PROVE  MaskedUnlessInTrans'
  OBVIOUS
<1> USE DEF TypeOK, MaskedUnlessInTrans, Masking, Access
<1>1. CASE UNCHANGED vars
  BY <1>1 DEF vars
<1>2. ASSUME NEW c \in Consumers, AddLoad(c)
      PROVE  MaskedUnlessInTrans'
  BY <1>2, SMT DEF AddLoad
<1>3. ASSUME NEW c \in Consumers, AddStore(c)
      PROVE  MaskedUnlessInTrans'
  BY <1>3, SMT DEF AddStore
<1>4. ASSUME NEW c \in Consumers, MaskLoad(c)
      PROVE  MaskedUnlessInTrans'
  BY <1>4, SMT DEF MaskLoad
<1>5. ASSUME NEW c \in Consumers, MaskStore(c)
      PROVE  MaskedUnlessInTrans'
  BY <1>5, MaskedByte, SMT DEF MaskStore, Store
<1>6. ASSUME NEW n \in SleepArgs, Sleep(n)
      PROVE  MaskedUnlessInTrans'
  BY <1>6 DEF Sleep
<1> QED
  BY <1>1, <1>2, <1>3, <1>4, <1>5, <1>6 DEF Next

\* The types and the byte, in every state.
THEOREM TandsInv == Spec => [](TypeOK /\ MaskedUnlessInTrans)
<1>1. Init => TypeOK /\ MaskedUnlessInTrans
  BY TandsAssumption, IntBounds, SMT DEF Init, TypeOK, MaskedUnlessInTrans
<1> QED
  BY <1>1, TypeStep, MaskedStep, PTL DEF Spec

\* The variables keep their types, and the intermediate values of Trans and Sleep
\* are ints (tands.cpp).
THEOREM TandsTypeCorrect == Spec => []TypeOK
BY TandsInv, PTL

\* However the loads and stores of concurrent calls interleave, TransSave is a
\* byte whenever no call is between its two assignments.
THEOREM MaskedOutsideTrans == Spec => []MaskedUnlessInTrans
BY TandsInv, PTL

\* A Sleep that no half-done Trans races hands nanosleep a valid duration.
THEOREM SleepSafe == Spec => SleepValidUnlessRacing
<1>1. ASSUME TypeOK, TypeOK', MaskedUnlessInTrans, [Next]_vars
      PROVE  [Masking = {} /\ tv_nsec' # tv_nsec => ValidNanoseconds']_vars
  <2> SUFFICES ASSUME Masking = {}, tv_nsec' # tv_nsec
               PROVE  ValidNanoseconds'
    OBVIOUS
  <2>1. PICK n \in SleepArgs : Sleep(n)
    BY <1>1 DEF Next, vars, AddLoad, AddStore, MaskLoad, MaskStore
  <2>2. tv_nsec'.save \in 0 .. 255
    BY <1>1, <2>1 DEF Sleep, MaskedUnlessInTrans
  <2>3. tv_nsec'.n \in 1 .. 99
    BY <1>1 DEF TypeOK
  <2>4. ValidDuration(tv_nsec'.n, tv_nsec'.save)
    BY <2>2, <2>3, ByteIsValid, Zenon
  <2> QED
    BY <2>4 DEF ValidNanoseconds
<1> QED
  BY <1>1, TandsInv, TypeStep, PTL DEF Spec, SleepValidUnlessRacing
=============================================================================
