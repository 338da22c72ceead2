----------------------------- MODULE DataLemmas -----------------------------
(***************************************************************************)
(* Lemmas about the data the models use: induction stated over sets, which *)
(* the provers can instantiate; functions defined by recursion over the    *)
(* subsets of a finite set, as the folds of the community modules are;     *)
(* sums of functions; the sequences without some entry.                    *)
(***************************************************************************)
EXTENDS Compaction, FiniteSetTheorems, SequenceTheorems, WellFoundedInduction, TLAPS

-----------------------------------------------------------------------------
(* Induction.                                                              *)

Less == {ss \in Nat \X Nat : ss[1] < ss[2]}

LEMMA LessWellFounded == IsWellFoundedOn(Less, Nat)
BY NatLessThanWellFounded DEF OpToRel, Less

\* A set of naturals with 0 and the successors of its elements has them all.
LEMMA NatSetInduction ==
    ASSUME NEW T \in SUBSET Nat, 0 \in T, \A n \in T : n + 1 \in T
    PROVE  T = Nat
<1>1. SUFFICES ASSUME Nat \ T # {} PROVE FALSE
  OBVIOUS
<1>2. PICK x \in Nat \ T : \A y \in Nat \ T : <<y, x>> \notin Less
  BY <1>1, LessWellFounded, WFMin
<1>3. x - 1 \in Nat /\ x - 1 < x
  BY <1>2
<1>4. x - 1 \in T
  BY <1>2, <1>3 DEF Less
<1> QED
  BY <1>2, <1>4

\* A set of sets that has a subset of the finite set S whenever it has all the
\* smaller ones has every subset of S.
LEMMA SubsetInduction ==
    ASSUME NEW S, IsFiniteSet(S), NEW F,
           \A T \in SUBSET S : (\A U \in SUBSET T : U # T => U \in F) => T \in F
    PROVE  \A T \in SUBSET S : T \in F
<1> DEFINE N == {n \in Nat : \A T \in SUBSET S : Cardinality(T) <= n => T \in F}
<1>1. \A T \in SUBSET S : IsFiniteSet(T) /\ Cardinality(T) \in Nat
  BY FS_Subset, FS_CardinalityType
<1>2. ASSUME NEW n \in Nat, NEW T \in SUBSET S, Cardinality(T) <= n,
             \A U \in SUBSET S : Cardinality(U) <= n - 1 => U \in F
      PROVE  T \in F
  <2>1. ASSUME NEW U \in SUBSET T, U # T PROVE U \in F
    <3>1. Cardinality(U) <= Cardinality(T) /\ Cardinality(U) # Cardinality(T)
      BY <1>1, <2>1, FS_Subset
    <3>2. Cardinality(U) <= n - 1
      BY <1>1, <1>2, <3>1
    <3> QED
      BY <1>2, <3>2
  <2> QED
    BY <2>1
<1>3. 0 \in N
  <2>1. \A U \in SUBSET S : ~(Cardinality(U) <= 0 - 1)
    BY <1>1
  <2> QED
    BY <1>2, <2>1
<1>4. ASSUME NEW n \in Nat, n \in N PROVE n + 1 \in N
  <2>1. \A U \in SUBSET S : Cardinality(U) <= (n + 1) - 1 => U \in F
    BY <1>4
  <2>2. \A T \in SUBSET S : Cardinality(T) <= n + 1 => T \in F
    BY <1>2, <2>1
  <2> QED
    BY <2>2
<1>5. N = Nat
  <2>1. N \in SUBSET Nat
    OBVIOUS
  <2> HIDE DEF N
  <2> QED
    BY <1>3, <1>4, <2>1, NatSetInduction
<1> QED
  BY <1>1, <1>5

-----------------------------------------------------------------------------
(* Recursion.                                                              *)

\* g is defined on the subsets of S by recursion: its value on a set depends on
\* the set and on its value on the set without a chosen element.
RecursiveOn(S, V, base, pick, step, g) ==
    /\ g \in [SUBSET S -> V]
    /\ \A T \in SUBSET S :
          g[T] = IF T = {} THEN base ELSE step[<<T, g[T \ {pick[T]}]>>]

\* Such a definition has a solution.
LEMMA SubsetRecursion ==
    ASSUME NEW S, IsFiniteSet(S), NEW V, NEW base \in V,
           NEW pick, \A T \in SUBSET S : T # {} => pick[T] \in T,
           NEW step \in [(SUBSET S) \X V -> V]
    PROVE  \E g : RecursiveOn(S, V, base, pick, step, g)
<1> DEFINE Eq(g, T) == g[T] = IF T = {} THEN base ELSE step[<<T, g[T \ {pick[T]}]>>]
           N == {n \in Nat : \E g \in [SUBSET S -> V] :
                    \A T \in SUBSET S : Cardinality(T) <= n => Eq(g, T)}
<1>1. \A T \in SUBSET S : IsFiniteSet(T) /\ Cardinality(T) \in Nat
  BY FS_Subset, FS_CardinalityType
<1>2. 0 \in N
  <2>1. \A T \in SUBSET S : Cardinality(T) <= 0 => T = {}
    BY <1>1, FS_EmptySet
  <2>2. \A T \in SUBSET S : Cardinality(T) <= 0 => Eq([U \in SUBSET S |-> base], T)
    BY <2>1
  <2> QED
    BY <2>2
<1>3. ASSUME NEW n \in Nat, n \in N
      PROVE  n + 1 \in N
  <2>1. PICK g \in [SUBSET S -> V] :
              \A T \in SUBSET S : Cardinality(T) <= n => Eq(g, T)
    BY <1>3
  <2> DEFINE h == [T \in SUBSET S |-> IF Cardinality(T) = n + 1
                                      THEN step[<<T, g[T \ {pick[T]}]>>] ELSE g[T]]
  <2>2. ASSUME NEW T \in SUBSET S, Cardinality(T) <= n + 1
        PROVE  h[T] \in V /\ Eq(h, T)
    <3>1. CASE T = {}
      <4>1. Cardinality(T) = 0 /\ 0 <= n /\ 0 # n + 1
        BY <3>1, FS_EmptySet
      <4>2. Eq(g, T)
        BY <2>1, <4>1
      <4>3. h[T] = g[T]
        BY <4>1
      <4> QED
        BY <3>1, <4>2, <4>3
    <3>2. CASE T # {}
      <4>1. /\ T \ {pick[T]} \in SUBSET S
            /\ Cardinality(T \ {pick[T]}) = Cardinality(T) - 1
        BY <1>1, <3>2, FS_RemoveElement
      <4>2. h[T \ {pick[T]}] = g[T \ {pick[T]}]
        BY <1>1, <2>2, <4>1
      <4>3. CASE Cardinality(T) = n + 1
        BY <3>2, <4>1, <4>2, <4>3
      <4>4. CASE Cardinality(T) # n + 1
        <5>1. Cardinality(T) <= n
          BY <1>1, <2>2, <4>4
        <5>2. Eq(g, T) /\ g[T] \in V
          BY <2>1, <5>1
        <5>3. h[T] = g[T]
          BY <4>4
        <5> QED
          BY <3>2, <4>2, <5>2, <5>3
      <4> QED
        BY <4>3, <4>4
    <3> QED
      BY <3>1, <3>2
  <2>3. h \in [SUBSET S -> V]
    <3>1. ASSUME NEW T \in SUBSET S PROVE h[T] \in V
      BY <1>1, <2>2
    <3> QED
      BY <3>1
  <2> HIDE DEF h, Eq
  <2>4. \A T \in SUBSET S : Cardinality(T) <= n + 1 => Eq(h, T)
    BY <2>2
  <2> QED
    BY <2>3, <2>4
<1>4. N = Nat
  <2>1. N \in SUBSET Nat
    OBVIOUS
  <2> HIDE DEF N
  <2> QED
    BY <1>2, <1>3, <2>1, NatSetInduction
<1>5. PICK g \in [SUBSET S -> V] :
            \A T \in SUBSET S : Cardinality(T) <= Cardinality(S) => Eq(g, T)
  BY <1>1, <1>4
<1>6. \A T \in SUBSET S : Cardinality(T) <= Cardinality(S)
  BY FS_Subset
<1> QED
  BY <1>5, <1>6 DEF RecursiveOn

-----------------------------------------------------------------------------
(* Sums.                                                                   *)

\* g is the recursion that SumFunctionOnSet(f, S) stands for.
SumRec(f, S, g) == g = [T \in SUBSET S |->
                          IF T = {} THEN 0
                          ELSE f[CHOOSE x \in T : TRUE] + g[T \ {CHOOSE x \in T : TRUE}]]

LEMMA SumRecExists ==
    ASSUME NEW S, IsFiniteSet(S), NEW f, \A x \in S : f[x] \in Nat
    PROVE  \E g : SumRec(f, S, g) /\ g \in [SUBSET S -> Nat]
<1> DEFINE pick == [T \in SUBSET S |-> CHOOSE x \in T : TRUE]
           step == [p \in (SUBSET S) \X Nat |->
                      IF p[1] = {} THEN 0 ELSE f[pick[p[1]]] + p[2]]
<1>1. \A T \in SUBSET S : T # {} => pick[T] \in T
  OBVIOUS
<1>2. step \in [(SUBSET S) \X Nat -> Nat]
  BY <1>1
<1>3. \A T \in SUBSET S : \A n \in Nat : T # {} =>
            step[<<T, n>>] = f[pick[T]] + n
  OBVIOUS
<1>4. \A T \in SUBSET S : pick[T] = CHOOSE x \in T : TRUE
  OBVIOUS
<1> HIDE DEF pick, step
<1>5. PICK g : RecursiveOn(S, Nat, 0, pick, step, g)
  <2>1. 0 \in Nat
    OBVIOUS
  <2> QED
    BY <1>1, <1>2, <2>1, SubsetRecursion, Zenon
<1>6. ASSUME NEW T \in SUBSET S
      PROVE  g[T] = IF T = {} THEN 0
                    ELSE f[CHOOSE x \in T : TRUE] + g[T \ {CHOOSE x \in T : TRUE}]
  <2>1. T \ {pick[T]} \in SUBSET S
    OBVIOUS
  <2>2. g[T \ {pick[T]}] \in Nat
    BY <2>1, <1>5 DEF RecursiveOn
  <2>3. CASE T = {}
    BY <1>5, <2>3 DEF RecursiveOn
  <2>4. CASE T # {}
    <3>1. g[T] = step[<<T, g[T \ {pick[T]}]>>]
      BY <1>5, <2>4 DEF RecursiveOn
    <3>2. g[T] = f[pick[T]] + g[T \ {pick[T]}]
      BY <1>3, <2>2, <2>4, <3>1
    <3> QED
      BY <1>4, <2>4, <3>2, Zenon
  <2> QED
    BY <2>3, <2>4
<1> QED
  BY <1>5, <1>6 DEF SumRec, RecursiveOn

\* What the sum over S is one such recursion's value of.
LEMMA SumIsRec ==
    ASSUME NEW S, IsFiniteSet(S), NEW f, \A x \in S : f[x] \in Nat
    PROVE  \E g : SumRec(f, S, g) /\ SumFunctionOnSet(f, S) = g[S]
<1>1. PICK h : SumRec(f, S, h)
  BY SumRecExists
<1> QED
  BY <1>1, Zenon DEF SumRec, SumFunctionOnSet, FoldFunctionOnSet, MapThenFoldSet

\* Such a recursion on a smaller set, and for a function that is the same there,
\* has the same values.
LEMMA SumRecUnique ==
    ASSUME NEW S, NEW U \in SUBSET S, IsFiniteSet(U), NEW f, NEW e,
           \A x \in U : f[x] = e[x],
           NEW g, NEW h, SumRec(f, S, g), SumRec(e, U, h)
    PROVE  \A T \in SUBSET U : g[T] = h[T]
<1> DEFINE F == {T \in SUBSET U : g[T] = h[T]}
<1>1. ASSUME NEW T \in SUBSET U, \A W \in SUBSET T : W # T => W \in F
      PROVE  T \in F
  <2>1. CASE T = {}
    BY <2>1 DEF SumRec
  <2>2. CASE T # {}
    <3>1. PICK x : x = CHOOSE y \in T : TRUE
      OBVIOUS
    <3>2. x \in T
      BY <2>2, <3>1
    <3>3. g[T] = f[x] + g[T \ {x}]
      BY <2>2, <3>1 DEF SumRec
    <3>4. h[T] = e[x] + h[T \ {x}]
      BY <2>2, <3>1 DEF SumRec
    <3>5. T \ {x} \in F
      BY <1>1, <3>2
    <3> QED
      BY <3>2, <3>3, <3>4, <3>5
  <2> QED
    BY <2>1, <2>2
<1> HIDE DEF F
<1>2. \A T \in SUBSET U : T \in F
  BY <1>1, SubsetInduction
<1> QED
  BY <1>2 DEF F

\* A sum depends on the values summed only.
LEMMA SumSame ==
    ASSUME NEW S, IsFiniteSet(S), NEW f, NEW e, \A x \in S : f[x] \in Nat,
           \A x \in S : e[x] = f[x]
    PROVE  SumFunctionOnSet(e, S) = SumFunctionOnSet(f, S)
<1>1. \A x \in S : e[x] \in Nat
  OBVIOUS
<1>2. PICK g : SumRec(f, S, g) /\ SumFunctionOnSet(f, S) = g[S]
  BY SumIsRec
<1>3. PICK h : SumRec(e, S, h) /\ SumFunctionOnSet(e, S) = h[S]
  BY <1>1, SumIsRec
<1>4. \A T \in SUBSET S : g[T] = h[T]
  BY <1>2, <1>3, SumRecUnique
<1> QED
  BY <1>2, <1>3, <1>4

\* A sum of naturals is a natural, 0 on the empty set, and otherwise that
\* without some element, and that element's value.
LEMMA SumUnfold ==
    ASSUME NEW S, IsFiniteSet(S), NEW f, \A x \in S : f[x] \in Nat
    PROVE  /\ SumFunctionOnSet(f, S) \in Nat
           /\ S = {} => SumFunctionOnSet(f, S) = 0
           /\ S # {} => \E x \in S : SumFunctionOnSet(f, S)
                                     = f[x] + SumFunctionOnSet(f, S \ {x})
<1>1. PICK g : SumRec(f, S, g) /\ g \in [SUBSET S -> Nat]
  BY SumRecExists
<1>2. \A T \in SUBSET S : SumFunctionOnSet(f, T) = g[T]
  <2> TAKE T \in SUBSET S
  <2>1. IsFiniteSet(T) /\ \A x \in T : f[x] \in Nat
    BY FS_Subset
  <2>2. PICK h : SumRec(f, T, h) /\ SumFunctionOnSet(f, T) = h[T]
    BY <2>1, SumIsRec
  <2>3. \A W \in SUBSET T : g[W] = h[W]
    BY <1>1, <2>1, <2>2, SumRecUnique
  <2> QED
    BY <2>2, <2>3
<1>3. S # {} => \E x \in S : g[S] = f[x] + g[S \ {x}]
  <2> SUFFICES ASSUME S # {} PROVE \E x \in S : g[S] = f[x] + g[S \ {x}]
    OBVIOUS
  <2>1. PICK x : x = CHOOSE y \in S : TRUE
    OBVIOUS
  <2>2. x \in S
    BY <2>1
  <2>3. g[S] = f[x] + g[S \ {x}]
    BY <1>1, <2>1 DEF SumRec
  <2> QED
    BY <2>2, <2>3
<1>4. g[S] \in Nat /\ (S = {} => g[S] = 0)
  BY <1>1 DEF SumRec
<1>5. SumFunctionOnSet(f, S) = g[S]
  BY <1>2
<1>6. \A x \in S : SumFunctionOnSet(f, S \ {x}) = g[S \ {x}]
  BY <1>2
<1> QED
  BY <1>3, <1>4, <1>5, <1>6

\* Any element may be taken out of a sum.
LEMMA SumRemove ==
    ASSUME NEW S, IsFiniteSet(S), NEW f, \A x \in S : f[x] \in Nat, NEW y \in S
    PROVE  /\ SumFunctionOnSet(f, S \ {y}) \in Nat
           /\ SumFunctionOnSet(f, S) = f[y] + SumFunctionOnSet(f, S \ {y})
<1> DEFINE Sum(T) == SumFunctionOnSet(f, T)
           F == {T \in SUBSET S : \A z \in T : Sum(T) = f[z] + Sum(T \ {z})}
<1>1. \A T \in SUBSET S : /\ IsFiniteSet(T) /\ \A x \in T : f[x] \in Nat
                          /\ Sum(T) \in Nat
                          /\ T # {} => \E x \in T : Sum(T) = f[x] + Sum(T \ {x})
  BY FS_Subset, SumUnfold
<1> HIDE DEF Sum
<1>2. ASSUME NEW T \in SUBSET S, \A U \in SUBSET T : U # T => U \in F
      PROVE  T \in F
  <2> SUFFICES ASSUME NEW z \in T PROVE Sum(T) = f[z] + Sum(T \ {z})
    OBVIOUS
  <2>1. PICK x \in T : Sum(T) = f[x] + Sum(T \ {x})
    BY <1>1
  <2>2. CASE x # z
    <3>1. Sum(T \ {x}) = f[z] + Sum((T \ {x}) \ {z})
      BY <1>2, <2>2
    <3>2. Sum(T \ {z}) = f[x] + Sum((T \ {z}) \ {x})
      BY <1>2, <2>2
    <3>3. (T \ {x}) \ {z} = (T \ {z}) \ {x}
      OBVIOUS
    <3>4. PICK r \in Nat : r = Sum((T \ {z}) \ {x})
      BY <1>1
    <3>5. Sum((T \ {x}) \ {z}) = r
      BY <3>3, <3>4
    <3>6. Sum(T) = f[x] + (f[z] + r) /\ Sum(T \ {z}) = f[x] + r
      BY <2>1, <3>1, <3>2, <3>4, <3>5
    <3>7. PICK i \in Nat, j \in Nat : i = f[x] /\ j = f[z]
      OBVIOUS
    <3> QED
      BY <3>4, <3>6, <3>7
  <2> QED
    BY <2>1, <2>2
<1>3. \A T \in SUBSET S : T \in F
  <2> HIDE DEF F
  <2> QED
    BY <1>2, SubsetInduction
<1>4. Sum(S) = f[y] + Sum(S \ {y}) /\ Sum(S \ {y}) \in Nat
  BY <1>1, <1>3
<1> QED
  BY <1>4 DEF Sum

\* One more at one element is one more in the sum.
LEMMA SumIncrement ==
    ASSUME NEW S, IsFiniteSet(S), NEW f, \A x \in S : f[x] \in Nat, NEW y \in S,
           NEW e, e[y] = f[y] + 1, \A x \in S \ {y} : e[x] = f[x]
    PROVE  SumFunctionOnSet(e, S) = SumFunctionOnSet(f, S) + 1
<1>1. \A x \in S : e[x] \in Nat
  OBVIOUS
<1>2. IsFiniteSet(S \ {y})
  BY FS_Subset
<1>3. SumFunctionOnSet(e, S \ {y}) = SumFunctionOnSet(f, S \ {y})
  BY <1>2, SumSame
<1>4. SumFunctionOnSet(e, S) = e[y] + SumFunctionOnSet(e, S \ {y})
  BY <1>1, SumRemove
<1>5. /\ SumFunctionOnSet(f, S) = f[y] + SumFunctionOnSet(f, S \ {y})
      /\ SumFunctionOnSet(f, S \ {y}) \in Nat
  BY SumRemove
<1> QED
  BY <1>3, <1>4, <1>5

\* A sum of zeros.
LEMMA SumZero ==
    ASSUME NEW S, IsFiniteSet(S), NEW f, \A x \in S : f[x] = 0
    PROVE  SumFunctionOnSet(f, S) = 0
<1> DEFINE F == {T \in SUBSET S : SumFunctionOnSet(f, T) = 0}
<1>1. ASSUME NEW T \in SUBSET S, \A U \in SUBSET T : U # T => U \in F
      PROVE  T \in F
  <2>1. IsFiniteSet(T) /\ \A x \in T : f[x] \in Nat
    BY FS_Subset
  <2>2. CASE T = {}
    BY <2>1, <2>2, SumUnfold
  <2>3. CASE T # {}
    <3>1. PICK x \in T : SumFunctionOnSet(f, T) = f[x] + SumFunctionOnSet(f, T \ {x})
      BY <2>1, <2>3, SumUnfold
    <3>2. SumFunctionOnSet(f, T \ {x}) = 0
      BY <1>1
    <3>3. SumFunctionOnSet(f, T) = 0
      BY <3>1, <3>2
    <3> QED
      BY <3>3
  <2> QED
    BY <2>2, <2>3
<1>2. \A T \in SUBSET S : T \in F
  <2> HIDE DEF F
  <2> QED
    BY <1>1, SubsetInduction
<1> QED
  BY <1>2

-----------------------------------------------------------------------------
(* Sequences without some entry.                                           *)

\* A set of positions has a last one.
LEMMA MaxIsLast ==
    ASSUME NEW n \in Nat, NEW T \in SUBSET (1 .. n), T # {}
    PROVE  Max(T) \in T /\ \A y \in T : y <= Max(T)
<1> DEFINE N == {k \in Nat : \A U \in SUBSET (1 .. k) :
                    U # {} => \E m \in U : \A y \in U : y <= m}
<1>1. 0 \in N
  <2>1. 1 .. 0 = {}
    OBVIOUS
  <2> QED
    BY <2>1
<1>2. ASSUME NEW k \in Nat, k \in N PROVE k + 1 \in N
  <2> SUFFICES ASSUME NEW U \in SUBSET (1 .. k + 1), U # {}
               PROVE  \E m \in U : \A y \in U : y <= m
    OBVIOUS
  <2>1. CASE k + 1 \in U
    BY <2>1
  <2>2. CASE k + 1 \notin U
    <3>1. U \in SUBSET (1 .. k)
      BY <2>2
    <3> QED
      BY <1>2, <3>1
  <2> QED
    BY <2>1, <2>2
<1>3. N = Nat
  <2>1. N \in SUBSET Nat
    OBVIOUS
  <2> HIDE DEF N
  <2> QED
    BY <1>1, <1>2, <2>1, NatSetInduction
<1>4. PICK m \in T : \A y \in T : y <= m
  BY <1>3
<1>5. \E x \in T : \A y \in T : x >= y
  BY <1>4
<1>6. Max(T) \in T /\ \A y \in T : Max(T) >= y
  BY <1>5 DEF Max
<1> QED
  BY <1>6

\* g is the recursion that Without(s, X) stands for.
WithoutRec(s, X, g) ==
    g = [T \in SUBSET DOMAIN s |->
           IF T = {} THEN <<>>
           ELSE IF s[Max(T)] \in X THEN g[T \ {Max(T)}]
                ELSE Append(g[T \ {Max(T)}], s[Max(T)])]

LEMMA WithoutRecExists ==
    ASSUME NEW E, NEW s \in Seq(E), NEW X
    PROVE  \E g : WithoutRec(s, X, g) /\ g \in [SUBSET DOMAIN s -> Seq(E)]
<1> DEFINE S == DOMAIN s
           pick == [T \in SUBSET S |-> Max(T)]
           step == [p \in (SUBSET S) \X Seq(E) |->
                      IF p[1] = {} \/ s[pick[p[1]]] \in X THEN p[2]
                      ELSE Append(p[2], s[pick[p[1]]])]
<1>1. S = 1 .. Len(s) /\ Len(s) \in Nat /\ IsFiniteSet(S)
  BY FS_Interval
<1>2. \A T \in SUBSET S : T # {} => pick[T] \in T
  BY <1>1, MaxIsLast
<1>3. step \in [(SUBSET S) \X Seq(E) -> Seq(E)]
  <2>1. ASSUME NEW T \in SUBSET S, NEW q \in Seq(E), T # {}
        PROVE  Append(q, s[pick[T]]) \in Seq(E)
    <3>1. pick[T] \in 1 .. Len(s)
      BY <1>1, <1>2, <2>1
    <3>2. s[pick[T]] \in E
      BY <3>1, ElementOfSeq
    <3> QED
      BY <3>2, AppendProperties
  <2> QED
    BY <2>1
<1>4. \A T \in SUBSET S : \A q \in Seq(E) : T # {} =>
            step[<<T, q>>] = IF s[pick[T]] \in X THEN q ELSE Append(q, s[pick[T]])
  OBVIOUS
<1>5. \A T \in SUBSET S : pick[T] = Max(T)
  OBVIOUS
<1>6. <<>> \in Seq(E)
  OBVIOUS
<1> HIDE DEF pick, step
<1>7. PICK g : RecursiveOn(S, Seq(E), <<>>, pick, step, g)
  BY <1>1, <1>2, <1>3, <1>6, SubsetRecursion, Zenon
<1>8. ASSUME NEW T \in SUBSET S
      PROVE  g[T] = IF T = {} THEN <<>>
                    ELSE IF s[Max(T)] \in X THEN g[T \ {Max(T)}]
                         ELSE Append(g[T \ {Max(T)}], s[Max(T)])
  <2>1. T \ {pick[T]} \in SUBSET S
    OBVIOUS
  <2>2. g[T \ {pick[T]}] \in Seq(E)
    BY <2>1, <1>7 DEF RecursiveOn
  <2>3. CASE T = {}
    BY <1>7, <2>3 DEF RecursiveOn
  <2>4. CASE T # {}
    <3>1. g[T] = step[<<T, g[T \ {pick[T]}]>>]
      BY <1>7, <2>4 DEF RecursiveOn
    <3>2. g[T] = IF s[pick[T]] \in X THEN g[T \ {pick[T]}]
                 ELSE Append(g[T \ {pick[T]}], s[pick[T]])
      BY <1>4, <2>2, <2>4, <3>1
    <3> QED
      BY <1>5, <2>4, <3>2
  <2> QED
    BY <2>3, <2>4
<1> QED
  BY <1>7, <1>8 DEF WithoutRec, RecursiveOn

\* Without(s, X) goes through s entry by entry: h[k] is what it keeps of the
\* first k.
KeepsOf(s, X, h) ==
    /\ h[0] = <<>>
    /\ \A k \in 1 .. Len(s) : h[k] = IF s[k] \in X THEN h[k - 1] ELSE Append(h[k - 1], s[k])

LEMMA WithoutKeeps ==
    ASSUME NEW E, NEW s \in Seq(E), NEW X
    PROVE  \E h \in [0 .. Len(s) -> Seq(E)] :
              KeepsOf(s, X, h) /\ Without(s, X) = h[Len(s)]
<1>1. PICK e : WithoutRec(s, X, e) /\ e \in [SUBSET DOMAIN s -> Seq(E)]
  BY WithoutRecExists
<1>2. PICK g : WithoutRec(s, X, g) /\ Without(s, X) = g[DOMAIN s]
  BY <1>1, Zenon DEF WithoutRec, Without, FoldLeft, MapThenFoldSet
<1> DEFINE n == Len(s)
           h == [k \in 0 .. n |-> g[1 .. k]]
<1>3. DOMAIN s = 1 .. n /\ n \in Nat
  BY LenProperties
<1>4. h[0] = <<>> /\ h[n] = Without(s, X)
  <2>1. 1 .. 0 = {} /\ {} \in SUBSET DOMAIN s
    OBVIOUS
  <2>2. g[1 .. 0] = <<>>
    BY <1>2, <2>1 DEF WithoutRec
  <2> QED
    BY <1>2, <1>3, <2>2
<1>5. ASSUME NEW k \in 1 .. n
      PROVE  h[k] = IF s[k] \in X THEN h[k - 1] ELSE Append(h[k - 1], s[k])
  <2>1. 1 .. k \in SUBSET DOMAIN s /\ 1 .. k # {} /\ k \in Nat
    <3>1. k \in Nat /\ 1 <= k /\ k <= n
      BY <1>3
    <3>2. \A y \in 1 .. k : y \in 1 .. n
      BY <1>3, <3>1
    <3>3. 1 \in 1 .. k
      BY <3>1
    <3> QED
      BY <1>3, <3>1, <3>2, <3>3
  <2>2. Max(1 .. k) = k
    <3>1. Max(1 .. k) \in 1 .. k /\ \A y \in 1 .. k : y <= Max(1 .. k)
      BY <2>1, MaxIsLast
    <3> QED
      BY <2>1, <3>1
  <2>3. (1 .. k) \ {k} = 1 .. k - 1
    BY <2>1
  <2>4. g[1 .. k] = IF s[k] \in X THEN g[1 .. k - 1] ELSE Append(g[1 .. k - 1], s[k])
    BY <1>2, <2>1, <2>2, <2>3 DEF WithoutRec
  <2>5. k \in 0 .. n /\ k - 1 \in 0 .. n
    BY <1>3
  <2> QED
    BY <2>4, <2>5
<1> HIDE DEF h
<1>6. \A k \in 0 .. n : h[k] \in Seq(E)
  <2> DEFINE N == {k \in Nat : k <= n => h[k] \in Seq(E)}
  <2>1. 0 \in N
    <3>1. <<>> \in Seq(E)
      OBVIOUS
    <3> QED
      BY <1>4, <3>1
  <2>2. ASSUME NEW k \in Nat, k \in N PROVE k + 1 \in N
    <3> SUFFICES ASSUME k + 1 <= n PROVE h[k + 1] \in Seq(E)
      OBVIOUS
    <3>1. k + 1 \in 1 .. n /\ (k + 1) - 1 = k /\ k <= n
      BY <1>3
    <3>2. h[k] \in Seq(E)
      BY <2>2, <3>1
    <3>3. s[k + 1] \in E
      BY <3>1, ElementOfSeq
    <3>4. Append(h[k], s[k + 1]) \in Seq(E)
      BY <3>2, <3>3, AppendProperties
    <3>5. h[k + 1] = IF s[k + 1] \in X THEN h[k] ELSE Append(h[k], s[k + 1])
      BY <1>5, <3>1
    <3> QED
      BY <3>2, <3>4, <3>5
  <2>3. N = Nat
    <3>1. N \in SUBSET Nat
      OBVIOUS
    <3> HIDE DEF N
    <3> QED
      BY <2>1, <2>2, <3>1, NatSetInduction
  <2> QED
    BY <1>3, <2>3
<1>7. h \in [0 .. n -> Seq(E)]
  BY <1>6 DEF h
<1> QED
  BY <1>4, <1>5, <1>7 DEF KeepsOf

\* m tells where the entries of t stand among the first k of s: in their order,
\* and all but those in X.
Places(s, X, k, t, m) ==
    /\ Len(t) <= k
    /\ m \in [1 .. Len(t) -> 1 .. k]
    /\ \A i \in 1 .. Len(t) : t[i] = s[m[i]] /\ s[m[i]] \notin X
    /\ \A i, j \in 1 .. Len(t) : i < j => m[i] < m[j]
    /\ \A l \in 1 .. k : s[l] \notin X => \E i \in 1 .. Len(t) : m[i] = l

\* Without(s, X) is the sequence of the entries of s that are not in X, in order.
LEMMA WithoutPlaces ==
    ASSUME NEW E, NEW s \in Seq(E), NEW X
    PROVE  /\ Without(s, X) \in Seq(E)
           /\ \E m : Places(s, X, Len(s), Without(s, X), m)
<1>1. PICK h \in [0 .. Len(s) -> Seq(E)] :
            KeepsOf(s, X, h) /\ Without(s, X) = h[Len(s)]
  BY WithoutKeeps
<1> DEFINE n == Len(s)
           N == {k \in Nat : k <= n => \E m : Places(s, X, k, h[k], m)}
<1>2. n \in Nat
  BY LenProperties
<1>3. 0 \in N
  <2>1. Places(s, X, 0, <<>>, [i \in 1 .. 0 |-> 1])
    BY DEF Places
  <2> QED
    BY <1>1, <2>1 DEF KeepsOf
<1>4. ASSUME NEW k \in Nat, k \in N PROVE k + 1 \in N
  <2> SUFFICES ASSUME k + 1 <= n PROVE \E m : Places(s, X, k + 1, h[k + 1], m)
    OBVIOUS
  <2>1. PICK m : Places(s, X, k, h[k], m)
    BY <1>2, <1>4
  <2>2. k + 1 \in 1 .. n /\ k \in 0 .. n
    BY <1>2
  <2>3. h[k + 1] = IF s[k + 1] \in X THEN h[k] ELSE Append(h[k], s[k + 1])
    BY <1>1, <2>2 DEF KeepsOf
  <2>4. h[k] \in Seq(E) /\ Len(h[k]) \in Nat
    BY <1>1, <2>2, LenProperties
  <2>5. CASE s[k + 1] \in X
    <3>1. Places(s, X, k + 1, h[k], m)
      BY <2>1, <2>4, <2>5 DEF Places
    <3> QED
      BY <2>3, <2>5, <3>1
  <2>6. CASE s[k + 1] \notin X
    <3> DEFINE t == Append(h[k], s[k + 1])
               l == Len(h[k]) + 1
               p == [i \in 1 .. l |-> IF i = l THEN k + 1 ELSE m[i]]
    <3>1. s[k + 1] \in E
      BY <2>2, ElementOfSeq
    <3>2. /\ Len(t) = l /\ t[l] = s[k + 1]
          /\ \A i \in 1 .. l - 1 : t[i] = h[k][i]
      BY <2>4, <3>1, AppendProperties
    <3>3. Places(s, X, k + 1, t, p)
      <4> HIDE DEF t
      <4>1. \A i \in 1 .. l : i # l => i \in 1 .. Len(h[k])
        BY <2>4
      <4>2. Len(t) <= k + 1 /\ p \in [1 .. Len(t) -> 1 .. k + 1]
        BY <2>1, <2>4, <3>2, <4>1 DEF Places
      <4>3. \A i \in 1 .. Len(t) : t[i] = s[p[i]] /\ s[p[i]] \notin X
        BY <2>1, <2>4, <2>6, <3>2, <4>1 DEF Places
      <4>4. /\ l \in 1 .. l /\ p[l] = k + 1
            /\ \A i \in 1 .. l - 1 : i \in 1 .. l /\ p[i] = m[i] /\ m[i] \in 1 .. k
        <5>1. l \in Nat /\ l >= 1
          BY <2>4
        <5>2. ASSUME NEW i \in 1 .. l - 1
              PROVE  i \in 1 .. l /\ p[i] = m[i] /\ m[i] \in 1 .. k
          <6>1. i \in 1 .. Len(h[k]) /\ i \in 1 .. l /\ i # l
            BY <2>4, <5>1
          <6> QED
            BY <2>1, <6>1 DEF Places
        <5>3. l \in 1 .. l /\ p[l] = k + 1
          BY <5>1
        <5> QED
          BY <5>2, <5>3, Zenon
      <4> HIDE DEF p
      <4>5. ASSUME NEW i \in 1 .. Len(t), NEW j \in 1 .. Len(t), i < j
            PROVE  p[i] < p[j]
        <5>1. i \in 1 .. l - 1 /\ i \in 1 .. Len(h[k])
          BY <2>4, <3>2, <4>5
        <5>2. CASE j = l
          BY <4>4, <5>1, <5>2
        <5>3. CASE j # l
          <6>1. j \in 1 .. l - 1 /\ j \in 1 .. Len(h[k])
            BY <2>4, <3>2, <5>3
          <6> QED
            BY <2>1, <4>4, <4>5, <5>1, <6>1 DEF Places
        <5> QED
          BY <5>2, <5>3
      <4>6. ASSUME NEW q \in 1 .. k + 1, s[q] \notin X
            PROVE  \E i \in 1 .. Len(t) : p[i] = q
        <5>1. CASE q = k + 1
          BY <3>2, <4>4, <5>1
        <5>2. CASE q # k + 1
          <6>1. q \in 1 .. k
            BY <5>2
          <6>2. PICK i \in 1 .. Len(h[k]) : m[i] = q
            BY <2>1, <4>6, <6>1 DEF Places
          <6>3. i \in 1 .. l - 1 /\ i \in 1 .. Len(t)
            BY <2>4, <3>2, <6>2
          <6> QED
            BY <4>4, <6>2, <6>3
        <5> QED
          BY <5>1, <5>2
      <4> QED
        BY <4>2, <4>3, <4>5, <4>6 DEF Places
    <3> QED
      BY <2>3, <2>6, <3>3
  <2> QED
    BY <2>5, <2>6
<1>5. N = Nat
  <2>1. N \in SUBSET Nat
    OBVIOUS
  <2> HIDE DEF N
  <2> QED
    BY <1>3, <1>4, <2>1, NatSetInduction
<1>6. \E m : Places(s, X, n, h[n], m)
  BY <1>2, <1>5
<1> QED
  BY <1>1, <1>2, <1>6

\* A sequence that has no entry in X is kept as it is.
LEMMA WithoutNone ==
    ASSUME NEW E, NEW s \in Seq(E), NEW X, \A k \in 1 .. Len(s) : s[k] \notin X
    PROVE  Without(s, X) = s
<1>1. PICK h \in [0 .. Len(s) -> Seq(E)] :
            KeepsOf(s, X, h) /\ Without(s, X) = h[Len(s)]
  BY WithoutKeeps
<1> DEFINE n == Len(s)
           N == {k \in Nat : k <= n => /\ Len(h[k]) = k
                                       /\ \A i \in 1 .. k : h[k][i] = s[i]}
<1>2. n \in Nat
  BY LenProperties
<1>3. 0 \in N
  BY <1>1 DEF KeepsOf
<1>4. ASSUME NEW k \in Nat, k \in N PROVE k + 1 \in N
  <2> SUFFICES ASSUME k + 1 <= n
               PROVE  /\ Len(h[k + 1]) = k + 1
                      /\ \A i \in 1 .. k + 1 : h[k + 1][i] = s[i]
    OBVIOUS
  <2>1. k + 1 \in 1 .. n /\ k \in 0 .. n /\ (k + 1) - 1 = k
    BY <1>2
  <2>2. h[k + 1] = Append(h[k], s[k + 1])
    BY <1>1, <2>1 DEF KeepsOf
  <2>3. h[k] \in Seq(E) /\ s[k + 1] \in E
    BY <1>1, <2>1, ElementOfSeq
  <2>4. Len(h[k]) = k /\ \A i \in 1 .. k : h[k][i] = s[i]
    BY <1>4, <2>1
  <2> QED
    BY <2>2, <2>3, <2>4, AppendProperties
<1>5. N = Nat
  <2>1. N \in SUBSET Nat
    OBVIOUS
  <2> HIDE DEF N
  <2> QED
    BY <1>3, <1>4, <2>1, NatSetInduction
<1>6. h[n] \in Seq(E) /\ Len(h[n]) = n /\ \A i \in 1 .. n : h[n][i] = s[i]
  BY <1>1, <1>2, <1>5
<1> QED
  BY <1>1, <1>6, SeqEqual

LEMMA WithoutEmpty == ASSUME NEW X PROVE Without(<<>>, X) = <<>>
<1> DEFINE s == <<>>
<1>1. s \in Seq({}) /\ \A k \in 1 .. Len(s) : s[k] \notin X
  OBVIOUS
<1> HIDE DEF s
<1>2. Without(s, X) = s
  BY <1>1, WithoutNone
<1> QED
  BY <1>2 DEF s

\* An entry in X may be taken out first.
LEMMA WithoutOneLess ==
    ASSUME NEW E, NEW s \in Seq(E), NEW t \in Seq(E), NEW X,
           NEW p \in 1 .. Len(s), s[p] \in X, Len(t) = Len(s) - 1,
           \A k \in 1 .. Len(t) : t[k] = IF k < p THEN s[k] ELSE s[k + 1]
    PROVE  Without(t, X) = Without(s, X)
<1>1. PICK h \in [0 .. Len(s) -> Seq(E)] :
            KeepsOf(s, X, h) /\ Without(s, X) = h[Len(s)]
  BY ONLY WithoutKeeps, s \in Seq(E)
<1>2. PICK g \in [0 .. Len(t) -> Seq(E)] :
            KeepsOf(t, X, g) /\ Without(t, X) = g[Len(t)]
  BY ONLY WithoutKeeps, t \in Seq(E)
<1> DEFINE n == Len(t)
           N == {k \in Nat : k <= n => g[k] = IF k < p THEN h[k] ELSE h[k + 1]}
<1>3. n \in Nat /\ Len(s) = n + 1 /\ p \in 1 .. n + 1
  BY LenProperties
<1>4. p \in 1 .. Len(s) /\ h[p] = h[p - 1]
  BY <1>1 DEF KeepsOf
<1>5. 0 \in N
  BY <1>1, <1>2, <1>3 DEF KeepsOf
<1>6. ASSUME NEW k \in Nat, k \in N PROVE k + 1 \in N
  <2> SUFFICES ASSUME k + 1 <= n
               PROVE  g[k + 1] = IF k + 1 < p THEN h[k + 1] ELSE h[k + 2]
    OBVIOUS
  <2>1. k + 1 \in 1 .. n /\ k + 1 \in 1 .. Len(s) /\ k + 2 \in 1 .. Len(s)
    BY <1>3
  <2>2. g[k + 1] = IF t[k + 1] \in X THEN g[k] ELSE Append(g[k], t[k + 1])
    BY <1>2, <2>1 DEF KeepsOf
  <2>3. /\ h[k + 1] = IF s[k + 1] \in X THEN h[k] ELSE Append(h[k], s[k + 1])
        /\ h[k + 2] = IF s[k + 2] \in X THEN h[k + 1] ELSE Append(h[k + 1], s[k + 2])
    BY <1>1, <2>1 DEF KeepsOf
  <2>4. g[k] = IF k < p THEN h[k] ELSE h[k + 1]
    BY <1>6, <1>3
  <2>5. t[k + 1] = IF k + 1 < p THEN s[k + 1] ELSE s[k + 2]
    BY <2>1
  <2>6. CASE k + 1 < p
    BY <2>2, <2>3, <2>4, <2>5, <2>6, <1>3
  <2>7. CASE k + 1 = p
    BY <1>4, <2>2, <2>3, <2>4, <2>5, <2>7
  <2>8. CASE k + 1 > p
    BY <2>2, <2>3, <2>4, <2>5, <2>8, <1>3
  <2> QED
    BY <1>3, <2>6, <2>7, <2>8
<1>7. N = Nat
  <2>1. N \in SUBSET Nat
    OBVIOUS
  <2> HIDE DEF N
  <2> QED
    BY <1>5, <1>6, <2>1, NatSetInduction
<1>8. g[n] = IF n < p THEN h[n] ELSE h[n + 1]
  BY <1>3, <1>7
<1>9. n < p => p = n + 1 /\ h[n] = h[n + 1]
  BY <1>3, <1>4
<1> QED
  BY <1>1, <1>2, <1>3, <1>8, <1>9

-----------------------------------------------------------------------------
(* Counting.                                                               *)

\* The elements of S among the first k naturals.
UpTo(S, k) == S \cap (1 .. k)

\* One more natural adds one element or none.
LEMMA CountUpTo ==
    ASSUME NEW S, NEW k \in Nat
    PROVE  /\ IsFiniteSet(UpTo(S, k)) /\ Cardinality(UpTo(S, k)) \in Nat
           /\ k + 1 \in S => Cardinality(UpTo(S, k + 1)) = Cardinality(UpTo(S, k)) + 1
           /\ k + 1 \notin S => Cardinality(UpTo(S, k + 1)) = Cardinality(UpTo(S, k))
<1>1. IsFiniteSet(1 .. k)
  BY FS_Interval
<1>2. IsFiniteSet(UpTo(S, k)) /\ Cardinality(UpTo(S, k)) \in Nat
  BY <1>1, FS_Subset, FS_CardinalityType DEF UpTo
<1>3. (1 .. k + 1) = (1 .. k) \cup {k + 1} /\ k + 1 \notin 1 .. k
  OBVIOUS
<1>4. CASE k + 1 \in S
  <2>1. UpTo(S, k + 1) = UpTo(S, k) \cup {k + 1} /\ k + 1 \notin UpTo(S, k)
    BY <1>3, <1>4 DEF UpTo
  <2> QED
    BY <1>2, <1>4, <2>1, FS_AddElement
<1>5. CASE k + 1 \notin S
  <2>1. UpTo(S, k + 1) = UpTo(S, k)
    BY <1>3, <1>5 DEF UpTo
  <2> QED
    BY <1>2, <1>5, <2>1
<1> QED
  BY <1>2, <1>4, <1>5

\* The places of s whose entry is not x.
Others(s, x) == {i \in DOMAIN s : s[i] # x}

\* Appending an entry adds one place or none.
LEMMA OthersAppend ==
    ASSUME NEW E, NEW s \in Seq(E), NEW e \in E, NEW x
    PROVE  /\ Cardinality(Others(s, x)) \in Nat
           /\ e # x => Cardinality(Others(Append(s, e), x)) = Cardinality(Others(s, x)) + 1
           /\ e = x => Cardinality(Others(Append(s, e), x)) = Cardinality(Others(s, x))
<1> DEFINE n == Len(s)
           d == Append(s, e)
<1>1. n \in Nat /\ DOMAIN s = 1 .. n
  BY LenProperties
<1>2. d \in Seq(E) /\ DOMAIN d = 1 .. n + 1 /\ d[n + 1] = e /\ \A i \in 1 .. n : d[i] = s[i]
  BY AppendProperties, LenProperties
<1> HIDE DEF d
<1> DEFINE S == {i \in 1 .. n + 1 : d[i] # x}
<1>3. UpTo(S, n + 1) = Others(d, x)
  BY <1>2 DEF UpTo, Others
<1>4. UpTo(S, n) = Others(s, x)
  BY <1>1, <1>2 DEF UpTo, Others
<1>5. n + 1 \in S <=> e # x
  BY <1>1, <1>2
<1> HIDE DEF S
<1> QED
  BY <1>1, <1>3, <1>4, <1>5, CountUpTo DEF d

\* Taking the first entry off removes its place and shifts the others.
LEMMA OthersTail ==
    ASSUME NEW E, NEW s \in Seq(E), s # <<>>, NEW x
    PROVE  /\ Cardinality(Others(s, x)) \in Nat /\ Cardinality(Others(Tail(s), x)) \in Nat
           /\ Head(s) # x => Cardinality(Others(s, x)) = Cardinality(Others(Tail(s), x)) + 1
           /\ Head(s) = x => Cardinality(Others(s, x)) = Cardinality(Others(Tail(s), x))
<1> DEFINE n == Len(s) - 1
           d == Tail(s)
           A == Others(s, x)
           B == Others(d, x)
           f == [i \in B |-> i + 1]
<1>1. n \in Nat /\ DOMAIN s = 1 .. n + 1
  BY LenProperties, EmptySeq
<1>2. d \in Seq(E) /\ DOMAIN d = 1 .. n /\ \A i \in 1 .. n : d[i] = s[i + 1]
  BY <1>1, HeadTailProperties, LenProperties
<1>3. Head(s) = s[1]
  BY HeadTailProperties
<1> HIDE DEF d, n
<1>4. \A i \in B : i \in 1 .. n /\ i + 1 \in 1 .. n + 1 /\ s[i + 1] # x
  BY <1>1, <1>2 DEF Others
<1>5. \A i \in A \ {1} : i - 1 \in B /\ (i - 1) + 1 = i
  <2> SUFFICES ASSUME NEW i \in A, i # 1 PROVE i - 1 \in B /\ (i - 1) + 1 = i
    OBVIOUS
  <2>1. i \in 1 .. n + 1 /\ s[i] # x
    BY <1>1 DEF Others
  <2>2. i - 1 \in 1 .. n /\ (i - 1) + 1 = i
    BY <1>1, <2>1
  <2>3. d[i - 1] = s[i]
    BY <1>2, <2>2
  <2> QED
    BY <1>2, <2>1, <2>2, <2>3 DEF Others
<1>6. IsFiniteSet(A) /\ IsFiniteSet(B) /\ Cardinality(A) \in Nat /\ Cardinality(B) \in Nat
  <2>1. IsFiniteSet(1 .. n) /\ IsFiniteSet(1 .. n + 1)
    BY <1>1, FS_Interval
  <2>2. A \in SUBSET (1 .. n + 1) /\ B \in SUBSET (1 .. n)
    BY <1>1, <1>2 DEF Others
  <2> QED
    BY <2>1, <2>2, FS_Subset, FS_CardinalityType
<1>7. f \in Bijection(B, A \ {1})
  <2>1. \A i \in B : i + 1 \in A \ {1}
    BY <1>1, <1>4 DEF Others
  <2>2. f \in [B -> A \ {1}]
    BY <2>1
  <2>3. \A i, j \in B : f[i] = f[j] => i = j
    BY <1>4
  <2>4. \A i \in A \ {1} : \E j \in B : f[j] = i
    BY <1>5
  <2> QED
    BY <2>2, <2>3, <2>4 DEF Bijection, Injection, Surjection, IsInjective
<1>8. Cardinality(A \ {1}) = Cardinality(B)
  BY <1>6, <1>7, FS_Bijection DEF ExistsBijection
<1>9. 1 \in A <=> Head(s) # x
  BY <1>1, <1>3 DEF Others
<1>10. Cardinality(A \ {1}) = IF 1 \in A THEN Cardinality(A) - 1 ELSE Cardinality(A)
  BY <1>6, FS_RemoveElement
<1> HIDE DEF A, B
<1>11. /\ Head(s) # x => Cardinality(A) = Cardinality(B) + 1
       /\ Head(s) = x => Cardinality(A) = Cardinality(B)
  BY <1>6, <1>8, <1>9, <1>10
<1> QED
  BY <1>6, <1>11 DEF A, B, d

-----------------------------------------------------------------------------
(* Sequences built one entry at a time.                                    *)

\* A set of sequences over S that has the empty one, and whatever an entry
\* appended to one of its own makes, has them all.
LEMMA SeqSetInduction ==
    ASSUME NEW S, NEW Q \in SUBSET Seq(S), <<>> \in Q,
           \A s \in Q, e \in S : Append(s, e) \in Q
    PROVE  Q = Seq(S)
<1> DEFINE N == {n \in Nat : \A s \in Seq(S) : Len(s) = n => s \in Q}
<1>1. 0 \in N
  BY EmptySeq
<1>2. ASSUME NEW n \in Nat, n \in N PROVE n + 1 \in N
  <2> SUFFICES ASSUME NEW s \in Seq(S), Len(s) = n + 1 PROVE s \in Q
    OBVIOUS
  <2>1. s # <<>>
    BY EmptySeq
  <2>2. PICK t \in Seq(S), e \in S : s = Append(t, e)
    BY <2>1, SequenceEmptyOrAppend
  <2>3. Len(t) \in Nat /\ Len(s) = Len(t) + 1
    BY <2>2, LenProperties, AppendProperties
  <2>4. t \in Q
    BY <1>2, <2>2, <2>3
  <2> QED
    BY <2>2, <2>4
<1>3. N = Nat
  <2>1. N \in SUBSET Nat
    OBVIOUS
  <2> HIDE DEF N
  <2> QED
    BY <1>1, <1>2, <2>1, NatSetInduction
<1>4. \A s \in Seq(S) : s \in Q
  BY <1>3, LenProperties
<1> QED
  BY <1>4

\* h is defined on 0 .. n by its value at 0 and, at every other place, by a step
\* from its value at the place before.
Stepwise(n, V, base, step, h) ==
    /\ h \in [0 .. n -> V]
    /\ h[0] = base
    /\ \A k \in 1 .. n : h[k] = step[<<k, h[k - 1]>>]

LEMMA StepwiseRecursion ==
    ASSUME NEW n \in Nat, NEW V, NEW base \in V, NEW step \in [(1 .. n) \X V -> V]
    PROVE  \E h : Stepwise(n, V, base, step, h)
<1> DEFINE Upto(m, h) == h[0] = base /\ \A k \in 1 .. m : h[k] = step[<<k, h[k - 1]>>]
           N == {m \in Nat : m <= n => \E h \in [0 .. m -> V] : Upto(m, h)}
<1>1. 0 \in N
  <2>1. Upto(0, [k \in 0 .. 0 |-> base])
    OBVIOUS
  <2> QED
    BY <2>1
<1>2. ASSUME NEW m \in Nat, m \in N PROVE m + 1 \in N
  <2> SUFFICES ASSUME m + 1 <= n PROVE \E h \in [0 .. m + 1 -> V] : Upto(m + 1, h)
    OBVIOUS
  <2>1. PICK g \in [0 .. m -> V] : Upto(m, g)
    BY <1>2
  <2> DEFINE h == [k \in 0 .. m + 1 |-> IF k = m + 1 THEN step[<<k, g[m]>>] ELSE g[k]]
  <2>2. m + 1 \in 1 .. n /\ g[m] \in V
    BY <2>1
  <2>3. step[<<m + 1, g[m]>>] \in V
    BY <2>2
  <2>4. h \in [0 .. m + 1 -> V]
    BY <2>1, <2>3
  <2>5. h[0] = base
    BY <2>1
  <2>6. ASSUME NEW k \in 1 .. m + 1 PROVE h[k] = step[<<k, h[k - 1]>>]
    <3>1. k \in 0 .. m + 1 /\ k - 1 \in 0 .. m /\ k - 1 \in 0 .. m + 1 /\ k - 1 # m + 1
      OBVIOUS
    <3>2. h[k - 1] = g[k - 1]
      BY <3>1
    <3>3. CASE k = m + 1
      BY <3>1, <3>2, <3>3
    <3>4. CASE k # m + 1
      <4>1. k \in 1 .. m /\ h[k] = g[k]
        BY <3>1, <3>4
      <4> QED
        BY <2>1, <3>2, <4>1
    <3> QED
      BY <3>3, <3>4
  <2> HIDE DEF h
  <2> QED
    BY <2>4, <2>5, <2>6
<1>3. N = Nat
  <2>1. N \in SUBSET Nat
    OBVIOUS
  <2> HIDE DEF N
  <2> QED
    BY <1>1, <1>2, <2>1, NatSetInduction
<1>4. n \in N
  <2> HIDE DEF N
  <2> QED
    BY <1>3
<1> QED
  BY <1>4 DEF Stepwise

\* The prefix of a sequence, one entry longer.
LEMMA PrefixGrows ==
    ASSUME NEW E, NEW s \in Seq(E), NEW n \in 1 .. Len(s)
    PROVE  /\ SubSeq(s, 1, n - 1) \in Seq(E)
           /\ SubSeq(s, 1, n) = Append(SubSeq(s, 1, n - 1), s[n])
<1> DEFINE p == SubSeq(s, 1, n - 1)
           q == SubSeq(s, 1, n)
<1>1. s[n] \in E /\ n \in Int /\ n - 1 \in Int /\ \A i \in 1 .. n : s[i] \in E
  OBVIOUS
<1>2. p \in Seq(E) /\ Len(p) = n - 1 /\ \A i \in 1 .. n - 1 : p[i] = s[i]
  BY <1>1, SubSeqProperties
<1>3. q \in Seq(E) /\ Len(q) = n /\ \A i \in 1 .. n : q[i] = s[i]
  BY <1>1, SubSeqProperties
<1> HIDE DEF p, q
<1>4. /\ Append(p, s[n]) \in Seq(E) /\ Len(Append(p, s[n])) = n
      /\ \A i \in 1 .. n : Append(p, s[n])[i] = s[i]
  BY <1>1, <1>2
<1>5. q = Append(p, s[n])
  BY <1>3, <1>4, SeqEqual
<1> QED
  BY <1>2, <1>5 DEF p, q

\* What an entry at the end adds to what is kept.
LEMMA WithoutAppend ==
    ASSUME NEW E, NEW s \in Seq(E), NEW e \in E, NEW X
    PROVE  /\ Without(s, X) \in Seq(E)
           /\ Without(Append(s, e), X) = IF e \in X THEN Without(s, X)
                                         ELSE Append(Without(s, X), e)
<1> DEFINE n == Len(s)
           t == Append(s, e)
<1>1. /\ n \in Nat /\ t \in Seq(E) /\ Len(t) = n + 1
      /\ t[n + 1] = e /\ \A k \in 1 .. n : t[k] = s[k]
  BY LenProperties, AppendProperties
<1> HIDE DEF t
<1>2. PICK h \in [0 .. Len(s) -> Seq(E)] :
            KeepsOf(s, X, h) /\ Without(s, X) = h[Len(s)]
  BY WithoutKeeps
<1>3. PICK g \in [0 .. Len(t) -> Seq(E)] :
            KeepsOf(t, X, g) /\ Without(t, X) = g[Len(t)]
  BY ONLY <1>1, WithoutKeeps
<1> DEFINE N == {k \in Nat : k <= n => g[k] = h[k]}
<1>4. 0 \in N
  BY <1>2, <1>3 DEF KeepsOf
<1>5. ASSUME NEW k \in Nat, k \in N PROVE k + 1 \in N
  <2> SUFFICES ASSUME k + 1 <= n PROVE g[k + 1] = h[k + 1]
    OBVIOUS
  <2>1. k + 1 \in 1 .. n /\ k + 1 \in 1 .. Len(t) /\ (k + 1) - 1 = k
    BY <1>1
  <2>2. g[k + 1] = IF t[k + 1] \in X THEN g[k] ELSE Append(g[k], t[k + 1])
    BY <1>3, <2>1 DEF KeepsOf
  <2>3. h[k + 1] = IF s[k + 1] \in X THEN h[k] ELSE Append(h[k], s[k + 1])
    BY <1>2, <2>1 DEF KeepsOf
  <2>4. g[k] = h[k] /\ t[k + 1] = s[k + 1]
    BY <1>1, <1>5, <2>1
  <2> QED
    BY <2>2, <2>3, <2>4
<1>6. N = Nat
  <2>1. N \in SUBSET Nat
    OBVIOUS
  <2> HIDE DEF N
  <2> QED
    BY <1>4, <1>5, <2>1, NatSetInduction
<1>7. g[n] = h[n]
  BY <1>1, <1>6
<1>8. n + 1 \in 1 .. Len(t) /\ (n + 1) - 1 = n
  BY <1>1
<1>9. g[n + 1] = IF t[n + 1] \in X THEN g[n] ELSE Append(g[n], t[n + 1])
  BY <1>3, <1>8 DEF KeepsOf
<1>10. Without(s, X) \in Seq(E)
  BY <1>1, <1>2
<1> QED
  BY <1>1, <1>2, <1>3, <1>7, <1>9, <1>10 DEF t

\* Changing the entry appended last is as appending the other.
LEMMA AppendOther ==
    ASSUME NEW E, NEW f \in Seq(E), NEW l \in E, NEW e \in E
    PROVE  [Append(f, l) EXCEPT ![Len(Append(f, l))] = e] = Append(f, e)
<1> DEFINE q == Append(f, l)
           r == Append(f, e)
           m == Len(f) + 1
<1>1. q \in Seq(E) /\ Len(q) = m /\ \A i \in 1 .. Len(f) : q[i] = f[i]
  BY AppendProperties
<1>2. r \in Seq(E) /\ Len(r) = m /\ r[m] = e /\ \A i \in 1 .. Len(f) : r[i] = f[i]
  BY AppendProperties
<1>3. Len(f) \in Nat
  BY LenProperties
<1> HIDE DEF q, r
<1> DEFINE p == [q EXCEPT ![m] = e]
<1>4. m \in 1 .. Len(q)
  BY <1>1, <1>3
<1>5. /\ p \in Seq(E) /\ Len(p) = Len(q)
      /\ \A i \in 1 .. Len(q) : p[i] = IF i = m THEN e ELSE q[i]
  BY <1>1, <1>4, ExceptSeq
<1> HIDE DEF p
<1>6. ASSUME NEW i \in 1 .. Len(p) PROVE p[i] = r[i]
  <2>1. CASE i = m
    BY <1>1, <1>2, <1>5, <2>1
  <2>2. CASE i # m
    <3>1. i \in 1 .. Len(f) /\ i \in 1 .. Len(q)
      BY <1>1, <1>3, <1>5, <2>2
    <3> QED
      BY <1>1, <1>2, <1>5, <2>2, <3>1
  <2> QED
    BY <2>1, <2>2
<1>7. p = r
  BY <1>1, <1>2, <1>5, <1>6, SeqEqual
<1> QED
  BY <1>1, <1>7 DEF p, q, r

\* An entry may be appended before or after a concatenation.
LEMMA ConcatAppend ==
    ASSUME NEW S, NEW s \in Seq(S), NEW t \in Seq(S), NEW e \in S
    PROVE  s \o Append(t, e) = Append(s \o t, e)
<1>1. <<e>> \in Seq(S) /\ s \o t \in Seq(S)
  BY ConcatProperties
<1>2. Append(t, e) = t \o <<e>> /\ Append(s \o t, e) = (s \o t) \o <<e>>
  BY <1>1, AppendIsConcat
<1> QED
  BY <1>1, <1>2, ConcatAssociative

\* What holds at 0, and at each place if at the place before, holds at all.
LEMMA StepByStep ==
    ASSUME NEW n \in Nat, NEW f, NEW V, f[0] \in V,
           \A k \in 1 .. n : f[k - 1] \in V => f[k] \in V
    PROVE  \A k \in 0 .. n : f[k] \in V
<1> DEFINE N == {k \in Nat : k <= n => f[k] \in V}
<1>1. 0 \in N
  OBVIOUS
<1>2. ASSUME NEW k \in Nat, k \in N PROVE k + 1 \in N
  <2> SUFFICES ASSUME k + 1 <= n PROVE f[k + 1] \in V
    OBVIOUS
  <2>1. k + 1 \in 1 .. n /\ (k + 1) - 1 = k /\ f[k] \in V
    BY <1>2
  <2> QED
    BY <2>1
<1>3. N = Nat
  <2>1. N \in SUBSET Nat
    OBVIOUS
  <2> HIDE DEF N
  <2> QED
    BY <1>1, <1>2, <2>1, NatSetInduction
<1> QED
  BY <1>3

\* What is kept depends on which entries of s are in the set.
LEMMA WithoutSame ==
    ASSUME NEW E, NEW s \in Seq(E), NEW X, NEW Y,
           \A k \in 1 .. Len(s) : s[k] \in X <=> s[k] \in Y
    PROVE  Without(s, X) = Without(s, Y)
<1>1. PICK h \in [0 .. Len(s) -> Seq(E)] :
            KeepsOf(s, X, h) /\ Without(s, X) = h[Len(s)]
  BY ONLY WithoutKeeps, s \in Seq(E)
<1>2. PICK g \in [0 .. Len(s) -> Seq(E)] :
            KeepsOf(s, Y, g) /\ Without(s, Y) = g[Len(s)]
  BY ONLY WithoutKeeps, s \in Seq(E)
<1> DEFINE N == {k \in Nat : k <= Len(s) => g[k] = h[k]}
<1>3. 0 \in N
  BY <1>1, <1>2 DEF KeepsOf
<1>4. ASSUME NEW k \in Nat, k \in N PROVE k + 1 \in N
  <2> SUFFICES ASSUME k + 1 <= Len(s) PROVE g[k + 1] = h[k + 1]
    OBVIOUS
  <2>1. k + 1 \in 1 .. Len(s) /\ (k + 1) - 1 = k
    BY LenProperties
  <2>2. h[k + 1] = IF s[k + 1] \in X THEN h[k] ELSE Append(h[k], s[k + 1])
    BY <1>1, <2>1 DEF KeepsOf
  <2>3. g[k + 1] = IF s[k + 1] \in Y THEN g[k] ELSE Append(g[k], s[k + 1])
    BY <1>2, <2>1 DEF KeepsOf
  <2>4. g[k] = h[k]
    BY <1>4, <2>1, LenProperties
  <2> QED
    BY <2>1, <2>2, <2>3, <2>4
<1>5. N = Nat
  <2>1. N \in SUBSET Nat
    OBVIOUS
  <2> HIDE DEF N
  <2> QED
    BY <1>3, <1>4, <2>1, NatSetInduction
<1>6. Len(s) \in Nat
  BY LenProperties
<1> QED
  BY <1>1, <1>2, <1>5, <1>6
=============================================================================
