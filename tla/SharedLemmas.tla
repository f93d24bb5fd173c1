------------------------------- MODULE SharedLemmas -------------------------------
(***************************************************************************)
(* What several of the proofs need: induction, powers of two, loops and    *)
(* sequences.                                                              *)
(*                                                                         *)
(* Induction is in a form the provers can use.  The library's principles   *)
(* take the property to prove as an operator, which none of the provers    *)
(* instantiates; here it is a set, the numbers that have the property.     *)
(* All follows from the fact that < is well-founded on the naturals.       *)
(***************************************************************************)
EXTENDS Integers, WellFoundedInduction, FiniteSetTheorems, FunctionTheorems, SequenceTheorems, TLAPS

\* A minimal element of a well-founded relation that contains < is the least.
LEMMA LeastOf ==
  ASSUME NEW R, \A x, y \in Nat : x < y => <<x, y>> \in R,
         NEW T \in SUBSET Nat,
         \E x \in T : \A y \in T : ~ (<<y, x>> \in R)
  PROVE  \E m \in T : \A n \in T : m <= n
<1>1. T \subseteq Nat
  OBVIOUS
<1>2. PICK x \in T : \A y \in T : ~ (<<y, x>> \in R)
  OBVIOUS
<1>3. ASSUME NEW y \in T
      PROVE  ~ (y < x)
  BY <1>1, <1>2, Zenon
<1>4. \A y \in T : x <= y
  BY <1>1, <1>3
<1> QED
  BY <1>4

\* Every set of naturals that is not empty has a least element.
LEMMA LeastNat ==
  ASSUME NEW T \in SUBSET Nat, T # {}
  PROVE  \E m \in T : \A n \in T : m <= n
<1> DEFINE R == OpToRel(<, Nat)
<1>1. IsWellFoundedOn(R, Nat)
  BY NatLessThanWellFounded
<1>2. \A x, y \in Nat : x < y => <<x, y>> \in R
  BY DEF OpToRel
<1> HIDE DEF R
<1>3. \E x \in T : \A y \in T : ~ (<<y, x>> \in R)
  BY <1>1, WFMin
<1> QED
  BY <1>2, <1>3, LeastOf

\* A set with 0 and with the successor of each natural it has, has them all.
LEMMA NatInductionSet ==
  ASSUME NEW P, 0 \in P, \A n \in Nat : n \in P => n + 1 \in P
  PROVE  Nat \subseteq P
<1> SUFFICES ASSUME ~ (Nat \subseteq P) PROVE FALSE
  OBVIOUS
<1> DEFINE T == {n \in Nat : n \notin P}
<1>1. T \in SUBSET Nat /\ T # {}
  OBVIOUS
<1>2. PICK m \in T : \A n \in T : m <= n
  BY <1>1, LeastNat
<1>3. m # 0 /\ m - 1 \in Nat
  OBVIOUS
<1>4. m - 1 \in P
  BY <1>2, <1>3
<1> QED
  BY <1>3, <1>4

-------------------------------------------------------------------------------
(* Powers of two                                                           *)

\* A set with one more element has twice as many subsets.
LEMMA Subsets ==
  ASSUME NEW S, IsFiniteSet(S), NEW x, x \notin S
  PROVE  Cardinality(SUBSET (S \cup {x})) = 2 * Cardinality(SUBSET S)
<1> DEFINE T == SUBSET S
           U == {A \cup {x} : A \in T}
           f == [A \in T |-> A \cup {x}]
<1>1. SUBSET (S \cup {x}) = T \cup U
  <2>1. ASSUME NEW A \in SUBSET (S \cup {x}), x \in A PROVE A \in U
    <3>1. A \ {x} \in T /\ A = (A \ {x}) \cup {x}
      BY <2>1
    <3> QED
      BY <3>1
  <2>2. ASSUME NEW A \in SUBSET (S \cup {x}), x \notin A PROVE A \in T
    BY <2>2
  <2>3. T \cup U \subseteq SUBSET (S \cup {x})
    OBVIOUS
  <2> QED
    BY <2>1, <2>2, <2>3
<1>2. T \cap U = {}
  OBVIOUS
<1>3. IsFiniteSet(T) /\ Cardinality(T) \in Nat
  BY FS_SUBSET, FS_CardinalityType
<1>4. f \in Bijection(T, U)
  <2>1. f \in [T -> U] /\ \A B \in U : \E A \in T : f[A] = B
    OBVIOUS
  <2>2. ASSUME NEW A \in T, NEW B \in T, f[A] = f[B] PROVE A = B
    <3>1. A \cup {x} = B \cup {x} /\ x \notin A /\ x \notin B
      BY <2>2
    <3> QED
      BY <3>1
  <2> QED
    BY <2>1, <2>2, Fun_IsBij
<1>5. IsFiniteSet(U) /\ Cardinality(U) = Cardinality(T)
  BY <1>3, <1>4, FS_Bijection DEF ExistsBijection
<1> HIDE DEF T, U
<1>6. Cardinality(T \cup U) = Cardinality(T) + Cardinality(U) - Cardinality(T \cap U)
  BY <1>3, <1>5, FS_Union
<1>7. Cardinality(SUBSET (S \cup {x})) = 2 * Cardinality(T)
  <2>1. Cardinality(T \cap U) = 0
    BY <1>2, FS_EmptySet
  <2>2. Cardinality(T \cup U) = 2 * Cardinality(T)
    BY <1>3, <1>5, <1>6, <2>1
  <2> QED
    BY <1>1, <2>2
<1> QED
  BY <1>7 DEF T

\* 2^n is a natural number, and doubles with n.
LEMMA Doubling ==
  ASSUME NEW n \in Nat
  PROVE  2 ^ n \in Nat /\ 2 ^ (n + 1) = 2 * 2 ^ n
<1>1. /\ IsFiniteSet(1..n) /\ Cardinality(1..n) = n
      /\ IsFiniteSet(1..(n + 1)) /\ Cardinality(1..(n + 1)) = n + 1
  BY FS_Interval
<1>2. 1..(n + 1) = (1..n) \cup {n + 1} /\ n + 1 \notin 1..n
  OBVIOUS
<1>3. Cardinality(SUBSET (1..(n + 1))) = 2 * Cardinality(SUBSET (1..n))
  BY <1>1, <1>2, Subsets
<1>4. IsFiniteSet(SUBSET (1..n)) /\ Cardinality(SUBSET (1..n)) \in Nat
  BY <1>1, FS_SUBSET, FS_CardinalityType
<1>5. Cardinality(SUBSET (1..n)) = 2 ^ n /\ Cardinality(SUBSET (1..(n + 1))) = 2 ^ (n + 1)
  BY <1>1, FS_SUBSET
<1> QED
  BY <1>3, <1>4, <1>5

-------------------------------------------------------------------------------
(* Loops                                                                   *)

\* The states of a loop of n rounds that starts in a: round i takes the state
\* x to g[i][x].
Rounds(g, n, T) == g \in [1..n -> [T -> T]]

Trace(f, g, n, T, a) == f \in [0..n -> T] /\ f[0] = a /\ \A i \in 1..n : f[i] = g[i][f[i - 1]]

LEMMA LoopRuns ==
  ASSUME NEW n \in Nat, NEW T, NEW a \in T, NEW g, Rounds(g, n, T)
  PROVE  \E f : Trace(f, g, n, T, a)
<1>0. g \in [1..n -> [T -> T]]
  BY DEF Rounds
<1> DEFINE Run(f, k) == f \in [0..k -> T] /\ f[0] = a /\ \A i \in 1..k : f[i] = g[i][f[i - 1]]
           P == {k \in Nat : k <= n => \E f : Run(f, k)}
<1>1. 0 \in P
  <2>1. Run([i \in 0..0 |-> a], 0)
    OBVIOUS
  <2> QED
    BY <2>1
<1>2. ASSUME NEW k \in Nat, k \in P PROVE k + 1 \in P
  <2> SUFFICES ASSUME k + 1 <= n PROVE \E f : Run(f, k + 1)
    OBVIOUS
  <2>1. PICK f : Run(f, k)
    BY <1>2
  <2> DEFINE top == g[k + 1][f[k]]
             h == [i \in 0..(k + 1) |-> IF i = k + 1 THEN top ELSE f[i]]
  <2>2. f[k] \in T /\ g[k + 1] \in [T -> T]
    BY <1>0, <2>1
  <2>3. top \in T
    BY <2>2
  <2> HIDE DEF top
  <2>4. h \in [0..(k + 1) -> T]
    <3>1. \A i \in 0..(k + 1) : i = k + 1 \/ i \in 0..k
      OBVIOUS
    <3> QED
      BY <2>1, <2>3, <3>1
  <2>5. h[0] = a
    BY <2>1
  <2>6. ASSUME NEW i \in 1..(k + 1) PROVE h[i] = g[i][h[i - 1]]
    <3>1. i - 1 \in 0..k /\ i - 1 # k + 1 /\ i - 1 \in 0..(k + 1)
      OBVIOUS
    <3>2. h[i - 1] = f[i - 1]
      BY <3>1
    <3>3. CASE i = k + 1
      <4>1. h[i] = top /\ i - 1 = k
        BY <3>3
      <4> QED
        BY <3>2, <3>3, <4>1 DEF top
    <3>4. CASE i \in 1..k
      <4>1. h[i] = f[i]
        BY <3>4
      <4> QED
        BY <2>1, <3>2, <3>4, <4>1
    <3> QED
      BY <3>3, <3>4
  <2> HIDE DEF h
  <2>7. Run(h, k + 1)
    BY <2>4, <2>5, <2>6
  <2> QED
    BY <2>7
<1> HIDE DEF P
<1>3. n \in P
  BY <1>1, <1>2, NatInductionSet
<1> QED
  BY <1>3 DEF P, Trace

-------------------------------------------------------------------------------
(* Sequences                                                               *)

\* A sequence with its k-th element taken out.
LEMMA CutOut ==
  ASSUME NEW S, NEW s \in Seq(S), NEW k \in 1..Len(s)
  PROVE  LET w == SubSeq(s, 1, k - 1) \o SubSeq(s, k + 1, Len(s))
         IN  /\ w \in Seq(S) /\ Len(w) = Len(s) - 1
             /\ \A i \in 1..(Len(s) - 1) : w[i] = s[IF i < k THEN i ELSE i + 1]
<1> DEFINE a == SubSeq(s, 1, k - 1)
           b == SubSeq(s, k + 1, Len(s))
           w == a \o b
<1>1. Len(s) \in Nat /\ (\A i \in 1..(k - 1) : s[i] \in S) /\ \A i \in (k + 1)..Len(s) : s[i] \in S
  BY ElementOfSeq
<1>2. a \in Seq(S) /\ Len(a) = k - 1 /\ \A i \in 1..(k - 1) : a[i] = s[i]
  BY <1>1, SubSeqProperties
<1>3. b \in Seq(S) /\ Len(b) = Len(s) - k /\ \A i \in 1..(Len(s) - k) : b[i] = s[k + i]
  BY <1>1, SubSeqProperties
<1> HIDE DEF a, b
<1>4. /\ w \in Seq(S) /\ Len(w) = Len(a) + Len(b)
      /\ \A i \in 1..(Len(a) + Len(b)) : w[i] = IF i <= Len(a) THEN a[i] ELSE b[i - Len(a)]
  BY <1>2, <1>3, ConcatProperties
<1> HIDE DEF w
<1>5. ASSUME NEW i \in 1..(Len(s) - 1) PROVE w[i] = s[IF i < k THEN i ELSE i + 1]
  <2>1. CASE i < k
    <3>1. i \in 1..(Len(a) + Len(b)) /\ i <= Len(a) /\ i \in 1..(k - 1)
      BY <1>1, <1>2, <1>3, <2>1
    <3> QED
      BY <1>2, <1>4, <2>1, <3>1
  <2>2. CASE ~(i < k)
    <3>1. i \in 1..(Len(a) + Len(b)) /\ ~(i <= Len(a)) /\ i - Len(a) = i - (k - 1)
      BY <1>1, <1>2, <1>3, <2>2
    <3>2. i - (k - 1) \in 1..(Len(s) - k) /\ k + (i - (k - 1)) = i + 1
      BY <1>1, <2>2
    <3>3. w[i] = b[i - (k - 1)] /\ b[i - (k - 1)] = s[i + 1]
      BY <1>3, <1>4, <3>1, <3>2
    <3> QED
      BY <2>2, <3>3
  <2> QED
    BY <2>1, <2>2
<1>6. Len(w) = Len(s) - 1
  BY <1>1, <1>2, <1>3, <1>4
<1> QED
  BY <1>4, <1>5, <1>6 DEF w, a, b
==================================================================================
