---------------------------- MODULE FoldTheorems ----------------------------
(***************************************************************************)
(* What FoldLeft computes, for every operator: the library's theorems of   *)
(* induction take an operator as a parameter, which the provers cannot     *)
(* instantiate; a module that is instantiated with the operator can say    *)
(* the same.  Induction itself is over a set of numbers.                   *)
(***************************************************************************)
EXTENDS Integers, Sequences, FiniteSetsExt, SequencesExt,
        SequenceTheorems, WellFoundedInduction, TLAPS

CONSTANT Op(_, _)

Folded(base, seq) == FoldLeft(Op, base, seq)

\* Induction: a set that holds 0, and n + 1 with n, holds every number.
LEMMA Induction ==
    ASSUME NEW P, 0 \in P, \A n \in Nat : n \in P => n + 1 \in P
    PROVE  Nat \subseteq P
<1> DEFINE R == OpToRel(<, Nat)
           Rest == {n \in Nat : n \notin P}
<1>1. IsWellFoundedOn(R, Nat)
  BY NatLessThanWellFounded
<1>2. \A n \in Nat \ {0} : n - 1 \in Nat /\ <<n - 1, n>> \in R
  BY DEF OpToRel
<1> HIDE DEF R
<1>3. SUFFICES ASSUME Rest # {} PROVE FALSE
  OBVIOUS
<1>4. PICK n \in Rest : \A m \in Rest : ~(<<m, n>> \in R)
  BY <1>1, <1>3, WFMin
<1>5. n \in Nat \ {0} /\ n - 1 \in Nat /\ n - 1 \notin Rest
  BY <1>2, <1>4
<1>6. (n - 1) + 1 \in P
  BY <1>5
<1> QED
  BY <1>4, <1>5, <1>6

\* Of some numbers up to n there is a largest.
LEMMA MaxIn ==
    ASSUME NEW n \in Nat, NEW S \in SUBSET (1 .. n), S # {}
    PROVE  Max(S) \in S /\ \A y \in S : Max(S) >= y
<1> DEFINE P == {m \in Nat : \A T \in SUBSET (1 .. m) :
                               T # {} => \E x \in T : \A y \in T : x >= y}
<1>1. 0 \in P
  <2>1. 1 .. 0 = {}
    OBVIOUS
  <2> QED
    BY <2>1
<1>2. ASSUME NEW m \in Nat, m \in P PROVE m + 1 \in P
  <2>1. ASSUME NEW T \in SUBSET (1 .. m + 1), T # {}
        PROVE  \E x \in T : \A y \in T : x >= y
    <3>1. CASE m + 1 \in T
      BY <3>1
    <3>2. CASE m + 1 \notin T
      <4>1. T \in SUBSET (1 .. m)
        BY <3>2
      <4> QED
        BY <4>1, <2>1, <1>2
    <3> QED
      BY <3>1, <3>2
  <2> QED
    BY <2>1
<1>3. n \in P
  BY <1>1, <1>2, Induction
<1>4. \E x \in S : \A y \in S : x >= y
  BY <1>3
<1> QED
  BY <1>4 DEF Max

-----------------------------------------------------------------------------

\* FoldLeft's value at a set of indexes, given the values at smaller ones.
At(base, seq, g, T) == IF T = {} THEN base ELSE Op(g[T \ {Max(T)}], seq[Max(T)])

\* The recursion that FoldLeft is defined by has a solution.
LEMMA Solvable ==
    ASSUME NEW base, NEW seq, NEW n \in Nat
    PROVE  \E g : g = [T \in SUBSET (1 .. n) |-> At(base, seq, g, T)]
<1> DEFINE P == {m \in Nat : \E g : g = [T \in SUBSET (1 .. m) |-> At(base, seq, g, T)]}
<1>1. 0 \in P
  <2> DEFINE g == [T \in SUBSET (1 .. 0) |-> base]
  <2>1. 1 .. 0 = {}
    OBVIOUS
  <2>2. g = [T \in SUBSET (1 .. 0) |-> At(base, seq, g, T)]
    BY <2>1 DEF At
  <2> QED
    BY <2>2
<1>2. ASSUME NEW m \in Nat, m \in P PROVE m + 1 \in P
  <2>1. PICK g : g = [T \in SUBSET (1 .. m) |-> At(base, seq, g, T)]
    BY <1>2
  <2> DEFINE h == [T \in SUBSET (1 .. m + 1) |->
                     IF m + 1 \in T THEN Op(g[T \ {m + 1}], seq[m + 1]) ELSE g[T]]
  <2>2. ASSUME NEW T \in SUBSET (1 .. m + 1) PROVE h[T] = At(base, seq, h, T)
    <3>1. CASE m + 1 \in T
      <4>1. Max(T) = m + 1
        <5>1. m + 1 \in Nat /\ T # {}
          BY <3>1
        <5>2. Max(T) \in T /\ \A y \in T : Max(T) >= y
          BY <5>1, MaxIn
        <5>3. Max(T) \in 1 .. m + 1 /\ Max(T) >= m + 1
          BY <5>2, <3>1
        <5> QED
          BY <5>3
      <4>2. T \ {m + 1} \in SUBSET (1 .. m) /\ T \ {m + 1} \in SUBSET (1 .. m + 1)
        OBVIOUS
      <4>3. h[T \ {m + 1}] = g[T \ {m + 1}]
        BY <4>2
      <4> QED
        BY <3>1, <4>1, <4>3 DEF At
    <3>2. CASE m + 1 \notin T /\ T # {}
      <4>1. T \in SUBSET (1 .. m)
        BY <3>2
      <4>2. T \ {Max(T)} \in SUBSET (1 .. m) /\ T \ {Max(T)} \in SUBSET (1 .. m + 1)
        BY <4>1
      <4>3. m + 1 \notin T \ {Max(T)}
        BY <3>2
      <4>4. h[T \ {Max(T)}] = g[T \ {Max(T)}]
        BY <4>2, <4>3
      <4>5. h[T] = g[T] /\ g[T] = At(base, seq, g, T)
        BY <2>1, <3>2, <4>1
      <4> QED
        BY <4>4, <4>5, <3>2 DEF At
    <3>3. CASE T = {}
      <4>1. T \in SUBSET (1 .. m) /\ h[T] = g[T]
        BY <3>3
      <4> QED
        BY <2>1, <3>3, <4>1 DEF At
    <3> QED
      BY <3>1, <3>2, <3>3
  <2>3. h = [T \in SUBSET (1 .. m + 1) |-> At(base, seq, h, T)]
    BY <2>2
  <2> HIDE DEF h
  <2> QED
    BY <2>3
<1> HIDE DEF P
<1>3. n \in P
  BY <1>1, <1>2, Induction
<1> QED
  BY <1>3 DEF P

\* What holds of the base, and with a prefix of the sequence of the prefix that is
\* one longer, holds of the fold.  Holds[k] is what is claimed of the first k.
LEMMA FoldInvariant ==
    ASSUME NEW base, NEW seq, NEW n \in Nat, DOMAIN seq = 1 .. n,
           NEW Holds, base \in Holds[0],
           \A k \in 1 .. n : \A x \in Holds[k - 1] : Op(x, seq[k]) \in Holds[k]
    PROVE  Folded(base, seq) \in Holds[n]
<1> DEFINE f == CHOOSE g : g = [T \in SUBSET (1 .. n) |-> At(base, seq, g, T)]
           P == {k \in Nat : k <= n => f[1 .. k] \in Holds[k]}
<1>1. Folded(base, seq) = f[1 .. n]
  BY DEF Folded, FoldLeft, MapThenFoldSet, At
<1>2. f = [T \in SUBSET (1 .. n) |-> At(base, seq, f, T)]
  BY Solvable
<1> HIDE DEF f
<1>3. 0 \in P
  <2>1. 1 .. 0 = {} /\ {} \in SUBSET (1 .. n)
    OBVIOUS
  <2>2. f[{}] = base
    BY <1>2, <2>1 DEF At
  <2> QED
    BY <2>1, <2>2
<1>4. ASSUME NEW k \in Nat, k \in P PROVE k + 1 \in P
  <2> SUFFICES ASSUME k + 1 <= n PROVE f[1 .. k + 1] \in Holds[k + 1]
    OBVIOUS
  <2> DEFINE S == 1 .. k + 1
  <2>0. k + 1 \in Nat /\ k + 1 \in S
    OBVIOUS
  <2>1. Max(S) = k + 1
    <3>1. Max(S) \in S /\ \A y \in S : Max(S) >= y
      <4>1. S \in SUBSET (1 .. k + 1) /\ S # {}
        BY <2>0
      <4> HIDE DEF S
      <4> QED
        BY <2>0, <4>1, MaxIn
    <3>2. Max(S) >= k + 1 /\ Max(S) \in 1 .. k + 1
      BY <2>0, <3>1
    <3> QED
      BY <3>2
  <2>2. S \ {k + 1} = 1 .. k /\ S # {}
    <3>1. S # {}
      BY <2>0
    <3>2. S \ {k + 1} = 1 .. k
      OBVIOUS
    <3> QED
      BY <3>1, <3>2
  <2>3. (1 .. k + 1) \in SUBSET (1 .. n)
    OBVIOUS
  <2>4. f[1 .. k + 1] = Op(f[1 .. k], seq[k + 1])
    BY <1>2, <2>1, <2>2, <2>3 DEF At
  <2>5. k + 1 \in 1 .. n /\ (k + 1) - 1 = k /\ f[1 .. k] \in Holds[k]
    BY <1>4
  <2> QED
    BY <2>4, <2>5
<1> HIDE DEF P
<1>5. n \in P
  BY <1>3, <1>4, Induction
<1> QED
  BY <1>1, <1>5 DEF P

\* A fold goes through the folds of the sequence's beginnings: from the base, ...
LEMMA FoldEmpty ==
    ASSUME NEW base, NEW seq, DOMAIN seq = 1 .. 0
    PROVE  Folded(base, seq) = base
<1> DEFINE Holds == [k \in {0} |-> {base}]
<1>1. base \in Holds[0] /\ 0 \in Nat
  OBVIOUS
<1>2. \A k \in 1 .. 0 : \A x \in Holds[k - 1] : Op(x, seq[k]) \in Holds[k]
  OBVIOUS
<1> HIDE DEF Holds
<1>3. Folded(base, seq) \in Holds[0]
  BY <1>1, <1>2, FoldInvariant
<1> QED
  BY <1>3 DEF Holds

\* ... one element at a time.
LEMMA FoldSteps ==
    ASSUME NEW base, NEW T, NEW seq \in Seq(T)
    PROVE  \A k \in 1 .. Len(seq) :
             Folded(base, SubSeq(seq, 1, k)) = Op(Folded(base, SubSeq(seq, 1, k - 1)), seq[k])
<1> DEFINE n == Len(seq)
           f == CHOOSE h : h = [S \in SUBSET (1 .. n) |-> At(base, seq, h, S)]
           g == [k \in 0 .. n |-> f[1 .. k]]
<1>1. n \in Nat /\ DOMAIN seq = 1 .. n /\ 1 .. n \in SUBSET (1 .. n)
  OBVIOUS
<1>2. f = [S \in SUBSET (1 .. n) |-> At(base, seq, f, S)]
  <2> HIDE DEF n
  <2> QED
    BY <1>1, Solvable
<1> HIDE DEF f
<1>3. g[0] = base
  <2>1. 1 .. 0 = {} /\ {} \in SUBSET (1 .. n) /\ 0 \in 0 .. n
    OBVIOUS
  <2>2. f[{}] = base
    BY <1>2, <2>1 DEF At
  <2> QED
    BY <2>1, <2>2
<1>4. ASSUME NEW k \in 1 .. n PROVE g[k] = Op(g[k - 1], seq[k])
  <2> DEFINE S == 1 .. k
  <2>1. k \in Nat /\ S \in SUBSET (1 .. k) /\ S # {} /\ k \in S
    <3>1. k \in Nat /\ k \in 1 .. k
      BY <1>1
    <3> QED
      BY <3>1
  <2>2. Max(S) \in S /\ \A y \in S : Max(S) >= y
    <3> HIDE DEF S
    <3> QED
      BY <2>1, MaxIn
  <2>3. Max(S) = k
    <3>1. Max(S) \in 1 .. k /\ Max(S) >= k
      BY <2>1, <2>2
    <3> QED
      BY <3>1
  <2>4. S \ {k} = 1 .. k - 1 /\ S \in SUBSET (1 .. n)
    OBVIOUS
  <2>5. f[S] = Op(f[1 .. k - 1], seq[k])
    <3>1. f[S] = At(base, seq, f, S)
      BY <1>2, <2>4
    <3> HIDE DEF S
    <3> QED
      BY <3>1, <2>1, <2>3, <2>4 DEF At
  <2>6. k \in 0 .. n /\ k - 1 \in 0 .. n
    OBVIOUS
  <2> QED
    BY <2>5, <2>6
<1> HIDE DEF g
<1>5. ASSUME NEW k \in 0 .. n PROVE Folded(base, SubSeq(seq, 1, k)) = g[k]
  <2> DEFINE part == SubSeq(seq, 1, k)
             Holds == [j \in 0 .. n |-> {g[j]}]
  <2>1. k \in Nat /\ DOMAIN part = 1 .. k /\ \A j \in 1 .. k : part[j] = seq[j]
    BY SubSeqProperties
  <2>2. base \in Holds[0]
    BY <1>3
  <2>3. \A j \in 1 .. k : \A x \in Holds[j - 1] : Op(x, part[j]) \in Holds[j]
    BY <1>4, <2>1
  <2> HIDE DEF part, Holds
  <2>4. Folded(base, part) \in Holds[k]
    BY <2>1, <2>2, <2>3, FoldInvariant
  <2> QED
    BY <2>4 DEF part, Holds
<1> HIDE DEF n
<1>6. ASSUME NEW k \in 1 .. n
      PROVE  Folded(base, SubSeq(seq, 1, k)) = Op(Folded(base, SubSeq(seq, 1, k - 1)), seq[k])
  <2>1. k \in 0 .. n /\ k - 1 \in 0 .. n
    BY <1>1
  <2>2. Folded(base, SubSeq(seq, 1, k)) = g[k] /\ Folded(base, SubSeq(seq, 1, k - 1)) = g[k - 1]
    BY <1>5, <2>1
  <2> QED
    BY <1>4, <2>2
<1> QED
  BY <1>6 DEF n
=============================================================================
