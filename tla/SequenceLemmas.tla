--------------------------- MODULE SequenceLemmas ---------------------------
(***************************************************************************)
(* Facts about the sequence operators of the models that several proofs    *)
(* need.                                                                   *)
(***************************************************************************)
EXTENDS Integers, Sequences, SequencesExt, SequenceTheorems, FiniteSetTheorems,
        WellFoundedInduction, TLAPS

(* A non-empty set of naturals has a least element, and Min is that.       *)
LEMMA MinIsLeast ==
    ASSUME NEW S, S \subseteq Nat, S # {}
    PROVE  Min(S) \in S /\ \A y \in S : Min(S) =< y
<1>1. PICK x \in S : \A y \in S : ~(<<y, x>> \in OpToRel(<, Nat))
  BY NatLessThanWellFounded, WFMin
<1>2. ASSUME NEW y \in S PROVE ~(y < x)
  <2>1. SUFFICES ASSUME y < x PROVE <<y, x>> \in OpToRel(<, Nat)
    BY <1>1
  <2>2. <<y, x>> \in Nat \X Nat /\ <<y, x>>[1] < <<y, x>>[2]
    BY <2>1
  <2> QED BY <2>2, Zenon DEF OpToRel
<1>3. \A y \in S : x =< y
  BY <1>2
<1> QED BY <1>3 DEF Min

(* Removing one element of a sequence keeps the others, in order.          *)
LEMMA RemoveAtProperties ==
    ASSUME NEW S, NEW s \in Seq(S), NEW i \in 1..Len(s)
    PROVE  /\ RemoveAt(s, i) \in Seq(S)
           /\ Len(RemoveAt(s, i)) = Len(s) - 1
           /\ \A j \in 1..(Len(s) - 1) :
                RemoveAt(s, i)[j] = IF j < i THEN s[j] ELSE s[j + 1]
<1> DEFINE a == SubSeq(s, 1, i - 1)
           b == SubSeq(s, i + 1, Len(s))
<1>1. a \in Seq(S) /\ Len(a) = i - 1 /\ \A j \in 1..(i-1) : a[j] = s[j]
  BY SubSeqProperties
<1>2. b \in Seq(S) /\ Len(b) = Len(s) - i /\ \A j \in 1..(Len(s)-i) : b[j] = s[i + j]
  BY SubSeqProperties
<1> HIDE DEF a, b
<1>3. /\ a \o b \in Seq(S) /\ Len(a \o b) = Len(a) + Len(b)
      /\ \A j \in 1..Len(a) + Len(b) :
           (a \o b)[j] = IF j <= Len(a) THEN a[j] ELSE b[j - Len(a)]
  BY <1>1, <1>2, ConcatProperties
<1>4. \A j \in 1..(Len(s) - 1) : (a \o b)[j] = IF j < i THEN s[j] ELSE s[j + 1]
  BY <1>1, <1>2, <1>3
<1>5. Len(a \o b) = Len(s) - 1
  BY <1>1, <1>2, <1>3
<1> QED BY <1>3, <1>4, <1>5 DEF RemoveAt, a, b

-----------------------------------------------------------------------------
(* Induction and folds.                                                    *)

(* Induction up to n, over a set in place of a predicate.                  *)
LEMMA IntervalInduction ==
    ASSUME NEW n \in Nat, NEW P, 0 \in P, \A i \in 1..n : i - 1 \in P => i \in P
    PROVE  \A i \in 0..n : i \in P
<1> DEFINE B == {i \in 0..n : i \notin P}
<1> SUFFICES ASSUME B # {} PROVE FALSE
  OBVIOUS
<1>1. B \subseteq Nat
  OBVIOUS
<1>2. Min(B) \in B /\ \A y \in B : Min(B) =< y
  <2> HIDE DEF B
  <2> QED BY <1>1, MinIsLeast
<1> DEFINE m == Min(B)
<1>3. m \in 1..n /\ m \notin P
  BY <1>2
<1>4. m - 1 \in P
  BY <1>2, <1>3
<1> QED BY <1>3, <1>4

(* The function that a fold over the indices 1..n is defined by exists,    *)
(* whatever the order in which the indices are picked.                     *)
Picks(n, pick) == \A s \in SUBSET (1..n) : s # {} => pick[s] \in s

FoldedBy(n, A, base, F, pick, g) ==
    /\ g \in [SUBSET (1..n) -> A]
    /\ \A s \in SUBSET (1..n) :
         g[s] = IF s = {} THEN base ELSE F[<<pick[s], g[s \ {pick[s]}]>>]

LEMMA FoldExists ==
    ASSUME NEW n \in Nat, NEW A, NEW base \in A, NEW F \in [(1..n) \X A -> A],
           NEW pick, Picks(n, pick)
    PROVE  \E g : FoldedBy(n, A, base, F, pick, g)
<1> DEFINE G(k) == {s \in SUBSET (1..n) : Cardinality(s) <= k}
           Good(k, g) == /\ g \in [G(k) -> A]
                         /\ \A s \in G(k) : g[s] = IF s = {} THEN base
                                                  ELSE F[<<pick[s], g[s \ {pick[s]}]>>]
           P == {k \in 0..n : \E g : Good(k, g)}
<1>1. \A s \in SUBSET (1..n) : IsFiniteSet(s) /\ Cardinality(s) \in 0..n
  <2>1. IsFiniteSet(1..n) /\ Cardinality(1..n) = n
    BY FS_Interval
  <2> SUFFICES ASSUME NEW s \in SUBSET (1..n)
               PROVE  IsFiniteSet(s) /\ Cardinality(s) \in 0..n
    OBVIOUS
  <2>2. IsFiniteSet(s) /\ Cardinality(s) <= Cardinality(1..n)
    BY <2>1, FS_Subset, Zenon
  <2> QED BY <2>1, <2>2, FS_CardinalityType
<1>2. 0 \in P
  <2>1. \A s \in G(0) : s = {}
    BY <1>1, FS_EmptySet
  <2>2. Good(0, [s \in G(0) |-> base])
    BY <2>1
  <2> HIDE DEF Good
  <2> QED BY <2>2
<1>3. ASSUME NEW i \in 1..n, i - 1 \in P PROVE i \in P
  <2>1. PICK g : Good(i - 1, g)
    BY <1>3
  <2> DEFINE h == [s \in G(i) |-> IF s = {} THEN base ELSE F[<<pick[s], g[s \ {pick[s]}]>>]]
  <2>2. ASSUME NEW s \in G(i), s # {}
        PROVE  s \ {pick[s]} \in G(i - 1) /\ pick[s] \in 1..n
    <3>1. s \in SUBSET (1..n) /\ Cardinality(s) <= i /\ pick[s] \in s
      BY <2>2 DEF Picks
    <3>2. Cardinality(s \ {pick[s]}) = Cardinality(s) - 1
      BY <1>1, <3>1, FS_RemoveElement
    <3>3. Cardinality(s \ {pick[s]}) <= i - 1
      BY <1>1, <3>1, <3>2
    <3> QED BY <3>1, <3>3
  <2>3. h \in [G(i) -> A]
    BY <2>1, <2>2
  <2>4. \A s \in G(i - 1) : s \in G(i) /\ h[s] = g[s]
    <3>1. \A s \in G(i - 1) : s \in G(i)
      BY <1>1
    <3>2. \A s \in G(i - 1) :
            g[s] = IF s = {} THEN base ELSE F[<<pick[s], g[s \ {pick[s]}]>>]
      BY <2>1
    <3> HIDE DEF G
    <3> QED BY <3>1, <3>2
  <2>5. Good(i, h)
    <3>1. ASSUME NEW s \in G(i)
          PROVE  h[s] = IF s = {} THEN base ELSE F[<<pick[s], h[s \ {pick[s]}]>>]
      BY <2>2, <2>4
    <3> QED BY <2>3, <3>1
  <2> HIDE DEF Good
  <2> QED BY <2>5
<1>4. n \in P
  <2> HIDE DEF P
  <2> QED BY <1>2, <1>3, IntervalInduction
<1>5. G(n) = SUBSET (1..n)
  BY <1>1
<1>6. PICK g : Good(n, g)
  BY <1>4
<1>7. FoldedBy(n, A, base, F, pick, g)
  BY <1>5, <1>6 DEF FoldedBy
<1> QED BY <1>7

(* Every non-empty part of an interval has a greatest element.             *)
LEMMA MaxOfPart ==
    ASSUME NEW n \in Nat, NEW S \in SUBSET (1..n), S # {}
    PROVE  Max(S) \in S /\ \A y \in S : Max(S) >= y
<1> DEFINE T == {x \in 0..n : n - x \in S}
<1>1. T \subseteq Nat /\ T # {}
  <2>1. PICK x \in S : TRUE
    OBVIOUS
  <2>2. n - x \in 0..n /\ n - (n - x) = x
    BY <2>1
  <2>3. n - x \in T
    BY <2>1, <2>2
  <2>4. T \subseteq Nat
    OBVIOUS
  <2> HIDE DEF T
  <2> QED BY <2>3, <2>4
<1>2. Min(T) \in T /\ \A y \in T : Min(T) =< y
  <2> HIDE DEF T
  <2> QED BY <1>1, MinIsLeast
<1> DEFINE m == n - Min(T)
<1>3. m \in S
  BY <1>2
<1>4. ASSUME NEW y \in S PROVE m >= y
  <2>1. n - y \in T
    BY <1>4
  <2> QED BY <1>2, <2>1
<1> HIDE DEF m
<1> QED BY <1>3, <1>4 DEF Max

LEMMA IntervalEnds ==
    ASSUME NEW n \in Nat, NEW i \in 1..n
    PROVE  /\ Max(1..i) = i /\ (1..i) \ {i} = 1..(i - 1) /\ 1..i # {}
           /\ Min(i..n) = i /\ (i..n) \ {i} = (i + 1)..n /\ i..n # {}
<1>1. (1..i) \ {i} = 1..(i - 1) /\ 1..i # {} /\ (i..n) \ {i} = (i + 1)..n /\ i..n # {}
  OBVIOUS
<1>2. Max(1..i) = i
  <2>1. Max(1..i) \in 1..i /\ \A y \in 1..i : Max(1..i) >= y
    <3>1. i \in Nat /\ 1..i \in SUBSET (1..i)
      OBVIOUS
    <3> QED BY <1>1, <3>1, MaxOfPart
  <2> QED BY <2>1
<1>3. Min(i..n) = i
  <2>1. i..n \subseteq Nat
    OBVIOUS
  <2>2. Min(i..n) \in i..n /\ \A y \in i..n : Min(i..n) =< y
    BY <1>1, <2>1, MinIsLeast
  <2> QED BY <2>2
<1> QED BY <1>1, <1>2, <1>3

(* A finite set of naturals that is not empty has a greatest element.      *)
LEMMA MaxOfFinite ==
    ASSUME NEW S \in SUBSET Nat, IsFiniteSet(S), S # {}
    PROVE  \E x \in S : \A y \in S : y <= x
<1>1. PICK n \in Nat : ExistsBijection(1..n, S)
  BY FS_NatBijection
<1>2. PICK f \in [1..n -> S] : \A x \in S : \E i \in 1..n : f[i] = x
  BY <1>1 DEF ExistsBijection, Bijection, Surjection
<1> DEFINE P == {i \in 0..n : i = 0 \/ \E a \in 1..i : \A j \in 1..i : f[j] <= f[a]}
<1>3. 0 \in P
  OBVIOUS
<1>4. ASSUME NEW i \in 1..n, i - 1 \in P PROVE i \in P
  <2>1. \A j \in 1..n : f[j] \in Nat
    OBVIOUS
  <2>2. CASE i = 1
    BY <2>1, <2>2
  <2>3. CASE i # 1
    <3>1. PICK a \in 1..(i - 1) : \A j \in 1..(i - 1) : f[j] <= f[a]
      BY <1>4, <2>3
    <3>2. CASE f[i] <= f[a]
      BY <2>1, <3>1, <3>2
    <3>3. CASE f[a] <= f[i]
      <4>1. \A j \in 1..i : f[j] <= f[i]
        BY <2>1, <3>1, <3>3
      <4> QED BY <4>1
    <3> QED BY <2>1, <3>2, <3>3
  <2> QED BY <2>2, <2>3
<1>5. n \in P
  <2> HIDE DEF P
  <2> QED BY <1>3, <1>4, IntervalInduction
<1>6. n # 0
  <2>1. PICK x \in S : TRUE
    OBVIOUS
  <2> QED BY <1>2, <2>1
<1> QED BY <1>2, <1>5, <1>6

-----------------------------------------------------------------------------
(* Sequences of sequences.                                                 *)

(* The elements of a concatenation.                                        *)
LEMMA ConcatElements ==
    ASSUME NEW S, NEW s \in Seq(S), NEW t \in Seq(S)
    PROVE  /\ s \o t \in Seq(S)
           /\ ToSet(s \o t) = ToSet(s) \union ToSet(t)
           /\ IsInjective(s) /\ IsInjective(t) /\ ToSet(s) \intersect ToSet(t) = {} => IsInjective(s \o t)
<1>1. /\ s \o t \in Seq(S) /\ Len(s \o t) = Len(s) + Len(t)
      /\ \A i \in 1..(Len(s) + Len(t)) :
           (s \o t)[i] = IF i <= Len(s) THEN s[i] ELSE t[i - Len(s)]
  BY ConcatProperties
<1>2. /\ Len(s) \in Nat /\ Len(t) \in Nat
      /\ DOMAIN s = 1..Len(s) /\ DOMAIN t = 1..Len(t) /\ DOMAIN (s \o t) = 1..(Len(s) + Len(t))
  BY <1>1, LenProperties
<1> DEFINE u == s \o t
<1>3. /\ \A i \in DOMAIN s : i \in DOMAIN u /\ u[i] = s[i]
      /\ \A i \in DOMAIN t : Len(s) + i \in DOMAIN u /\ u[Len(s) + i] = t[i]
  BY <1>1, <1>2
<1>4. \A i \in DOMAIN u : \/ i \in DOMAIN s /\ u[i] = s[i]
                          \/ i - Len(s) \in DOMAIN t /\ u[i] = t[i - Len(s)] /\ i > Len(s)
  BY <1>1, <1>2
<1> HIDE DEF u
<1>5. ToSet(u) = ToSet(s) \union ToSet(t)
  BY <1>3, <1>4 DEF ToSet
<1>6. ASSUME IsInjective(s), IsInjective(t), ToSet(s) \intersect ToSet(t) = {},
             NEW i \in DOMAIN u, NEW j \in DOMAIN u, i # j
      PROVE  u[i] # u[j]
  <2>1. i \in Nat /\ j \in Nat
    BY <1>2 DEF u
  <2>2. CASE i \in DOMAIN s /\ u[i] = s[i] /\ j \in DOMAIN s /\ u[j] = s[j]
    BY <1>6, <2>2 DEF IsInjective
  <2>3. CASE i - Len(s) \in DOMAIN t /\ u[i] = t[i - Len(s)] /\ j - Len(s) \in DOMAIN t
             /\ u[j] = t[j - Len(s)]
    <3>1. i - Len(s) # j - Len(s)
      BY <1>2, <1>6, <2>1
    <3> QED BY <1>6, <2>3, <3>1 DEF IsInjective
  <2>4. CASE i \in DOMAIN s /\ u[i] = s[i] /\ j - Len(s) \in DOMAIN t /\ u[j] = t[j - Len(s)]
    <3>1. u[i] \in ToSet(s) /\ u[j] \in ToSet(t)
      BY <2>4 DEF ToSet
    <3> QED BY <1>6, <3>1
  <2>5. CASE j \in DOMAIN s /\ u[j] = s[j] /\ i - Len(s) \in DOMAIN t /\ u[i] = t[i - Len(s)]
    <3>1. u[j] \in ToSet(s) /\ u[i] \in ToSet(t)
      BY <2>5 DEF ToSet
    <3> QED BY <1>6, <3>1
  <2> QED BY <1>4, <2>2, <2>3, <2>4, <2>5
<1> QED BY <1>1, <1>5, <1>6 DEF u, IsInjective

(* FlattenSeq appends one sequence after the other.                        *)
LEMMA FlattenSteps ==
    ASSUME NEW S, NEW ss \in Seq(Seq(S))
    PROVE  \E e \in [0..Len(ss) -> Seq(S)] :
             /\ e[0] = <<>> /\ e[Len(ss)] = FlattenSeq(ss)
             /\ \A i \in 1..Len(ss) : e[i] = e[i - 1] \o ss[i]
<1> DEFINE n == Len(ss)
           Step(f, i) == IF i = 1 THEN ss[i] ELSE f[i - 1] \o ss[i]
           R(f) == f = [i \in 1..n |-> Step(f, i)]
           Good(k, f) == f \in [1..k -> Seq(S)] /\ \A i \in 1..k : f[i] = Step(f, i)
           P == {k \in 0..n : \E f : Good(k, f)}
<1>0. n \in Nat /\ DOMAIN ss = 1..n /\ (\A i \in 1..n : ss[i] \in Seq(S)) /\ <<>> \in Seq(S)
  BY LenProperties, ElementOfSeq, EmptySeq
<1> HIDE DEF n
<1>1. CASE n = 0
  <2>1. FlattenSeq(ss) = <<>>
    <3>1. ss = <<>>
      BY <1>1, EmptySeq DEF n
    <3> QED BY <3>1 DEF FlattenSeq
  <2> DEFINE e == [i \in 0..n |-> <<>>]
  <2>2. e \in [0..n -> Seq(S)]
    BY <1>0
  <2>3. e[0] = <<>> /\ e[n] = <<>>
    BY <1>1
  <2>4. \A i \in 1..n : FALSE
    BY <1>1
  <2> HIDE DEF e
  <2> QED BY <2>1, <2>2, <2>3, <2>4 DEF n
<1>2. CASE n # 0
  <2>1. FlattenSeq(ss) = (CHOOSE f : R(f))[n]
    BY <1>0, <1>2, EmptySeq DEF FlattenSeq, n
  <2>2. 0 \in P
    <3>1. Good(0, [i \in 1..0 |-> <<>>])
      OBVIOUS
    <3> HIDE DEF Good
    <3> QED BY <1>0, <3>1
  <2>3. ASSUME NEW k \in 1..n, k - 1 \in P PROVE k \in P
    <3>1. PICK f : Good(k - 1, f)
      BY <2>3
    <3> DEFINE g == [i \in 1..k |-> IF i = k THEN Step(f, k) ELSE f[i]]
    <3>2. Step(f, k) \in Seq(S)
      <4>1. k # 1 => f[k - 1] \in Seq(S)
        BY <1>0, <3>1
      <4> QED BY <1>0, <4>1, ConcatProperties
    <3>3. g \in [1..k -> Seq(S)]
      BY <1>0, <3>1, <3>2
    <3>4. \A i \in 1..k : Step(g, i) = Step(f, i)
      BY <1>0
    <3>5. ASSUME NEW i \in 1..k PROVE g[i] = Step(f, i)
      <4>1. g[i] = IF i = k THEN Step(f, k) ELSE f[i]
        OBVIOUS
      <4>2. CASE i = k
        <5> HIDE DEF Step, g
        <5> QED BY <4>1, <4>2
      <4>3. CASE i # k
        <5>1. i \in 1..(k - 1)
          BY <1>0, <4>3
        <5>2. f[i] = Step(f, i)
          BY <3>1, <5>1
        <5> HIDE DEF Step, g
        <5> QED BY <4>1, <4>3, <5>2
      <4> QED BY <4>2, <4>3
    <3>6. Good(k, g)
      <4> HIDE DEF Step, g
      <4> QED BY <3>3, <3>4, <3>5
    <3> HIDE DEF Good, g
    <3> QED BY <3>6
  <2>4. n \in P
    <3>1. \A k \in 0..n : k \in P
      <4> HIDE DEF P
      <4> QED BY <1>0, <2>2, <2>3, IntervalInduction
    <3>2. n \in 0..n
      BY <1>0
    <3> HIDE DEF P
    <3> QED BY <3>1, <3>2
  <2>5. PICK f0 : Good(n, f0)
    BY <2>4
  <2>6. R(f0)
    <3> HIDE DEF Step
    <3> QED BY <2>5
  <2> DEFINE f == CHOOSE h : R(h)
  <2>7. R(f)
    <3> HIDE DEF R
    <3> QED BY <2>6
  <2>8. f[n] = FlattenSeq(ss)
    BY <2>1
  <2> HIDE DEF f
  <2>9. \A i \in 1..n : f[i] = Step(f, i)
    <3> HIDE DEF Step
    <3> QED BY <2>7
  <2> DEFINE e == [i \in 0..n |-> IF i = 0 THEN <<>> ELSE f[i]]
  <2>10. \A i \in 1..n : e[i] = e[i - 1] \o ss[i]
    <3> SUFFICES ASSUME NEW i \in 1..n PROVE e[i] = e[i - 1] \o ss[i]
      OBVIOUS
    <3>1. CASE i = 1
      <4>1. e[i] = ss[i] /\ e[i - 1] = <<>>
        BY <1>0, <2>9, <3>1
      <4> QED BY <1>0, <4>1, ConcatEmptySeq
    <3>2. CASE i # 1
      <4>1. i - 1 \in 0..n /\ i - 1 # 0 /\ i \in 0..n /\ i # 0
        BY <1>0, <3>2
      <4>2. e[i - 1] = f[i - 1] /\ e[i] = f[i]
        BY <4>1
      <4>3. f[i] = f[i - 1] \o ss[i]
        BY <2>9, <3>2
      <4> QED BY <4>2, <4>3
    <3> QED BY <3>1, <3>2
  <2>11. e \in [0..n -> Seq(S)]
    <3> DEFINE Q == {i \in 0..n : e[i] \in Seq(S)}
    <3>1. 0 \in Q
      BY <1>0
    <3>2. ASSUME NEW i \in 1..n, i - 1 \in Q PROVE i \in Q
      <4>1. e[i - 1] \in Seq(S) /\ ss[i] \in Seq(S) /\ e[i] = e[i - 1] \o ss[i]
        BY <1>0, <2>10, <3>2
      <4>2. e[i - 1] \o ss[i] \in Seq(S)
        BY <4>1, ConcatProperties
      <4>3. i \in 0..n
        BY <1>0
      <4> HIDE DEF e
      <4> QED BY <4>1, <4>2, <4>3
    <3>3. \A i \in 0..n : i \in Q
      <4> HIDE DEF Q
      <4> QED BY <1>0, <3>1, <3>2, IntervalInduction
    <3>4. \A i \in 0..n : e[i] \in Seq(S)
      BY <3>3
    <3> QED BY <3>4
  <2>12. e[0] = <<>> /\ e[n] = FlattenSeq(ss)
    BY <1>0, <1>2, <2>8
  <2> HIDE DEF e
  <2> QED BY <2>10, <2>11, <2>12 DEF n
<1> QED BY <1>1, <1>2

(* Its elements are those of the sequences, and differ if they do.         *)
LEMMA FlattenElements ==
    ASSUME NEW S, NEW ss \in Seq(Seq(S))
    PROVE  /\ FlattenSeq(ss) \in Seq(S)
           /\ ToSet(FlattenSeq(ss)) = UNION {ToSet(ss[i]) : i \in 1..Len(ss)}
           /\ /\ \A i \in 1..Len(ss) : IsInjective(ss[i])
              /\ \A i, j \in 1..Len(ss) : i # j => ToSet(ss[i]) \intersect ToSet(ss[j]) = {}
              => IsInjective(FlattenSeq(ss))
<1> DEFINE n == Len(ss)
           Apart == /\ \A i \in 1..n : IsInjective(ss[i])
                    /\ \A i, j \in 1..n : i # j => ToSet(ss[i]) \intersect ToSet(ss[j]) = {}
<1>0. n \in Nat /\ \A i \in 1..n : ss[i] \in Seq(S)
  BY LenProperties, ElementOfSeq
<1> HIDE DEF n
<1>1. PICK e \in [0..n -> Seq(S)] : /\ e[0] = <<>> /\ e[n] = FlattenSeq(ss)
                                    /\ \A i \in 1..n : e[i] = e[i - 1] \o ss[i]
  BY FlattenSteps DEF n
<1> DEFINE U(k) == UNION {ToSet(ss[i]) : i \in 1..k}
           P == {k \in 0..n : ToSet(e[k]) = U(k) /\ (Apart => IsInjective(e[k]))}
<1>2. 0 \in P
  <2>1. DOMAIN <<>> = {}
    BY EmptySeq, LenProperties
  <2>2. ToSet(<<>>) = {} /\ IsInjective(<<>>)
    BY <2>1 DEF ToSet, IsInjective
  <2>3. U(0) = {}
    OBVIOUS
  <2>4. 0 \in 0..n
    BY <1>0
  <2> HIDE DEF U, Apart
  <2> QED BY <1>1, <2>2, <2>3, <2>4
<1>3. ASSUME NEW k \in 1..n, k - 1 \in P PROVE k \in P
  <2>1. e[k - 1] \in Seq(S) /\ ss[k] \in Seq(S) /\ e[k] = e[k - 1] \o ss[k]
    <3>1. k - 1 \in 0..n
      BY <1>0
    <3> QED BY <1>0, <1>1, <3>1
  <2>2. U(k) = U(k - 1) \union ToSet(ss[k])
    <3>1. 1..k = (1..(k - 1)) \union {k}
      BY <1>0
    <3> QED BY <3>1
  <2>3. ToSet(e[k - 1]) = U(k - 1) /\ (Apart => IsInjective(e[k - 1]))
    BY <1>3
  <2>4. Apart => U(k - 1) \intersect ToSet(ss[k]) = {}
    <3>1. \A i \in 1..(k - 1) : i \in 1..n /\ i # k
      BY <1>0
    <3> QED BY <3>1
  <2>5. Apart => IsInjective(ss[k])
    OBVIOUS
  <2> HIDE DEF U, Apart
  <2>6. ToSet(e[k]) = U(k)
    BY <2>1, <2>2, <2>3, ConcatElements
  <2>7. Apart => IsInjective(e[k])
    BY <2>1, <2>3, <2>4, <2>5, ConcatElements
  <2>8. k \in 0..n
    BY <1>0
  <2> QED BY <2>6, <2>7, <2>8
<1>4. n \in P
  <2>1. \A k \in 0..n : k \in P
    <3> HIDE DEF P
    <3> QED BY <1>0, <1>2, <1>3, IntervalInduction
  <2>2. n \in 0..n
    BY <1>0
  <2> HIDE DEF P
  <2> QED BY <2>1, <2>2
<1>5. e[n] \in Seq(S)
  BY <1>0, <1>1
<1> QED BY <1>1, <1>4, <1>5 DEF n, P
=============================================================================
