------------------------------ MODULE DataLemmas ------------------------------
(***************************************************************************)
(* Facts about numbers and sequences that the proofs of several modules    *)
(* cite.  Induction is over sets: a set of numbers that has 0 and with     *)
(* every number its successor has them all, so that a proof by induction   *)
(* names the set of the numbers for which its claim holds.                 *)
(***************************************************************************)
EXTENDS Queues, FiniteSetsExt, WellFoundedInduction, TLAPS

\* Every set of natural numbers that is not empty has a least one.
LEMMA LeastNatural ==
  ASSUME NEW S \in SUBSET Nat, S # {}
  PROVE  \E x \in S : \A y \in S : x <= y
<1> DEFINE R == OpToRel(<, Nat)
<1>1. IsWellFoundedOn(R, Nat)
  BY NatLessThanWellFounded
<1>2. \A x, y \in Nat : <<y, x>> \in R <=> y < x
  BY Zenon DEF OpToRel
<1> HIDE DEF R
<1>3. PICK x \in S : \A y \in S : ~ (<<y, x>> \in R)
  BY <1>1, WFMin, Zenon
<1>4. \A y \in S : ~ (y < x)
  BY <1>2, <1>3, Zenon
<1>5. \A y \in S : x <= y
  BY <1>4
<1> QED
  BY <1>5

\* Every set of natural numbers below a bound that is not empty has a greatest one.
LEMMA GreatestNatural ==
  ASSUME NEW S \in SUBSET Nat, S # {}, NEW bound \in Nat, \A y \in S : y <= bound
  PROVE  \E x \in S : \A y \in S : y <= x
<1> DEFINE T == {n \in Nat : bound - n \in S}
<1>1. T \in SUBSET Nat /\ T # {}
  <2>1. PICK y \in S : TRUE
    OBVIOUS
  <2>2. bound - y \in T
    BY <2>1
  <2> QED
    BY <2>2
<1>2. PICK n \in T : \A k \in T : n <= k
  <2> HIDE DEF T
  <2> QED
    BY <1>1, LeastNatural
<1>3. \A y \in S : bound - y \in T
  OBVIOUS
<1>4. \A y \in S : n <= bound - y /\ y \in Nat
  BY <1>2, <1>3
<1>5. \A y \in S : y <= bound - n
  BY <1>4
<1> QED
  BY <1>2, <1>5

\* Induction.
LEMMA Induction ==
  ASSUME NEW S \in SUBSET Nat, 0 \in S, \A n \in S : n + 1 \in S
  PROVE  S = Nat
<1> SUFFICES ASSUME S # Nat PROVE FALSE
  OBVIOUS
<1> DEFINE T == Nat \ S
<1>1. PICK x \in T : \A y \in T : x <= y
  <2>1. T \in SUBSET Nat /\ T # {}
    OBVIOUS
  <2> HIDE DEF T
  <2> QED
    BY <2>1, LeastNatural
<1>2. x # 0 /\ x - 1 \in Nat /\ x - 1 \in S
  BY <1>1
<1> QED
  BY <1>1, <1>2

\* Min, of a set of natural numbers.
LEMMA MinIsLeast ==
  ASSUME NEW S \in SUBSET Nat, S # {}
  PROVE  Min(S) \in S /\ \A y \in S : Min(S) <= y
<1>1. \E x \in S : \A y \in S : x <= y
  BY LeastNatural
<1> QED
  BY <1>1 DEF Min

-----------------------------------------------------------------------------
(***************************************************************************)
(* Sequences: what Without leaves.                                         *)
(***************************************************************************)
\* The recursive definition of Without has a solution: every prefix of it has.
KeptStep(q, drop, g, n) ==
  IF n = 0 THEN <<>> ELSE IF q[n] \in drop THEN g[n - 1] ELSE Append(g[n - 1], q[n])
IsKept(q, drop, g, len) == g = [n \in 0 .. len |-> KeptStep(q, drop, g, n)]

LEMMA KeptExists ==
  ASSUME NEW q, NEW drop, NEW len \in Nat
  PROVE  \E g : IsKept(q, drop, g, len)
<1> DEFINE Solved == {m \in Nat : \E g : IsKept(q, drop, g, m)}
<1>1. 0 \in Solved
  <2> DEFINE g == [n \in 0 .. 0 |-> <<>>]
  <2>1. IsKept(q, drop, g, 0)
    BY DEF KeptStep, IsKept
  <2> HIDE DEF g
  <2> QED
    BY <2>1
<1>2. ASSUME NEW m \in Solved PROVE m + 1 \in Solved
  <2>1. PICK g : IsKept(q, drop, g, m)
    OBVIOUS
  <2> DEFINE h == [n \in 0 .. m + 1 |-> IF n <= m THEN g[n] ELSE KeptStep(q, drop, g, n)]
  <2>2. \A n \in 0 .. m + 1 : h[n] = KeptStep(q, drop, h, n)
    <3> SUFFICES ASSUME NEW n \in 0 .. m + 1 PROVE h[n] = KeptStep(q, drop, h, n)
      OBVIOUS
    <3>1. h[n] = KeptStep(q, drop, g, n)
      BY <2>1 DEF IsKept
    <3>2. n # 0 => n - 1 \in 0 .. m /\ h[n - 1] = g[n - 1]
      OBVIOUS
    <3> HIDE DEF h
    <3> QED
      BY <3>1, <3>2 DEF KeptStep
  <2>3. h = [n \in 0 .. m + 1 |-> h[n]]
    OBVIOUS
  <2> HIDE DEF h
  <2>4. IsKept(q, drop, h, m + 1)
    BY <2>2, <2>3 DEF IsKept
  <2> QED
    BY <2>4
<1> HIDE DEF Solved
<1>3. Solved = Nat
  <2>1. Solved \subseteq Nat
    BY DEF Solved
  <2> QED
    BY <1>1, <1>2, <2>1, Induction
<1> QED
  BY <1>3 DEF Solved

\* s is what is left of the first n elements of q, and f tells where it comes from.
LeftOf(T, q, drop, n, s, f) ==
  /\ s \in Seq(T)
  /\ f \in [DOMAIN s -> 1 .. n]
  /\ \A i, j \in DOMAIN s : i < j => f[i] < f[j]
  /\ \A i \in DOMAIN s : s[i] = q[f[i]]
  /\ \A k \in 1 .. n : q[k] \notin drop <=> \E i \in DOMAIN s : f[i] = k

\* What is left of a queue is a subsequence of it: everything but `drop`.
LEMMA WithoutEmbeds ==
  ASSUME NEW T, NEW q \in Seq(T), NEW drop
  PROVE  /\ Without(q, drop) \in Seq(T)
         /\ \E f : LeftOf(T, q, drop, Len(q), Without(q, drop), f)
<1>0. Len(q) \in Nat /\ DOMAIN q = 1 .. Len(q) /\ \A k \in 1 .. Len(q) : q[k] \in T
  OBVIOUS
<1>1. PICK g : IsKept(q, drop, g, Len(q)) /\ Without(q, drop) = g[Len(q)]
  <2> DEFINE kept == CHOOSE g : IsKept(q, drop, g, Len(q))
  <2>1. IsKept(q, drop, kept, Len(q))
    BY <1>0, KeptExists
  <2>2. Without(q, drop) = kept[Len(q)]
    BY DEF Without, KeptStep, IsKept
  <2> HIDE DEF kept
  <2> QED
    BY <2>1, <2>2
<1>g. \A n \in 0 .. Len(q) : g[n] = KeptStep(q, drop, g, n)
  BY <1>1 DEF IsKept
<1> DEFINE Good == {n \in Nat : n <= Len(q) => \E f : LeftOf(T, q, drop, n, g[n], f)}
<1>2. 0 \in Good
  <2>1. g[0] = <<>>
    BY <1>0, <1>g DEF KeptStep
  <2>2. LeftOf(T, q, drop, 0, <<>>, [i \in {} |-> 0])
    BY DEF LeftOf
  <2> QED
    BY <2>1, <2>2
<1>3. ASSUME NEW n \in Good PROVE n + 1 \in Good
  <2> SUFFICES ASSUME n + 1 <= Len(q) PROVE \E f : LeftOf(T, q, drop, n + 1, g[n + 1], f)
    OBVIOUS
  <2>1. PICK f : LeftOf(T, q, drop, n, g[n], f)
    BY <1>0
  <2>2. g[n + 1] = IF q[n + 1] \in drop THEN g[n] ELSE Append(g[n], q[n + 1])
    <3>1. n + 1 \in 0 .. Len(q) /\ n + 1 # 0 /\ (n + 1) - 1 = n
      BY <1>0
    <3> QED
      BY <1>g, <3>1 DEF KeptStep
  <2> PICK s, t, len, d : s = g[n] /\ t = g[n + 1] /\ len = Len(s) /\ d = q[n + 1]
    OBVIOUS
  <2>3. /\ s \in Seq(T) /\ len \in Nat /\ DOMAIN s = 1 .. len /\ d \in T /\ n \in Nat
        /\ n + 1 \in DOMAIN q
    BY <1>0, <2>1 DEF LeftOf
  <2>6. LeftOf(T, q, drop, n, s, f) /\ t = IF d \in drop THEN s ELSE Append(s, d)
    BY <2>1, <2>2
  <2> HIDE DEF Good
  <2>4. ASSUME d \in drop PROVE LeftOf(T, q, drop, n + 1, t, f)
    <3>1. t = s
      BY <2>6, <2>4
    <3>2. \A i \in DOMAIN s : f[i] \in 1 .. n
      BY <2>6 DEF LeftOf
    <3>3. \A k \in 1 .. n + 1 : k \in 1 .. n \/ k = n + 1
      BY <2>3
    <3>4. f \in [DOMAIN s -> 1 .. n + 1] /\ n + 1 \notin 1 .. n
      BY <2>3, <2>6 DEF LeftOf
    <3>5. \A k \in 1 .. n : q[k] \notin drop <=> \E i \in DOMAIN s : f[i] = k
      BY <2>6 DEF LeftOf
    <3>6. \A k \in 1 .. n + 1 : q[k] \notin drop <=> \E i \in DOMAIN s : f[i] = k
      BY <2>4, <3>2, <3>3, <3>4, <3>5
    <3> QED
      BY <2>6, <3>1, <3>4, <3>6 DEF LeftOf
  <2>5. ASSUME d \notin drop PROVE \E h : LeftOf(T, q, drop, n + 1, t, h)
    <3> DEFINE h == [i \in 1 .. len + 1 |-> IF i <= len THEN f[i] ELSE n + 1]
    <3>1. /\ t = Append(s, d) /\ t \in Seq(T) /\ DOMAIN t = 1 .. len + 1
          /\ t[len + 1] = d /\ \A i \in 1 .. len : t[i] = s[i]
      BY <2>3, <2>6, <2>5
    <3>6. /\ f \in [1 .. len -> 1 .. n]
          /\ \A i, j \in 1 .. len : i < j => f[i] < f[j]
          /\ \A i \in 1 .. len : s[i] = q[f[i]]
      BY <2>3, <2>6 DEF LeftOf
    <3>9. \A i \in 1 .. len : f[i] \in 1 .. n
      BY <3>6
    <3>7. h[len + 1] = n + 1 /\ \A i \in 1 .. len : h[i] = f[i] /\ h[i] \in 1 .. n
      BY <2>3, <3>9
    <3>2. h \in [DOMAIN t -> 1 .. n + 1]
      BY <2>3, <3>1, <3>6
    <3>3. \A i, j \in DOMAIN t : i < j => h[i] < h[j]
      BY <2>3, <3>1, <3>6
    <3> HIDE DEF h
    <3>4. \A i \in DOMAIN t : t[i] = q[h[i]]
      BY <2>3, <3>1, <3>6, <3>7
    <3>5. \A k \in 1 .. n + 1 : q[k] \notin drop <=> \E i \in DOMAIN t : h[i] = k
      <4>1. ASSUME NEW k \in 1 .. n PROVE q[k] \notin drop <=> \E i \in DOMAIN t : h[i] = k
        <5>1. q[k] \notin drop <=> \E i \in 1 .. len : f[i] = k
          BY <2>3, <2>6 DEF LeftOf
        <5>2. k # n + 1
          BY <2>3
        <5>3. \A i \in DOMAIN t : i \in 1 .. len \/ i = len + 1
          BY <2>3, <3>1
        <5>4. 1 .. len \subseteq DOMAIN t
          BY <2>3, <3>1
        <5> QED
          BY <3>7, <5>1, <5>2, <5>3, <5>4
      <4>2. h[len + 1] = n + 1 /\ len + 1 \in DOMAIN t
        BY <2>3, <3>1, <3>7
      <4>3. \A k \in 1 .. n + 1 : k \in 1 .. n \/ k = n + 1
        BY <2>3
      <4> QED
        BY <2>5, <4>1, <4>2, <4>3
    <3>8. LeftOf(T, q, drop, n + 1, t, h)
      BY <3>1, <3>2, <3>3, <3>4, <3>5 DEF LeftOf
    <3> QED
      BY <3>8
  <2> QED
    BY <2>4, <2>5
<1>4. Good = Nat
  <2> HIDE DEF Good
  <2>1. Good \subseteq Nat
    BY DEF Good
  <2> QED
    BY <1>2, <1>3, <2>1, Induction
<1>5. PICK f : LeftOf(T, q, drop, Len(q), Without(q, drop), f)
  BY <1>0, <1>1, <1>4
<1> QED
  BY <1>5 DEF LeftOf
=============================================================================
