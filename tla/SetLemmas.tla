----------------------------- MODULE SetLemmas -----------------------------
(***************************************************************************)
(* Lemmas the proof modules share: least elements, induction over the      *)
(* subsets of a finite set, and what SumFunctionOnSet of the community     *)
(* modules computes on any finite set.  It folds the set in an order that  *)
(* CHOOSE picks, by a recursion over the subsets.                          *)
(***************************************************************************)
EXTENDS FiniteSetsExt, FiniteSetTheorems, TLAPS

(* "less than" on Nat, as a set of pairs, is well founded.                 *)
LEMMA NatOrderWellFounded ==
  \E R : IsWellFoundedOn(R, Nat) /\ \A m, n \in Nat : <<m, n>> \in R <=> m < n
<1>1. \A m, n \in Nat : <<m, n>> \in OpToRel(<, Nat) <=> m < n
  BY Zenon DEF OpToRel
<1> QED
  BY <1>1, NatLessThanWellFounded, Zenon

(* A nonempty set of natural numbers has a least element.                  *)
LEMMA LeastExists ==
  ASSUME NEW S \in SUBSET Nat, S # {}
  PROVE  \E m \in S : \A n \in S : m <= n
<1>1. PICK R : IsWellFoundedOn(R, Nat) /\ \A m, n \in Nat : <<m, n>> \in R <=> m < n
  BY NatOrderWellFounded, Zenon
<1>2. PICK m \in S : \A n \in S : ~(<<n, m>> \in R)
  <2>1. S \subseteq Nat
    OBVIOUS
  <2>2. IsWellFoundedOn(R, Nat)
    BY <1>1
  <2> QED
    BY <2>1, <2>2, WFMin, Zenon
<1>3. ASSUME NEW n \in S PROVE m <= n
  <2>1. m \in Nat /\ n \in Nat
    OBVIOUS
  <2>2. ~(<<n, m>> \in R)
    BY <1>2
  <2>3. ~(n < m)
    BY <1>1, <2>1, <2>2, Zenon
  <2> QED
    BY <2>1, <2>3
<1> QED
  BY <1>3

-----------------------------------------------------------------------------
(* The body of the recursion of a sum, and a function that satisfies it on the     *)
(* subsets of a set.                                                       *)
SumStep(f, g, s) ==
    IF s = {} THEN 0
    ELSE f[CHOOSE x \in s : TRUE] + g[s \ {CHOOSE x \in s : TRUE}]

Sums(f, g, S) == g = [s \in SUBSET S |-> SumStep(f, g, s)]

(* Any element may be taken off first.                                     *)
AnyOrder(f, g, S) == \A s \in SUBSET S : \A x \in s : g[s] = f[x] + g[s \ {x}]

(* Induction over the subsets of a finite set, for a set of subsets.       *)
LEMMA SubsetInduction ==
    ASSUME NEW S, IsFiniteSet(S), NEW Good \in SUBSET (SUBSET S),
           \A s \in SUBSET S :
               (\A u \in SUBSET s : u # s => u \in Good) => s \in Good
    PROVE  Good = SUBSET S
<1> DEFINE Bad == (SUBSET S) \ Good
<1> SUFFICES ASSUME Bad # {} PROVE FALSE
  OBVIOUS
<1>1. IsWellFoundedOn(StrictSubsetOrdering(S), SUBSET S)
  <2>1. FiniteSubsetsOf(S) = SUBSET S
    BY FS_FiniteSubsetsOfFinite
  <2>2. IsWellFoundedOn(StrictSubsetOrdering(S), FiniteSubsetsOf(S))
    BY FS_StrictSubsetOrderingWellFounded
  <2> QED
    BY <2>1, <2>2
<1>2. PICK s \in SUBSET S :
        s \notin Good /\ \A u \in Bad : ~(<<u, s>> \in StrictSubsetOrdering(S))
  <2>1. PICK s \in Bad : \A u \in Bad : ~(<<u, s>> \in StrictSubsetOrdering(S))
    <3> HIDE DEF Bad
    <3>1. Bad \subseteq SUBSET S
      BY DEF Bad
    <3> QED
      BY <1>1, <3>1, WFMin
  <2>2. s \in (SUBSET S) \ Good
    OBVIOUS
  <2> QED
    BY <2>1, <2>2
<1>3. ASSUME NEW u \in SUBSET s, u # s PROVE u \in Good
  <2>1. u \in SUBSET S
    OBVIOUS
  <2>2. <<u, s>> \in StrictSubsetOrdering(S)
    BY <1>3, <2>1 DEF StrictSubsetOrdering
  <2> QED
    BY <1>2, <2>1, <2>2
<1>4. \A u \in SUBSET s : u # s => u \in Good
  BY <1>3
<1> QED
  BY <1>2, <1>4

(* The recursion has a solution, built one cardinality after the other.    *)
LEMMA SumsExist ==
    ASSUME NEW S, IsFiniteSet(S), NEW f, \A x \in S : f[x] \in Nat
    PROVE  \E g \in [SUBSET S -> Nat] : Sums(f, g, S)
<1> DEFINE Upto(n, g) == \A s \in SUBSET S : Cardinality(s) <= n => g[s] = SumStep(f, g, s)
           Good == {t \in SUBSET S : \E g \in [SUBSET S -> Nat] : Upto(Cardinality(t), g)}
<1>0. \A t \in SUBSET S : IsFiniteSet(t) /\ Cardinality(t) \in Nat
  BY FS_Subset, FS_CardinalityType
<1>1. ASSUME NEW t \in SUBSET S, \A u \in SUBSET t : u # t => u \in Good
      PROVE  t \in Good
  <2>1. CASE t = {}
    <3> DEFINE g == [s \in SUBSET S |-> 0]
    <3>1. ASSUME NEW s \in SUBSET S, Cardinality(s) <= 0 PROVE s = {}
      BY <1>0, <3>1, FS_EmptySet
    <3>2. Upto(Cardinality(t), g)
      BY <2>1, <3>1, FS_EmptySet DEF SumStep
    <3>3. g \in [SUBSET S -> Nat]
      OBVIOUS
    <3> QED
      BY <3>2, <3>3
  <2>2. CASE t # {}
    <3>1. PICK y \in t : TRUE
      BY <2>2
    <3> DEFINE n == Cardinality(t \ {y})
    <3>2. t \ {y} \in Good
      BY <1>1, <3>1
    <3>3. Cardinality(t) = n + 1 /\ n \in Nat
      BY <1>0, <3>1, FS_RemoveElement
    <3>4. PICK g \in [SUBSET S -> Nat] : Upto(n, g)
      BY <3>2
    <3> DEFINE h == [s \in SUBSET S |->
                       IF Cardinality(s) <= n + 1 THEN SumStep(f, g, s) ELSE 0]
    <3>5. \A s \in SUBSET S : SumStep(f, g, s) \in Nat
      BY DEF SumStep
    <3>6. h \in [SUBSET S -> Nat]
      BY <3>5
    <3>7. ASSUME NEW s \in SUBSET S, Cardinality(s) <= n + 1
          PROVE  h[s] = SumStep(f, h, s)
      <4> DEFINE x == CHOOSE x \in s : TRUE
      <4>1. h[s] = SumStep(f, g, s)
        BY <3>7
      <4>2. CASE s # {}
        <5>1. x \in s /\ s \ {x} \in SUBSET S
          BY <4>2
        <5>2. Cardinality(s \ {x}) = Cardinality(s) - 1 /\ Cardinality(s) \in Nat
          BY <1>0, <5>1, FS_RemoveElement
        <5> HIDE DEF x, n
        <5>3. Cardinality(s \ {x}) <= n /\ Cardinality(s \ {x}) <= n + 1
          BY <3>3, <3>7, <5>2
        <5>4. h[s \ {x}] = SumStep(f, g, s \ {x})
          BY <5>1, <5>3
        <5>5. g[s \ {x}] = SumStep(f, g, s \ {x})
          BY <3>4, <5>1, <5>3
        <5> HIDE DEF h
        <5> QED
          BY <4>1, <4>2, <5>4, <5>5 DEF SumStep, x
      <4>3. CASE s = {}
        BY <4>1, <4>3 DEF SumStep
      <4> QED
        BY <4>2, <4>3
    <3>8. Upto(Cardinality(t), h)
      BY <3>3, <3>7
    <3> QED
      BY <3>6, <3>8
  <2> QED
    BY <2>1, <2>2
<1>2. S \in Good
  <2> HIDE DEF Good
  <2>1. Good \in SUBSET (SUBSET S)
    BY DEF Good
  <2>2. Good = SUBSET S
    BY <1>1, <2>1, SubsetInduction
  <2> QED
    BY <2>2
<1>3. PICK g \in [SUBSET S -> Nat] : Upto(Cardinality(S), g)
  BY <1>2
<1>4. ASSUME NEW s \in SUBSET S PROVE g[s] = SumStep(f, g, s)
  <2>1. Cardinality(s) <= Cardinality(S)
    BY FS_Subset
  <2> QED
    BY <1>3, <2>1
<1>5. g = [s \in SUBSET S |-> SumStep(f, g, s)]
  BY <1>4
<1> QED
  BY <1>5 DEF Sums

(* Two solutions agree where both are defined.                             *)
LEMMA SumsAgree ==
    ASSUME NEW S, IsFiniteSet(S), NEW T \in SUBSET S, NEW f, NEW g, NEW h,
           Sums(f, g, S), Sums(f, h, T)
    PROVE  g[T] = h[T]
<1> DEFINE Good == {t \in SUBSET T : g[t] = h[t]}
<1>1. ASSUME NEW t \in SUBSET T, \A u \in SUBSET t : u # t => u \in Good
      PROVE  t \in Good
  <2>1. g[t] = SumStep(f, g, t) /\ h[t] = SumStep(f, h, t)
    BY DEF Sums
  <2>2. CASE t = {}
    BY <2>1, <2>2 DEF SumStep
  <2>3. CASE t # {}
    <3> DEFINE x == CHOOSE x \in t : TRUE
    <3>1. x \in t
      BY <2>3
    <3>2. g[t \ {x}] = h[t \ {x}]
      BY <1>1, <3>1
    <3> QED
      BY <2>1, <2>3, <3>2 DEF SumStep
  <2> QED
    BY <2>2, <2>3
<1>2. IsFiniteSet(T)
  BY FS_Subset
<1> HIDE DEF Good
<1>3. Good = SUBSET T
  <2>1. Good \in SUBSET (SUBSET T)
    BY DEF Good
  <2> QED
    BY <1>1, <1>2, <2>1, SubsetInduction
<1> QED
  BY <1>3 DEF Good

LEMMA SumUnfolded ==
    ASSUME NEW f, NEW S
    PROVE  SumFunctionOnSet(f, S) =
             (CHOOSE g : g = [s \in SUBSET S |-> SumStep(f, g, s)])[S]
BY DEF SumFunctionOnSet, FoldFunctionOnSet, MapThenFoldSet, SumStep

(* The sum over a part of a set is what a solution over the set gives.     *)
LEMMA SumIsSums ==
    ASSUME NEW S, IsFiniteSet(S), NEW T \in SUBSET S, NEW f,
           \A x \in S : f[x] \in Nat, NEW g, Sums(f, g, S)
    PROVE  SumFunctionOnSet(f, T) = g[T]
<1> DEFINE h == CHOOSE h : h = [s \in SUBSET T |-> SumStep(f, h, s)]
<1>1. IsFiniteSet(T) /\ \A x \in T : f[x] \in Nat
  BY FS_Subset
<1>2. \E h_1 : Sums(f, h_1, T)
  BY <1>1, SumsExist
<1>3. Sums(f, h, T)
  BY <1>2 DEF Sums
<1>4. SumFunctionOnSet(f, T) = h[T]
  BY SumUnfolded
<1> HIDE DEF h
<1> QED
  BY <1>3, <1>4, SumsAgree

(* A solution does not depend on the order that CHOOSE picks.              *)
LEMMA SumsAnyOrder ==
    ASSUME NEW S, IsFiniteSet(S), NEW f, \A x \in S : f[x] \in Nat,
           NEW g \in [SUBSET S -> Nat], Sums(f, g, S)
    PROVE  AnyOrder(f, g, S)
<1> DEFINE Good == {s \in SUBSET S : \A x \in s : g[s] = f[x] + g[s \ {x}]}
<1>1. ASSUME NEW s \in SUBSET S, \A u \in SUBSET s : u # s => u \in Good
      PROVE  s \in Good
  <2> SUFFICES ASSUME NEW x \in s PROVE g[s] = f[x] + g[s \ {x}]
    OBVIOUS
  <2> DEFINE c == CHOOSE c \in s : TRUE
  <2>1. c \in s
    OBVIOUS
  <2>2. g[s] = f[c] + g[s \ {c}]
    BY DEF Sums, SumStep
  <2> HIDE DEF c
  <2>3. CASE x # c
    <3>1. s \ {c} \in Good /\ s \ {x} \in Good
      BY <1>1, <2>1
    <3>2. g[s \ {c}] = f[x] + g[(s \ {c}) \ {x}]
      BY <2>3, <3>1
    <3>3. g[s \ {x}] = f[c] + g[(s \ {x}) \ {c}]
      BY <2>1, <2>3, <3>1
    <3>4. (s \ {c}) \ {x} = (s \ {x}) \ {c}
      OBVIOUS
    <3> DEFINE rest == g[(s \ {x}) \ {c}]
    <3>5. f[x] \in Nat /\ f[c] \in Nat /\ rest \in Nat
      BY <2>1
    <3>6. g[s] = f[c] + (f[x] + rest)
      BY <2>2, <3>2, <3>4
    <3>7. g[s \ {x}] = f[c] + rest
      BY <3>3
    <3> HIDE DEF rest
    <3>8. f[c] + (f[x] + rest) = f[x] + (f[c] + rest)
      BY <3>5
    <3> QED
      BY <3>6, <3>7, <3>8
  <2> QED
    BY <2>2, <2>3
<1> HIDE DEF Good
<1>2. Good = SUBSET S
  <2>1. Good \in SUBSET (SUBSET S)
    BY DEF Good
  <2> QED
    BY <1>1, <2>1, SubsetInduction
<1> QED
  BY <1>2 DEF Good, AnyOrder

(* What the sum of a function over a finite set is: a natural number, zero *)
(* on the empty set, and one summand more for every element more.          *)
LEMMA SumProperties ==
    ASSUME NEW S, IsFiniteSet(S), NEW f, \A x \in S : f[x] \in Nat
    PROVE  /\ SumFunctionOnSet(f, {}) = 0
           /\ \A T \in SUBSET S : SumFunctionOnSet(f, T) \in Nat
           /\ \A T \in SUBSET S : \A x \in T :
                 SumFunctionOnSet(f, T) = f[x] + SumFunctionOnSet(f, T \ {x})
<1>1. PICK g \in [SUBSET S -> Nat] : Sums(f, g, S)
  BY SumsExist
<1>2. \A T \in SUBSET S : SumFunctionOnSet(f, T) = g[T]
  BY <1>1, SumIsSums
<1>3. AnyOrder(f, g, S)
  BY <1>1, SumsAnyOrder
<1>4. g[{}] = 0
  BY <1>1 DEF Sums, SumStep
<1> QED
  BY <1>2, <1>3, <1>4 DEF AnyOrder

(* A set and its one to one image have as many elements.                   *)
LEMMA OneToOne ==
    ASSUME NEW S, IsFiniteSet(S), NEW r, \A x, y \in S : r[x] = r[y] => x = y
    PROVE  /\ IsFiniteSet({r[x] : x \in S})
           /\ Cardinality({r[x] : x \in S}) = Cardinality(S)
<1> DEFINE T == {r[x] : x \in S}
           g == [x \in S |-> r[x]]
<1>1. g \in Surjection(S, T)
  BY DEF Surjection
<1>2. g \in Injection(S, T)
  BY DEF Injection, IsInjective
<1> HIDE DEF g, T
<1>3. IsFiniteSet(T) /\ Cardinality(T) = Cardinality(S)
  BY <1>1, <1>2, FS_Surjection
<1> QED
  BY <1>3 DEF T

(* Sums over two sets that correspond one to one, where the summands agree *)
(* on a part and are zero on the rest.                                     *)
Matched(S, T, r, e, f) ==
    /\ \A x, y \in S : r[x] = r[y] => x = y
    /\ \A x \in S : e[x] \in Nat /\ f[r[x]] = IF x \in T THEN e[x] ELSE 0

LEMMA SumMatched ==
    ASSUME NEW S, IsFiniteSet(S), NEW T \in SUBSET S, NEW r, NEW e, NEW f,
           Matched(S, T, r, e, f)
    PROVE  SumFunctionOnSet(f, {r[x] : x \in S}) = SumFunctionOnSet(e, T)
<1> USE DEF Matched
<1> DEFINE Image(s) == {r[x] : x \in s}
           Left(s) == SumFunctionOnSet(f, Image(s))
           Right(s) == SumFunctionOnSet(e, s \cap T)
           Good == {s \in SUBSET S : Left(s) = Right(s)}
<1>1. /\ IsFiniteSet(Image(S))
      /\ \A y \in Image(S) : f[y] \in Nat
  <2>1. IsFiniteSet(Image(S))
    BY OneToOne
  <2> QED
    BY <2>1
<1>2. /\ SumFunctionOnSet(f, {}) = 0
      /\ \A U \in SUBSET Image(S) : \A y \in U :
            SumFunctionOnSet(f, U) = f[y] + SumFunctionOnSet(f, U \ {y})
  <2> HIDE DEF Image
  <2> QED
    BY <1>1, SumProperties
<1>3. /\ SumFunctionOnSet(e, {}) = 0
      /\ \A U \in SUBSET S : SumFunctionOnSet(e, U) \in Nat
      /\ \A U \in SUBSET S : \A x \in U :
            SumFunctionOnSet(e, U) = e[x] + SumFunctionOnSet(e, U \ {x})
  BY SumProperties
<1>4. ASSUME NEW s \in SUBSET S, \A u \in SUBSET s : u # s => u \in Good
      PROVE  s \in Good
  <2>1. CASE s = {}
    <3>1. Image(s) = {} /\ s \cap T = {}
      BY <2>1
    <3>2. Left(s) = 0 /\ Right(s) = 0
      BY <1>2, <1>3, <3>1, Zenon
    <3> QED
      BY <3>2
  <2>2. CASE s # {}
    <3>1. PICK x \in s : TRUE
      BY <2>2
    <3> DEFINE rest == s \ {x}
    <3>2. rest \in Good /\ rest \in SUBSET S
      BY <1>4, <3>1
    <3>3. Left(rest) = Right(rest)
      BY <3>2
    <3>4. Image(s) \ {r[x]} = Image(rest) /\ r[x] \in Image(s) /\ Image(s) \in SUBSET Image(S)
      BY <3>1
    <3>5. Left(s) = f[r[x]] + Left(rest)
      <4> HIDE DEF Image
      <4>1. SumFunctionOnSet(f, Image(s))
              = f[r[x]] + SumFunctionOnSet(f, Image(s) \ {r[x]})
        BY <1>2, <3>4
      <4> QED
        BY <3>4, <4>1, Zenon
    <3>6. CASE x \in T
      <4>1. (s \cap T) \ {x} = rest \cap T /\ x \in s \cap T /\ s \cap T \in SUBSET S
        BY <3>1, <3>6
      <4>2. SumFunctionOnSet(e, s \cap T) = e[x] + SumFunctionOnSet(e, (s \cap T) \ {x})
        BY <1>3, <4>1
      <4>3. Right(s) = e[x] + Right(rest)
        BY <4>1, <4>2, Zenon
      <4>4. f[r[x]] = e[x]
        BY <3>6
      <4> HIDE DEF Left, Right, rest
      <4>5. Left(s) = Right(s)
        BY <3>3, <3>5, <4>3, <4>4
      <4> QED
        BY <4>5
    <3>7. CASE x \notin T
      <4>1. s \cap T = rest \cap T /\ rest \cap T \in SUBSET S
        BY <3>1, <3>7
      <4>2. Right(s) = Right(rest) /\ Right(rest) \in Nat
        BY <1>3, <4>1
      <4>3. f[r[x]] = 0
        BY <3>7
      <4> HIDE DEF Left, Right, rest
      <4>4. Left(s) = Right(s)
        BY <3>3, <3>5, <4>2, <4>3
      <4> QED
        BY <4>4
    <3> QED
      BY <3>6, <3>7
  <2> QED
    BY <2>1, <2>2
<1>5. S \in Good
  <2> HIDE DEF Good
  <2>1. Good \in SUBSET (SUBSET S)
    BY DEF Good
  <2>2. Good = SUBSET S
    BY <1>4, <2>1, SubsetInduction
  <2> QED
    BY <2>2
<1>6. S \cap T = T
  OBVIOUS
<1> QED
  BY <1>5, <1>6

=============================================================================
