---------------------- MODULE PersistentRuntimeProofs ----------------------
(***************************************************************************)
(* Theorems about PersistentRuntime, for any finite sets of requests and   *)
(* layers, any page size, any capacity, any targets and any set of         *)
(* configurations.                                                         *)
(*                                                                         *)
(* Invariants build on one another: types and a consistent cache, then     *)
(* where each request is (ControlInv), then whose pages may be live and    *)
(* pinned (PagesInv); on these rest PinnedInv, RoomInv and ProgressInv.   *)
(***************************************************************************)
EXTENDS PersistentRuntime, KVPagesProofs, SequenceTheorems, SetLemmas

-----------------------------------------------------------------------------
(* Counting in queues.                                                     *)

(* A queue holds finitely many occurrences; those it holds are members.    *)
LEMMA OccurrencesType ==
  ASSUME NEW S, NEW s \in Seq(S), NEW x
  PROVE  /\ IsFiniteSet({i \in DOMAIN s : s[i] = x})
         /\ Occurrences(s, x) \in Nat
         /\ Occurrences(s, x) # 0 <=> x \in ToSet(s)
<1> DEFINE I == {i \in DOMAIN s : s[i] = x}
<1>1. DOMAIN s = 1..Len(s) /\ Len(s) \in Nat
  BY LenProperties
<1>2. IsFiniteSet(1..Len(s))
  <2>1. 1 \in Int /\ Len(s) \in Int
    BY <1>1
  <2> QED
    BY <2>1, FS_Interval
<1>3. I \in SUBSET (1..Len(s))
  BY <1>1
<1>4. x \in ToSet(s) <=> I # {}
  BY DEF ToSet
<1> HIDE DEF I
<1>5. IsFiniteSet(I) /\ Cardinality(I) \in Nat /\ (Cardinality(I) = 0 <=> I = {})
  BY <1>2, <1>3, FS_Subset, FS_CardinalityType, FS_EmptySet
<1>6. Occurrences(s, x) = Cardinality(I)
  BY DEF Occurrences, I
<1> QED
  BY <1>4, <1>5, <1>6 DEF I

(* Counting is additive over concatenation.                                *)
LEMMA OccurrencesConcat ==
  ASSUME NEW S, NEW s \in Seq(S), NEW t \in Seq(S), NEW x
  PROVE  /\ s \o t \in Seq(S)
         /\ Occurrences(s \o t, x) = Occurrences(s, x) + Occurrences(t, x)
<1> DEFINE A == {i \in DOMAIN s : s[i] = x}
           B == {i \in DOMAIN t : t[i] = x}
           C == {i \in DOMAIN (s \o t) : (s \o t)[i] = x}
           f == [i \in B |-> i + Len(s)]
           D == {f[i] : i \in B}
<1>1. /\ s \o t \in Seq(S)
      /\ Len(s) \in Nat /\ Len(t) \in Nat
      /\ DOMAIN s = 1..Len(s) /\ DOMAIN t = 1..Len(t)
      /\ DOMAIN (s \o t) = 1..(Len(s) + Len(t))
      /\ \A i \in 1..(Len(s) + Len(t)) :
            (s \o t)[i] = IF i <= Len(s) THEN s[i] ELSE t[i - Len(s)]
  BY LenProperties, ConcatProperties
<1>2. IsFiniteSet(A) /\ IsFiniteSet(B)
  BY OccurrencesType
<1>3. IsFiniteSet(D) /\ Cardinality(D) = Cardinality(B)
  <2>1. f \in Surjection(B, D)
    BY DEF Surjection
  <2>2. \A i, j \in B : f[i] = f[j] => i = j
    BY <1>1
  <2>3. f \in Injection(B, D)
    BY <2>1, <2>2 DEF Injection, IsInjective, Surjection
  <2> HIDE DEF f, D, B
  <2> QED
    BY <1>2, <2>1, <2>3, FS_Surjection
<1>4. C = A \cup D
  <2>1. ASSUME NEW i \in C PROVE i \in A \cup D
    <3>1. i \in 1..(Len(s) + Len(t)) /\ (s \o t)[i] = x
      BY <1>1
    <3>2. CASE i <= Len(s)
      BY <1>1, <3>1, <3>2
    <3>3. CASE ~(i <= Len(s))
      <4>1. i - Len(s) \in 1..Len(t) /\ t[i - Len(s)] = x
        BY <1>1, <3>1, <3>3
      <4>2. i - Len(s) \in B /\ f[i - Len(s)] = i
        BY <1>1, <3>1, <4>1
      <4> HIDE DEF f, B
      <4> QED
        BY <4>2
    <3> QED
      BY <3>2, <3>3
  <2>2. ASSUME NEW i \in A PROVE i \in C
    BY <1>1
  <2>3. ASSUME NEW i \in B PROVE f[i] \in C
    <3>1. i \in 1..Len(t) /\ t[i] = x
      BY <1>1
    <3>2. i + Len(s) \in 1..(Len(s) + Len(t)) /\ ~(i + Len(s) <= Len(s))
            /\ (i + Len(s)) - Len(s) = i
      BY <1>1, <3>1
    <3>3. (s \o t)[i + Len(s)] = x
      BY <1>1, <3>1, <3>2
    <3> QED
      BY <1>1, <3>2, <3>3
  <2> HIDE DEF A, B, C, f
  <2> QED
    BY <2>1, <2>2, <2>3
<1>5. A \cap D = {}
  <2>1. ASSUME NEW i \in B PROVE f[i] \notin A
    <3>1. f[i] = i + Len(s) /\ i \in 1..Len(t)
      BY <1>1
    <3> QED
      BY <1>1, <3>1
  <2> HIDE DEF A, B, f
  <2> QED
    BY <2>1
<1> HIDE DEF A, D, C
<1>6. Cardinality(A \cup D)
        = Cardinality(A) + Cardinality(D) - Cardinality(A \cap D)
  BY <1>2, <1>3, FS_Union
<1>7. Cardinality(A \cap D) = 0
  BY <1>5, FS_EmptySet, Zenon
<1>8. Cardinality(A) \in Nat /\ Cardinality(D) \in Nat
  BY <1>2, <1>3, FS_CardinalityType
<1>9. Cardinality(C) = Cardinality(A) + Cardinality(B)
  BY <1>3, <1>4, <1>6, <1>7, <1>8
<1>10. /\ Occurrences(s \o t, x) = Cardinality(C)
       /\ Occurrences(s, x) = Cardinality(A)
       /\ Occurrences(t, x) = Cardinality(B)
  BY DEF Occurrences, A, B, C
<1> QED
  BY <1>1, <1>9, <1>10

(* Nothing occurs in an empty queue, and one request in a queue of one.    *)
LEMMA OccurrencesSingle ==
  ASSUME NEW e, NEW x
  PROVE  /\ Occurrences(<<>>, x) = 0
         /\ Occurrences(<<e>>, x) = IF x = e THEN 1 ELSE 0
<1>1. {i \in DOMAIN <<>> : <<>>[i] = x} = {}
  OBVIOUS
<1>2. Occurrences(<<>>, x) = 0
  BY <1>1, FS_EmptySet, Zenon DEF Occurrences
<1>3. DOMAIN <<e>> = {1} /\ <<e>>[1] = e
  OBVIOUS
<1>4. CASE x = e
  <2>1. {i \in DOMAIN <<e>> : <<e>>[i] = x} = {1}
    BY <1>3, <1>4
  <2> QED
    BY <1>2, <1>4, <2>1, FS_Singleton, Zenon DEF Occurrences
<1>5. CASE x # e
  <2>1. {i \in DOMAIN <<e>> : <<e>>[i] = x} = {}
    BY <1>3, <1>5
  <2> QED
    BY <1>2, <1>5, <2>1, FS_EmptySet, Zenon DEF Occurrences
<1> QED
  BY <1>4, <1>5

(* Pushing a request.                                                      *)
LEMMA OccurrencesAppend ==
  ASSUME NEW S, NEW s \in Seq(S), NEW e \in S, NEW x
  PROVE  /\ Append(s, e) \in Seq(S)
         /\ Occurrences(Append(s, e), x)
              = Occurrences(s, x) + (IF x = e THEN 1 ELSE 0)
<1>1. Append(s, e) = s \o <<e>> /\ <<e>> \in Seq(S) /\ Append(s, e) \in Seq(S)
  BY AppendIsConcat, AppendProperties
<1>2. \A t \in Seq(S) : Occurrences(s \o t, x) = Occurrences(s, x) + Occurrences(t, x)
  BY OccurrencesConcat
<1>3. Occurrences(<<e>>, x) = IF x = e THEN 1 ELSE 0
  BY OccurrencesSingle
<1>4. Occurrences(s \o <<e>>, x) = Occurrences(s, x) + Occurrences(<<e>>, x)
  BY <1>1, <1>2, Zenon
<1> QED
  BY <1>1, <1>3, <1>4, Zenon

(* Taking the i-th request out of a queue.                                 *)
LEMMA OccurrencesRemove ==
  ASSUME NEW S, NEW s \in Seq(S), NEW i \in DOMAIN s, NEW x
  PROVE  /\ s[i] \in S
         /\ RemoveAt(s, i) \in Seq(S)
         /\ Occurrences(RemoveAt(s, i), x)
              = Occurrences(s, x) - (IF x = s[i] THEN 1 ELSE 0)
<1> DEFINE a == SubSeq(s, 1, i - 1)
           b == <<s[i]>>
           c == SubSeq(s, i + 1, Len(s))
<1>1. Len(s) \in Nat /\ i \in 1..Len(s) /\ \A j \in 1..Len(s) : s[j] \in S
  BY LenProperties, ElementOfSeq
<1>2. a \in Seq(S) /\ Len(a) = i - 1 /\ \A j \in 1..(i - 1) : a[j] = s[j]
  <2>1. 1 \in Int /\ i - 1 \in Int /\ \A j \in 1..(i - 1) : s[j] \in S
    BY <1>1
  <2>2. /\ a \in Seq(S)
        /\ Len(a) = IF 1 <= i - 1 THEN (i - 1) - 1 + 1 ELSE 0
        /\ \A j \in 1..((i - 1) - 1 + 1) : a[j] = s[1 + j - 1]
    BY <2>1, SubSeqProperties
  <2>3. \A j \in 1..(i - 1) : 1 + j - 1 = j /\ j \in 1..((i - 1) - 1 + 1)
    BY <1>1
  <2>4. Len(a) = i - 1
    BY <1>1, <2>2
  <2> HIDE DEF a
  <2> QED
    BY <2>2, <2>3, <2>4
<1>3. c \in Seq(S) /\ Len(c) = Len(s) - i
        /\ \A j \in 1..(Len(s) - i) : c[j] = s[i + j]
  <2>1. i + 1 \in Int /\ Len(s) \in Int /\ \A j \in (i + 1)..Len(s) : s[j] \in S
    BY <1>1
  <2>2. /\ c \in Seq(S)
        /\ Len(c) = IF i + 1 <= Len(s) THEN Len(s) - (i + 1) + 1 ELSE 0
        /\ \A j \in 1..(Len(s) - (i + 1) + 1) : c[j] = s[(i + 1) + j - 1]
    BY <2>1, SubSeqProperties
  <2>3. \A j \in 1..(Len(s) - i) :
           (i + 1) + j - 1 = i + j /\ j \in 1..(Len(s) - (i + 1) + 1)
    BY <1>1
  <2>4. Len(c) = Len(s) - i
    BY <1>1, <2>2
  <2> HIDE DEF c
  <2> QED
    BY <2>2, <2>3, <2>4
<1>4. b \in Seq(S) /\ Len(b) = 1 /\ b[1] = s[i]
  BY <1>1
<1>5. RemoveAt(s, i) = a \o c
  BY DEF RemoveAt
<1> HIDE DEF a, b, c
<1>6. /\ a \o b \in Seq(S)
      /\ Len(a \o b) = i
      /\ \A j \in 1..i : (a \o b)[j] = IF j <= i - 1 THEN a[j] ELSE b[j - (i - 1)]
  <2>1. /\ Len(a \o b) = Len(a) + Len(b)
        /\ \A j \in 1..(Len(a) + Len(b)) :
              (a \o b)[j] = IF j <= Len(a) THEN a[j] ELSE b[j - Len(a)]
    BY <1>2, <1>4, ConcatProperties
  <2>2. Len(a) + Len(b) = i
    BY <1>1, <1>2, <1>4
  <2> QED
    BY <1>2, <1>4, <2>1, <2>2, ConcatProperties
<1>7. \A j \in 1..i : (a \o b)[j] = s[j]
  <2>1. ASSUME NEW j \in 1..i PROVE (a \o b)[j] = s[j]
    <3>1. CASE j <= i - 1
      BY <1>1, <1>2, <1>6, <3>1
    <3>2. CASE ~(j <= i - 1)
      <4>1. j = i /\ j - (i - 1) = 1
        BY <1>1, <3>2
      <4>2. (a \o b)[j] = b[j - (i - 1)]
        BY <1>6, <3>2
      <4> QED
        BY <1>4, <4>1, <4>2
    <3> QED
      BY <3>1, <3>2
  <2> QED
    BY <2>1
<1>8. s = (a \o b) \o c
  <2> DEFINE t == (a \o b) \o c
  <2>1. /\ t \in Seq(S)
        /\ Len(t) = Len(a \o b) + Len(c)
        /\ \A j \in 1..(Len(a \o b) + Len(c)) :
              t[j] = IF j <= Len(a \o b) THEN (a \o b)[j] ELSE c[j - Len(a \o b)]
    <3>1. \A u, v \in Seq(S) :
             /\ u \o v \in Seq(S)
             /\ Len(u \o v) = Len(u) + Len(v)
             /\ \A j \in 1..(Len(u) + Len(v)) :
                   (u \o v)[j] = IF j <= Len(u) THEN u[j] ELSE v[j - Len(u)]
      BY ConcatProperties
    <3> QED
      BY <1>3, <1>6, <3>1, Zenon
  <2>2. Len(a \o b) = i /\ Len(a \o b) + Len(c) = Len(s)
    <3>1. Len(a \o b) = i
      BY <1>6, Zenon
    <3>2. i + Len(c) = Len(s)
      BY <1>1, <1>3
    <3> QED
      BY <3>1, <3>2, Zenon
  <2> HIDE DEF t
  <2>3. ASSUME NEW j \in 1..Len(s) PROVE t[j] = s[j]
    <3>1. CASE j <= i
      <4>1. t[j] = (a \o b)[j]
        <5>1. j \in 1..(Len(a \o b) + Len(c)) /\ j <= Len(a \o b)
          BY <2>2, <3>1, Zenon
        <5> QED
          BY <2>1, <5>1, Zenon
      <4>2. j \in 1..i
        BY <1>1, <3>1
      <4> QED
        BY <1>7, <4>1, <4>2, Zenon
    <3>2. CASE ~(j <= i)
      <4>1. t[j] = c[j - i]
        BY <1>6, <2>1, <2>2, <3>2
      <4>2. j - i \in 1..(Len(s) - i) /\ i + (j - i) = j
        BY <1>1, <3>2
      <4>3. c[j - i] = s[i + (j - i)]
        BY <1>3, <4>2
      <4> QED
        BY <4>1, <4>2, <4>3
    <3> QED
      BY <3>1, <3>2
  <2>4. t = s
    BY <2>1, <2>2, <2>3, SeqEqual
  <2> QED
    BY <2>4 DEF t
<1>9. /\ Occurrences(a \o b, x) = Occurrences(a, x) + Occurrences(b, x)
      /\ Occurrences((a \o b) \o c, x) = Occurrences(a \o b, x) + Occurrences(c, x)
      /\ a \o c \in Seq(S)
      /\ Occurrences(a \o c, x) = Occurrences(a, x) + Occurrences(c, x)
  <2>1. \A u, v \in Seq(S) :
           /\ u \o v \in Seq(S)
           /\ Occurrences(u \o v, x) = Occurrences(u, x) + Occurrences(v, x)
    BY OccurrencesConcat
  <2> QED
    BY <1>2, <1>3, <1>4, <1>6, <2>1, Zenon
<1>10. Occurrences(b, x) = IF x = s[i] THEN 1 ELSE 0
  BY OccurrencesSingle DEF b
<1>11. Occurrences(a, x) \in Nat /\ Occurrences(c, x) \in Nat
  BY <1>2, <1>3, OccurrencesType
<1>12. Occurrences(s, x) = Occurrences(a, x) + (IF x = s[i] THEN 1 ELSE 0)
                            + Occurrences(c, x)
  BY <1>8, <1>9, <1>10
<1> QED
  BY <1>1, <1>5, <1>9, <1>11, <1>12

(* Taking the first element of a list.                                     *)
LEMMA OccurrencesTail ==
  ASSUME NEW S, NEW s \in Seq(S), s # <<>>, NEW x
  PROVE  /\ Head(s) \in S
         /\ Tail(s) \in Seq(S)
         /\ Head(s) \in ToSet(s)
         /\ Occurrences(Tail(s), x)
              = Occurrences(s, x) - (IF x = Head(s) THEN 1 ELSE 0)
<1>1. Head(s) \in S /\ Tail(s) \in Seq(S) /\ Len(s) \in Nat \ {0}
  BY HeadTailProperties, EmptySeq
<1>2. s = <<Head(s)>> \o Tail(s)
  <2>1. Tail(s) = SubSeq(s, 2, Len(s)) /\ s = SubSeq(s, 1, Len(s))
    BY TailIsSubSeq, SubSeqFull
  <2>2. 1 \in 1..Len(s) /\ Len(s) \in 1..Len(s) /\ s[1] = Head(s)
    BY <1>1
  <2>3. SubSeq(s, 1, Len(s)) = <<s[1]>> \o SubSeq(s, 1 + 1, Len(s))
    BY <2>2, SubSeqRecursiveFirst
  <2> QED
    BY <2>1, <2>2, <2>3
<1>3. <<Head(s)>> \in Seq(S)
  BY <1>1
<1>4. Occurrences(<<Head(s)>> \o Tail(s), x)
        = Occurrences(<<Head(s)>>, x) + Occurrences(Tail(s), x)
  <2>1. \A u, v \in Seq(S) :
           Occurrences(u \o v, x) = Occurrences(u, x) + Occurrences(v, x)
    BY OccurrencesConcat
  <2> QED
    BY <1>1, <1>3, <2>1, Zenon
<1>5. Occurrences(<<Head(s)>>, x) = IF x = Head(s) THEN 1 ELSE 0
  BY OccurrencesSingle
<1>6. Occurrences(Tail(s), x) \in Nat
  BY <1>1, OccurrencesType
<1>7. Head(s) \in ToSet(s)
  BY <1>1 DEF ToSet
<1>8. Occurrences(s, x) = (IF x = Head(s) THEN 1 ELSE 0) + Occurrences(Tail(s), x)
  BY <1>2, <1>4, <1>5, Zenon
<1> QED
  BY <1>1, <1>6, <1>7, <1>8

-----------------------------------------------------------------------------
(* Types.                                                                  *)

(* The position that ends the accepted prefix exists.                      *)
LEMMA AcceptedPrefixType ==
  ASSUME NEW r \in Requests, NEW length \in Nat, TypeOK
  PROVE  /\ AcceptedPrefix(r, length) \in 0..length
         /\ length > 0 => AcceptedPrefix(r, length) > 0
<1> DEFINE M == MismatchesAt(r, length)
<1>1. CASE M = {}
  BY <1>1 DEF AcceptedPrefix
<1>2. CASE M # {}
  <2>1. M \in SUBSET (1..(length - 1))
    BY DEF MismatchesAt
  <2>2. PICK m \in M : \A n \in M : m <= n
    <3>1. M \in SUBSET Nat
      BY <2>1
    <3> HIDE DEF M
    <3> QED
      BY <1>2, <3>1, LeastExists
  <2>3. AcceptedPrefix(r, length) \in M
    BY <1>2, <2>2 DEF AcceptedPrefix
  <2>4. AcceptedPrefix(r, length) \in 1..(length - 1)
    BY <2>1, <2>3, Zenon
  <2> HIDE DEF M
  <2> QED
    BY <2>4
<1> QED
  BY <1>1, <1>2

(* An iteration accepts at most what it proposes, and something of what    *)
(* was drafted from the target.                                            *)
LEMMA AcceptedCountType ==
  ASSUME NEW r \in Requests, NEW block \in Nat \ {0}, TypeOK
  PROVE  /\ AcceptedCount(r, block) \in Nat
         /\ ~Exhausted(r) =>
               /\ AcceptedCount(r, block) > 0
               /\ AcceptedCount(r, block) <= ProposalLength(r, block)
<1>1. /\ committed[r] \in Nat /\ TargetLength[r] \in Nat
      /\ MaxNewTokens[r] \in Nat
  BY RuntimeAssumption DEF TypeOK
<1>2. /\ TokenBudgetLeft(r) \in Nat /\ RemainingTarget(r) \in Nat
  BY <1>1 DEF TokenBudgetLeft, RemainingTarget
<1>3. ProposalLength(r, block) \in Nat \ {0}
  BY <1>2 DEF ProposalLength, Exhausted, Smaller
<1>4. /\ AcceptedPrefix(r, ProposalLength(r, block)) \in Nat \ {0}
      /\ AcceptedPrefix(r, ProposalLength(r, block)) <= ProposalLength(r, block)
  BY <1>3, AcceptedPrefixType
<1> QED
  BY <1>3, <1>4 DEF AcceptedCount

-----------------------------------------------------------------------------
(* The cache calls of the workers.                                         *)

(* What a call on behalf of r leaves alone: the pinned pages of others     *)
(* stay, pinned, what stays keeps its slots, every new page is a page of r *)
(* and so is every new id.                                                 *)
KeepsOthers(c, d, r) ==
    /\ \A p \in c.pinned : Owner(p) # r => p \in d.pinned
    /\ \A p \in d.pages \ c.pages : Owner(p) = r
    /\ \A p \in d.pages : Owner(p) # r =>
          \A t \in Nat : <<p, t>> \in d.fill <=> <<p, t>> \in c.fill
    /\ \A k \in Keys : k[1] # r => d.serial[k] = c.serial[k]

LEMMA KeepsOthersTransitive ==
  ASSUME NEW c, NEW d, NEW e, NEW r,
         KeepsOthers(c, d, r), KeepsOthers(d, e, r)
  PROVE  KeepsOthers(c, e, r)
BY DEF KeepsOthers

(* Flags and order apart from the pages themselves.                        *)
LEMMA FlagFields ==
  ASSUME NEW c, Consistent(c), NEW S, NEW o, NEW r
  PROVE  /\ PinsSet(c, S).pages = c.pages
         /\ PinsSet(c, S).pinned = c.pinned \cup (S \cap c.pages)
         /\ PinsCleared(c, S).pages = c.pages
         /\ PinsCleared(c, S).pinned = c.pinned \ S
         /\ Touched(c, S, o).pages = c.pages
         /\ Touched(c, S, o).pinned = c.pinned
         /\ Marked(c, r).pages = c.pages
         /\ Marked(c, r).pinned = c.pinned
<1>1. c \in Cache
  BY DEF Consistent, CacheType
<1> QED
  BY <1>1 DEF PinsSet, PinsCleared, Touched, Marked, Cache

(* Slots and serials apart from both.                                      *)
SameSlots(c, d) == d.fill = c.fill /\ d.serial = c.serial

LEMMA FlagSlots ==
  ASSUME NEW c, Consistent(c), NEW S, NEW o, NEW r
  PROVE  /\ SameSlots(c, PinsSet(c, S))
         /\ SameSlots(c, PinsCleared(c, S))
         /\ SameSlots(c, Touched(c, S, o))
         /\ SameSlots(c, Marked(c, r))
<1>1. c \in Cache
  BY DEF Consistent, CacheType
<1> QED
  BY <1>1 DEF SameSlots, PinsSet, PinsCleared, Touched, Marked, Cache

(* touch_pages of live pages, in any order of them.                        *)
LEMMA ReorderedTouch ==
  ASSUME NEW c, Consistent(c), NEW S \in SUBSET c.pages, NEW o \in SUBSET (S \X S)
  PROVE  Consistent(Touched(c, S, o))
<1>1. MovedToEnd(c, S, o) \in SUBSET (c.pages \X c.pages)
  BY DEF MovedToEnd, Consistent, CacheType
<1> QED
  BY <1>1, ReorderedConsistent DEF Touched

(* release_request takes the pages of r and no other.                      *)
LEMMA ReleasedEffect ==
  ASSUME NEW c, Consistent(c), NEW r
  PROVE  /\ Consistent(Released(c, r))
         /\ Released(c, r).pages = {p \in c.pages : Owner(p) # r}
         /\ Released(c, r).pinned = {p \in c.pinned : Owner(p) # r}
         /\ KeepsOthers(c, Released(c, r), r)
<1>1. PagesOf(c, r) = {p \in c.pages : Owner(p) = r}
  BY PagesOfLive DEF Consistent
<1>2. Released(c, r) = Dropped(c, PagesOf(c, r)) /\ Consistent(Released(c, r))
  BY ReleasedConsistent
<1>3. /\ Released(c, r).pages = c.pages \ PagesOf(c, r)
      /\ Released(c, r).pinned = c.pinned \ PagesOf(c, r)
  BY <1>1, <1>2, DroppedIssued
<1>4. c.pinned \subseteq c.pages
  BY DEF Consistent, CacheType
<1>5. /\ Released(c, r).pages = {p \in c.pages : Owner(p) # r}
      /\ Released(c, r).pinned = {p \in c.pinned : Owner(p) # r}
  BY <1>1, <1>3, <1>4
<1>6. /\ \A p \in Released(c, r).pages : \A t :
            <<p, t>> \in Released(c, r).fill <=> <<p, t>> \in c.fill
      /\ Released(c, r).serial = c.serial
  BY <1>2, DroppedSlots
<1> QED
  BY <1>2, <1>5, <1>6 DEF KeepsOthers

(* evict_lru takes unpinned pages only.                                    *)
LEMMA EvictedEffect ==
  ASSUME NEW c, Consistent(c), NEW n, NEW r
  PROVE  /\ Consistent(Evicted(c, n))
         /\ Evicted(c, n).pages \subseteq c.pages
         /\ Evicted(c, n).pinned = c.pinned
         /\ KeepsOthers(c, Evicted(c, n), r)
<1>1. Victims(c, n) \in SUBSET c.pages /\ Victims(c, n) \cap c.pinned = {}
  BY DEF Victims, Unpinned
<1>2. /\ Evicted(c, n).pages = c.pages \ Victims(c, n)
      /\ Evicted(c, n).pinned = c.pinned \ Victims(c, n)
  BY <1>1, DroppedIssued DEF Evicted
<1>3. /\ \A p \in Evicted(c, n).pages : \A t :
            <<p, t>> \in Evicted(c, n).fill <=> <<p, t>> \in c.fill
      /\ Evicted(c, n).serial = c.serial
  BY DroppedSlots DEF Evicted
<1> QED
  BY <1>1, <1>2, <1>3, EvictedForConsistent DEF KeepsOthers

(* allocate_for_request takes unpinned pages only and adds pages of r,     *)
(* pinned when it is told to pin.                                          *)
LEMMA AllocationEffect ==
  ASSUME NEW c, Consistent(c), NEW r \in Requests, NEW total \in Nat,
         NEW pin \in BOOLEAN, NEW d, d = Allocation(c, r, total, pin).kv
  PROVE  /\ Consistent(d)
         /\ c.pinned \subseteq d.pinned
         /\ d.pinned \subseteq d.pages
         /\ pin => d.pages \ c.pages \subseteq d.pinned
         /\ KeepsOthers(c, d, r)
<1>1. Consistent(d)
  BY AllocationConsistent
<1>2. /\ \A p \in d.pages \ c.pages : Owner(p) = r
      /\ pin => d.pinned = c.pinned \cup (d.pages \ c.pages)
      /\ ~pin => d.pinned = c.pinned
  BY AllocationTakes
<1>3. d.pinned \subseteq d.pages
  BY <1>1 DEF Consistent, CacheType
<1>4. /\ \A p \in c.pages \cap d.pages : \A t :
            <<p, t>> \in d.fill <=> <<p, t>> \in c.fill
      /\ \A k \in Keys : k[1] # r => d.serial[k] = c.serial[k]
  BY AllocationSlots
<1> QED
  BY <1>1, <1>2, <1>3, <1>4 DEF KeepsOthers

(* The same with the pin the decode worker asks for.                       *)
LEMMA PinnedAllocationEffect ==
  ASSUME NEW c, Consistent(c), NEW r \in Requests, NEW total \in Nat
  PROVE  /\ Consistent(Allocation(c, r, total, TRUE).kv)
         /\ c.pinned \subseteq Allocation(c, r, total, TRUE).kv.pinned
         /\ Allocation(c, r, total, TRUE).kv.pages \ c.pages
               \subseteq Allocation(c, r, total, TRUE).kv.pinned
         /\ KeepsOthers(c, Allocation(c, r, total, TRUE).kv, r)
<1>1. \A pin \in BOOLEAN : \A d : d = Allocation(c, r, total, pin).kv =>
         /\ Consistent(d)
         /\ c.pinned \subseteq d.pinned
         /\ pin => d.pages \ c.pages \subseteq d.pinned
         /\ KeepsOthers(c, d, r)
  BY AllocationEffect
<1>2. TRUE \in BOOLEAN
  OBVIOUS
<1> QED
  BY <1>1, <1>2, Zenon

(* The pages selected for a decode are live pages of the request.          *)
LEMMA DecodePagesLive ==
  ASSUME NEW r \in Requests, NEW c, Consistent(c), NEW pages \in SUBSET c.pages
  PROVE  /\ DecodePages(r, c, pages) \in SUBSET c.pages
         /\ DecodeOrder(r, c, DecodePages(r, c, pages))
               \in SUBSET (DecodePages(r, c, pages) \X DecodePages(r, c, pages))
<1>1. PagesOf(c, r) \subseteq c.pages
  BY PagesOfLive DEF Consistent
<1>2. Selected(c, r, Total(r)) \subseteq c.pages
  BY <1>1 DEF Selected, Selectable
<1> QED
  BY <1>2 DEF DecodePages, DecodeOrder, ListOrder

(* Types, with the cache consistent and every snapshot the request's own.  *)
TypeInv ==
    /\ TypeOK
    /\ Consistent(kv)
    /\ \A r \in Requests : \A p \in snapshot[r] : Owner(p) = r

LEMMA TotalType ==
  ASSUME TypeOK, NEW r \in Requests
  PROVE  committed[r] \in Nat /\ Total(r) \in Nat /\ PromptLength[r] \in Nat
BY RuntimeAssumption DEF TypeOK, Total

(* _rehydrate_if_needed.                                                   *)
LEMMA RehydrationEffect ==
  ASSUME TypeInv, NEW r \in Requests
  PROVE  /\ Consistent(Rehydration(r).kv)
         /\ KeepsOthers(kv, Rehydration(r).kv, r)
         /\ Rehydration(r).ok =>
               /\ Rehydration(r).pages \in SUBSET Rehydration(r).kv.pages
               /\ Rehydration(r).pages \in SUBSET PageIds
         /\ snapshot[r] \subseteq kv.pages =>
               /\ Rehydration(r).ok
               /\ Rehydration(r).kv = kv
               /\ Rehydration(r).pages = snapshot[r]
         /\ ~(snapshot[r] \subseteq kv.pages) =>
               /\ Rehydration(r).pages
                     = {p \in Rehydration(r).kv.pages : Owner(p) = r}
               /\ Rehydration(r).pages \subseteq Rehydration(r).kv.pinned
<1>0. Consistent(kv) /\ snapshot[r] \in SUBSET PageIds /\ kv.pages \in SUBSET PageIds
  BY DEF TypeInv, TypeOK, Consistent, CacheType, Cache
<1>1. CASE snapshot[r] \subseteq kv.pages
  BY <1>0, <1>1 DEF Rehydration, KeepsOthers
<1>2. CASE ~(snapshot[r] \subseteq kv.pages)
  <2> DEFINE c == Released(kv, r)
             a == Allocation(c, r, Total(r), TRUE)
             d == a.kv
  <2>1. /\ Rehydration(r).ok = a.ok
        /\ Rehydration(r).kv = d
        /\ Rehydration(r).pages = PagesOf(d, r)
    BY <1>2 DEF Rehydration
  <2>2. /\ Consistent(c) /\ KeepsOthers(kv, c, r)
        /\ c.pages = {p \in kv.pages : Owner(p) # r}
    BY <1>0, ReleasedEffect
  <2>3. /\ Consistent(d) /\ KeepsOthers(c, d, r)
        /\ d.pages \ c.pages \subseteq d.pinned
    <3>1. Total(r) \in Nat
      BY TotalType DEF TypeInv
    <3> HIDE DEF c
    <3> QED
      BY <2>2, <3>1, PinnedAllocationEffect
  <2> HIDE DEF c, a, d
  <2>4. KeepsOthers(kv, d, r)
    BY <2>2, <2>3, KeepsOthersTransitive
  <2>5. PagesOf(d, r) = {p \in d.pages : Owner(p) = r}
    BY <2>3, PagesOfLive DEF Consistent
  <2>6. d.pages \in SUBSET PageIds
    BY <2>3 DEF Consistent, CacheType, Cache
  <2> QED
    BY <1>2, <2>1, <2>2, <2>3, <2>4, <2>5, <2>6
<1> QED
  BY <1>1, <1>2

(* The commit, with the eviction the worker may add before it.             *)
LEMMA CommitEffect ==
  ASSUME TypeInv, NEW r \in Requests, NEW c, Consistent(c), NEW n \in Nat
  PROVE  /\ Consistent(Commit(r, c, n).kv)
         /\ KeepsOthers(c, Commit(r, c, n).kv, r)
         /\ c.pinned \subseteq Commit(r, c, n).kv.pinned
         /\ Commit(r, c, n).kv.pages \ c.pages \subseteq Commit(r, c, n).kv.pinned
<1> DEFINE total == Total(r) + n
           room == IF CanAllocate(c, r, total) THEN c
                   ELSE Evicted(c, PagesNeeded(c, r, total))
           a == Allocation(room, r, total, TRUE)
           d == a.kv
<1>1. Commit(r, c, n).kv = IF a.ok THEN Marked(d, r) ELSE d
  BY DEF Commit
<1>2. /\ Consistent(room) /\ KeepsOthers(c, room, r)
      /\ room.pages \subseteq c.pages /\ room.pinned = c.pinned
  <2>1. KeepsOthers(c, c, r)
    BY DEF KeepsOthers
  <2> QED
    BY <2>1, EvictedEffect
<1>3. total \in Nat
  BY TotalType DEF TypeInv
<1> HIDE DEF room, total
<1>4. /\ Consistent(d) /\ KeepsOthers(room, d, r)
      /\ room.pinned \subseteq d.pinned
      /\ d.pages \ room.pages \subseteq d.pinned
  BY <1>2, <1>3, PinnedAllocationEffect
<1> HIDE DEF a, d
<1>5. KeepsOthers(c, d, r)
  BY <1>2, <1>4, KeepsOthersTransitive
<1>6. /\ Consistent(Marked(d, r)) /\ SameSlots(d, Marked(d, r))
      /\ Marked(d, r).pages = d.pages /\ Marked(d, r).pinned = d.pinned
  BY <1>4, MarkedConsistent, FlagFields, FlagSlots
<1>7. KeepsOthers(c, Marked(d, r), r)
  BY <1>5, <1>6 DEF KeepsOthers, SameSlots
<1> QED
  BY <1>1, <1>2, <1>4, <1>5, <1>6, <1>7

(* The pages a worker decodes with, and the cache once it has pinned and   *)
(* touched them.                                                           *)
Used(r) == DecodePages(r, Rehydration(r).kv, Rehydration(r).pages)

Looked(r) ==
    Touched(PinsSet(Rehydration(r).kv, Used(r)), Used(r),
            DecodeOrder(r, Rehydration(r).kv, Used(r)))

LEMMA LookedEffect ==
  ASSUME TypeInv, NEW r \in Requests, Rehydration(r).ok
  PROVE  /\ Consistent(Looked(r))
         /\ KeepsOthers(kv, Looked(r), r)
         /\ Looked(r).pages = Rehydration(r).kv.pages
         /\ SameSlots(Rehydration(r).kv, Looked(r))
         /\ Looked(r).pinned = Rehydration(r).kv.pinned \cup Used(r)
         /\ Used(r) \subseteq Looked(r).pages
<1> DEFINE h == Rehydration(r)
           c == PinsSet(h.kv, Used(r))
           o == DecodeOrder(r, h.kv, Used(r))
<1>1. /\ Consistent(h.kv) /\ KeepsOthers(kv, h.kv, r)
      /\ h.pages \in SUBSET h.kv.pages
  BY RehydrationEffect
<1>2. Used(r) \in SUBSET h.kv.pages /\ o \in SUBSET (Used(r) \X Used(r))
  BY <1>1, DecodePagesLive DEF Used
<1>3. /\ Consistent(c) /\ c.pages = h.kv.pages /\ SameSlots(h.kv, c)
      /\ c.pinned = h.kv.pinned \cup Used(r)
  <2>1. /\ Consistent(c) /\ c.pages = h.kv.pages /\ SameSlots(h.kv, c)
        /\ c.pinned = h.kv.pinned \cup (Used(r) \cap h.kv.pages)
    <3> HIDE DEF h
    <3> QED
      BY <1>1, PinsConsistent, FlagFields, FlagSlots
  <2> QED
    BY <1>2, <2>1
<1>4. Looked(r) = Touched(c, Used(r), o)
  BY DEF Looked
<1> HIDE DEF c, o, h
<1>5. /\ Consistent(Looked(r)) /\ SameSlots(c, Looked(r))
      /\ Looked(r).pages = c.pages /\ Looked(r).pinned = c.pinned
  BY <1>2, <1>3, <1>4, ReorderedTouch, FlagFields, FlagSlots
<1>6. SameSlots(h.kv, Looked(r))
  BY <1>3, <1>5 DEF SameSlots
<1>7. KeepsOthers(kv, Looked(r), r)
  BY <1>1, <1>3, <1>5, <1>6 DEF KeepsOthers, SameSlots
<1> QED
  BY <1>2, <1>3, <1>5, <1>6, <1>7 DEF h

(* All of them are pages of the request.                                   *)
LEMMA UsedOwned ==
  ASSUME TypeInv, NEW r \in Requests
  PROVE  /\ \A p \in Rehydration(r).pages : Owner(p) = r
         /\ \A p \in Used(r) : Owner(p) = r
<1>1. Consistent(Rehydration(r).kv)
  BY RehydrationEffect
<1>2. \A p \in Rehydration(r).pages : Owner(p) = r
  <2>1. \A p \in snapshot[r] : Owner(p) = r
    BY DEF TypeInv
  <2> QED
    BY <2>1, RehydrationEffect
<1>3. \A p \in PagesOf(Rehydration(r).kv, r) : Owner(p) = r
  BY <1>1, PagesOfLive DEF Consistent
<1>4. Selected(Rehydration(r).kv, r, Total(r)) \subseteq PagesOf(Rehydration(r).kv, r)
  BY DEF Selected, Selectable
<1> QED
  BY <1>2, <1>3, <1>4 DEF Used, DecodePages

-----------------------------------------------------------------------------
(* The outcomes of a step of the workers.                                  *)

DecodeRaises(r, n) ==
    /\ phase' = [phase EXCEPT ![r] = "decode"]
    /\ committed' = committed
    /\ Raise
    /\ \/ /\ ~Rehydration(r).ok
          /\ kv' = Rehydration(r).kv
          /\ snapshot' = [snapshot EXCEPT ![r] = snapshot[r]]
       \/ /\ Rehydration(r).ok
          /\ n > 0
          /\ kv' = Commit(r, Looked(r), n).kv
          /\ snapshot' = [snapshot EXCEPT ![r] = Rehydration(r).pages]

(* The cache and the snapshot when process() is about to conclude.         *)
DecodeLeaves(r, n, left, pages) ==
    \/ /\ n > 0
       /\ Commit(r, Looked(r), n).ok
       /\ left = Commit(r, Looked(r), n).kv
       /\ pages = PagesOf(left, r)
    \/ /\ n = 0
       /\ left = Looked(r)
       /\ pages = Rehydration(r).pages

DecodeReturns(r, n) ==
    /\ Rehydration(r).ok
    /\ committed' = [committed EXCEPT ![r] = @ + n]
    /\ batch' = Append(batch, r)
    /\ quota' = quota - 1
    /\ UNCHANGED <<at, final, returned>>
    /\ \E left, pages :
          /\ DecodeLeaves(r, n, left, pages)
          /\ snapshot' = [snapshot EXCEPT ![r] = pages]
          /\ Conclude(r, left, pages, Used(r), n)

LEMMA DecodeOutcomes ==
  ASSUME NEW i, NEW block, Decode(i, block), NEW r, r = decodeQueue[i]
  PROVE  /\ at = "decode" /\ quota > 0
         /\ decodeQueue' = RemoveAt(decodeQueue, i)
         /\ config' = config /\ prefillQueue' = prefillQueue
         /\ \/ DecodeRaises(r, AcceptedCount(r, block))
            \/ DecodeReturns(r, AcceptedCount(r, block))
<1>1. /\ at = "decode" /\ quota > 0
      /\ decodeQueue' = RemoveAt(decodeQueue, i)
      /\ config' = config /\ prefillQueue' = prefillQueue
  BY DEF Decode
<1> DEFINE h == Rehydration(r)
           n == AcceptedCount(r, block)
           done == Commit(r, Looked(r), n)
<1>2. \/ DecodeRaises(r, n)
      \/ /\ h.ok /\ n > 0 /\ done.ok
         /\ snapshot' = [snapshot EXCEPT ![r] = PagesOf(done.kv, r)]
         /\ committed' = [committed EXCEPT ![r] = @ + n]
         /\ Conclude(r, done.kv, PagesOf(done.kv, r), Used(r), n)
         /\ batch' = Append(batch, r)
         /\ quota' = quota - 1
         /\ UNCHANGED <<at, final, returned>>
      \/ /\ h.ok /\ n = 0
         /\ snapshot' = [snapshot EXCEPT ![r] = h.pages]
         /\ committed' = [committed EXCEPT ![r] = @ + n]
         /\ Conclude(r, Looked(r), h.pages, Used(r), n)
         /\ batch' = Append(batch, r)
         /\ quota' = quota - 1
         /\ UNCHANGED <<at, final, returned>>
  BY Zenon DEF Decode, DecodeRaises, Looked, Used
<1> HIDE DEF h, n, done
<1> QED
  BY <1>1, <1>2, Zenon DEF DecodeReturns, DecodeLeaves, h, n, done

PrefillRaises(r) ==
    /\ ~Allocation(kv, r, PromptLength[r], config.pinReady).ok
    /\ phase' = [phase EXCEPT ![r] = "prefill"]
    /\ snapshot' = snapshot
    /\ Raise
    /\ kv' = Allocation(kv, r, PromptLength[r], config.pinReady).kv

PrefillReturns(r) ==
    /\ Allocation(kv, r, PromptLength[r], config.pinReady).ok
    /\ \E d, pages :
          /\ d = Allocation(kv, r, PromptLength[r], config.pinReady).kv
          /\ pages = PagesOf(d, r)
          /\ kv' = Touched(d, pages, ListOrder(pages))
          /\ phase' = [phase EXCEPT ![r] = "ready_decode"]
          /\ snapshot' = [snapshot EXCEPT ![r] = pages]
          /\ batch' = Append(batch, r)
          /\ UNCHANGED <<at, quota, final, returned>>

LEMMA PrefillOutcomes ==
  ASSUME NEW i, Prefill(i), NEW r, r = prefillQueue[i]
  PROVE  /\ at = "prefill"
         /\ prefillQueue' = RemoveAt(prefillQueue, i)
         /\ config' = config /\ committed' = committed
         /\ decodeQueue' = decodeQueue
         /\ PrefillRaises(r) \/ PrefillReturns(r)
<1>1. /\ at = "prefill"
      /\ prefillQueue' = RemoveAt(prefillQueue, i)
      /\ config' = config /\ committed' = committed
      /\ decodeQueue' = decodeQueue
  BY DEF Prefill
<1>2. PrefillRaises(r) \/ PrefillReturns(r)
  BY Zenon DEF Prefill, PrefillRaises, PrefillReturns
<1> QED
  BY <1>1, <1>2

(* What process() leaves: a cache where nobody else lost a pinned page,    *)
(* and a snapshot of the request's own pages.                              *)
LEMMA LeavesEffect ==
  ASSUME TypeInv, NEW r \in Requests, NEW n \in Nat, Rehydration(r).ok,
         NEW left, NEW pages, DecodeLeaves(r, n, left, pages)
  PROVE  /\ Consistent(left)
         /\ KeepsOthers(kv, left, r)
         /\ pages \in SUBSET left.pages
         /\ pages \in SUBSET PageIds
         /\ \A p \in pages : Owner(p) = r
         /\ n > 0 => pages = {p \in left.pages : Owner(p) = r}
         /\ Looked(r).pinned \subseteq left.pinned
         /\ left.pages \ Looked(r).pages \subseteq left.pinned
<1>0. /\ Consistent(Looked(r)) /\ KeepsOthers(kv, Looked(r), r)
      /\ Looked(r).pages = Rehydration(r).kv.pages
  BY LookedEffect
<1>1. CASE n > 0
  <2>1. /\ left = Commit(r, Looked(r), n).kv
        /\ pages = PagesOf(left, r)
    BY <1>1 DEF DecodeLeaves
  <2>2. /\ Consistent(left) /\ KeepsOthers(Looked(r), left, r)
        /\ Looked(r).pinned \subseteq left.pinned
        /\ left.pages \ Looked(r).pages \subseteq left.pinned
    BY <1>0, <2>1, CommitEffect
  <2>3. pages = {p \in left.pages : Owner(p) = r}
    BY <2>1, <2>2, PagesOfLive DEF Consistent
  <2>4. left.pages \in SUBSET PageIds
    BY <2>2 DEF Consistent, CacheType, Cache
  <2>5. KeepsOthers(kv, left, r)
    BY <1>0, <2>2, KeepsOthersTransitive
  <2> QED
    BY <2>2, <2>3, <2>4, <2>5
<1>2. CASE n = 0
  <2>1. left = Looked(r) /\ pages = Rehydration(r).pages
    BY <1>2 DEF DecodeLeaves
  <2>2. /\ pages \in SUBSET left.pages /\ pages \in SUBSET PageIds
        /\ \A p \in pages : Owner(p) = r
    <3>1. /\ Rehydration(r).pages \in SUBSET Rehydration(r).kv.pages
          /\ Rehydration(r).pages \in SUBSET PageIds
      BY RehydrationEffect
    <3> QED
      BY <1>0, <2>1, <3>1, UsedOwned
  <2> QED
    BY <1>0, <1>2, <2>1, <2>2
<1> QED
  BY <1>1, <1>2

(* A returning decode step, from its parts.                                *)
LEMMA DecodeReturnsEffect ==
  ASSUME TypeInv, NEW r \in Requests, NEW n \in Nat, DecodeReturns(r, n)
  PROVE  /\ Consistent(kv')
         /\ KeepsOthers(kv, kv', r)
         /\ \E pages :
               /\ snapshot' = [snapshot EXCEPT ![r] = pages]
               /\ pages \in SUBSET PageIds
               /\ pages \in SUBSET kv'.pages
               /\ \A p \in pages : Owner(p) = r
               /\ n > 0 => pages = {p \in kv'.pages : Owner(p) = r}
         /\ phase' = [phase EXCEPT ![r] = IF Finishes(r, n) THEN "finished"
                                                            ELSE "ready_decode"]
<1>1. PICK left, pages :
         /\ DecodeLeaves(r, n, left, pages)
         /\ snapshot' = [snapshot EXCEPT ![r] = pages]
         /\ Conclude(r, left, pages, Used(r), n)
  BY DEF DecodeReturns
<1>2. /\ Consistent(left)
      /\ KeepsOthers(kv, left, r)
      /\ pages \in SUBSET left.pages
      /\ pages \in SUBSET PageIds
      /\ \A p \in pages : Owner(p) = r
      /\ n > 0 => pages = {p \in left.pages : Owner(p) = r}
  BY <1>1, LeavesEffect DEF DecodeReturns
<1>3. \A p \in Used(r) : Owner(p) = r
  BY UsedOwned
<1>4. phase' = [phase EXCEPT ![r] = IF Finishes(r, n) THEN "finished"
                                                     ELSE "ready_decode"]
  BY <1>1 DEF Conclude
<1>5. kv' \in {left, PinsCleared(left, pages), PinsCleared(left, Used(r))}
  BY <1>1, Zenon DEF Conclude
<1>6. ASSUME NEW S, \A p \in S : Owner(p) = r
      PROVE  /\ Consistent(PinsCleared(left, S))
             /\ PinsCleared(left, S).pages = left.pages
             /\ KeepsOthers(kv, PinsCleared(left, S), r)
  <2>1. /\ Consistent(PinsCleared(left, S))
        /\ PinsCleared(left, S).pages = left.pages
        /\ PinsCleared(left, S).pinned = left.pinned \ S
    BY <1>2, PinsConsistent, FlagFields
  <2>2. SameSlots(left, PinsCleared(left, S))
    BY <1>2, FlagSlots
  <2> QED
    BY <1>2, <1>6, <2>1, <2>2 DEF KeepsOthers, SameSlots
<1>7. /\ Consistent(kv')
      /\ kv'.pages = left.pages
      /\ KeepsOthers(kv, kv', r)
  BY <1>2, <1>3, <1>5, <1>6
<1>8. \E S :
         /\ snapshot' = [snapshot EXCEPT ![r] = S]
         /\ S \in SUBSET PageIds
         /\ S \in SUBSET kv'.pages
         /\ \A p \in S : Owner(p) = r
         /\ n > 0 => S = {p \in kv'.pages : Owner(p) = r}
  BY <1>1, <1>2, <1>7
<1> QED
  BY <1>4, <1>7, <1>8

LEMMA DecodeRaisesEffect ==
  ASSUME TypeInv, NEW r \in Requests, NEW n \in Nat, DecodeRaises(r, n)
  PROVE  /\ Consistent(kv')
         /\ KeepsOthers(kv, kv', r)
         /\ \E pages :
               /\ snapshot' = [snapshot EXCEPT ![r] = pages]
               /\ pages \in SUBSET PageIds
               /\ \A p \in pages : Owner(p) = r
<1>1. /\ snapshot[r] \in SUBSET PageIds
      /\ \A p \in snapshot[r] : Owner(p) = r
  BY DEF TypeInv, TypeOK
<1>2. CASE /\ ~Rehydration(r).ok
           /\ kv' = Rehydration(r).kv
           /\ snapshot' = [snapshot EXCEPT ![r] = snapshot[r]]
  BY <1>1, <1>2, RehydrationEffect
<1>3. CASE /\ Rehydration(r).ok
           /\ kv' = Commit(r, Looked(r), n).kv
           /\ snapshot' = [snapshot EXCEPT ![r] = Rehydration(r).pages]
  <2>1. Consistent(Looked(r)) /\ KeepsOthers(kv, Looked(r), r)
    BY <1>3, LookedEffect
  <2>2. Consistent(kv') /\ KeepsOthers(Looked(r), kv', r)
    BY <1>3, <2>1, CommitEffect
  <2>3. KeepsOthers(kv, kv', r)
    BY <2>1, <2>2, KeepsOthersTransitive
  <2>4. /\ Rehydration(r).pages \in SUBSET PageIds
        /\ \A p \in Rehydration(r).pages : Owner(p) = r
    BY <1>3, RehydrationEffect, UsedOwned
  <2> QED
    BY <1>3, <2>2, <2>3, <2>4
<1> QED
  BY <1>2, <1>3 DEF DecodeRaises

LEMMA PrefillRaisesEffect ==
  ASSUME TypeInv, NEW r \in Requests, PrefillRaises(r)
  PROVE  Consistent(kv') /\ KeepsOthers(kv, kv', r)
<1>1. config.pinReady \in BOOLEAN /\ PromptLength[r] \in Nat /\ Consistent(kv)
  BY RuntimeAssumption DEF TypeInv, TypeOK, Config
<1> QED
  BY <1>1, AllocationEffect DEF PrefillRaises

LEMMA PrefillReturnsEffect ==
  ASSUME TypeInv, NEW r \in Requests, PrefillReturns(r)
  PROVE  /\ Consistent(kv')
         /\ KeepsOthers(kv, kv', r)
         /\ config.pinReady => kv'.pages \ kv.pages \subseteq kv'.pinned
         /\ \E pages :
               /\ snapshot' = [snapshot EXCEPT ![r] = pages]
               /\ pages \in SUBSET PageIds
               /\ pages = {p \in kv'.pages : Owner(p) = r}
<1>1. config.pinReady \in BOOLEAN /\ PromptLength[r] \in Nat /\ Consistent(kv)
  BY RuntimeAssumption DEF TypeInv, TypeOK, Config
<1>2. PICK d, pages :
        /\ d = Allocation(kv, r, PromptLength[r], config.pinReady).kv
        /\ pages = PagesOf(d, r)
        /\ kv' = Touched(d, pages, ListOrder(pages))
        /\ snapshot' = [snapshot EXCEPT ![r] = pages]
  BY DEF PrefillReturns
<1>3. /\ Consistent(d) /\ KeepsOthers(kv, d, r)
      /\ config.pinReady => d.pages \ kv.pages \subseteq d.pinned
  BY <1>1, <1>2, AllocationEffect
<1>4. pages = {p \in d.pages : Owner(p) = r} /\ d.pages \in SUBSET PageIds
  BY <1>2, <1>3, PagesOfLive DEF Consistent, CacheType, Cache
<1>5. /\ Consistent(kv') /\ kv'.pages = d.pages /\ kv'.pinned = d.pinned
      /\ SameSlots(d, kv')
  <2>1. pages \in SUBSET d.pages
    BY <1>4
  <2> QED
    BY <1>2, <1>3, <2>1, TouchedConsistent, FlagFields, FlagSlots
<1>6. KeepsOthers(kv, kv', r)
  BY <1>3, <1>5 DEF KeepsOthers, SameSlots
<1> QED
  BY <1>2, <1>3, <1>4, <1>5, <1>6

-----------------------------------------------------------------------------
(* Type correctness.                                                       *)

LEMMA TypeInit ==
  Init => TypeInv
<1> SUFFICES ASSUME Init PROVE TypeInv
  OBVIOUS
<1>1. Consistent(kv) /\ CacheType(kv)
  BY EmptySound DEF Init, Sound, Consistent
<1>2. config.decodeWorkers \in Nat
  BY RuntimeAssumption DEF Init, Config
<1>3. /\ config \in Configs
      /\ phase \in [Requests -> Phases]
      /\ committed \in [Requests -> Nat]
      /\ snapshot \in [Requests -> SUBSET PageIds]
      /\ at \in {"idle", "prefill", "decode", "collect"}
      /\ final \subseteq Requests /\ returned \subseteq Requests
      /\ \A r \in Requests : \A p \in snapshot[r] : Owner(p) = r
  BY DEF Init, Phases
<1>4. prefillQueue \in Seq(Requests) /\ decodeQueue \in Seq(Requests)
        /\ batch \in Seq(Requests)
  BY DEF Init
<1>5. quota \in 0..config.decodeWorkers
  BY <1>2 DEF Init
<1> QED
  BY <1>1, <1>3, <1>4, <1>5 DEF TypeInv, TypeOK

(* A step of a worker on the i-th request of a queue.                      *)
LEMMA QueuedRequest ==
  ASSUME TypeOK
  PROVE  /\ \A i \in DOMAIN prefillQueue :
               /\ prefillQueue[i] \in Requests
               /\ RemoveAt(prefillQueue, i) \in Seq(Requests)
         /\ \A i \in DOMAIN decodeQueue :
               /\ decodeQueue[i] \in Requests
               /\ RemoveAt(decodeQueue, i) \in Seq(Requests)
BY OccurrencesRemove DEF TypeOK

LEMMA PrefillTyped ==
  ASSUME TypeInv, NEW i \in DOMAIN prefillQueue, Prefill(i)
  PROVE  TypeInv'
<1> DEFINE r == prefillQueue[i]
<1>0. r \in Requests /\ RemoveAt(prefillQueue, i) \in Seq(Requests)
  BY QueuedRequest DEF TypeInv
<1>1. /\ prefillQueue' \in Seq(Requests)
      /\ config' = config /\ committed' = committed
      /\ decodeQueue' = decodeQueue
      /\ PrefillRaises(r) \/ PrefillReturns(r)
  BY <1>0, PrefillOutcomes
<1> HIDE DEF r
<1>2. TypeOK
  BY DEF TypeInv
<1>3. config.decodeWorkers \in Nat
  BY <1>2, RuntimeAssumption DEF TypeOK, Config
<1>4. CASE PrefillRaises(r)
  <2>1. Consistent(kv') /\ CacheType(kv')
    BY <1>0, <1>4, PrefillRaisesEffect DEF Consistent
  <2>2. /\ phase' \in [Requests -> Phases]
        /\ snapshot' = snapshot
        /\ at' = "idle" /\ batch' = <<>> /\ quota' = 0 /\ final' = {}
        /\ returned' = returned
    BY <1>0, <1>2, <1>4 DEF PrefillRaises, Raise, TypeOK, Phases
  <2>3. batch' \in Seq(Requests) /\ quota' \in 0..config.decodeWorkers
    BY <1>3, <2>2
  <2> QED
    BY <1>1, <1>2, <2>1, <2>2, <2>3 DEF TypeInv, TypeOK
<1>5. CASE PrefillReturns(r)
  <2>1. Consistent(kv') /\ CacheType(kv')
    BY <1>0, <1>5, PrefillReturnsEffect DEF Consistent
  <2>2. PICK pages :
           /\ snapshot' = [snapshot EXCEPT ![r] = pages]
           /\ pages \in SUBSET PageIds
           /\ pages = {p \in kv'.pages : Owner(p) = r}
    BY <1>0, <1>5, PrefillReturnsEffect
  <2>3. /\ snapshot' \in [Requests -> SUBSET PageIds]
        /\ \A q \in Requests : \A p \in snapshot'[q] : Owner(p) = q
    BY <1>0, <2>2 DEF TypeInv, TypeOK
  <2>4. /\ phase' \in [Requests -> Phases]
        /\ batch' = Append(batch, r)
        /\ UNCHANGED <<at, quota, final, returned>>
    BY <1>0, <1>2, <1>5 DEF PrefillReturns, TypeOK, Phases
  <2>5. batch' \in Seq(Requests)
    BY <1>0, <1>2, <2>4, OccurrencesAppend DEF TypeOK
  <2> QED
    BY <1>1, <1>2, <2>1, <2>3, <2>4, <2>5 DEF TypeInv, TypeOK
<1> QED
  BY <1>1, <1>4, <1>5

LEMMA DecodeTyped ==
  ASSUME TypeInv, NEW i \in DOMAIN decodeQueue, NEW block \in config.blockSizes,
         Decode(i, block)
  PROVE  TypeInv'
<1> DEFINE r == decodeQueue[i]
           n == AcceptedCount(r, block)
<1>0. r \in Requests /\ RemoveAt(decodeQueue, i) \in Seq(Requests)
  BY QueuedRequest DEF TypeInv
<1>1. /\ decodeQueue' \in Seq(Requests) /\ quota > 0
      /\ config' = config /\ prefillQueue' = prefillQueue
      /\ DecodeRaises(r, n) \/ DecodeReturns(r, n)
  BY <1>0, DecodeOutcomes
<1>2. TypeOK
  BY DEF TypeInv
<1>3. n \in Nat
  <2>1. block \in Nat \ {0}
    BY <1>2, RuntimeAssumption DEF TypeOK, Config
  <2> QED
    BY <1>0, <1>2, <2>1, AcceptedCountType
<1> HIDE DEF r, n
<1>4. config.decodeWorkers \in Nat
  BY <1>2, RuntimeAssumption DEF TypeOK, Config
<1>5. CASE DecodeRaises(r, n)
  <2>1. PICK pages :
           /\ snapshot' = [snapshot EXCEPT ![r] = pages]
           /\ pages \in SUBSET PageIds
           /\ \A p \in pages : Owner(p) = r
    BY <1>0, <1>3, <1>5, DecodeRaisesEffect
  <2>2. Consistent(kv') /\ CacheType(kv')
    BY <1>0, <1>3, <1>5, DecodeRaisesEffect DEF Consistent
  <2>3. /\ snapshot' \in [Requests -> SUBSET PageIds]
        /\ \A q \in Requests : \A p \in snapshot'[q] : Owner(p) = q
    BY <1>0, <2>1 DEF TypeInv, TypeOK
  <2>4. /\ phase' \in [Requests -> Phases]
        /\ committed' = committed
        /\ at' = "idle" /\ batch' = <<>> /\ quota' = 0 /\ final' = {}
        /\ returned' = returned
    BY <1>0, <1>2, <1>5 DEF DecodeRaises, Raise, TypeOK, Phases
  <2>5. batch' \in Seq(Requests) /\ quota' \in 0..config.decodeWorkers
    BY <1>4, <2>4
  <2> QED
    BY <1>1, <1>2, <2>2, <2>3, <2>4, <2>5 DEF TypeInv, TypeOK
<1>6. CASE DecodeReturns(r, n)
  <2>1. PICK pages :
           /\ snapshot' = [snapshot EXCEPT ![r] = pages]
           /\ pages \in SUBSET PageIds
           /\ \A p \in pages : Owner(p) = r
    BY <1>0, <1>3, <1>6, DecodeReturnsEffect
  <2>2. /\ Consistent(kv') /\ CacheType(kv')
        /\ phase' = [phase EXCEPT ![r] = IF Finishes(r, n) THEN "finished"
                                                           ELSE "ready_decode"]
    BY <1>0, <1>3, <1>6, DecodeReturnsEffect DEF Consistent
  <2>3. /\ snapshot' \in [Requests -> SUBSET PageIds]
        /\ \A q \in Requests : \A p \in snapshot'[q] : Owner(p) = q
    BY <1>0, <2>1 DEF TypeInv, TypeOK
  <2>4. /\ batch' = Append(batch, r)
        /\ quota' = quota - 1
        /\ committed' = [committed EXCEPT ![r] = @ + n]
        /\ UNCHANGED <<at, final, returned>>
    BY <1>6 DEF DecodeReturns
  <2>5. phase' \in [Requests -> Phases]
    BY <1>0, <1>2, <2>2 DEF TypeOK, Phases
  <2>6. committed' \in [Requests -> Nat]
    BY <1>0, <1>2, <1>3, <2>4 DEF TypeOK
  <2>7. quota' \in 0..config.decodeWorkers
    BY <1>1, <1>2, <1>4, <2>4 DEF TypeOK
  <2>8. batch' \in Seq(Requests)
    BY <1>0, <1>2, <2>4, OccurrencesAppend DEF TypeOK
  <2> QED
    BY <1>1, <1>2, <2>2, <2>3, <2>4, <2>5, <2>6, <2>7, <2>8 DEF TypeInv, TypeOK
<1> QED
  BY <1>1, <1>5, <1>6

(* The rest of run(), and the callers.                                     *)
LEMMA ControlTyped ==
  ASSUME TypeInv,
         \/ \E r \in Requests : Submit(r)
         \/ CallRun \/ EndPrefill \/ EndDecode \/ Collect \/ Iterate \/ Return
  PROVE  TypeInv'
<1>0. TypeOK /\ Consistent(kv)
        /\ \A r \in Requests : \A p \in snapshot[r] : Owner(p) = r
  BY DEF TypeInv
<1>1. ASSUME NEW r \in Requests, Submit(r) PROVE TypeInv'
  <2>1. prefillQueue' \in Seq(Requests)
    BY <1>0, <1>1, OccurrencesAppend DEF Submit, TypeOK
  <2>2. phase' \in [Requests -> Phases]
    BY <1>0, <1>1 DEF Submit, TypeOK, Phases
  <2> QED
    BY <1>0, <1>1, <2>1, <2>2 DEF Submit, TypeInv, TypeOK, runVars
<1>2. CASE CallRun
  BY <1>0, <1>2 DEF CallRun, TypeInv, TypeOK, requestVars, queueVars
<1>3. CASE EndPrefill
  <2>1. decodeQueue \o batch \in Seq(Requests) /\ Len(decodeQueue \o batch) \in Nat
    <3>1. \A u, v \in Seq(Requests) : u \o v \in Seq(Requests)
      BY ConcatProperties
    <3>2. decodeQueue \o batch \in Seq(Requests)
      BY <1>0, <3>1, Zenon DEF TypeOK
    <3> QED
      BY <3>2, LenProperties
  <2>2. config.decodeWorkers \in Nat
    BY <1>0, RuntimeAssumption DEF TypeOK, Config
  <2>3. quota' \in 0..config.decodeWorkers
    BY <1>3, <2>1, <2>2 DEF EndPrefill, DispatchQuota, Smaller
  <2>4. batch' \in Seq(Requests)
    BY <1>3 DEF EndPrefill
  <2> QED
    BY <1>0, <1>3, <2>1, <2>3, <2>4 DEF EndPrefill, TypeInv, TypeOK, requestVars
<1>4. CASE EndDecode
  BY <1>0, <1>4 DEF EndDecode, TypeInv, TypeOK, requestVars, queueVars
<1>5. CASE Collect
  <2>1. /\ Head(batch) \in Requests /\ Tail(batch) \in Seq(Requests)
    BY <1>0, <1>5, OccurrencesTail DEF Collect, TypeOK
  <2>2. /\ batch' = Tail(batch)
        /\ UNCHANGED <<config, requestVars, prefillQueue, at, quota, returned>>
        /\ \/ /\ final' = final \cup {Head(batch)}
              /\ kv' = Released(kv, Head(batch))
              /\ decodeQueue' = decodeQueue
           \/ /\ decodeQueue' = Append(decodeQueue, Head(batch))
              /\ kv' = kv /\ final' = final
    BY <1>5 DEF Collect
  <2>3. final' \subseteq Requests /\ Consistent(kv') /\ CacheType(kv')
    BY <1>0, <2>1, <2>2, ReleasedEffect DEF TypeOK, Consistent
  <2>4. decodeQueue' \in Seq(Requests)
    <3>1. decodeQueue \in Seq(Requests)
      BY <1>0 DEF TypeOK
    <3>2. Append(decodeQueue, Head(batch)) \in Seq(Requests)
      BY <2>1, <3>1, OccurrencesAppend
    <3> QED
      BY <2>2, <3>1, <3>2, Zenon
  <2> QED
    BY <1>0, <2>1, <2>2, <2>3, <2>4 DEF TypeInv, TypeOK, requestVars
<1>6. CASE Iterate
  BY <1>0, <1>6 DEF Iterate, TypeInv, TypeOK, requestVars, queueVars
<1>7. CASE Return
  BY <1>0, <1>7 DEF Return, TypeInv, TypeOK, requestVars, queueVars
<1> QED
  BY <1>1, <1>2, <1>3, <1>4, <1>5, <1>6, <1>7

(* Every step is one of these.                                             *)
LEMMA StepCases ==
  ASSUME Next
  PROVE  \/ \E i \in DOMAIN prefillQueue : Prefill(i)
         \/ \E i \in DOMAIN decodeQueue, block \in config.blockSizes : Decode(i, block)
         \/ \E r \in Requests : Submit(r)
         \/ CallRun \/ EndPrefill \/ EndDecode \/ Collect \/ Iterate \/ Return
BY DEF Next, RunStep

LEMMA TypeStep ==
  TypeInv /\ [Next]_vars => TypeInv'
<1> SUFFICES ASSUME TypeInv, [Next]_vars PROVE TypeInv'
  OBVIOUS
<1>1. CASE UNCHANGED vars
  BY <1>1 DEF vars, TypeInv, TypeOK
<1>2. CASE Next
  BY <1>2, StepCases, PrefillTyped, DecodeTyped, ControlTyped
<1> QED
  BY <1>1, <1>2

(* Every variable keeps its type.                                          *)
THEOREM TypeCorrect ==
  Spec => []TypeOK
<1>1. TypeInv => TypeOK
  BY DEF TypeInv
<1> QED
  BY <1>1, TypeInit, TypeStep, PTL DEF Spec

-----------------------------------------------------------------------------
(* Where a request is.                                                     *)

(* A run() that raised loses its lists, and the request it raised for.     *)
NothingRaised == \A r \in Requests : phase[r] \notin {"prefill", "decode"}

(* How often r is held: by the queues and by the lists of run().           *)
Held(r) ==
    Occurrences(prefillQueue, r) + Occurrences(decodeQueue, r)
        + Occurrences(batch, r) + (IF r \in final THEN 1 ELSE 0)

(* Where a request may be, and in which phase it is there.                 *)
Placed(r) ==
    /\ Held(r) <= 1
    /\ phase[r] = "new" \/ r \in returned => Held(r) = 0
    /\ Occurrences(prefillQueue, r) # 0 => phase[r] = "waiting_prefill"
    /\ Occurrences(decodeQueue, r) # 0 => phase[r] = "ready_decode"
    /\ Occurrences(batch, r) # 0 =>
          \/ phase[r] = "ready_decode"
          \/ phase[r] = "finished" /\ at # "prefill"
    /\ r \in final \cup returned => phase[r] = "finished"

ControlInv ==
    /\ \A r \in Requests : Placed(r)
    /\ at = "idle" => batch = <<>> /\ final = {}
    /\ NothingRaised =>
          \A r \in Requests : phase[r] = "new" \/ r \in returned \/ Held(r) = 1

(* The counts are natural numbers.                                         *)
LEMMA CountsType ==
  ASSUME TypeOK, NEW r
  PROVE  /\ Occurrences(prefillQueue, r) \in Nat
         /\ Occurrences(decodeQueue, r) \in Nat
         /\ Occurrences(batch, r) \in Nat
BY OccurrencesType DEF TypeOK

LEMMA ControlInit ==
  Init => ControlInv
<1> SUFFICES ASSUME Init PROVE ControlInv
  OBVIOUS
<1>1. \A r \in Requests : Occurrences(<<>>, r) = 0
  BY OccurrencesSingle
<1>2. \A r \in Requests : Held(r) = 0
  BY <1>1 DEF Held, Init
<1> QED
  BY <1>1, <1>2 DEF Init, ControlInv, Placed, NothingRaised

(* The step leaves request q where it was.                                 *)
Unmoved(q) ==
    /\ Occurrences(prefillQueue', q) = Occurrences(prefillQueue, q)
    /\ Occurrences(decodeQueue', q) = Occurrences(decodeQueue, q)
    /\ phase'[q] = phase[q]

(* The i-th request of a queue is in it.                                   *)
LEMMA QueuedCounts ==
  ASSUME TypeOK
  PROVE  /\ \A i \in DOMAIN prefillQueue :
               Occurrences(prefillQueue, prefillQueue[i]) # 0
         /\ \A i \in DOMAIN decodeQueue :
               Occurrences(decodeQueue, decodeQueue[i]) # 0
<1>1. prefillQueue \in Seq(Requests) /\ decodeQueue \in Seq(Requests)
  BY DEF TypeOK
<1>2. ASSUME NEW s \in Seq(Requests), NEW i \in DOMAIN s
      PROVE  Occurrences(s, s[i]) # 0
  <2>1. s[i] \in ToSet(s)
    BY DEF ToSet
  <2> QED
    BY <2>1, OccurrencesType
<1> QED
  BY <1>1, <1>2

(* A step that raises: run() is idle and holds nothing but its queues.     *)
LEMMA RaiseControl ==
  ASSUME TypeInv, TypeInv', ControlInv, NEW r \in Requests, NEW ph \in {"prefill", "decode"},
         phase' = [phase EXCEPT ![r] = ph], Raise,
         \/ /\ \E i \in DOMAIN prefillQueue :
                  r = prefillQueue[i] /\ prefillQueue' = RemoveAt(prefillQueue, i)
            /\ decodeQueue' = decodeQueue
         \/ /\ \E i \in DOMAIN decodeQueue :
                  r = decodeQueue[i] /\ decodeQueue' = RemoveAt(decodeQueue, i)
            /\ prefillQueue' = prefillQueue
  PROVE  ControlInv'
<1>0. TypeOK /\ TypeOK'
  BY DEF TypeInv
<1>1. at' = "idle" /\ batch' = <<>> /\ final' = {} /\ returned' = returned
  BY DEF Raise
<1>2. \A q \in Requests : Occurrences(batch', q) = 0
  BY <1>1, OccurrencesSingle
<1>3. ~NothingRaised'
  BY <1>0 DEF TypeOK, NothingRaised
<1>4. ASSUME NEW q \in Requests
      PROVE  /\ Occurrences(prefillQueue', q) + Occurrences(decodeQueue', q)
                   = Occurrences(prefillQueue, q) + Occurrences(decodeQueue, q)
                       - (IF q = r THEN 1 ELSE 0)
             /\ q # r => Unmoved(q)
  <2>1. prefillQueue \in Seq(Requests) /\ decodeQueue \in Seq(Requests)
    BY <1>0 DEF TypeOK
  <2>2. \A s \in Seq(Requests) : \A i \in DOMAIN s :
           Occurrences(RemoveAt(s, i), q) = Occurrences(s, q) - (IF q = s[i] THEN 1 ELSE 0)
    BY OccurrencesRemove
  <2>3. q # r => phase'[q] = phase[q]
    BY <1>0 DEF TypeOK
  <2> QED
    BY <1>0, <2>1, <2>2, <2>3, CountsType DEF Unmoved
<1>5. ASSUME NEW q \in Requests PROVE Placed(q)'
  <2>1. Placed(q)
    BY DEF ControlInv
  <2>2. /\ Occurrences(prefillQueue, q) \in Nat /\ Occurrences(decodeQueue, q) \in Nat
        /\ Occurrences(batch, q) \in Nat
        /\ Occurrences(prefillQueue', q) \in Nat /\ Occurrences(decodeQueue', q) \in Nat
    BY <1>0, CountsType, OccurrencesType DEF TypeOK
  <2>3. Held(q)' = Occurrences(prefillQueue', q) + Occurrences(decodeQueue', q)
    BY <1>1, <1>2, <2>2 DEF Held
  <2>4. CASE q # r
    BY <1>1, <1>2, <1>4, <2>1, <2>2, <2>3, <2>4 DEF Placed, Held, Unmoved
  <2>5. CASE q = r
    <3>1. /\ Occurrences(prefillQueue', q) + Occurrences(decodeQueue', q) = 0
          /\ phase[q] # "finished"
      BY <1>0, <1>4, <2>1, <2>2, <2>5, QueuedCounts DEF Placed, Held
    <3> QED
      BY <1>1, <1>2, <2>1, <2>2, <2>3, <3>1 DEF Placed
  <2> QED
    BY <2>4, <2>5
<1> QED
  BY <1>1, <1>3, <1>5 DEF ControlInv

(* A worker that returns: the request moves from its queue to the batch.   *)
LEMMA ReturnControl ==
  ASSUME TypeInv, TypeInv', ControlInv, NEW r \in Requests,
         NEW ph \in {"ready_decode", "finished"},
         phase' = [phase EXCEPT ![r] = ph],
         batch' = Append(batch, r), UNCHANGED <<at, final, returned>>,
         at # "idle",
         at = "prefill" => ph = "ready_decode",
         \/ /\ \E i \in DOMAIN prefillQueue :
                  r = prefillQueue[i] /\ prefillQueue' = RemoveAt(prefillQueue, i)
            /\ decodeQueue' = decodeQueue
         \/ /\ \E i \in DOMAIN decodeQueue :
                  r = decodeQueue[i] /\ decodeQueue' = RemoveAt(decodeQueue, i)
            /\ prefillQueue' = prefillQueue
  PROVE  ControlInv'
<1>0. TypeOK /\ TypeOK'
  BY DEF TypeInv
<1>1. ASSUME NEW q \in Requests
      PROVE  /\ Occurrences(prefillQueue', q) + Occurrences(decodeQueue', q)
                   = Occurrences(prefillQueue, q) + Occurrences(decodeQueue, q)
                       - (IF q = r THEN 1 ELSE 0)
             /\ Occurrences(batch', q)
                   = Occurrences(batch, q) + (IF q = r THEN 1 ELSE 0)
             /\ q # r => Unmoved(q)
  <2>1. prefillQueue \in Seq(Requests) /\ decodeQueue \in Seq(Requests)
    BY <1>0 DEF TypeOK
  <2>2. \A s \in Seq(Requests) : \A i \in DOMAIN s :
           Occurrences(RemoveAt(s, i), q) = Occurrences(s, q) - (IF q = s[i] THEN 1 ELSE 0)
    BY OccurrencesRemove
  <2>3. q # r => phase'[q] = phase[q]
    BY <1>0 DEF TypeOK
  <2>4. Occurrences(batch', q) = Occurrences(batch, q) + (IF q = r THEN 1 ELSE 0)
    BY <1>0, OccurrencesAppend, SMTT(20) DEF TypeOK
  <2> QED
    BY <1>0, <2>1, <2>2, <2>3, <2>4, CountsType DEF Unmoved
<1>2. ASSUME NEW q \in Requests
      PROVE  /\ Placed(q)'
             /\ Held(q)' = Held(q)
             /\ phase'[q] = "new" <=> phase[q] = "new"
             /\ phase[q] \in {"prefill", "decode"}
                   => phase'[q] \in {"prefill", "decode"}
  <2>1. Placed(q)
    BY DEF ControlInv
  <2>2. /\ Occurrences(prefillQueue, q) \in Nat /\ Occurrences(decodeQueue, q) \in Nat
        /\ Occurrences(batch, q) \in Nat
        /\ Occurrences(prefillQueue', q) \in Nat /\ Occurrences(decodeQueue', q) \in Nat
        /\ Occurrences(batch', q) \in Nat
    BY <1>0, CountsType, OccurrencesType DEF TypeOK
  <2>3. Held(q)' = Held(q)
    <3>1. Occurrences(prefillQueue', q) + Occurrences(decodeQueue', q)
             + Occurrences(batch', q)
          = Occurrences(prefillQueue, q) + Occurrences(decodeQueue, q)
             + Occurrences(batch, q)
      <4>1. CASE q = r
        BY <1>1, <2>2, <4>1, SMTT(20)
      <4>2. CASE q # r
        BY <1>1, <2>2, <4>2 DEF Unmoved
      <4> QED
        BY <4>1, <4>2
    <3>2. final' = final
      OBVIOUS
    <3> QED
      BY <3>1, <3>2 DEF Held
  <2>4. CASE q # r
    BY <1>1, <2>1, <2>2, <2>3, <2>4 DEF Placed, Held, Unmoved
  <2>5. CASE q = r
    <3>1. /\ Occurrences(prefillQueue, q) + Occurrences(decodeQueue, q) = 1
          /\ Occurrences(batch, q) = 0 /\ q \notin final
          /\ phase[q] \in {"waiting_prefill", "ready_decode"}
          /\ q \notin returned
      BY <1>0, <1>1, <2>1, <2>2, <2>5, QueuedCounts DEF Placed, Held
    <3>2. phase'[q] = ph
      BY <1>0, <2>5 DEF TypeOK
    <3>3. /\ Occurrences(prefillQueue', q) = 0 /\ Occurrences(decodeQueue', q) = 0
          /\ Occurrences(batch', q) = 1 /\ q \notin final' /\ q \notin returned'
      BY <1>1, <2>2, <2>5, <3>1
    <3> QED
      BY <2>2, <2>3, <3>1, <3>2, <3>3 DEF Placed, Held
  <2> QED
    BY <2>4, <2>5
<1>3. NothingRaised' => NothingRaised
  BY <1>2 DEF NothingRaised
<1> QED
  BY <1>2, <1>3 DEF ControlInv

(* The rest of run(), and the callers.                                     *)
LEMMA OthersControl ==
  ASSUME TypeInv, TypeInv', ControlInv,
         \/ \E r \in Requests : Submit(r)
         \/ CallRun \/ EndPrefill \/ EndDecode \/ Collect \/ Iterate \/ Return
  PROVE  ControlInv'
<1>0. TypeOK /\ TypeOK'
  BY DEF TypeInv
<1>1. \A q \in Requests : Placed(q)
  BY DEF ControlInv
<1>2. ASSUME NEW q \in Requests
      PROVE  /\ Occurrences(prefillQueue, q) \in Nat
             /\ Occurrences(decodeQueue, q) \in Nat
             /\ Occurrences(batch, q) \in Nat
             /\ Occurrences(prefillQueue', q) \in Nat
             /\ Occurrences(decodeQueue', q) \in Nat
             /\ Occurrences(batch', q) \in Nat
  BY <1>0, CountsType, OccurrencesType DEF TypeOK
<1>3. ASSUME NEW r \in Requests, Submit(r) PROVE ControlInv'
  <2>1. ASSUME NEW q \in Requests
        PROVE  Occurrences(prefillQueue', q)
                 = Occurrences(prefillQueue, q) + (IF q = r THEN 1 ELSE 0)
    BY <1>0, <1>3, OccurrencesAppend DEF Submit, TypeOK
  <2>2. /\ at = "idle" /\ phase[r] = "new"
        /\ phase' = [phase EXCEPT ![r] = "waiting_prefill"]
        /\ UNCHANGED <<decodeQueue, at, batch, final, returned>>
    BY <1>3 DEF Submit, runVars
  <2>3. ASSUME NEW q \in Requests
        PROVE  /\ Placed(q)'
               /\ Held(q)' = Held(q) + (IF q = r THEN 1 ELSE 0)
               /\ phase[q] \in {"prefill", "decode"}
                     => phase'[q] \in {"prefill", "decode"}
    <3>1. phase'[q] = IF q = r THEN "waiting_prefill" ELSE phase[q]
      BY <1>0, <2>2 DEF TypeOK
    <3>2. Held(q)' = Held(q) + (IF q = r THEN 1 ELSE 0)
      BY <1>2, <2>1, <2>2 DEF Held
    <3>3. CASE q # r
      BY <1>1, <1>2, <2>1, <2>2, <3>1, <3>2, <3>3 DEF Placed, Held
    <3>4. CASE q = r
      <4>1. Held(q) = 0 /\ q \notin final \cup returned
        BY <1>1, <2>2, <3>4 DEF Placed
      <4>2. /\ Occurrences(prefillQueue, q) = 0 /\ Occurrences(decodeQueue, q) = 0
            /\ Occurrences(batch, q) = 0
        BY <1>2, <4>1 DEF Held
      <4>3. Placed(q)'
        BY <1>2, <2>1, <2>2, <3>1, <3>2, <3>4, <4>1, <4>2 DEF Placed
      <4> QED
        BY <2>2, <3>2, <3>4, <4>3
    <3> QED
      BY <3>1, <3>2, <3>3, <3>4
  <2>4. NothingRaised' => NothingRaised
    BY <2>3 DEF NothingRaised
  <2>5. at' = "idle" => batch' = <<>> /\ final' = {}
    BY <2>2 DEF ControlInv
  <2>6. NothingRaised' =>
           \A q \in Requests : phase'[q] = "new" \/ q \in returned' \/ Held(q)' = 1
    <3>1. Held(r) = 0
      BY <1>1, <2>2 DEF Placed
    <3>2. \A q \in Requests : q # r => phase'[q] = phase[q]
      BY <1>0, <2>2 DEF TypeOK
    <3> QED
      BY <2>2, <2>3, <2>4, <3>1, <3>2 DEF ControlInv
  <2> QED
    BY <2>3, <2>5, <2>6 DEF ControlInv
<1>4. CASE CallRun \/ EndDecode \/ Iterate
  <2>1. /\ UNCHANGED <<phase, prefillQueue, decodeQueue, batch, final, returned>>
        /\ at' # "idle"
        /\ at' = "prefill" => batch = <<>>
    BY <1>4 DEF CallRun, EndDecode, Iterate, requestVars, queueVars, ControlInv
  <2>2. \A q \in Requests : batch = <<>> => Occurrences(batch, q) = 0
    BY OccurrencesSingle
  <2>3. \A q \in Requests : Placed(q)' /\ Held(q)' = Held(q)
    BY <1>1, <2>1, <2>2 DEF Placed, Held
  <2> QED
    BY <2>1, <2>3 DEF ControlInv, NothingRaised
<1>5. CASE EndPrefill
  <2>1. /\ UNCHANGED <<phase, prefillQueue, final, returned>>
        /\ decodeQueue' = decodeQueue \o batch /\ batch' = <<>>
        /\ at = "prefill" /\ at' = "decode"
    BY <1>5 DEF EndPrefill, requestVars
  <2>2. ASSUME NEW q \in Requests
        PROVE  /\ Occurrences(batch', q) = 0
               /\ Occurrences(decodeQueue', q)
                     = Occurrences(decodeQueue, q) + Occurrences(batch, q)
    <3>1. \A u, v \in Seq(Requests) :
             Occurrences(u \o v, q) = Occurrences(u, q) + Occurrences(v, q)
      BY OccurrencesConcat
    <3> QED
      BY <1>0, <2>1, <3>1, OccurrencesSingle, Zenon DEF TypeOK
  <2>3. \A q \in Requests : Placed(q)' /\ Held(q)' = Held(q)
    BY <1>1, <1>2, <2>1, <2>2, SMTT(20) DEF Placed, Held
  <2> QED
    BY <2>1, <2>3 DEF ControlInv, NothingRaised
<1>6. CASE Collect
  <2> DEFINE r == Head(batch)
  <2>1. /\ UNCHANGED <<phase, prefillQueue, at, returned>>
        /\ batch # <<>> /\ batch' = Tail(batch) /\ at = "collect"
        /\ \/ /\ phase[r] = "finished"
              /\ final' = final \cup {r}
              /\ decodeQueue' = decodeQueue
           \/ /\ phase[r] # "finished"
              /\ decodeQueue' = Append(decodeQueue, r)
              /\ final' = final
    BY <1>6 DEF Collect, requestVars
  <2>2. r \in Requests /\ r \in ToSet(batch)
    BY <1>0, <2>1, OccurrencesTail DEF TypeOK
  <2>3. Occurrences(batch, r) # 0
    BY <1>0, <2>2, OccurrencesType DEF TypeOK
  <2>4. ASSUME NEW q \in Requests
        PROVE  Occurrences(batch', q)
                 = Occurrences(batch, q) - (IF q = r THEN 1 ELSE 0)
    BY <1>0, <2>1, OccurrencesTail DEF TypeOK
  <2>5. ASSUME NEW q \in Requests
        PROVE  Occurrences(Append(decodeQueue, r), q)
                 = Occurrences(decodeQueue, q) + (IF q = r THEN 1 ELSE 0)
    <3>1. decodeQueue \in Seq(Requests)
      BY <1>0 DEF TypeOK
    <3> HIDE DEF r
    <3> QED
      BY <2>2, <3>1, OccurrencesAppend
  <2> HIDE DEF r
  <2>7. ASSUME NEW q \in Requests
        PROVE  /\ phase[r] = "finished"
                     => Occurrences(decodeQueue', q) = Occurrences(decodeQueue, q)
               /\ phase[r] # "finished"
                     => Occurrences(decodeQueue', q)
                          = Occurrences(decodeQueue, q) + (IF q = r THEN 1 ELSE 0)
    BY <2>1, <2>5, Zenon
  <2>8. /\ phase[r] = "finished" => final' = final \cup {r}
        /\ phase[r] # "finished" => final' = final
    BY <2>1, Zenon
  <2>9. UNCHANGED <<phase, prefillQueue, at, returned>> /\ at = "collect"
    BY <2>1
  <2>6. ASSUME NEW q \in Requests PROVE Placed(q)' /\ Held(q)' = Held(q)
    <3>0. Placed(q)
      BY <1>1
    <3>1. CASE q # r
      <4>1. /\ Occurrences(batch', q) = Occurrences(batch, q)
            /\ Occurrences(decodeQueue', q) = Occurrences(decodeQueue, q)
            /\ q \in final' <=> q \in final
        BY <1>2, <2>4, <2>7, <2>8, <3>1
      <4>2. Held(q)' = Held(q)
        BY <2>1, <4>1 DEF Held
      <4> QED
        BY <2>1, <3>0, <4>1, <4>2 DEF Placed
    <3>2. CASE q = r
      <4>1. /\ Occurrences(prefillQueue, q) = 0 /\ Occurrences(decodeQueue, q) = 0
            /\ Occurrences(batch, q) = 1 /\ q \notin final /\ q \notin returned
            /\ phase[q] \in {"ready_decode", "finished"}
        BY <1>2, <2>3, <3>0, <3>2 DEF Placed, Held
      <4>2. Occurrences(batch', q) = 0
        BY <2>4, <3>2, <4>1
      <4>3. CASE phase[r] = "finished"
        <5>1. q \in final' /\ Occurrences(decodeQueue', q) = 0
          BY <2>7, <2>8, <3>2, <4>1, <4>3
        <5>2. Held(q)' = Held(q)
          BY <2>1, <4>1, <4>2, <5>1 DEF Held
        <5> QED
          BY <2>1, <3>2, <4>1, <4>2, <4>3, <5>1, <5>2 DEF Placed, Held
      <4>4. CASE phase[r] # "finished"
        <5>1. q \notin final' /\ Occurrences(decodeQueue', q) = 1
          BY <2>7, <2>8, <3>2, <4>1, <4>4
        <5>2. Held(q)' = Held(q)
          BY <2>1, <4>1, <4>2, <5>1 DEF Held
        <5> QED
          BY <2>1, <3>2, <4>1, <4>2, <4>4, <5>1, <5>2 DEF Placed, Held
      <4> QED
        BY <4>3, <4>4
    <3> QED
      BY <3>1, <3>2
  <2> QED
    BY <2>1, <2>6 DEF ControlInv, NothingRaised
<1>7. CASE Return
  <2>1. /\ UNCHANGED <<phase, prefillQueue, decodeQueue, batch>>
        /\ batch = <<>> /\ at' = "idle" /\ final' = {}
        /\ returned' = returned \cup final
    BY <1>7 DEF Return, requestVars, queueVars
  <2>2. ASSUME NEW q \in Requests
        PROVE  /\ Placed(q)'
               /\ q \notin final => Held(q)' = Held(q)
    BY <1>1, <1>2, <2>1 DEF Placed, Held
  <2> QED
    BY <2>1, <2>2 DEF ControlInv, NothingRaised
<1> QED
  BY <1>3, <1>4, <1>5, <1>6, <1>7

LEMMA ControlStep ==
  TypeInv /\ TypeInv' /\ ControlInv /\ [Next]_vars => ControlInv'
<1> SUFFICES ASSUME TypeInv, TypeInv', ControlInv, [Next]_vars PROVE ControlInv'
  OBVIOUS
<1>1. CASE UNCHANGED vars
  BY <1>1 DEF vars, ControlInv, Placed, Held, NothingRaised
<1>2. ASSUME NEW i \in DOMAIN prefillQueue, Prefill(i) PROVE ControlInv'
  <2> DEFINE r == prefillQueue[i]
  <2>1. r \in Requests
    BY QueuedRequest DEF TypeInv
  <2>2. /\ prefillQueue' = RemoveAt(prefillQueue, i) /\ decodeQueue' = decodeQueue
        /\ at = "prefill"
        /\ PrefillRaises(r) \/ PrefillReturns(r)
    BY <1>2, PrefillOutcomes
  <2>3. \E j \in DOMAIN prefillQueue :
           r = prefillQueue[j] /\ prefillQueue' = RemoveAt(prefillQueue, j)
    BY <2>2
  <2> HIDE DEF r
  <2>4. CASE PrefillRaises(r)
    <3>1. phase' = [phase EXCEPT ![r] = "prefill"] /\ Raise
      BY <2>4 DEF PrefillRaises
    <3> QED
      BY <2>1, <2>2, <2>3, <3>1, RaiseControl
  <2>5. CASE PrefillReturns(r)
    <3>1. /\ phase' = [phase EXCEPT ![r] = "ready_decode"]
          /\ batch' = Append(batch, r) /\ UNCHANGED <<at, final, returned>>
      BY <2>5 DEF PrefillReturns
    <3> QED
      BY <2>1, <2>2, <2>3, <3>1, ReturnControl
  <2> QED
    BY <2>2, <2>4, <2>5
<1>3. ASSUME NEW i \in DOMAIN decodeQueue, NEW block \in config.blockSizes,
             Decode(i, block)
      PROVE  ControlInv'
  <2> DEFINE r == decodeQueue[i]
             n == AcceptedCount(r, block)
  <2>1. r \in Requests
    BY QueuedRequest DEF TypeInv
  <2>2. /\ decodeQueue' = RemoveAt(decodeQueue, i) /\ prefillQueue' = prefillQueue
        /\ at = "decode"
        /\ DecodeRaises(r, n) \/ DecodeReturns(r, n)
    BY <1>3, DecodeOutcomes
  <2>3. \E j \in DOMAIN decodeQueue :
           r = decodeQueue[j] /\ decodeQueue' = RemoveAt(decodeQueue, j)
    BY <2>2
  <2> HIDE DEF r, n
  <2>4. CASE DecodeRaises(r, n)
    <3>1. phase' = [phase EXCEPT ![r] = "decode"] /\ Raise
      BY <2>4 DEF DecodeRaises
    <3> QED
      BY <2>1, <2>2, <2>3, <3>1, RaiseControl
  <2>5. CASE DecodeReturns(r, n)
    <3>1. \E ph \in {"ready_decode", "finished"} : phase' = [phase EXCEPT ![r] = ph]
      BY <2>5 DEF DecodeReturns, Conclude
    <3>2. batch' = Append(batch, r) /\ UNCHANGED <<at, final, returned>>
      BY <2>5 DEF DecodeReturns
    <3> QED
      BY <2>1, <2>2, <2>3, <3>1, <3>2, ReturnControl
  <2> QED
    BY <2>2, <2>4, <2>5
<1>4. CASE Next
  BY <1>2, <1>3, <1>4, StepCases, OthersControl
<1> QED
  BY <1>1, <1>4

-----------------------------------------------------------------------------
(* Whose the live pages are.                                               *)

PagesInv ==
    /\ \A p \in kv.pages : phase[Owner(p)] \notin {"new", "waiting_prefill"}
    /\ NothingRaised =>
          \A p \in kv.pages :
             Occurrences(decodeQueue, Owner(p)) + Occurrences(batch, Owner(p)) # 0

LEMMA OwnersAreRequests ==
  ASSUME TypeOK
  PROVE  \A p \in kv.pages : Owner(p) \in Requests
BY DEF TypeOK, CacheType, Cache, PageIds, Owner

(* A step of run() on r that adds pages of r only, and takes r out of the  *)
(* queue and, unless it raises, into the batch.                            *)
LEMMA WorkerPages ==
  ASSUME TypeInv, TypeInv', ControlInv, PagesInv, NEW r \in Requests,
         NEW ph \in {"prefill", "decode", "ready_decode", "finished"},
         phase' = [phase EXCEPT ![r] = ph], KeepsOthers(kv, kv', r),
         phase[r] \notin {"prefill", "decode"},
         ph \in {"ready_decode", "finished"} => batch' = Append(batch, r),
         \A q \in Requests : q # r =>
            Occurrences(decodeQueue', q) = Occurrences(decodeQueue, q)
  PROVE  PagesInv'
<1>0. TypeOK /\ TypeOK'
  BY DEF TypeInv
<1>1. \A p \in kv'.pages : Owner(p) \in Requests
  BY <1>0, OwnersAreRequests DEF TypeOK, CacheType, Cache, PageIds, Owner
<1>2. \A p \in kv'.pages : Owner(p) # r => p \in kv.pages
  BY DEF KeepsOthers
<1>3. \A q \in Requests : phase'[q] = IF q = r THEN ph ELSE phase[q]
  BY <1>0 DEF TypeOK
<1>4. \A p \in kv'.pages : phase'[Owner(p)] \notin {"new", "waiting_prefill"}
  BY <1>1, <1>2, <1>3 DEF PagesInv
<1>5. ASSUME NothingRaised', NEW p \in kv'.pages
      PROVE  Occurrences(decodeQueue', Owner(p)) + Occurrences(batch', Owner(p)) # 0
  <2>1. ph \in {"ready_decode", "finished"} /\ NothingRaised
    BY <1>3, <1>5 DEF NothingRaised
  <2>2. ASSUME NEW q \in Requests
        PROVE  /\ Occurrences(batch', q)
                     = Occurrences(batch, q) + (IF q = r THEN 1 ELSE 0)
               /\ Occurrences(batch, q) \in Nat
               /\ Occurrences(decodeQueue', q) \in Nat
    <3>1. batch \in Seq(Requests) /\ decodeQueue' \in Seq(Requests)
      BY <1>0 DEF TypeOK
    <3>2. batch' = Append(batch, r)
      BY <2>1
    <3>3. /\ Occurrences(batch, q) \in Nat /\ Occurrences(decodeQueue', q) \in Nat
          /\ Occurrences(Append(batch, r), q)
               = Occurrences(batch, q) + (IF q = r THEN 1 ELSE 0)
      <4>1. \A u \in Seq(Requests) :
               Occurrences(Append(u, r), q) = Occurrences(u, q) + (IF q = r THEN 1 ELSE 0)
        BY OccurrencesAppend
      <4> QED
        BY <3>1, <4>1, OccurrencesType
    <3> QED
      BY <3>2, <3>3, Zenon
  <2>3. CASE Owner(p) = r
    BY <2>2, <2>3
  <2>4. CASE Owner(p) # r
    BY <1>1, <1>2, <2>1, <2>2, <2>4 DEF PagesInv
  <2> QED
    BY <2>3, <2>4
<1> QED
  BY <1>4, <1>5 DEF PagesInv

(* The rest of run(), and the callers.                                     *)
LEMMA OthersPages ==
  ASSUME TypeInv, TypeInv', ControlInv, PagesInv,
         \/ \E r \in Requests : Submit(r)
         \/ CallRun \/ EndPrefill \/ EndDecode \/ Collect \/ Iterate \/ Return
  PROVE  PagesInv'
<1>0. TypeOK /\ TypeOK' /\ Consistent(kv)
  BY DEF TypeInv
<1>1. \A p \in kv.pages : Owner(p) \in Requests
  BY <1>0, OwnersAreRequests
<1>2. ASSUME NEW r \in Requests, Submit(r) PROVE PagesInv'
  <2>1. /\ phase[r] = "new" /\ phase' = [phase EXCEPT ![r] = "waiting_prefill"]
        /\ UNCHANGED <<kv, decodeQueue, batch>>
    BY <1>2 DEF Submit, runVars
  <2>2. \A q \in Requests : q # r => phase'[q] = phase[q]
    BY <1>0, <2>1 DEF TypeOK
  <2>3. NothingRaised' => NothingRaised
    BY <2>1, <2>2 DEF NothingRaised
  <2>4. \A p \in kv.pages : Owner(p) # r
    BY <2>1 DEF PagesInv
  <2> QED
    BY <1>1, <2>1, <2>2, <2>3, <2>4 DEF PagesInv
<1>3. CASE CallRun \/ EndDecode \/ Iterate \/ Return
  <2>1. UNCHANGED <<kv, phase, decodeQueue, batch>>
    BY <1>3 DEF CallRun, EndDecode, Iterate, Return, requestVars, queueVars
  <2> QED
    BY <2>1 DEF PagesInv, NothingRaised
<1>4. CASE EndPrefill
  <2>1. /\ UNCHANGED <<kv, phase>>
        /\ decodeQueue' = decodeQueue \o batch /\ batch' = <<>>
    BY <1>4 DEF EndPrefill, requestVars
  <2>2. ASSUME NEW q \in Requests
        PROVE  Occurrences(decodeQueue', q) + Occurrences(batch', q)
                 = Occurrences(decodeQueue, q) + Occurrences(batch, q)
    <3>1. \A u, v \in Seq(Requests) :
             Occurrences(u \o v, q) = Occurrences(u, q) + Occurrences(v, q)
      BY OccurrencesConcat
    <3>2. Occurrences(decodeQueue \o batch, q)
            = Occurrences(decodeQueue, q) + Occurrences(batch, q)
      BY <1>0, <3>1, Zenon DEF TypeOK
    <3>3. Occurrences(batch', q) = 0
      BY <2>1, OccurrencesSingle
    <3> QED
      BY <1>0, <2>1, <3>2, <3>3, CountsType
  <2> QED
    BY <1>1, <2>1, <2>2 DEF PagesInv, NothingRaised
<1>5. CASE Collect
  <2> DEFINE r == Head(batch)
  <2>1. /\ phase' = phase /\ batch # <<>> /\ batch' = Tail(batch)
        /\ phase[r] = "finished" => kv' = Released(kv, r) /\ decodeQueue' = decodeQueue
        /\ phase[r] # "finished" =>
              kv' = kv /\ decodeQueue' = Append(decodeQueue, r)
    BY <1>5, Zenon DEF Collect, requestVars
  <2>2. r \in Requests
    BY <1>0, <2>1, OccurrencesTail DEF TypeOK
  <2>3. ASSUME NEW q \in Requests
        PROVE  Occurrences(batch', q)
                 = Occurrences(batch, q) - (IF q = r THEN 1 ELSE 0)
    BY <1>0, <2>1, OccurrencesTail DEF TypeOK
  <2>4. ASSUME NEW q \in Requests
        PROVE  Occurrences(Append(decodeQueue, r), q)
                 = Occurrences(decodeQueue, q) + (IF q = r THEN 1 ELSE 0)
    <3>1. decodeQueue \in Seq(Requests)
      BY <1>0 DEF TypeOK
    <3> HIDE DEF r
    <3> QED
      BY <2>2, <3>1, OccurrencesAppend
  <2> HIDE DEF r
  <2>5. CASE phase[r] = "finished"
    <3>1. kv'.pages = {p \in kv.pages : Owner(p) # r} /\ decodeQueue' = decodeQueue
      BY <1>0, <2>1, <2>5, ReleasedEffect
    <3>2. \A q \in Requests : q # r => Occurrences(batch', q) = Occurrences(batch, q)
      BY <1>0, <2>3, CountsType
    <3> QED
      BY <1>1, <2>1, <3>1, <3>2 DEF PagesInv, NothingRaised
  <2>6. CASE phase[r] # "finished"
    <3>1. ASSUME NEW q \in Requests
          PROVE  Occurrences(decodeQueue', q) + Occurrences(batch', q)
                   = Occurrences(decodeQueue, q) + Occurrences(batch, q)
      <4>1. Occurrences(decodeQueue', q)
              = Occurrences(decodeQueue, q) + (IF q = r THEN 1 ELSE 0)
        BY <2>1, <2>4, <2>6, Zenon
      <4> QED
        BY <1>0, <2>3, <4>1, CountsType
    <3>2. kv' = kv /\ phase' = phase
      BY <2>1, <2>6
    <3> QED
      BY <1>1, <3>1, <3>2 DEF PagesInv, NothingRaised
  <2> QED
    BY <2>5, <2>6
<1> QED
  BY <1>2, <1>3, <1>4, <1>5

LEMMA PagesStep ==
  TypeInv /\ TypeInv' /\ ControlInv /\ PagesInv /\ [Next]_vars => PagesInv'
<1> SUFFICES ASSUME TypeInv, TypeInv', ControlInv, PagesInv, [Next]_vars
             PROVE  PagesInv'
  OBVIOUS
<1>0. TypeOK /\ \A q \in Requests : Placed(q)
  BY DEF TypeInv, ControlInv
<1>1. CASE UNCHANGED vars
  BY <1>1 DEF vars, PagesInv, NothingRaised
<1>2. ASSUME NEW i \in DOMAIN prefillQueue, Prefill(i) PROVE PagesInv'
  <2> DEFINE r == prefillQueue[i]
  <2>1. r \in Requests
    BY <1>0, QueuedRequest
  <2>2. phase[r] = "waiting_prefill"
    BY <1>0, <2>1, QueuedCounts DEF Placed
  <2>3. decodeQueue' = decodeQueue /\ (PrefillRaises(r) \/ PrefillReturns(r))
    BY <1>2, PrefillOutcomes
  <2> HIDE DEF r
  <2>4. CASE PrefillRaises(r)
    <3>1. KeepsOthers(kv, kv', r) /\ phase' = [phase EXCEPT ![r] = "prefill"]
      BY <2>1, <2>4, PrefillRaisesEffect DEF PrefillRaises
    <3> QED
      BY <2>1, <2>2, <2>3, <3>1, WorkerPages
  <2>5. CASE PrefillReturns(r)
    <3>1. /\ KeepsOthers(kv, kv', r)
          /\ phase' = [phase EXCEPT ![r] = "ready_decode"]
          /\ batch' = Append(batch, r)
      BY <2>1, <2>5, PrefillReturnsEffect DEF PrefillReturns
    <3> QED
      BY <2>1, <2>2, <2>3, <3>1, WorkerPages
  <2> QED
    BY <2>3, <2>4, <2>5
<1>3. ASSUME NEW i \in DOMAIN decodeQueue, NEW block \in config.blockSizes,
             Decode(i, block)
      PROVE  PagesInv'
  <2> DEFINE r == decodeQueue[i]
             n == AcceptedCount(r, block)
  <2>1. r \in Requests
    BY <1>0, QueuedRequest
  <2>2. phase[r] = "ready_decode"
    BY <1>0, <2>1, QueuedCounts DEF Placed
  <2>3. /\ decodeQueue' = RemoveAt(decodeQueue, i)
        /\ DecodeRaises(r, n) \/ DecodeReturns(r, n)
    BY <1>3, DecodeOutcomes
  <2>4. \A q \in Requests : q # r =>
           Occurrences(decodeQueue', q) = Occurrences(decodeQueue, q)
    <3>1. \A q \in Requests :
             Occurrences(decodeQueue', q)
               = Occurrences(decodeQueue, q) - (IF q = r THEN 1 ELSE 0)
      BY <1>0, <2>3, OccurrencesRemove DEF TypeOK
    <3> QED
      BY <1>0, <3>1, CountsType
  <2>5. n \in Nat
    <3>1. block \in Nat \ {0}
      BY <1>0, RuntimeAssumption DEF TypeOK, Config
    <3> QED
      BY <1>0, <2>1, <3>1, AcceptedCountType
  <2> HIDE DEF r, n
  <2>6. CASE DecodeRaises(r, n)
    <3>1. KeepsOthers(kv, kv', r) /\ phase' = [phase EXCEPT ![r] = "decode"]
      BY <2>1, <2>5, <2>6, DecodeRaisesEffect DEF DecodeRaises
    <3> QED
      BY <2>1, <2>2, <2>4, <3>1, WorkerPages
  <2>7. CASE DecodeReturns(r, n)
    <3>1. KeepsOthers(kv, kv', r) /\ batch' = Append(batch, r)
      BY <2>1, <2>5, <2>7, DecodeReturnsEffect DEF DecodeReturns
    <3>2. \E ph \in {"ready_decode", "finished"} : phase' = [phase EXCEPT ![r] = ph]
      BY <2>7 DEF DecodeReturns, Conclude
    <3> QED
      BY <2>1, <2>2, <2>4, <3>1, <3>2, WorkerPages
  <2> QED
    BY <2>3, <2>6, <2>7
<1>4. CASE Next
  BY <1>2, <1>3, <1>4, StepCases, OthersPages
<1> QED
  BY <1>1, <1>4

IInv == TypeInv /\ ControlInv /\ PagesInv

LEMMA Invariance ==
  Spec => []IInv
<1>1. Init => IInv
  <2>1. Init => PagesInv
    BY DEF Init, EmptyCache, PagesInv
  <2> QED
    BY <2>1, TypeInit, ControlInit DEF IInv
<1>2. IInv /\ [Next]_vars => IInv'
  BY TypeStep, ControlStep, PagesStep DEF IInv
<1> QED
  BY <1>1, <1>2, PTL DEF Spec

(* docs/ARCHITECTURE.md: "runtime owns request state until completion".    *)
(* While no call of run() has raised, a submitted request is in exactly    *)
(* one queue or list until its result is returned, and every live page     *)
(* belongs to a request that is there.                                     *)
THEOREM CustodyUnlessRaised ==
  Spec => [](NothingRaised => Custody)
<1>1. ASSUME IInv, NothingRaised PROVE Custody
  <2>0. TypeOK
    BY <1>1 DEF IInv, TypeInv
  <2>1. ASSUME NEW r \in Requests
        PROVE  /\ Occurrences(prefillQueue \o decodeQueue \o batch, r)
                     = Occurrences(prefillQueue, r) + Occurrences(decodeQueue, r)
                          + Occurrences(batch, r)
               /\ Occurrences(decodeQueue \o batch, r)
                     = Occurrences(decodeQueue, r) + Occurrences(batch, r)
               /\ decodeQueue \o batch \in Seq(Requests)
    <3>1. \A u, v \in Seq(Requests) :
             /\ u \o v \in Seq(Requests)
             /\ Occurrences(u \o v, r) = Occurrences(u, r) + Occurrences(v, r)
      BY OccurrencesConcat
    <3>2. /\ prefillQueue \in Seq(Requests) /\ decodeQueue \in Seq(Requests)
          /\ batch \in Seq(Requests)
      BY <2>0 DEF TypeOK
    <3>3. /\ prefillQueue \o decodeQueue \in Seq(Requests)
          /\ Occurrences(prefillQueue \o decodeQueue, r)
               = Occurrences(prefillQueue, r) + Occurrences(decodeQueue, r)
      BY <3>1, <3>2, Zenon
    <3>4. Occurrences(prefillQueue \o decodeQueue \o batch, r)
            = Occurrences(prefillQueue \o decodeQueue, r) + Occurrences(batch, r)
      BY <3>1, <3>2, <3>3, Zenon
    <3> QED
      BY <3>1, <3>2, <3>3, <3>4, Zenon
  <2>2. ASSUME NEW r \in Requests
        PROVE  Occurrences(prefillQueue \o decodeQueue \o batch, r)
                   + (IF r \in final THEN 1 ELSE 0)
                 = IF phase[r] = "new" \/ r \in returned THEN 0 ELSE 1
    <3>1. Held(r) = IF phase[r] = "new" \/ r \in returned THEN 0 ELSE 1
      BY <1>1 DEF IInv, ControlInv, Placed
    <3> QED
      BY <2>1, <3>1, Zenon DEF Held
  <2>3. ASSUME NEW p \in kv.pages PROVE Owner(p) \in ToSet(decodeQueue \o batch)
    <3>1. Owner(p) \in Requests
      BY <2>0, OwnersAreRequests
    <3>2. Occurrences(decodeQueue \o batch, Owner(p)) # 0
      BY <1>1, <2>1, <3>1, Zenon DEF IInv, PagesInv
    <3>3. decodeQueue \o batch \in Seq(Requests)
      BY <2>1, <3>1
    <3> QED
      BY <3>2, <3>3, OccurrencesType
  <2> QED
    BY <2>2, <2>3, Zenon DEF Custody
<1>2. IInv => (NothingRaised => Custody)
  BY <1>1
<1> QED
  BY <1>2, Invariance, PTL

-----------------------------------------------------------------------------
(* Pages of ready requests.                                                *)

(* With pin_ready_decode_pages, the pages of a ready request are pinned,   *)
(* those of its snapshot among them.                                       *)
Pinned(r) ==
    /\ snapshot[r] \subseteq kv.pages
    /\ \A p \in kv.pages : Owner(p) = r => p \in kv.pinned

PinnedInv ==
    config.pinReady => \A r \in Requests : phase[r] = "ready_decode" => Pinned(r)

(* A step on behalf of another request leaves them pinned.                 *)
LEMMA OtherStaysPinned ==
  ASSUME TypeInv, Consistent(kv'), NEW r, KeepsOthers(kv, kv', r),
         NEW q \in Requests, q # r, snapshot'[q] = snapshot[q], Pinned(q)
  PROVE  Pinned(q)'
<1>1. kv'.pinned \subseteq kv'.pages
  BY DEF Consistent, CacheType
<1>2. \A p \in snapshot[q] : Owner(p) = q /\ p \in kv.pinned
  BY DEF TypeInv, Pinned
<1>3. snapshot'[q] \subseteq kv'.pages
  BY <1>1, <1>2 DEF KeepsOthers
<1>4. ASSUME NEW p \in kv'.pages, Owner(p) = q PROVE p \in kv'.pinned
  <2>1. p \in kv.pages
    BY <1>4 DEF KeepsOthers
  <2> QED
    BY <1>4, <2>1 DEF KeepsOthers, Pinned
<1> QED
  BY <1>3, <1>4 DEF Pinned

(* A request that goes on keeps its pages pinned.                          *)
LEMMA DecodeStaysPinned ==
  ASSUME TypeInv, config.pinReady, NEW r \in Requests, NEW n \in Nat, Pinned(r),
         DecodeReturns(r, n), ~Finishes(r, n)
  PROVE  Pinned(r)'
<1>1. /\ Rehydration(r).ok /\ Rehydration(r).kv = kv
      /\ n > 0
  <2>1. n # 0
    BY DEF Finishes
  <2>2. Rehydration(r).ok /\ Rehydration(r).kv = kv
    BY RehydrationEffect DEF Pinned
  <2> QED
    BY <2>1, <2>2
<1>2. PICK left, pages :
         /\ DecodeLeaves(r, n, left, pages)
         /\ snapshot' = [snapshot EXCEPT ![r] = pages]
         /\ Conclude(r, left, pages, Used(r), n)
  BY DEF DecodeReturns
<1>3. kv' = left
  BY <1>2 DEF Conclude
<1>4. snapshot'[r] = pages
  BY <1>2 DEF TypeInv, TypeOK
<1>5. /\ pages \in SUBSET left.pages
      /\ Looked(r).pinned \subseteq left.pinned
      /\ left.pages \ Looked(r).pages \subseteq left.pinned
  BY <1>1, <1>2, LeavesEffect
<1>6. Looked(r).pages = kv.pages /\ kv.pinned \subseteq Looked(r).pinned
  BY <1>1, LookedEffect
<1> QED
  BY <1>3, <1>4, <1>5, <1>6 DEF Pinned

LEMMA PinnedStep ==
  IInv /\ IInv' /\ PinnedInv /\ [Next]_vars => PinnedInv'
<1> SUFFICES ASSUME IInv, IInv', PinnedInv, [Next]_vars, config'.pinReady,
                    NEW q \in Requests, phase'[q] = "ready_decode"
             PROVE  Pinned(q)'
  BY DEF PinnedInv
<1>0. /\ TypeInv /\ TypeOK /\ Consistent(kv) /\ Consistent(kv')
      /\ \A r \in Requests : Placed(r)
      /\ \A p \in kv.pages : phase[Owner(p)] # "waiting_prefill"
  BY DEF IInv, TypeInv, ControlInv, PagesInv
<1>1. CASE UNCHANGED vars
  BY <1>1 DEF vars, PinnedInv, Pinned
<1>2. ASSUME NEW i \in DOMAIN prefillQueue, Prefill(i) PROVE Pinned(q)'
  <2> DEFINE r == prefillQueue[i]
  <2>1. r \in Requests /\ phase[r] = "waiting_prefill"
    BY <1>0, QueuedRequest, QueuedCounts DEF Placed
  <2>2. config' = config /\ (PrefillRaises(r) \/ PrefillReturns(r))
    BY <1>2, PrefillOutcomes
  <2> HIDE DEF r
  <2>3. CASE PrefillRaises(r)
    <3>1. /\ KeepsOthers(kv, kv', r) /\ phase' = [phase EXCEPT ![r] = "prefill"]
          /\ snapshot' = snapshot
      BY <1>0, <2>1, <2>3, PrefillRaisesEffect DEF PrefillRaises
    <3>2. q # r /\ phase[q] = "ready_decode"
      BY <1>0, <2>1, <3>1 DEF TypeOK
    <3>3. Pinned(q)
      BY <2>2, <3>2 DEF PinnedInv
    <3> QED
      BY <1>0, <3>1, <3>2, <3>3, OtherStaysPinned
  <2>4. CASE PrefillReturns(r)
    <3>1. /\ KeepsOthers(kv, kv', r)
          /\ phase' = [phase EXCEPT ![r] = "ready_decode"]
          /\ config.pinReady => kv'.pages \ kv.pages \subseteq kv'.pinned
      BY <1>0, <2>1, <2>4, PrefillReturnsEffect DEF PrefillReturns
    <3>2. PICK pages :
             /\ snapshot' = [snapshot EXCEPT ![r] = pages]
             /\ pages = {p \in kv'.pages : Owner(p) = r}
      BY <1>0, <2>1, <2>4, PrefillReturnsEffect
    <3>3. CASE q = r
      <4>1. snapshot'[r] = pages
        BY <1>0, <2>1, <3>2 DEF TypeOK
      <4>2. \A p \in kv'.pages : Owner(p) = r => p \notin kv.pages
        BY <1>0, <2>1
      <4> QED
        BY <2>2, <3>1, <3>2, <3>3, <4>1, <4>2 DEF Pinned
    <3>4. CASE q # r
      <4>1. phase[q] = "ready_decode" /\ snapshot'[q] = snapshot[q]
        BY <1>0, <3>1, <3>2, <3>4 DEF TypeOK
      <4>2. Pinned(q)
        BY <2>2, <4>1 DEF PinnedInv
      <4> QED
        BY <1>0, <3>1, <3>4, <4>1, <4>2, OtherStaysPinned
    <3> QED
      BY <3>3, <3>4
  <2> QED
    BY <2>2, <2>3, <2>4
<1>3. ASSUME NEW i \in DOMAIN decodeQueue, NEW block \in config.blockSizes,
             Decode(i, block)
      PROVE  Pinned(q)'
  <2> DEFINE r == decodeQueue[i]
             n == AcceptedCount(r, block)
  <2>1. r \in Requests /\ phase[r] = "ready_decode"
    BY <1>0, QueuedRequest, QueuedCounts DEF Placed
  <2>2. config' = config /\ (DecodeRaises(r, n) \/ DecodeReturns(r, n))
    BY <1>3, DecodeOutcomes
  <2>3. n \in Nat
    <3>1. block \in Nat \ {0}
      BY <1>0, RuntimeAssumption DEF TypeOK, Config
    <3> QED
      BY <1>0, <2>1, <3>1, AcceptedCountType
  <2> HIDE DEF r, n
  <2>4. /\ KeepsOthers(kv, kv', r)
        /\ \E pages : snapshot' = [snapshot EXCEPT ![r] = pages]
        /\ \E ph : phase' = [phase EXCEPT ![r] = ph]
        /\ phase'[r] = "ready_decode" => DecodeReturns(r, n) /\ ~Finishes(r, n)
    <3>1. CASE DecodeRaises(r, n)
      <4>1. /\ KeepsOthers(kv, kv', r)
            /\ \E pages : snapshot' = [snapshot EXCEPT ![r] = pages]
            /\ phase' = [phase EXCEPT ![r] = "decode"]
        BY <1>0, <2>1, <2>3, <3>1, DecodeRaisesEffect DEF DecodeRaises
      <4> QED
        BY <1>0, <2>1, <4>1 DEF TypeOK
    <3>2. CASE DecodeReturns(r, n)
      <4>1. /\ KeepsOthers(kv, kv', r)
            /\ \E pages : snapshot' = [snapshot EXCEPT ![r] = pages]
            /\ phase' = [phase EXCEPT ![r] = IF Finishes(r, n) THEN "finished"
                                                               ELSE "ready_decode"]
        BY <1>0, <2>1, <2>3, <3>2, DecodeReturnsEffect
      <4> QED
        BY <1>0, <2>1, <3>2, <4>1 DEF TypeOK
    <3> QED
      BY <2>2, <3>1, <3>2
  <2>5. CASE q = r
    <3>1. Pinned(r)
      BY <2>1, <2>2 DEF PinnedInv
    <3> QED
      BY <1>0, <2>1, <2>2, <2>3, <2>4, <2>5, <3>1, DecodeStaysPinned
  <2>6. CASE q # r
    <3>1. phase[q] = "ready_decode" /\ snapshot'[q] = snapshot[q]
      BY <1>0, <2>4, <2>6 DEF TypeOK
    <3>2. Pinned(q)
      BY <2>2, <3>1 DEF PinnedInv
    <3> QED
      BY <1>0, <2>4, <2>6, <3>1, <3>2, OtherStaysPinned
  <2> QED
    BY <2>5, <2>6
<1>4. ASSUME NEW r \in Requests, Submit(r) PROVE Pinned(q)'
  <2>1. /\ phase' = [phase EXCEPT ![r] = "waiting_prefill"]
        /\ UNCHANGED <<config, kv, snapshot>>
    BY <1>4 DEF Submit
  <2>2. phase[q] = "ready_decode"
    BY <1>0, <2>1 DEF TypeOK
  <2> QED
    BY <2>1, <2>2 DEF PinnedInv, Pinned
<1>5. CASE CallRun \/ EndPrefill \/ EndDecode \/ Iterate \/ Return
  <2>1. UNCHANGED <<config, kv, phase, snapshot>>
    BY <1>5 DEF CallRun, EndPrefill, EndDecode, Iterate, Return, requestVars
  <2> QED
    BY <2>1 DEF PinnedInv, Pinned
<1>6. CASE Collect
  <2> DEFINE r == Head(batch)
  <2>1. /\ UNCHANGED <<config, phase, snapshot>>
        /\ kv' = kv \/ (kv' = Released(kv, r) /\ phase[r] = "finished")
    BY <1>6, Zenon DEF Collect, requestVars
  <2>2. Pinned(q)
    BY <2>1 DEF PinnedInv
  <2> HIDE DEF r
  <2>3. CASE kv' = kv
    BY <2>1, <2>2, <2>3 DEF Pinned
  <2>4. CASE kv' = Released(kv, r) /\ phase[r] = "finished"
    <3>1. KeepsOthers(kv, kv', r) /\ q # r
      BY <1>0, <2>1, <2>4, ReleasedEffect
    <3> QED
      BY <1>0, <2>1, <2>2, <3>1, OtherStaysPinned
  <2> QED
    BY <2>1, <2>3, <2>4
<1>7. CASE Next
  BY <1>2, <1>3, <1>4, <1>5, <1>6, <1>7, StepCases
<1> QED
  BY <1>1, <1>7

(* While ready pages stay pinned, a request in the decode queue keeps its  *)
(* whole snapshot resident: whatever the other requests do between its     *)
(* iterations, it is never rehydrated.                                     *)
THEOREM ReadyAlwaysResident ==
  Spec => []ReadyStaysResident
<1>1. Init => PinnedInv
  BY DEF Init, PinnedInv
<1>2. ASSUME IInv, PinnedInv PROVE ReadyStaysResident
  <2>1. ASSUME NEW r \in ToSet(decodeQueue)
        PROVE  r \in Requests /\ phase[r] = "ready_decode"
    <3>1. PICK i \in DOMAIN decodeQueue : r = decodeQueue[i]
      BY DEF ToSet
    <3> QED
      BY <1>2, <3>1, QueuedRequest, QueuedCounts DEF IInv, TypeInv, ControlInv, Placed
  <2> QED
    BY <1>2, <2>1 DEF ReadyStaysResident, PinnedInv, Pinned
<1>3. IInv /\ PinnedInv => ReadyStaysResident
  BY <1>2
<1> QED
  BY <1>1, <1>3, Invariance, PinnedStep, PTL DEF Spec

-----------------------------------------------------------------------------
(* Capacity.                                                               *)

(* A decode step finds all pages of its request pinned when it commits:    *)
(* it has pinned them all, or they were never unpinned.                    *)
CommitsPinned == config.sparseTopK = 0 \/ config.pinReady

(* r's pages are all pinned.                                               *)
OwnPinned(c, r) == \A p \in c.pages : Owner(p) = r => p \in c.pinned

(* Taking pages away keeps within the capacity.                            *)
LEMMA FewerPagesFit ==
  ASSUME NEW c, Consistent(c), Cardinality(c.pages) <= MaxPages,
         NEW d, d.pages \subseteq c.pages
  PROVE  Cardinality(d.pages) <= MaxPages
<1>1. IsFiniteSet(c.pages) /\ d.pages \in SUBSET c.pages
  BY DEF Consistent, CacheType
<1>2. /\ Cardinality(d.pages) \in Nat /\ Cardinality(c.pages) \in Nat
      /\ Cardinality(d.pages) <= Cardinality(c.pages)
  BY <1>1, FS_Subset, FS_CardinalityType
<1> QED
  BY <1>2, PagingAssumption

(* allocate_for_request cannot overflow max_pages when the eviction it     *)
(* makes can take no page of the request itself.                           *)
LEMMA AllocationFits ==
  ASSUME NEW c, Consistent(c), Cardinality(c.pages) <= MaxPages,
         NEW r \in Requests, OwnPinned(c, r), NEW total \in Nat,
         NEW pin \in BOOLEAN
  PROVE  Cardinality(Allocation(c, r, total, pin).kv.pages) <= MaxPages
<1> DEFINE d == Allocation(c, r, total, pin).kv
<1>1. \/ Cardinality(d.pages) <= MaxPages
      \/ d.pages \subseteq c.pages
      \/ \E p \in c.pages \ d.pages, q \in d.pages \ c.pages : Owner(p) = Owner(q)
  BY AllocationOverflow
<1>2. /\ c.pinned \subseteq d.pages
      /\ \A q \in d.pages \ c.pages : Owner(q) = r
  BY AllocationTakes
<1> HIDE DEF d
<1>3. d.pages \subseteq c.pages => Cardinality(d.pages) <= MaxPages
  BY FewerPagesFit
<1>4. ~ \E p \in c.pages \ d.pages, q \in d.pages \ c.pages : Owner(p) = Owner(q)
  BY <1>2 DEF OwnPinned
<1> QED
  BY <1>1, <1>3, <1>4 DEF d

(* With sparse selection off a request decodes with all its pages.         *)
LEMMA DenseUsesAll ==
  ASSUME TypeOK, config.sparseTopK = 0, NEW r, NEW c, Consistent(c), NEW pages
  PROVE  DecodePages(r, c, pages) = pages
<1>1. ASSUME NEW S, S \subseteq c.pages PROVE Cardinality(S) \in Nat
  <2>1. IsFiniteSet(c.pages)
    BY DEF Consistent, CacheType
  <2> QED
    BY <1>1, <2>1, FS_Subset, FS_CardinalityType
<1>2. Selectable(c, r) \subseteq c.pages
  BY PagesOfLive DEF Selectable, Consistent
<1>3. Selected(c, r, Total(r)) = {}
  <2>1. ASSUME NEW p \in Selected(c, r, Total(r)) PROVE FALSE
    <3> DEFINE S == {q \in Selectable(c, r) : RanksBefore(c, q, p, Total(r))}
    <3>1. Cardinality(S) < 0
      BY <2>1 DEF Selected
    <3>2. S \subseteq c.pages
      BY <1>2
    <3> HIDE DEF S
    <3> QED
      BY <1>1, <3>1, <3>2
  <2> QED
    BY <2>1
<1> QED
  BY <1>3 DEF DecodePages

(* A resident snapshot is all the request has.                             *)
Whole(r) ==
    phase[r] = "ready_decode" /\ snapshot[r] \subseteq kv.pages =>
        \A p \in kv.pages : Owner(p) = r => p \in snapshot[r]

RoomInv ==
    CommitsPinned =>
        /\ CapacityRespected
        /\ \A r \in Requests : Whole(r)

(* A step on behalf of another request takes pages away at most.           *)
LEMMA OtherStaysWhole ==
  ASSUME NEW r, KeepsOthers(kv, kv', r), NEW q \in Requests, q # r, TypeInv,
         snapshot'[q] = snapshot[q], phase'[q] = phase[q], Whole(q)
  PROVE  Whole(q)'
<1> SUFFICES ASSUME phase'[q] = "ready_decode", snapshot'[q] \subseteq kv'.pages,
                    NEW p \in kv'.pages, Owner(p) = q
             PROVE  p \in snapshot'[q]
  BY DEF Whole
<1>1. p \in kv.pages
  BY DEF KeepsOthers
<1>2. snapshot[q] \subseteq kv.pages
  BY DEF KeepsOthers, TypeInv
<1> QED
  BY <1>1, <1>2 DEF Whole

(* All pages of the request are pinned when the worker commits.            *)
LEMMA PinnedLooked ==
  ASSUME TypeInv, PinnedInv, CommitsPinned, CapacityRespected,
         NEW r \in Requests, phase[r] = "ready_decode", Whole(r)
  PROVE  /\ Cardinality(Rehydration(r).kv.pages) <= MaxPages
         /\ \A p \in Rehydration(r).kv.pages :
               Owner(p) = r => p \in Rehydration(r).pages
         /\ Rehydration(r).ok => OwnPinned(Looked(r), r)
<1>0. TypeOK /\ Consistent(kv)
  BY DEF TypeInv
<1>1. /\ Cardinality(Rehydration(r).kv.pages) <= MaxPages
      /\ \A p \in Rehydration(r).kv.pages :
            Owner(p) = r => p \in Rehydration(r).pages
  <2>1. CASE snapshot[r] \subseteq kv.pages
    BY <2>1, RehydrationEffect DEF Whole, CapacityRespected
  <2>2. CASE ~(snapshot[r] \subseteq kv.pages)
    <3>1. Rehydration(r).kv = Allocation(Released(kv, r), r, Total(r), TRUE).kv
      BY <2>2 DEF Rehydration
    <3>2. /\ Consistent(Released(kv, r))
          /\ Released(kv, r).pages = {p \in kv.pages : Owner(p) # r}
      BY <1>0, ReleasedEffect
    <3>3. Cardinality(Released(kv, r).pages) <= MaxPages /\ OwnPinned(Released(kv, r), r)
      <4>1. Released(kv, r).pages \subseteq kv.pages
        BY <3>2
      <4> QED
        BY <1>0, <3>2, <4>1, FewerPagesFit DEF OwnPinned, CapacityRespected
    <3>4. Total(r) \in Nat /\ TRUE \in BOOLEAN
      BY <1>0, TotalType
    <3>5. Cardinality(Allocation(Released(kv, r), r, Total(r), TRUE).kv.pages) <= MaxPages
      BY <3>2, <3>3, <3>4, AllocationFits
    <3>6. Rehydration(r).pages = {p \in Rehydration(r).kv.pages : Owner(p) = r}
      BY <2>2, RehydrationEffect
    <3> QED
      BY <3>1, <3>5, <3>6
  <2> QED
    BY <2>1, <2>2
<1>2. ASSUME Rehydration(r).ok PROVE OwnPinned(Looked(r), r)
  <2>1. /\ Looked(r).pages = Rehydration(r).kv.pages
        /\ Looked(r).pinned = Rehydration(r).kv.pinned \cup Used(r)
    BY <1>2, LookedEffect
  <2>2. CASE config.sparseTopK = 0
    <3>1. Consistent(Rehydration(r).kv)
      BY RehydrationEffect
    <3>2. Used(r) = Rehydration(r).pages
      BY <1>0, <2>2, <3>1, DenseUsesAll DEF Used
    <3> QED
      BY <1>1, <2>1, <3>2 DEF OwnPinned
  <2>3. CASE config.pinReady
    <3>1. Pinned(r)
      BY <2>3 DEF PinnedInv
    <3>2. Rehydration(r).kv = kv
      BY <3>1, RehydrationEffect DEF Pinned
    <3> QED
      BY <2>1, <3>1, <3>2 DEF OwnPinned, Pinned
  <2> QED
    BY <2>2, <2>3 DEF CommitsPinned
<1> QED
  BY <1>1, <1>2

(* Its commit stays within the capacity.                                   *)
LEMMA CommitFits ==
  ASSUME TypeInv, NEW r \in Requests, NEW c, Consistent(c), NEW n \in Nat,
         Cardinality(c.pages) <= MaxPages, OwnPinned(c, r)
  PROVE  Cardinality(Commit(r, c, n).kv.pages) <= MaxPages
<1> DEFINE total == Total(r) + n
           room == IF CanAllocate(c, r, total) THEN c
                   ELSE Evicted(c, PagesNeeded(c, r, total))
           a == Allocation(room, r, total, TRUE)
<1>1. Commit(r, c, n).kv = IF a.ok THEN Marked(a.kv, r) ELSE a.kv
  BY DEF Commit
<1>2. /\ Consistent(room) /\ room.pages \subseteq c.pages /\ room.pinned = c.pinned
  BY EvictedEffect
<1>3. total \in Nat /\ TRUE \in BOOLEAN
  BY TotalType DEF TypeInv
<1> HIDE DEF room, total
<1>4. Cardinality(room.pages) <= MaxPages /\ OwnPinned(room, r)
  BY <1>2, FewerPagesFit DEF OwnPinned
<1>5. Cardinality(a.kv.pages) <= MaxPages
  BY <1>2, <1>3, <1>4, AllocationFits
<1>6. Consistent(a.kv)
  BY <1>2, <1>3, PinnedAllocationEffect
<1> HIDE DEF a
<1>7. Marked(a.kv, r).pages = a.kv.pages
  BY <1>6, FlagFields
<1> QED
  BY <1>1, <1>5, <1>7

(* A decode step, raising or not, stays within the capacity.               *)
LEMMA DecodeFits ==
  ASSUME TypeInv, PinnedInv, CommitsPinned, CapacityRespected,
         NEW r \in Requests, phase[r] = "ready_decode", Whole(r), NEW n \in Nat,
         DecodeRaises(r, n) \/ DecodeReturns(r, n)
  PROVE  Cardinality(kv'.pages) <= MaxPages
<1>1. Cardinality(Rehydration(r).kv.pages) <= MaxPages
  BY PinnedLooked
<1>2. ASSUME Rehydration(r).ok
      PROVE  /\ Consistent(Looked(r)) /\ Cardinality(Looked(r).pages) <= MaxPages
             /\ Consistent(Commit(r, Looked(r), n).kv)
             /\ Cardinality(Commit(r, Looked(r), n).kv.pages) <= MaxPages
  <2>1. Consistent(Looked(r)) /\ Looked(r).pages = Rehydration(r).kv.pages
    BY <1>2, LookedEffect
  <2>2. OwnPinned(Looked(r), r)
    BY <1>2, PinnedLooked
  <2> QED
    BY <1>1, <2>1, <2>2, CommitFits, CommitEffect
<1>3. CASE DecodeRaises(r, n)
  BY <1>1, <1>2, <1>3 DEF DecodeRaises
<1>4. CASE DecodeReturns(r, n)
  <2>1. PICK left, pages :
           /\ DecodeLeaves(r, n, left, pages)
           /\ Conclude(r, left, pages, Used(r), n)
    BY <1>4 DEF DecodeReturns
  <2>2. Consistent(left) /\ Cardinality(left.pages) <= MaxPages
    BY <1>2, <1>4, <2>1 DEF DecodeLeaves, DecodeReturns
  <2>3. kv' \in {left, PinsCleared(left, pages), PinsCleared(left, Used(r))}
    BY <2>1, Zenon DEF Conclude
  <2>4. kv'.pages = left.pages
    <3>1. \A S : PinsCleared(left, S).pages = left.pages
      BY <2>2, FlagFields
    <3> QED
      BY <2>3, <3>1
  <2> QED
    BY <2>2, <2>4
<1> QED
  BY <1>3, <1>4

LEMMA RoomStep ==
  IInv /\ IInv' /\ PinnedInv /\ RoomInv /\ [Next]_vars => RoomInv'
<1> SUFFICES ASSUME IInv, IInv', PinnedInv, RoomInv, [Next]_vars, CommitsPinned'
             PROVE  /\ Cardinality(kv'.pages) <= MaxPages
                    /\ \A q \in Requests : Whole(q)'
  BY DEF RoomInv, CapacityRespected
<1>0. /\ TypeInv /\ TypeOK /\ Consistent(kv) /\ Consistent(kv')
      /\ \A r \in Requests : Placed(r)
      /\ \A p \in kv.pages : phase[Owner(p)] # "waiting_prefill"
      /\ TypeOK'
  BY DEF IInv, TypeInv, ControlInv, PagesInv
<1>1. CASE UNCHANGED vars
  BY <1>1 DEF vars, RoomInv, Whole, CapacityRespected, CommitsPinned
<1>2. ASSUME NEW i \in DOMAIN prefillQueue, Prefill(i)
      PROVE  /\ Cardinality(kv'.pages) <= MaxPages
             /\ \A q \in Requests : Whole(q)'
  <2>0. PICK r \in Requests : r = prefillQueue[i]
    BY <1>0, QueuedRequest
  <2> DEFINE d == Allocation(kv, r, PromptLength[r], config.pinReady).kv
  <2>1. r \in Requests /\ phase[r] = "waiting_prefill"
    BY <1>0, <2>0, QueuedCounts DEF Placed
  <2>2. config' = config /\ (PrefillRaises(r) \/ PrefillReturns(r))
    BY <1>2, <2>0, PrefillOutcomes
  <2>3. /\ Cardinality(kv.pages) <= MaxPages
        /\ \A q \in Requests : Whole(q)
    BY <2>2 DEF RoomInv, CapacityRespected, CommitsPinned
  <2>4. PromptLength[r] \in Nat /\ config.pinReady \in BOOLEAN
    BY <1>0, <2>1, RuntimeAssumption DEF TypeOK, Config
  <2>5. Cardinality(d.pages) <= MaxPages /\ Consistent(d)
    <3>1. OwnPinned(kv, r)
      BY <1>0, <2>1 DEF OwnPinned
    <3> QED
      BY <1>0, <2>1, <2>3, <2>4, <3>1, AllocationFits, AllocationConsistent
  <2> HIDE DEF d
  <2>6. CASE PrefillRaises(r)
    <3>1. /\ KeepsOthers(kv, kv', r) /\ phase' = [phase EXCEPT ![r] = "prefill"]
          /\ snapshot' = snapshot /\ kv' = d
      BY <1>0, <2>1, <2>6, PrefillRaisesEffect DEF PrefillRaises, d
    <3>2. Whole(r)'
      BY <1>0, <2>1, <3>1 DEF TypeOK, Whole
    <3>3. ASSUME NEW q \in Requests, q # r PROVE Whole(q)'
      <4>1. phase'[q] = phase[q]
        BY <1>0, <3>1, <3>3 DEF TypeOK
      <4> QED
        BY <1>0, <2>3, <3>1, <3>3, <4>1, OtherStaysWhole
    <3> QED
      BY <2>5, <3>1, <3>2, <3>3
  <2>7. CASE PrefillReturns(r)
    <3>1. /\ KeepsOthers(kv, kv', r)
          /\ phase' = [phase EXCEPT ![r] = "ready_decode"]
          /\ \E pages : kv' = Touched(d, pages, ListOrder(pages))
      BY <1>0, <2>1, <2>7, PrefillReturnsEffect DEF PrefillReturns, d
    <3>2. PICK pages :
             /\ snapshot' = [snapshot EXCEPT ![r] = pages]
             /\ pages = {p \in kv'.pages : Owner(p) = r}
      BY <1>0, <2>1, <2>7, PrefillReturnsEffect
    <3>3. kv'.pages = d.pages
      <4>1. \A S, o : Touched(d, S, o).pages = d.pages
        BY <2>5, FlagFields
      <4> QED
        BY <3>1, <4>1
    <3>4. Whole(r)'
      <4>1. snapshot'[r] = pages
        BY <1>0, <2>1, <3>2 DEF TypeOK
      <4> QED
        BY <3>2, <4>1 DEF Whole
    <3>5. ASSUME NEW q \in Requests, q # r PROVE Whole(q)'
      <4>1. phase'[q] = phase[q] /\ snapshot'[q] = snapshot[q]
        BY <1>0, <3>1, <3>2, <3>5 DEF TypeOK
      <4> QED
        BY <1>0, <2>3, <3>1, <3>5, <4>1, OtherStaysWhole
    <3> QED
      BY <2>5, <3>3, <3>4, <3>5
  <2> QED
    BY <2>2, <2>6, <2>7
<1>3. ASSUME NEW i \in DOMAIN decodeQueue, NEW block \in config.blockSizes,
             Decode(i, block)
      PROVE  /\ Cardinality(kv'.pages) <= MaxPages
             /\ \A q \in Requests : Whole(q)'
  <2>0. PICK r \in Requests : r = decodeQueue[i]
    BY <1>0, QueuedRequest
  <2> DEFINE n == AcceptedCount(r, block)
  <2>1. r \in Requests /\ phase[r] = "ready_decode"
    BY <1>0, <2>0, QueuedCounts DEF Placed
  <2>2. config' = config /\ (DecodeRaises(r, n) \/ DecodeReturns(r, n))
    BY <1>3, <2>0, DecodeOutcomes
  <2>3. n \in Nat
    <3>1. block \in Nat \ {0}
      BY <1>0, RuntimeAssumption DEF TypeOK, Config
    <3> QED
      BY <1>0, <2>1, <3>1, AcceptedCountType
  <2> HIDE DEF n
  <2>4. CommitsPinned /\ CapacityRespected /\ \A q \in Requests : Whole(q)
    BY <2>2 DEF RoomInv, CommitsPinned
  <2>5. Cardinality(kv'.pages) <= MaxPages
    BY <1>0, <2>1, <2>2, <2>3, <2>4, DecodeFits
  <2>6. /\ KeepsOthers(kv, kv', r)
        /\ \E pages : snapshot' = [snapshot EXCEPT ![r] = pages]
        /\ \E ph : phase' = [phase EXCEPT ![r] = ph]
    <3>1. CASE DecodeRaises(r, n)
      BY <1>0, <2>1, <2>3, <3>1, DecodeRaisesEffect DEF DecodeRaises
    <3>2. CASE DecodeReturns(r, n)
      BY <1>0, <2>1, <2>3, <3>2, DecodeReturnsEffect
    <3> QED
      BY <2>2, <3>1, <3>2
  <2>7. Whole(r)'
    <3>1. CASE DecodeRaises(r, n)
      <4>1. phase'[r] = "decode"
        BY <1>0, <2>1, <3>1 DEF DecodeRaises, TypeOK
      <4> QED
        BY <4>1 DEF Whole
    <3>2. CASE DecodeReturns(r, n) /\ n > 0
      <4>1. PICK pages :
               /\ snapshot' = [snapshot EXCEPT ![r] = pages]
               /\ n > 0 => pages = {p \in kv'.pages : Owner(p) = r}
        BY <1>0, <2>1, <2>3, <3>2, DecodeReturnsEffect
      <4>2. snapshot'[r] = pages
        BY <1>0, <2>1, <4>1 DEF TypeOK
      <4> QED
        BY <3>2, <4>1, <4>2 DEF Whole
    <3>3. CASE DecodeReturns(r, n) /\ n = 0
      <4>1. phase' = [phase EXCEPT ![r] = IF Finishes(r, n) THEN "finished"
                                                           ELSE "ready_decode"]
        BY <1>0, <2>1, <2>3, <3>3, DecodeReturnsEffect
      <4>2. phase'[r] = "finished"
        BY <1>0, <2>1, <3>3, <4>1 DEF TypeOK, Finishes
      <4> QED
        BY <4>2 DEF Whole
    <3> QED
      BY <2>2, <2>3, <3>1, <3>2, <3>3
  <2>8. ASSUME NEW q \in Requests, q # r PROVE Whole(q)'
    <3>1. phase'[q] = phase[q] /\ snapshot'[q] = snapshot[q]
      BY <1>0, <2>6, <2>8 DEF TypeOK
    <3> QED
      BY <1>0, <2>4, <2>6, <2>8, <3>1, OtherStaysWhole
  <2> QED
    BY <2>5, <2>7, <2>8
<1>4. ASSUME NEW r \in Requests, Submit(r)
      PROVE  /\ Cardinality(kv'.pages) <= MaxPages
             /\ \A q \in Requests : Whole(q)'
  <2>1. /\ phase' = [phase EXCEPT ![r] = "waiting_prefill"]
        /\ UNCHANGED <<config, kv, snapshot>>
    BY <1>4 DEF Submit
  <2>2. \A q \in Requests : phase'[q] = IF q = r THEN "waiting_prefill" ELSE phase[q]
    BY <1>0, <2>1 DEF TypeOK
  <2> QED
    BY <2>1, <2>2 DEF RoomInv, Whole, CapacityRespected, CommitsPinned
<1>5. CASE CallRun \/ EndPrefill \/ EndDecode \/ Iterate \/ Return
  <2>1. UNCHANGED <<config, kv, phase, snapshot>>
    BY <1>5 DEF CallRun, EndPrefill, EndDecode, Iterate, Return, requestVars
  <2> QED
    BY <2>1 DEF RoomInv, Whole, CapacityRespected, CommitsPinned
<1>6. CASE Collect
  <2> DEFINE r == Head(batch)
  <2>1. /\ UNCHANGED <<config, phase, snapshot>>
        /\ kv' = kv \/ (kv' = Released(kv, r) /\ phase[r] = "finished")
    BY <1>6, Zenon DEF Collect, requestVars
  <2>2. Cardinality(kv.pages) <= MaxPages /\ \A q \in Requests : Whole(q)
    BY <2>1 DEF RoomInv, CapacityRespected, CommitsPinned
  <2> HIDE DEF r
  <2>3. CASE kv' = kv
    BY <2>1, <2>2, <2>3 DEF Whole
  <2>4. CASE kv' = Released(kv, r) /\ phase[r] = "finished"
    <3>1. KeepsOthers(kv, kv', r) /\ kv'.pages \subseteq kv.pages
      BY <1>0, <2>4, ReleasedEffect
    <3>2. Cardinality(kv'.pages) <= MaxPages
      BY <1>0, <2>2, <3>1, FewerPagesFit
    <3>3. ASSUME NEW q \in Requests PROVE Whole(q)'
      <4>1. CASE q = r
        BY <2>1, <2>4, <4>1 DEF Whole
      <4>2. CASE q # r
        BY <1>0, <2>1, <2>2, <3>1, <4>2, OtherStaysWhole
      <4> QED
        BY <4>1, <4>2
    <3> QED
      BY <3>2, <3>3
  <2> QED
    BY <2>1, <2>3, <2>4
<1>7. CASE Next
  BY <1>2, <1>3, <1>4, <1>5, <1>6, <1>7, StepCases
<1> QED
  BY <1>1, <1>7

(* It holds of the empty cache.                                            *)
LEMMA RoomInit ==
  Init => RoomInv
<1>1. EmptyCache.pages = {} /\ Cardinality({}) = 0
  BY FS_EmptySet DEF EmptyCache
<1>2. ASSUME Init PROVE Cardinality(kv.pages) <= MaxPages
  <2>1. Cardinality(kv.pages) = 0
    BY <1>1, <1>2, Zenon DEF Init
  <2> QED
    BY <2>1, PagingAssumption
<1>3. ASSUME Init, NEW r \in Requests PROVE Whole(r)
  BY <1>3 DEF Init, Whole
<1> QED
  BY <1>2, <1>3 DEF RoomInv, CapacityRespected

(* config.py: max_pages is the "Total physical pages available in the KV   *)
(* cache".  It is never exceeded when a decode step reads all pages of its *)
(* request or they stay pinned, however calls for several requests evict,  *)
(* rehydrate, commit and raise: a call that grows the cache past it must   *)
(* evict pages of its own request first, and those are pinned.             *)
THEOREM PinnedCapacity ==
  Spec => [](CommitsPinned => CapacityRespected)
<1>1. Init => RoomInv
  BY RoomInit
<1>2. RoomInv => (CommitsPinned => CapacityRespected)
  BY DEF RoomInv
<1>3. Init => PinnedInv
  BY DEF Init, PinnedInv
<1> QED
  BY <1>1, <1>2, <1>3, Invariance, PinnedStep, RoomStep, PTL DEF Spec

-----------------------------------------------------------------------------
(* What a resident snapshot covers.                                        *)

(* Pages and slots of r as they are in c, when nothing is issued.          *)
LEMMA SlotsKept ==
  ASSUME NEW c, NEW d, d.pages = c.pages, SameSlots(c, d), NEW r
  PROVE  SameFor(c, d, r)
BY DEF SameSlots, SameFor

(* An allocation that cannot take pages of the request continues them.     *)
LEMMA AllocationCovered ==
  ASSUME NEW c, Consistent(c), NEW r \in Requests, OwnPinned(c, r),
         NEW m \in Nat, NEW total \in Nat, m <= total, Covered(c, r, m),
         NEW pin \in BOOLEAN, Allocation(c, r, total, pin).ok
  PROVE  Covered(Allocation(c, r, total, pin).kv, r, total)
<1> DEFINE room == EvictedFor(c, PagesNeeded(c, r, total))
<1>1. Allocation(c, r, total, pin).kv = Grown(room, r, total, pin)
  BY DEF Allocation
<1>2. /\ Consistent(room) /\ room.pages \in SUBSET c.pages
      /\ room.pinned = c.pinned /\ room.serial = c.serial
      /\ \A p \in room.pages : \A t : <<p, t>> \in room.fill <=> <<p, t>> \in c.fill
  BY EvictedForConsistent, EvictedForFields, EvictedForSlots
<1> HIDE DEF room
<1>3. room.pinned \subseteq room.pages
  BY <1>2 DEF Consistent, CacheType
<1>4. SameFor(c, room, r)
  BY <1>2, <1>3 DEF SameFor, OwnPinned
<1>5. Covered(room, r, m)
  BY <1>2, <1>4, SameCovered
<1> QED
  BY <1>1, <1>2, <1>5, GrownCovered

(* A rehydration that returns covers the sequence from its start.          *)
LEMMA RehydrationCovered ==
  ASSUME TypeInv, NEW r \in Requests, Rehydration(r).ok,
         snapshot[r] \subseteq kv.pages => Covered(kv, r, Total(r))
  PROVE  Covered(Rehydration(r).kv, r, Total(r))
<1>1. CASE snapshot[r] \subseteq kv.pages
  BY <1>1, RehydrationEffect
<1>2. CASE ~(snapshot[r] \subseteq kv.pages)
  <2> DEFINE c == Released(kv, r)
  <2>1. /\ Rehydration(r).kv = Allocation(c, r, Total(r), TRUE).kv
        /\ Allocation(c, r, Total(r), TRUE).ok
    BY <1>2 DEF Rehydration
  <2>2. /\ Consistent(c)
        /\ \A p \in c.pages : Owner(p) # r
    BY ReleasedEffect DEF TypeInv
  <2> HIDE DEF c
  <2>3. Covered(c, r, 0) /\ OwnPinned(c, r)
    BY <2>2, NoneCovered DEF OwnPinned
  <2>4. Total(r) \in Nat /\ 0 \in Nat /\ 0 <= Total(r) /\ TRUE \in BOOLEAN
    BY TotalType DEF TypeInv
  <2>5. Covered(Allocation(c, r, Total(r), TRUE).kv, r, Total(r))
    BY <2>1, <2>2, <2>3, <2>4, AllocationCovered
  <2> QED
    BY <2>1, <2>5
<1> QED
  BY <1>1, <1>2

(* A commit that returns covers the tokens accepted as well.               *)
LEMMA CommitCovered ==
  ASSUME TypeInv, NEW r \in Requests, NEW c, Consistent(c), OwnPinned(c, r),
         Covered(c, r, Total(r)), NEW n \in Nat, Commit(r, c, n).ok
  PROVE  Covered(Commit(r, c, n).kv, r, Total(r) + n)
<1> DEFINE total == Total(r) + n
           room == IF CanAllocate(c, r, total) THEN c
                   ELSE Evicted(c, PagesNeeded(c, r, total))
           a == Allocation(room, r, total, TRUE)
<1>1. Commit(r, c, n).kv = Marked(a.kv, r) /\ a.ok
  BY DEF Commit
<1>2. /\ Total(r) \in Nat /\ total \in Nat /\ Total(r) <= total
      /\ TRUE \in BOOLEAN
  BY TotalType DEF TypeInv
<1>3. /\ Consistent(room) /\ room.pages \subseteq c.pages
      /\ room.pinned = c.pinned /\ room.serial = c.serial
      /\ \A p \in room.pages : \A t : <<p, t>> \in room.fill <=> <<p, t>> \in c.fill
  <2>1. CASE CanAllocate(c, r, total)
    BY <2>1
  <2>2. CASE ~CanAllocate(c, r, total)
    <3> DEFINE k == PagesNeeded(c, r, total)
    <3>1. room = Evicted(c, k)
      BY <2>2
    <3>2. /\ Consistent(Evicted(c, k)) /\ Evicted(c, k).pages \subseteq c.pages
          /\ Evicted(c, k).pinned = c.pinned
      BY EvictedEffect
    <3>3. /\ Evicted(c, k).serial = c.serial
          /\ \A p \in Evicted(c, k).pages : \A t :
                <<p, t>> \in Evicted(c, k).fill <=> <<p, t>> \in c.fill
      BY DroppedSlots DEF Evicted
    <3> HIDE DEF room, k
    <3> QED
      BY <3>1, <3>2, <3>3
  <2> QED
    BY <2>1, <2>2
<1> HIDE DEF room, total
<1>4. room.pinned \subseteq room.pages
  BY <1>3 DEF Consistent, CacheType
<1>5. SameFor(c, room, r) /\ OwnPinned(room, r)
  BY <1>3, <1>4 DEF SameFor, OwnPinned
<1>6. Covered(room, r, Total(r))
  BY <1>2, <1>3, <1>5, SameCovered
<1>7. Covered(a.kv, r, total) /\ Consistent(a.kv)
  BY <1>1, <1>2, <1>3, <1>5, <1>6, AllocationCovered, PinnedAllocationEffect
<1> HIDE DEF a
<1>8. /\ Consistent(Marked(a.kv, r))
      /\ Marked(a.kv, r).pages = a.kv.pages
      /\ SameSlots(a.kv, Marked(a.kv, r))
  BY <1>7, MarkedConsistent, FlagFields, FlagSlots
<1>9. SameFor(a.kv, Marked(a.kv, r), r)
  BY <1>8, SlotsKept
<1>10. Covered(Marked(a.kv, r), r, total)
  BY <1>2, <1>7, <1>8, <1>9, SameCovered
<1> QED
  BY <1>1, <1>10 DEF total

(* A request that has not been prefilled has committed nothing, and one    *)
(* that would not be rehydrated has the pages of its sequence.             *)
Resumable(r) == phase[r] = "ready_decode" /\ snapshot[r] \subseteq kv.pages

CoverInv ==
    /\ \A r \in Requests : phase[r] \in {"new", "waiting_prefill"} => committed[r] = 0
    /\ CommitsPinned =>
          \A r \in Requests : Resumable(r) => Covered(kv, r, Total(r))

(* A step on behalf of another request leaves all of them or is noticed.   *)
LEMMA OtherStaysCovered ==
  ASSUME NEW r, KeepsOthers(kv, kv', r), NEW q \in Requests, q # r,
         TypeInv, Consistent(kv'), snapshot'[q] = snapshot[q],
         phase'[q] = phase[q], committed'[q] = committed[q], Whole(q),
         Resumable(q) => Covered(kv, q, Total(q))
  PROVE  Resumable(q)' => Covered(kv, q, Total(q))'
<1> SUFFICES ASSUME phase'[q] = "ready_decode", snapshot'[q] \subseteq kv'.pages
             PROVE  Covered(kv', q, Total(q)')
  BY DEF Resumable
<1>1. Total(q)' = Total(q) /\ Total(q) \in Nat
  BY TotalType DEF Total, TypeInv
<1>2. snapshot[q] \subseteq kv.pages
  BY DEF KeepsOthers, TypeInv
<1>3. Covered(kv, q, Total(q)) /\ Consistent(kv)
  BY <1>2 DEF Resumable, TypeInv
<1>4. \A p \in PageIds : Owner(p) = q => (p \in kv'.pages <=> p \in kv.pages)
  BY <1>2 DEF Whole, KeepsOthers
<1>5. \A p \in kv.pages : Owner(p) = q =>
         \A t \in Nat : <<p, t>> \in kv'.fill <=> <<p, t>> \in kv.fill
  BY <1>2 DEF KeepsOthers, Whole
<1>6. \A l \in Layers : kv'.serial[<<q, l>>] = kv.serial[<<q, l>>]
  BY DEF KeepsOthers, Keys
<1>7. SameFor(kv, kv', q)
  BY <1>4, <1>5, <1>6 DEF SameFor
<1> QED
  BY <1>1, <1>3, <1>7, SameCovered

(* A prefill that returns covers the prompt.                               *)
LEMMA PrefillCovered ==
  ASSUME TypeInv, NEW r \in Requests, PrefillReturns(r),
         \A p \in kv.pages : Owner(p) # r
  PROVE  Covered(kv', r, PromptLength[r])
<1> DEFINE d == Allocation(kv, r, PromptLength[r], config.pinReady).kv
<1>1. /\ config.pinReady \in BOOLEAN /\ PromptLength[r] \in Nat
      /\ Consistent(kv) /\ 0 \in Nat /\ 0 <= PromptLength[r]
  BY RuntimeAssumption DEF TypeInv, TypeOK, Config
<1>2. Consistent(d)
  BY <1>1, AllocationConsistent
<1>3. Covered(d, r, PromptLength[r])
  <2>1. Covered(kv, r, 0) /\ OwnPinned(kv, r)
    BY <1>1, NoneCovered DEF OwnPinned
  <2>2. Allocation(kv, r, PromptLength[r], config.pinReady).ok
    BY DEF PrefillReturns
  <2> QED
    BY <1>1, <2>1, <2>2, AllocationCovered
<1>4. PICK pages : kv' = Touched(d, pages, ListOrder(pages))
  BY DEF PrefillReturns
<1> HIDE DEF d
<1>5. kv'.pages = d.pages /\ SameSlots(d, kv')
  BY <1>2, <1>4, FlagFields, FlagSlots
<1>6. SameFor(d, kv', r)
  BY <1>5, SlotsKept
<1>7. Consistent(kv')
  BY PrefillReturnsEffect
<1> QED
  BY <1>1, <1>2, <1>3, <1>6, <1>7, SameCovered

(* A decode step whose request goes on covers what is committed now.       *)
LEMMA DecodeCovered ==
  ASSUME TypeInv, PinnedInv, CommitsPinned, CapacityRespected,
         NEW r \in Requests, phase[r] = "ready_decode", Whole(r),
         Resumable(r) => Covered(kv, r, Total(r)),
         NEW n \in Nat, n > 0, DecodeReturns(r, n)
  PROVE  Covered(kv', r, Total(r) + n)
<1>0. Rehydration(r).ok
  BY DEF DecodeReturns
<1>1. /\ Consistent(Rehydration(r).kv) /\ Consistent(Looked(r))
      /\ Looked(r).pages = Rehydration(r).kv.pages
      /\ SameSlots(Rehydration(r).kv, Looked(r))
  BY <1>0, RehydrationEffect, LookedEffect
<1>2. Total(r) \in Nat /\ Total(r) + n \in Nat
  BY TotalType DEF TypeInv
<1>3. Covered(Rehydration(r).kv, r, Total(r))
  BY <1>0, RehydrationCovered DEF Resumable
<1>4. Covered(Looked(r), r, Total(r))
  <2>1. SameFor(Rehydration(r).kv, Looked(r), r)
    BY <1>1, SlotsKept
  <2> QED
    BY <1>1, <1>2, <1>3, <2>1, SameCovered
<1>5. OwnPinned(Looked(r), r)
  BY <1>0, PinnedLooked
<1>6. PICK left, pages :
         DecodeLeaves(r, n, left, pages) /\ Conclude(r, left, pages, Used(r), n)
  BY DEF DecodeReturns
<1>7. left = Commit(r, Looked(r), n).kv /\ Commit(r, Looked(r), n).ok
  BY <1>6 DEF DecodeLeaves
<1>8. Consistent(left)
  BY <1>1, <1>7, CommitEffect
<1>9. Covered(left, r, Total(r) + n)
  BY <1>1, <1>4, <1>5, <1>7, CommitCovered
<1>10. kv' \in {left, PinsCleared(left, pages), PinsCleared(left, Used(r))}
  BY <1>6, Zenon DEF Conclude
<1>11. kv'.pages = left.pages /\ SameSlots(left, kv')
  <2>1. \A S : PinsCleared(left, S).pages = left.pages
    BY <1>8, FlagFields
  <2>2. \A S : SameSlots(left, PinsCleared(left, S))
    BY <1>8, FlagSlots
  <2>3. SameSlots(left, left)
    BY DEF SameSlots
  <2> QED
    BY <1>10, <2>1, <2>2, <2>3
<1>12. SameFor(left, kv', r)
  BY <1>11, SlotsKept
<1>13. Consistent(kv')
  BY DecodeReturnsEffect
<1> QED
  BY <1>2, <1>8, <1>9, <1>12, <1>13, SameCovered

LEMMA CoverStep ==
  IInv /\ IInv' /\ PinnedInv /\ RoomInv /\ CoverInv /\ [Next]_vars => CoverInv'
<1> SUFFICES ASSUME IInv, IInv', PinnedInv, RoomInv, CoverInv, [Next]_vars,
                    NEW q \in Requests
             PROVE  /\ phase'[q] \in {"new", "waiting_prefill"} => committed'[q] = 0
                    /\ CommitsPinned' /\ Resumable(q)' => Covered(kv, q, Total(q))'
  BY DEF CoverInv
<1>0. /\ TypeInv /\ TypeOK /\ TypeOK' /\ Consistent(kv) /\ Consistent(kv')
      /\ \A r \in Requests : Placed(r)
      /\ \A p \in kv.pages : phase[Owner(p)] # "waiting_prefill"
  BY DEF IInv, TypeInv, ControlInv, PagesInv
<1>1. /\ phase[q] \in {"new", "waiting_prefill"} => committed[q] = 0
      /\ CommitsPinned => CapacityRespected /\ \A r \in Requests : Whole(r)
      /\ CommitsPinned =>
            \A r \in Requests : Resumable(r) => Covered(kv, r, Total(r))
  BY DEF CoverInv, RoomInv
<1>2. CASE UNCHANGED <<config, kv, phase, committed, snapshot>>
  BY <1>1, <1>2 DEF CommitsPinned, Resumable, Covered, LayerCovered, Starts,
                    IssuedAfter, Total
(* Another request than the one the step is for. *)
<1>3. ASSUME NEW r \in Requests, q # r, config' = config, KeepsOthers(kv, kv', r),
             phase'[q] = phase[q], snapshot'[q] = snapshot[q],
             committed'[q] = committed[q]
      PROVE  /\ phase'[q] \in {"new", "waiting_prefill"} => committed'[q] = 0
             /\ CommitsPinned' /\ Resumable(q)' => Covered(kv, q, Total(q))'
  <2>1. ASSUME CommitsPinned' PROVE Resumable(q)' => Covered(kv, q, Total(q))'
    <3>1. CommitsPinned
      BY <1>3, <2>1 DEF CommitsPinned
    <3> QED
      BY <1>0, <1>1, <1>3, <3>1, OtherStaysCovered
  <2> QED
    BY <1>1, <1>3, <2>1
<1>4. ASSUME NEW i \in DOMAIN prefillQueue, Prefill(i)
      PROVE  /\ phase'[q] \in {"new", "waiting_prefill"} => committed'[q] = 0
             /\ CommitsPinned' /\ Resumable(q)' => Covered(kv, q, Total(q))'
  <2>0. PICK r \in Requests : r = prefillQueue[i]
    BY <1>0, QueuedRequest
  <2>1. phase[r] = "waiting_prefill"
    BY <1>0, <2>0, QueuedCounts DEF Placed
  <2>2. /\ config' = config /\ committed' = committed
        /\ PrefillRaises(r) \/ PrefillReturns(r)
    BY <1>4, <2>0, PrefillOutcomes
  <2>3. /\ KeepsOthers(kv, kv', r)
        /\ \E pages : snapshot' = [snapshot EXCEPT ![r] = pages]
        /\ \E ph : phase' = [phase EXCEPT ![r] = ph]
    <3>1. CASE PrefillRaises(r)
      <4>1. snapshot' = [snapshot EXCEPT ![r] = snapshot[r]]
        BY <1>0, <3>1 DEF PrefillRaises, TypeOK
      <4> QED
        BY <1>0, <3>1, <4>1, PrefillRaisesEffect DEF PrefillRaises
    <3>2. CASE PrefillReturns(r)
      BY <1>0, <3>2, PrefillReturnsEffect DEF PrefillReturns
    <3> QED
      BY <2>2, <3>1, <3>2
  <2>4. CASE q # r
    <3>1. phase'[q] = phase[q] /\ snapshot'[q] = snapshot[q]
      BY <1>0, <2>3, <2>4 DEF TypeOK
    <3> QED
      BY <1>3, <2>2, <2>3, <2>4, <3>1
  <2>5. CASE q = r /\ PrefillRaises(r)
    <3>1. phase'[q] = "prefill"
      BY <1>0, <2>5 DEF PrefillRaises, TypeOK
    <3> QED
      BY <3>1 DEF Resumable
  <2>6. CASE q = r /\ PrefillReturns(r)
    <3>1. phase'[q] = "ready_decode"
      BY <1>0, <2>6 DEF PrefillReturns, TypeOK
    <3>2. Covered(kv', r, PromptLength[r])
      BY <1>0, <2>1, <2>6, PrefillCovered
    <3>3. Total(q)' = PromptLength[r]
      <4>1. committed'[q] = 0 /\ PromptLength[r] \in Nat
        BY <1>1, <2>1, <2>2, <2>6, RuntimeAssumption
      <4> QED
        BY <2>6, <4>1 DEF Total
    <3> QED
      BY <2>6, <3>1, <3>2, <3>3
  <2> QED
    BY <2>2, <2>4, <2>5, <2>6
<1>5. ASSUME NEW i \in DOMAIN decodeQueue, NEW block \in config.blockSizes,
             Decode(i, block)
      PROVE  /\ phase'[q] \in {"new", "waiting_prefill"} => committed'[q] = 0
             /\ CommitsPinned' /\ Resumable(q)' => Covered(kv, q, Total(q))'
  <2>0. PICK r \in Requests : r = decodeQueue[i]
    BY <1>0, QueuedRequest
  <2> DEFINE n == AcceptedCount(r, block)
  <2>1. phase[r] = "ready_decode"
    BY <1>0, <2>0, QueuedCounts DEF Placed
  <2>2. config' = config /\ (DecodeRaises(r, n) \/ DecodeReturns(r, n))
    BY <1>5, <2>0, DecodeOutcomes
  <2>3. n \in Nat
    <3>1. block \in Nat \ {0}
      BY <1>0, RuntimeAssumption DEF TypeOK, Config
    <3> QED
      BY <1>0, <3>1, AcceptedCountType
  <2> HIDE DEF n
  <2>4. /\ KeepsOthers(kv, kv', r)
        /\ \E pages : snapshot' = [snapshot EXCEPT ![r] = pages]
        /\ \E ph : phase' = [phase EXCEPT ![r] = ph]
        /\ \E m : committed' = [committed EXCEPT ![r] = m]
    <3>1. CASE DecodeRaises(r, n)
      <4>1. committed' = [committed EXCEPT ![r] = committed[r]]
        BY <1>0, <3>1 DEF DecodeRaises, TypeOK
      <4> QED
        BY <1>0, <2>3, <3>1, <4>1, DecodeRaisesEffect DEF DecodeRaises
    <3>2. CASE DecodeReturns(r, n)
      <4>1. \E m : committed' = [committed EXCEPT ![r] = m]
        BY <3>2 DEF DecodeReturns
      <4> QED
        BY <1>0, <2>3, <3>2, <4>1, DecodeReturnsEffect
    <3> QED
      BY <2>2, <3>1, <3>2
  <2>5. CASE q # r
    <3>1. /\ phase'[q] = phase[q] /\ snapshot'[q] = snapshot[q]
          /\ committed'[q] = committed[q]
      BY <1>0, <2>4, <2>5 DEF TypeOK
    <3> QED
      BY <1>3, <2>2, <2>4, <2>5, <3>1
  <2>6. CASE q = r /\ DecodeRaises(r, n)
    <3>1. phase'[q] = "decode"
      BY <1>0, <2>6 DEF DecodeRaises, TypeOK
    <3> QED
      BY <3>1 DEF Resumable
  <2>7. CASE q = r /\ DecodeReturns(r, n)
    <3>1. phase'[q] = IF Finishes(r, n) THEN "finished" ELSE "ready_decode"
      BY <1>0, <2>3, <2>7, DecodeReturnsEffect, SMTT(20) DEF TypeOK
    <3>2. ASSUME CommitsPinned', Resumable(q)' PROVE Covered(kv, q, Total(q))'
      <4>1. n > 0
        <5>1. ~Finishes(r, n)
          BY <3>1, <3>2 DEF Resumable
        <5> QED
          BY <2>3, <5>1 DEF Finishes
      <4>2. CommitsPinned
        BY <2>2, <3>2 DEF CommitsPinned
      <4>3. Covered(kv', r, Total(r) + n)
        BY <1>0, <1>1, <2>1, <2>3, <2>7, <4>1, <4>2, DecodeCovered
      <4>4. Total(q)' = Total(r) + n
        <5>1. /\ committed'[r] = committed[r] + n
              /\ committed[r] \in Nat /\ PromptLength[r] \in Nat
          BY <1>0, <2>7, RuntimeAssumption DEF DecodeReturns, TypeOK
        <5> QED
          BY <2>3, <2>7, <5>1 DEF Total
      <4> QED
        BY <2>7, <4>3, <4>4
    <3> QED
      BY <3>1, <3>2
  <2> QED
    BY <2>2, <2>5, <2>6, <2>7
<1>6. ASSUME NEW r \in Requests, Submit(r)
      PROVE  /\ phase'[q] \in {"new", "waiting_prefill"} => committed'[q] = 0
             /\ CommitsPinned' /\ Resumable(q)' => Covered(kv, q, Total(q))'
  <2>1. /\ phase' = [phase EXCEPT ![r] = "waiting_prefill"] /\ phase[r] = "new"
        /\ UNCHANGED <<config, kv, committed, snapshot>>
    BY <1>6 DEF Submit
  <2>2. CASE q = r
    BY <1>0, <1>1, <2>1, <2>2 DEF TypeOK, Resumable
  <2>3. CASE q # r
    <3>1. KeepsOthers(kv, kv', r)
      BY <2>1 DEF KeepsOthers
    <3>2. phase'[q] = phase[q]
      BY <1>0, <2>1, <2>3 DEF TypeOK
    <3> QED
      BY <1>3, <2>1, <2>3, <3>1, <3>2
  <2> QED
    BY <2>2, <2>3
<1>7. CASE Collect
  <2> DEFINE r == Head(batch)
  <2>1. /\ UNCHANGED <<config, phase, committed, snapshot>>
        /\ kv' = kv \/ (kv' = Released(kv, r) /\ phase[r] = "finished")
    BY <1>7, Zenon DEF Collect, requestVars
  <2>2. r \in Requests
    BY <1>0, <1>7 DEF Collect, TypeOK
  <2> HIDE DEF r
  <2>3. CASE kv' = kv
    BY <1>2, <2>1, <2>3
  <2>4. CASE kv' = Released(kv, r) /\ phase[r] = "finished"
    <3>1. KeepsOthers(kv, kv', r)
      BY <1>0, <2>4, ReleasedEffect
    <3>2. CASE q = r
      BY <1>1, <2>1, <2>4, <3>2 DEF Resumable
    <3>3. CASE q # r
      BY <1>3, <2>1, <2>2, <3>1, <3>3
    <3> QED
      BY <3>2, <3>3
  <2> QED
    BY <2>1, <2>3, <2>4
<1>8. CASE CallRun \/ EndPrefill \/ EndDecode \/ Iterate \/ Return \/ UNCHANGED vars
  <2>1. UNCHANGED <<config, kv, phase, committed, snapshot>>
    BY <1>8 DEF CallRun, EndPrefill, EndDecode, Iterate, Return, requestVars, vars
  <2> QED
    BY <1>2, <2>1
<1>9. CASE Next
  BY <1>4, <1>5, <1>6, <1>7, <1>8, <1>9, StepCases
<1> QED
  BY <1>8, <1>9

(* runtime.py: "Rebuild KV residency if the request snapshot was evicted". *)
(* A request whose snapshot is resident, which is therefore not rebuilt,   *)
(* has in every layer the pages of its whole sequence and no other, if     *)
(* its commits find its pages pinned.                                      *)
THEOREM SnapshotAlwaysCovers ==
  Spec => [](CommitsPinned => SnapshotCoversSequence)
<1>1. Init => PinnedInv /\ RoomInv /\ CoverInv
  <2>1. Init => PinnedInv
    BY DEF Init, PinnedInv
  <2>2. Init => CoverInv
    BY DEF Init, CoverInv, Resumable
  <2> QED
    BY <2>1, <2>2, RoomInit
<1>2. ASSUME IInv, RoomInv, CoverInv, CommitsPinned, NEW r \in Requests,
             phase[r] = "ready_decode", snapshot[r] \subseteq kv.pages,
             NEW l \in Layers
      PROVE  /\ {TokenStart(kv, p) : p \in {q \in snapshot[r] : q[2] = l}}
                   = {(i - 1) * PageSize : i \in 1..Required(Total(r))}
             /\ Cardinality({q \in snapshot[r] : q[2] = l}) = Required(Total(r))
  <2> DEFINE S == {q \in snapshot[r] : q[2] = l}
             R == Required(Total(r))
  <2>0. TypeInv /\ Consistent(kv) /\ kv.pages \subseteq PageIds
    BY <1>2 DEF IInv, TypeInv, Consistent, CacheType, Cache
  <2>1. LayerCovered(kv, r, l, Total(r))
    BY <1>2 DEF CoverInv, Resumable, Covered
  <2>2. PICK base \in Nat :
           /\ kv.serial[<<r, l>>] = base + R
           /\ IssuedAfter(kv, r, l, base)
           /\ \A i \in 1..R :
                 /\ <<r, l, base + i>> \in kv.pages
                 /\ Starts(kv, <<r, l, base + i>>, (i - 1) * PageSize)
    BY <2>1 DEF LayerCovered
  <2>3. R \in Nat /\ \A i \in 1..R : (i - 1) * PageSize \in Nat
    <3>1. Total(r) \in Nat
      BY <2>0, TotalType DEF TypeInv
    <3> QED
      BY <3>1, RequiredBound
  <2>4. S = LayerPages(kv, r, l)
    <3>1. \A p \in kv.pages : Owner(p) = r <=> p \in snapshot[r]
      BY <1>2, <2>0 DEF RoomInv, Whole, TypeInv
    <3>2. \A p \in kv.pages : Key(p) = <<r, l>> <=> Owner(p) = r /\ p[2] = l
      BY DEF Key, Owner
    <3> QED
      BY <1>2, <3>1, <3>2 DEF LayerPages
  <2> HIDE DEF S, R
  <2>5. /\ Cardinality(LayerPages(kv, r, l)) = R
        /\ LayerPages(kv, r, l) = LayerIds(r, l, base, R)
    <3>1. \A i \in 1..R : <<r, l, base + i>> \in kv.pages
      BY <2>2
    <3> QED
      BY <2>0, <2>2, <2>3, <3>1, LayerCount, ZenonT(30)
  <2>6. Cardinality(S) = R /\ S = {<<r, l, base + i>> : i \in 1..R}
    BY <2>4, <2>5 DEF LayerIds
  <2>7. \A i \in 1..R : TokenStart(kv, <<r, l, base + i>>) = (i - 1) * PageSize
    BY <2>0, <2>2, <2>3, StartIsTokenStart
  <2>8. {TokenStart(kv, p) : p \in S} = {(i - 1) * PageSize : i \in 1..R}
    <3>1. ASSUME NEW p \in S PROVE \E i \in 1..R : TokenStart(kv, p) = (i - 1) * PageSize
      BY <2>6, <2>7
    <3>2. ASSUME NEW i \in 1..R PROVE \E p \in S : TokenStart(kv, p) = (i - 1) * PageSize
      BY <2>6, <2>7
    <3> QED
      BY <3>1, <3>2
  <2> QED
    BY <2>6, <2>8 DEF S, R
<1>3. IInv /\ RoomInv /\ CoverInv => (CommitsPinned => SnapshotCoversSequence)
  BY <1>2 DEF SnapshotCoversSequence
<1> QED
  BY <1>1, <1>3, Invariance, PinnedStep, RoomStep, CoverStep, PTL DEF Spec

-----------------------------------------------------------------------------
(* The runtime implements TokenStream.                                     *)

(* Serial decoding stops after m tokens.                                   *)
Stops(r, m) ==
    \/ m = TargetLength[r]
    \/ m >= MaxNewTokens[r]
    \/ m \in EosPositions[r]

LEMMA SerialLengthFirst ==
  ASSUME NEW r \in Requests
  PROVE  /\ SerialLength(r) \in 0..TargetLength[r]
         /\ Stops(r, SerialLength(r))
         /\ \A m \in 0..(SerialLength(r) - 1) : ~Stops(r, m)
<1> DEFINE S == {n \in 0..TargetLength[r] : Stops(r, n)}
           First(n) == Stops(r, n) /\ \A m \in 0..(n - 1) : ~Stops(r, m)
<1>1. TargetLength[r] \in Nat
  BY RuntimeAssumption
<1>2. TargetLength[r] \in S /\ S \in SUBSET Nat
  BY <1>1 DEF Stops
<1>3. PICK n \in S : \A m \in S : n <= m
  <2> HIDE DEF S
  <2> QED
    BY <1>2, LeastExists
<1>4. n \in 0..TargetLength[r] /\ First(n)
  <2>1. ASSUME NEW m \in 0..(n - 1), Stops(r, m) PROVE FALSE
    <3>1. m \in S /\ ~(n <= m)
      BY <1>1, <2>1
    <3> QED
      BY <1>3, <3>1
  <2> QED
    BY <2>1
<1>5. SerialLength(r) = CHOOSE k \in 0..TargetLength[r] : First(k)
  BY Zenon DEF SerialLength, Stops
<1> HIDE DEF First
<1>6. SerialLength(r) \in 0..TargetLength[r] /\ First(SerialLength(r))
  BY <1>4, <1>5
<1> QED
  BY <1>6 DEF First

(* The end-of-sequence tokens the worker sees: it looks at the last token  *)
(* of an accepted block.                                                   *)
EosSeen ==
    \A r \in Requests :
        /\ MaxNewTokens[r] = 0 => 1 \notin EosPositions[r]
        /\ \/ \A g \in Configs : g.blockSizes \subseteq {1}
           \/ \A e \in EosPositions[r] : e >= TargetLength[r] \/ e >= MaxNewTokens[r]

Progress(r) ==
    /\ committed[r] <= SerialLength(r)
    /\ phase[r] = "finished" => committed[r] = SerialLength(r)
    /\ phase[r] # "finished" => committed[r] = 0 \/ committed[r] < SerialLength(r)

(* An iteration skips no length serial decoding stops at, and finishes the *)
(* request at the first one.                                               *)
LEMMA DecodeProgress ==
  ASSUME TypeOK, EosSeen, NEW r \in Requests, phase[r] # "finished", Progress(r),
         NEW block \in config.blockSizes, NEW n, n = AcceptedCount(r, block)
  PROVE  /\ n \in Nat
         /\ committed[r] + n <= SerialLength(r)
         /\ Finishes(r, n) => committed[r] + n = SerialLength(r)
         /\ ~Finishes(r, n) => committed[r] + n < SerialLength(r)
<1> DEFINE L == SerialLength(r)
<1>1. /\ committed[r] \in Nat /\ TargetLength[r] \in Nat /\ MaxNewTokens[r] \in Nat
      /\ block \in Nat \ {0} /\ config \in Configs
      /\ EosPositions[r] \in SUBSET (Nat \ {0})
  BY RuntimeAssumption DEF TypeOK, Config
<1>2. /\ L \in 0..TargetLength[r]
      /\ Stops(r, L)
      /\ \A m \in 0..(L - 1) : ~Stops(r, m)
  BY SerialLengthFirst
<1>3. n \in Nat
  BY <1>1, AcceptedCountType
<1>4. committed[r] <= L /\ (committed[r] = 0 \/ committed[r] < L)
  BY DEF Progress
<1> HIDE DEF L
<1>5. CASE L = 0
  <2>1. committed[r] = 0 /\ (TargetLength[r] = 0 \/ MaxNewTokens[r] = 0)
    BY <1>1, <1>2, <1>4, <1>5 DEF Stops
  <2>2. Exhausted(r)
    BY <1>1, <2>1 DEF Exhausted, RemainingTarget, TokenBudgetLeft
  <2>3. n = 0
    <3>1. CASE TargetLength[r] = 0
      <4>1. RemainingTarget(r) = 0
        BY <1>1, <2>1, <3>1 DEF RemainingTarget
      <4> QED
        BY <2>2, <4>1 DEF AcceptedCount
    <3>2. CASE MaxNewTokens[r] = 0
      <4>1. committed[r] + 1 \notin EosPositions[r]
        BY <2>1, <3>2 DEF EosSeen
      <4> QED
        BY <2>2, <4>1 DEF AcceptedCount
    <3> QED
      BY <2>1, <3>1, <3>2
  <2> QED
    BY <1>5, <2>1, <2>3 DEF Finishes, L
<1>6. CASE L # 0
  <2>1. committed[r] < L /\ ~Stops(r, committed[r])
    BY <1>1, <1>2, <1>4, <1>6
  <2>2. ~Exhausted(r)
    BY <1>1, <1>2, <2>1 DEF Exhausted, RemainingTarget, TokenBudgetLeft, Stops
  <2>3. n > 0 /\ n <= ProposalLength(r, block)
    BY <1>1, <2>2, AcceptedCountType
  <2>4. /\ n <= TargetLength[r] - committed[r]
        /\ n <= MaxNewTokens[r] - committed[r]
        /\ n <= block
    <3>1. /\ TokenBudgetLeft(r) = MaxNewTokens[r] - committed[r]
          /\ RemainingTarget(r) = TargetLength[r] - committed[r]
      BY <1>1, <2>2 DEF Exhausted, RemainingTarget, TokenBudgetLeft
    <3>2. ProposalLength(r, block)
            = Smaller(block, Smaller(RemainingTarget(r), TokenBudgetLeft(r)))
      BY <2>2 DEF ProposalLength
    <3> QED
      BY <1>1, <1>3, <2>3, <3>1, <3>2 DEF Smaller
  <2>5. ASSUME NEW m \in (committed[r] + 1)..(committed[r] + n - 1)
        PROVE  ~Stops(r, m)
    <3>1. CASE \A g \in Configs : g.blockSizes \subseteq {1}
      <4>1. block = 1
        BY <1>1, <3>1
      <4> QED
        BY <1>1, <1>3, <2>3, <2>4, <4>1
    <3>2. CASE \A e \in EosPositions[r] : e >= TargetLength[r] \/ e >= MaxNewTokens[r]
      <4>1. m < TargetLength[r] /\ m < MaxNewTokens[r] /\ m \in Nat
        BY <1>1, <1>3, <2>4
      <4> QED
        BY <1>1, <3>2, <4>1 DEF Stops
    <3> QED
      BY <3>1, <3>2 DEF EosSeen
  <2>6. committed[r] + n <= L
    <3>1. ~(L \in (committed[r] + 1)..(committed[r] + n - 1))
      BY <1>2, <2>5
    <3> QED
      BY <1>1, <1>2, <1>3, <2>1, <3>1
  <2>7. Finishes(r, n) <=> Stops(r, committed[r] + n)
    BY <1>1, <1>3, <2>3, <2>4 DEF Finishes, Stops
  <2>8. CASE Finishes(r, n)
    <3>1. ~(committed[r] + n \in 0..(L - 1))
      BY <1>2, <2>7, <2>8
    <3>2. committed[r] + n = L
      BY <1>1, <1>2, <1>3, <2>6, <3>1
    <3> QED
      BY <1>3, <2>6, <2>8, <3>2 DEF L
  <2>9. CASE ~Finishes(r, n)
    <3>1. committed[r] + n # L
      BY <1>2, <2>7, <2>9
    <3> QED
      BY <1>1, <1>2, <1>3, <2>6, <2>9, <3>1 DEF L
  <2> QED
    BY <2>8, <2>9
<1> QED
  BY <1>5, <1>6

ProgressInv == \A r \in Requests : Progress(r)

(* Every step keeps it, and is a step of the stream or a stutter.          *)
LEMMA StreamStep ==
  ASSUME EosSeen
  PROVE  IInv /\ IInv' /\ ProgressInv /\ [Next]_vars
            => ProgressInv' /\ [Stream!Next]_(Stream!vars)
<1> SUFFICES ASSUME IInv, IInv', ProgressInv, [Next]_vars
             PROVE  ProgressInv' /\ (Stream!Next \/ UNCHANGED Stream!vars)
  OBVIOUS
<1>0. /\ TypeInv /\ TypeOK /\ TypeOK'
      /\ \A r \in Requests : Placed(r)
  BY DEF IInv, TypeInv, ControlInv
<1>a. ASSUME UNCHANGED <<committed, returned>>,
             \A q \in Requests : phase'[q] = "finished" <=> phase[q] = "finished"
      PROVE  ProgressInv' /\ (Stream!Next \/ UNCHANGED Stream!vars)
  BY <1>a DEF ProgressInv, Progress, Stream!vars
<1>1. CASE UNCHANGED vars
  BY <1>1, <1>a DEF vars
<1>2. ASSUME NEW i \in DOMAIN prefillQueue, Prefill(i)
      PROVE  ProgressInv' /\ (Stream!Next \/ UNCHANGED Stream!vars)
  <2>0. PICK r \in Requests : r = prefillQueue[i]
    BY <1>0, QueuedRequest
  <2>1. phase[r] = "waiting_prefill"
    BY <1>0, <2>0, QueuedCounts DEF Placed
  <2>2. committed' = committed /\ (PrefillRaises(r) \/ PrefillReturns(r))
    BY <1>2, <2>0, PrefillOutcomes
  <2>3. /\ returned' = returned
        /\ \E ph \in {"prefill", "ready_decode"} : phase' = [phase EXCEPT ![r] = ph]
    BY <2>2 DEF PrefillRaises, PrefillReturns, Raise
  <2>4. \A q \in Requests : phase'[q] = "finished" <=> phase[q] = "finished"
    BY <1>0, <2>1, <2>3 DEF TypeOK
  <2> QED
    BY <1>a, <2>2, <2>3, <2>4
<1>3. ASSUME NEW i \in DOMAIN decodeQueue, NEW block \in config.blockSizes,
             Decode(i, block)
      PROVE  ProgressInv' /\ (Stream!Next \/ UNCHANGED Stream!vars)
  <2>0. PICK r \in Requests : r = decodeQueue[i]
    BY <1>0, QueuedRequest
  <2> DEFINE n == AcceptedCount(r, block)
  <2>1. phase[r] = "ready_decode" /\ r \notin returned
    BY <1>0, <2>0, QueuedCounts DEF Placed
  <2>2. DecodeRaises(r, n) \/ DecodeReturns(r, n)
    BY <1>3, <2>0, DecodeOutcomes
  <2>3. CASE DecodeRaises(r, n)
    <3>1. /\ committed' = committed /\ returned' = returned
          /\ phase' = [phase EXCEPT ![r] = "decode"]
      BY <2>3 DEF DecodeRaises, Raise
    <3>2. \A q \in Requests : phase'[q] = "finished" <=> phase[q] = "finished"
      BY <1>0, <2>1, <3>1 DEF TypeOK
    <3> QED
      BY <1>a, <3>1, <3>2
  <2>4. CASE DecodeReturns(r, n)
    <3>1. /\ n \in Nat
          /\ committed[r] + n <= SerialLength(r)
          /\ Finishes(r, n) => committed[r] + n = SerialLength(r)
          /\ ~Finishes(r, n) => committed[r] + n < SerialLength(r)
      BY <1>0, <2>1, DecodeProgress DEF ProgressInv
    <3> HIDE DEF n
    <3>2. /\ committed' = [committed EXCEPT ![r] = committed[r] + n]
          /\ returned' = returned
      BY <2>4 DEF DecodeReturns
    <3>3. phase' = [phase EXCEPT ![r] = IF Finishes(r, n) THEN "finished"
                                                         ELSE "ready_decode"]
      BY <1>0, <2>4, <3>1, DecodeReturnsEffect
    <3>4. /\ committed'[r] = committed[r] + n
          /\ phase'[r] = IF Finishes(r, n) THEN "finished" ELSE "ready_decode"
          /\ \A q \in Requests :
                q # r => committed'[q] = committed[q] /\ phase'[q] = phase[q]
      BY <1>0, <3>2, <3>3 DEF TypeOK
    <3>5. ProgressInv'
      <4>1. Progress(r)'
        BY <3>1, <3>4 DEF Progress
      <4>2. ASSUME NEW q \in Requests, q # r PROVE Progress(q)'
        BY <3>4, <4>2 DEF ProgressInv, Progress
      <4> QED
        BY <4>1, <4>2 DEF ProgressInv
    <3>6. CASE n = 0
      <4>1. committed' = committed
        BY <1>0, <3>2, <3>6 DEF TypeOK
      <4> QED
        BY <3>2, <3>5, <4>1 DEF Stream!vars
    <3>7. CASE n # 0
      <4>1. committed[r] \in Nat /\ SerialLength(r) \in Nat
        BY <1>0, SerialLengthFirst DEF TypeOK
      <4>2. committed[r] + n \in (committed[r] + 1)..SerialLength(r)
        BY <3>1, <3>7, <4>1
      <4>3. Stream!Emit(r)
        BY <2>1, <3>2, <4>2 DEF Stream!Emit
      <4> QED
        BY <3>5, <4>3 DEF Stream!Next
    <3> QED
      BY <3>6, <3>7
  <2> QED
    BY <2>2, <2>3, <2>4
<1>4. ASSUME NEW r \in Requests, Submit(r)
      PROVE  ProgressInv' /\ (Stream!Next \/ UNCHANGED Stream!vars)
  <2>1. /\ phase[r] = "new" /\ phase' = [phase EXCEPT ![r] = "waiting_prefill"]
        /\ UNCHANGED <<committed, returned>>
    BY <1>4 DEF Submit, runVars
  <2>2. \A q \in Requests : phase'[q] = "finished" <=> phase[q] = "finished"
    BY <1>0, <2>1 DEF TypeOK
  <2> QED
    BY <1>a, <2>1, <2>2
<1>5. CASE CallRun \/ EndPrefill \/ EndDecode \/ Iterate \/ Collect
  <2>1. UNCHANGED <<phase, committed, returned>>
    BY <1>5 DEF CallRun, EndPrefill, EndDecode, Iterate, Collect, requestVars
  <2> QED
    BY <1>a, <2>1
<1>6. CASE Return
  <2>1. /\ UNCHANGED <<phase, committed>>
        /\ returned' = returned \cup final
    BY <1>6 DEF Return, requestVars
  <2>2. ProgressInv'
    BY <2>1 DEF ProgressInv, Progress
  <2>3. ASSUME NEW r \in returned' \ returned
        PROVE  r \in Requests /\ committed[r] = SerialLength(r)
    <3>1. r \in final /\ r \in Requests
      BY <1>0, <2>1 DEF TypeOK
    <3>2. phase[r] = "finished"
      BY <1>0, <3>1 DEF Placed
    <3> QED
      BY <3>1, <3>2 DEF ProgressInv, Progress
  <2>4. Stream!Deliver
    BY <2>1, <2>3 DEF Stream!Deliver
  <2> QED
    BY <2>2, <2>4 DEF Stream!Next
<1>7. CASE Next
  BY <1>2, <1>3, <1>4, <1>5, <1>6, <1>7, StepCases
<1> QED
  BY <1>1, <1>7

(* Whatever the block sizes, the draft rejections, the evictions, the      *)
(* rehydrations and the order of the requests, the tokens a request        *)
(* commits are those serial decoding would, and only a complete output is  *)
(* returned, if EOS tokens are where the worker looks for them.            *)
THEOREM ImplementsTokenStream ==
  ASSUME EosSeen
  PROVE  Spec => RefinesTokenStream
<1>1. Init => ProgressInv /\ Stream!Init
  <2>1. ASSUME Init, NEW r \in Requests PROVE Progress(r)
    <3>1. SerialLength(r) \in Nat
      BY RuntimeAssumption, SerialLengthFirst
    <3> QED
      BY <2>1, <3>1 DEF Init, Progress
  <2> QED
    BY <2>1 DEF Init, ProgressInv, Stream!Init
<1>2. IInv /\ IInv' /\ ProgressInv /\ [Next]_vars
         => ProgressInv' /\ [Stream!Next]_(Stream!vars)
  BY EosSeen, StreamStep
<1> QED
  BY <1>1, <1>2, Invariance, PTL DEF Spec, RefinesTokenStream, Stream!Spec

=============================================================================
