--------------------------- MODULE TieredProofs ----------------------------
(***************************************************************************)
(* Theorems about PrefetchScheduler and the cache under it, for any blocks *)
(* of any sizes, any budgets and any bounds.                               *)
(***************************************************************************)
EXTENDS PrefetchScheduler, SetLemmas, SequenceTheorems

-----------------------------------------------------------------------------
(* Lists of blocks.                                                        *)

In(s, k) == \E i \in DOMAIN s : s[i] = k

(* Removing an entry by its place.                                         *)
LEMMA RemovedPlace ==
    ASSUME NEW S, NEW s \in Seq(S), NEW i \in DOMAIN s
    PROVE  /\ RemoveAt(s, i) \in Seq(S)
           /\ Len(RemoveAt(s, i)) = Len(s) - 1
           /\ \A j \in 1..(Len(s) - 1) :
                 RemoveAt(s, i)[j] = IF j < i THEN s[j] ELSE s[j + 1]
<1> DEFINE a == SubSeq(s, 1, i - 1)
           b == SubSeq(s, i + 1, Len(s))
<1>1. /\ i \in 1..Len(s) /\ Len(s) \in Nat
      /\ \A j \in 1..Len(s) : s[j] \in S
  BY ElementOfSeq, LenProperties
<1>2. /\ a \in Seq(S) /\ Len(a) = i - 1
      /\ \A j \in 1..(i - 1) : a[j] = s[j]
  <2>1. /\ i - 1 \in Int /\ 1 \in Int
        /\ \A j \in 1..(i - 1) : s[j] \in S
    BY <1>1
  <2>2. /\ SubSeq(s, 1, i - 1) \in Seq(S)
        /\ Len(SubSeq(s, 1, i - 1)) = IF 1 <= i - 1 THEN (i - 1) - 1 + 1 ELSE 0
        /\ \A j \in 1..((i - 1) - 1 + 1) : SubSeq(s, 1, i - 1)[j] = s[1 + j - 1]
    BY <2>1, SubSeqProperties
  <2> QED
    BY <1>1, <2>2
<1>3. /\ b \in Seq(S) /\ Len(b) = Len(s) - i
      /\ \A j \in 1..(Len(s) - i) : b[j] = s[i + j]
  <2>1. /\ i + 1 \in Int /\ Len(s) \in Int
        /\ \A j \in (i + 1)..Len(s) : s[j] \in S
    BY <1>1
  <2>2. /\ SubSeq(s, i + 1, Len(s)) \in Seq(S)
        /\ Len(SubSeq(s, i + 1, Len(s)))
              = IF i + 1 <= Len(s) THEN Len(s) - (i + 1) + 1 ELSE 0
        /\ \A j \in 1..(Len(s) - (i + 1) + 1) :
              SubSeq(s, i + 1, Len(s))[j] = s[(i + 1) + j - 1]
    BY <2>1, SubSeqProperties
  <2> QED
    BY <1>1, <2>2
<1>4. RemoveAt(s, i) = a \o b
  BY DEF RemoveAt
<1> HIDE DEF a, b
<1>5. /\ a \o b \in Seq(S)
      /\ Len(a \o b) = Len(a) + Len(b)
      /\ \A j \in 1..(Len(a) + Len(b)) :
            (a \o b)[j] = IF j <= Len(a) THEN a[j] ELSE b[j - Len(a)]
  BY <1>2, <1>3, ConcatProperties
<1>6. ASSUME NEW j \in 1..(Len(s) - 1)
      PROVE  (a \o b)[j] = IF j < i THEN s[j] ELSE s[j + 1]
  <2>1. j \in 1..(Len(a) + Len(b))
    BY <1>1, <1>2, <1>3
  <2>2. CASE j < i
    <3>1. (a \o b)[j] = a[j]
      BY <1>1, <1>2, <1>5, <2>1, <2>2
    <3> QED
      BY <1>1, <1>2, <2>2, <3>1
  <2>3. CASE ~(j < i)
    <3>1. (a \o b)[j] = b[j - Len(a)]
      BY <1>1, <1>2, <1>5, <2>1, <2>3
    <3>2. j - Len(a) \in 1..(Len(s) - i) /\ i + (j - Len(a)) = j + 1
      BY <1>1, <1>2, <2>3
    <3> QED
      BY <1>3, <2>3, <3>1, <3>2
  <2> QED
    BY <2>2, <2>3
<1>7. Len(a \o b) = Len(s) - 1
  BY <1>1, <1>2, <1>3, <1>5
<1> QED
  BY <1>4, <1>5, <1>6, <1>7, Zenon

(* Where a list holds a block once, RemoveFirst takes it out.              *)
LEMMA RemovedFirst ==
    ASSUME NEW S, NEW s \in Seq(S), IsInjective(s), NEW k
    PROVE  /\ RemoveFirst(s, k) \in Seq(S)
           /\ IsInjective(RemoveFirst(s, k))
           /\ \A j : In(RemoveFirst(s, k), j) <=> In(s, j) /\ j # k
<1>0. Len(s) \in Nat /\ DOMAIN s = 1..Len(s)
  BY LenProperties
<1>1. CASE ~In(s, k)
  <2>1. RemoveFirst(s, k) = s
    BY <1>0, <1>1 DEF RemoveFirst, In
  <2> QED
    BY <1>1, <2>1 DEF In
<1>2. CASE In(s, k)
  <2>1. PICK i \in 1..Len(s) : s[i] = k
    BY <1>0, <1>2 DEF In
  <2>2. {j \in 1..Len(s) : s[j] = k} = {i}
    BY <1>0, <2>1 DEF IsInjective
  <2>3. Min({i}) = i
    BY DEF Min
  <2>4. RemoveFirst(s, k) = RemoveAt(s, i)
    BY <2>1, <2>2, <2>3 DEF RemoveFirst, SelectInSeq
  <2> DEFINE r == RemoveAt(s, i)
  <2>5. /\ r \in Seq(S) /\ Len(r) = Len(s) - 1
        /\ \A j \in 1..(Len(s) - 1) : r[j] = IF j < i THEN s[j] ELSE s[j + 1]
    BY <1>0, <2>1, RemovedPlace
  <2> HIDE DEF r
  <2>6. DOMAIN r = 1..(Len(s) - 1)
    BY <2>5, LenProperties
  <2>7. IsInjective(r)
    <3> DEFINE place(m) == IF m < i THEN m ELSE m + 1
    <3>1. ASSUME NEW m \in 1..(Len(s) - 1)
          PROVE  place(m) \in 1..Len(s) /\ r[m] = s[place(m)]
      BY <1>0, <2>5
    <3>2. ASSUME NEW m \in 1..(Len(s) - 1), NEW n \in 1..(Len(s) - 1),
                 place(m) = place(n)
          PROVE  m = n
      BY <1>0, <3>2
    <3> HIDE DEF place
    <3>3. ASSUME NEW m \in 1..(Len(s) - 1), NEW n \in 1..(Len(s) - 1), r[m] = r[n]
          PROVE  m = n
      <4>1. place(m) = place(n)
        BY <1>0, <3>1, <3>3 DEF IsInjective
      <4> QED
        BY <3>2, <4>1
    <3> QED
      BY <2>6, <3>3 DEF IsInjective
  <2>8. ASSUME NEW j PROVE In(r, j) <=> In(s, j) /\ j # k
    <3>1. ASSUME In(r, j) PROVE In(s, j) /\ j # k
      <4>1. PICK n \in 1..(Len(s) - 1) : r[n] = j
        BY <2>6, <3>1 DEF In
      <4>2. CASE n < i
        BY <1>0, <2>1, <2>5, <4>1, <4>2 DEF In, IsInjective
      <4>3. CASE ~(n < i)
        BY <1>0, <2>1, <2>5, <4>1, <4>3 DEF In, IsInjective
      <4> QED
        BY <4>2, <4>3
    <3>2. ASSUME In(s, j), j # k PROVE In(r, j)
      <4>1. PICK n \in 1..Len(s) : s[n] = j
        BY <1>0, <3>2 DEF In
      <4>2. CASE n < i
        <5>1. n \in 1..(Len(s) - 1) /\ r[n] = j
          BY <1>0, <2>1, <2>5, <4>1, <4>2
        <5> QED
          BY <2>6, <5>1 DEF In
      <4>3. CASE n > i
        <5>1. n - 1 \in 1..(Len(s) - 1) /\ ~(n - 1 < i) /\ (n - 1) + 1 = n
          BY <1>0, <2>1, <4>1, <4>3
        <5>2. r[n - 1] = j
          BY <2>5, <4>1, <5>1
        <5> QED
          BY <2>6, <5>1, <5>2 DEF In
      <4> QED
        BY <2>1, <3>2, <4>1, <4>2, <4>3
    <3> QED
      BY <3>1, <3>2
  <2> QED
    BY <2>4, <2>5, <2>7, <2>8 DEF r
<1> QED
  BY <1>1, <1>2

(* Touching an entry.                                                      *)
LEMMA MovedToEnd ==
    ASSUME NEW S, NEW s \in Seq(S), IsInjective(s), NEW k \in S
    PROVE  /\ Append(RemoveFirst(s, k), k) \in Seq(S)
           /\ IsInjective(Append(RemoveFirst(s, k), k))
           /\ \A j : In(Append(RemoveFirst(s, k), k), j) <=> In(s, j) \/ j = k
<1> DEFINE r == RemoveFirst(s, k)
           a == Append(r, k)
<1>1. r \in Seq(S) /\ IsInjective(r) /\ \A j : In(r, j) <=> In(s, j) /\ j # k
  BY RemovedFirst
<1> HIDE DEF r
<1>2. /\ a \in Seq(S) /\ Len(a) = Len(r) + 1
      /\ \A i \in 1..Len(r) : a[i] = r[i]
      /\ a[Len(r) + 1] = k
  BY <1>1, AppendProperties
<1> HIDE DEF a
<1>3. DOMAIN a = 1..(Len(r) + 1) /\ DOMAIN r = 1..Len(r) /\ Len(r) \in Nat
  BY <1>1, <1>2, LenProperties
<1>4. \A i \in 1..Len(r) : r[i] # k
  BY <1>1, <1>3 DEF In
<1>5. IsInjective(a)
  BY <1>1, <1>2, <1>3, <1>4 DEF IsInjective
<1>6. ASSUME NEW j PROVE In(a, j) <=> In(r, j) \/ j = k
  BY <1>2, <1>3 DEF In
<1>7. ASSUME NEW j PROVE In(a, j) <=> In(s, j) \/ j = k
  BY <1>1, <1>6
<1> QED
  BY <1>2, <1>5, <1>7 DEF a, r

(* Popping the oldest entry.                                               *)
LEMMA Popped ==
    ASSUME NEW S, NEW s \in Seq(S), IsInjective(s), s # <<>>
    PROVE  /\ Head(s) \in S
           /\ Tail(s) \in Seq(S)
           /\ IsInjective(Tail(s))
           /\ \A j : In(Tail(s), j) <=> In(s, j) /\ j # Head(s)
<1>1. /\ Head(s) \in S /\ Tail(s) \in Seq(S) /\ Len(Tail(s)) = Len(s) - 1
      /\ \A i \in 1..Len(Tail(s)) : Tail(s)[i] = s[i + 1]
  BY HeadTailProperties
<1>2. /\ Len(s) \in Nat /\ Len(s) > 0 /\ DOMAIN s = 1..Len(s)
      /\ DOMAIN Tail(s) = 1..(Len(s) - 1) /\ Head(s) = s[1]
  BY <1>1, LenProperties, EmptySeq
<1> DEFINE t == Tail(s)
           h == Head(s)
<1>3. /\ t \in Seq(S) /\ DOMAIN t = 1..(Len(s) - 1) /\ h = s[1]
      /\ \A i \in 1..(Len(s) - 1) : t[i] = s[i + 1]
  BY <1>1, <1>2
<1> HIDE DEF t, h
<1>4. IsInjective(t)
  <2>1. ASSUME NEW m \in 1..(Len(s) - 1), NEW n \in 1..(Len(s) - 1), t[m] = t[n]
        PROVE  m = n
    <3>1. m + 1 \in 1..Len(s) /\ n + 1 \in 1..Len(s) /\ s[m + 1] = s[n + 1]
      BY <1>2, <1>3, <2>1
    <3>2. m + 1 = n + 1
      BY <1>2, <3>1 DEF IsInjective
    <3> QED
      BY <3>2
  <2> QED
    BY <1>3, <2>1 DEF IsInjective
<1>5. ASSUME NEW j PROVE In(t, j) <=> In(s, j) /\ j # h
  <2>1. ASSUME In(t, j) PROVE In(s, j) /\ j # h
    <3>1. PICK i \in 1..(Len(s) - 1) : t[i] = j
      BY <1>3, <2>1 DEF In
    <3>2. s[i + 1] = j /\ i + 1 \in 1..Len(s) /\ i + 1 # 1 /\ 1 \in 1..Len(s)
      BY <1>2, <1>3, <3>1
    <3> QED
      BY <1>2, <1>3, <3>2 DEF In, IsInjective
  <2>2. ASSUME In(s, j), j # h PROVE In(t, j)
    <3>1. PICK i \in 1..Len(s) : s[i] = j
      BY <1>2, <2>2 DEF In
    <3>2. i - 1 \in 1..(Len(s) - 1) /\ (i - 1) + 1 = i
      BY <1>2, <1>3, <2>2, <3>1
    <3>3. t[i - 1] = j
      BY <1>3, <3>1, <3>2
    <3> QED
      BY <1>3, <3>2, <3>3 DEF In
  <2> QED
    BY <2>1, <2>2
<1> QED
  BY <1>1, <1>4, <1>5 DEF t, h

-----------------------------------------------------------------------------
(* What the operations on the cache change.                                *)

(* The cache without its oldest entry of a list, and without its tensor.   *)
WithoutOldest(c, t) == [c EXCEPT !.lru[t] = Tail(@)]

Rest(c, t) == Removed(WithoutOldest(c, t), t, Head(c.lru[t]))

(* The facts about the constants, each by itself.                          *)
LEMMA Constants ==
    /\ Size \in [Keys -> Nat] /\ \A k \in Keys : Size[k] \in Nat /\ Size[k] > 0
    /\ IsFiniteSet(Keys)
    /\ PlaceholderSize \in Nat
    /\ Budgets \subseteq [Memory -> Nat]
    /\ MaxVersion \in Nat
    /\ Memory \subseteq Tiers /\ "nvme" \in Tiers \ Memory
    /\ "gpu" \in Memory /\ "cpu" \in Memory
    /\ \A t \in Tiers : t \in Memory \/ t = "nvme"
BY TieredAssumption DEF Memory, Tiers

(* The fields of a cache.                                                  *)
LEMMA Parts ==
    ASSUME NEW c \in CacheType
    PROVE  /\ c.copies \in [Tiers -> [Keys -> Copy]]
           /\ c.location \in [Keys -> Tiers \union {"none"}]
           /\ c.lru \in [Memory -> Seq(Keys)]
           /\ c.usage \in [Memory -> Nat]
           /\ c = [copies |-> c.copies, location |-> c.location,
                   lru |-> c.lru, usage |-> c.usage]
BY DEF CacheType

(* A touch changes one list only.                                          *)
LEMMA TouchedParts ==
    ASSUME NEW c \in CacheType, \A t \in Memory : IsInjective(c.lru[t]),
           NEW t \in Tiers, NEW k \in Keys
    PROVE  /\ Touched(c, t, k) \in CacheType
           /\ Touched(c, t, k).copies = c.copies
           /\ Touched(c, t, k).location = c.location
           /\ Touched(c, t, k).usage = c.usage
           /\ \A u \in Memory : u # t => Touched(c, t, k).lru[u] = c.lru[u]
           /\ t \in Memory => Touched(c, t, k).lru[t] = Append(RemoveFirst(c.lru[t], k), k)
<1>1. CASE t \in Memory
  <2> DEFINE a == Append(RemoveFirst(c.lru[t], k), k)
             d == [c EXCEPT !.lru = [c.lru EXCEPT ![t] = a]]
  <2>1. c.lru \in [Memory -> Seq(Keys)]
    BY Parts
  <2>2. a \in Seq(Keys)
    BY <1>1, <2>1, MovedToEnd
  <2>3. Touched(c, t, k) = d
    BY <1>1 DEF Touched
  <2> HIDE DEF a
  <2>4. /\ d.copies = c.copies /\ d.location = c.location /\ d.usage = c.usage
        /\ d.lru = [c.lru EXCEPT ![t] = a]
        /\ d \in CacheType
    BY <1>1, <2>1, <2>2 DEF CacheType
  <2> QED
    BY <1>1, <2>1, <2>3, <2>4 DEF a
<1>2. CASE t \notin Memory
  BY <1>2 DEF Touched
<1> QED
  BY <1>1, <1>2

(* Storing a copy, field by field.                                         *)
LEMMA PutParts ==
    ASSUME NEW c \in CacheType, \A t \in Memory : IsInjective(c.lru[t]),
           NEW t \in Tiers, NEW k \in Keys, NEW copy \in Copy
    PROVE  /\ Put(c, t, k, copy) \in CacheType
           /\ \A u \in Tiers, j \in Keys :
                 Put(c, t, k, copy).copies[u][j] =
                     IF u = t /\ j = k
                     THEN IF t = "nvme" THEN Compressed(copy) ELSE copy
                     ELSE c.copies[u][j]
           /\ \A j \in Keys : Put(c, t, k, copy).location[j] =
                                  IF j = k THEN t ELSE c.location[j]
           /\ \A u \in Memory : Put(c, t, k, copy).usage[u] =
                                  IF u = t THEN c.usage[u] + Size[k] ELSE c.usage[u]
           /\ \A u \in Memory : u # t => Put(c, t, k, copy).lru[u] = c.lru[u]
           /\ t \in Memory =>
                 Put(c, t, k, copy).lru[t] = Append(RemoveFirst(c.lru[t], k), k)
<1> DEFINE x == IF t = "nvme" THEN Compressed(copy) ELSE copy
           d == [c EXCEPT !.copies[t][k] = x,
                          !.location[k] = t,
                          !.usage = [u \in Memory |-> IF u = t THEN @[u] + Size[k] ELSE @[u]]]
           uses == [u \in Memory |-> IF u = t THEN c.usage[u] + Size[k] ELSE c.usage[u]]
<1>1. x \in Copy
  BY DEF Compressed, Copy
<1>2. /\ c.copies \in [Tiers -> [Keys -> Copy]]
      /\ c.location \in [Keys -> Tiers \union {"none"}]
      /\ c.lru \in [Memory -> Seq(Keys)]
      /\ c.usage \in [Memory -> Nat]
  BY Parts
<1>3. uses \in [Memory -> Nat]
  BY <1>2, Constants
<1> DEFINE copied == [c.copies EXCEPT ![t] = [c.copies[t] EXCEPT ![k] = x]]
           located == [c.location EXCEPT ![k] = t]
           e == [c EXCEPT !.copies = copied, !.location = located, !.usage = uses]
<1>4. d = e
  OBVIOUS
<1>5. copied \in [Tiers -> [Keys -> Copy]] /\ located \in [Keys -> Tiers \union {"none"}]
  <2> HIDE DEF x
  <2> QED
    BY <1>1, <1>2
<1>6. /\ e.copies = copied /\ e.location = located /\ e.usage = uses
      /\ e.lru = c.lru /\ e \in CacheType
  <2> HIDE DEF copied, located, uses
  <2> QED
    BY <1>2, <1>3, <1>5 DEF CacheType
<1> HIDE DEF x, uses, e
<1>7. d \in CacheType
  BY <1>4, <1>6
<1>8. Put(c, t, k, copy) = Touched(d, t, k)
  BY DEF Put, x
<1> HIDE DEF d
<1>9. /\ \A u \in Tiers, j \in Keys :
            d.copies[u][j] = IF u = t /\ j = k THEN x ELSE c.copies[u][j]
      /\ \A j \in Keys : d.location[j] = IF j = k THEN t ELSE c.location[j]
      /\ d.lru = c.lru
      /\ d.usage = uses
  <2>1. d.copies = copied /\ d.location = located /\ d.lru = c.lru /\ d.usage = uses
    BY <1>4, <1>6
  <2>2. ASSUME NEW u \in Tiers, NEW j \in Keys
        PROVE  copied[u][j] = IF u = t /\ j = k THEN x ELSE c.copies[u][j]
    BY <1>2
  <2>3. ASSUME NEW j \in Keys
        PROVE  located[j] = IF j = k THEN t ELSE c.location[j]
    BY <1>2
  <2> HIDE DEF copied, located
  <2> QED
    BY <2>1, <2>2, <2>3
<1>10. \A u \in Memory : IsInjective(d.lru[u])
  BY <1>9
<1> DEFINE p == Touched(d, t, k)
<1>11. /\ p \in CacheType
       /\ p.copies = d.copies /\ p.location = d.location /\ p.usage = d.usage
       /\ \A u \in Memory : u # t => p.lru[u] = d.lru[u]
       /\ t \in Memory => p.lru[t] = Append(RemoveFirst(d.lru[t], k), k)
  BY <1>7, <1>10, TouchedParts
<1> HIDE DEF p
<1>12. \A u \in Tiers, j \in Keys :
            p.copies[u][j] = IF u = t /\ j = k THEN x ELSE c.copies[u][j]
  BY <1>9, <1>11
<1>13. \A u \in Memory : p.usage[u] = IF u = t THEN c.usage[u] + Size[k] ELSE c.usage[u]
  BY <1>9, <1>11 DEF uses
<1>14. \A j \in Keys : p.location[j] = IF j = k THEN t ELSE c.location[j]
  BY <1>9, <1>11
<1>15. /\ \A u \in Memory : u # t => p.lru[u] = c.lru[u]
       /\ t \in Memory => p.lru[t] = Append(RemoveFirst(c.lru[t], k), k)
  BY <1>9, <1>11
<1>16. Put(c, t, k, copy) = p
  BY <1>8 DEF p
<1> QED
  BY <1>11, <1>12, <1>13, <1>14, <1>15, <1>16 DEF x

(* Popping an entry changes one list only.                                 *)
LEMMA WithoutOldestParts ==
    ASSUME NEW c \in CacheType, NEW t \in Memory, c.lru[t] # <<>>
    PROVE  /\ WithoutOldest(c, t) \in CacheType
           /\ WithoutOldest(c, t).copies = c.copies
           /\ WithoutOldest(c, t).location = c.location
           /\ WithoutOldest(c, t).usage = c.usage
           /\ \A u \in Memory : WithoutOldest(c, t).lru[u] =
                                  IF u = t THEN Tail(c.lru[t]) ELSE c.lru[u]
<1>1. c.lru \in [Memory -> Seq(Keys)] /\ Tail(c.lru[t]) \in Seq(Keys)
  BY Parts, HeadTailProperties
<1> DEFINE list == [c.lru EXCEPT ![t] = Tail(c.lru[t])]
           d == [c EXCEPT !.lru = list]
<1>2. WithoutOldest(c, t) = d
  BY DEF WithoutOldest
<1>3. list \in [Memory -> Seq(Keys)]
  BY <1>1
<1>4. /\ d.copies = c.copies /\ d.location = c.location /\ d.usage = c.usage
      /\ d.lru = list /\ d \in CacheType
  <2> HIDE DEF list
  <2> QED
    BY <1>3 DEF CacheType
<1> QED
  BY <1>1, <1>2, <1>4

(* Popping an entry and giving its tensor up, field by field.              *)
LEMMA RestParts ==
    ASSUME NEW c \in CacheType, NEW t \in Memory, c.lru[t] # <<>>
    PROVE  /\ Rest(c, t) \in CacheType
           /\ \A u \in Tiers, j \in Keys :
                 Rest(c, t).copies[u][j] =
                     IF u = t /\ j = Head(c.lru[t]) THEN NoCopy ELSE c.copies[u][j]
           /\ Rest(c, t).location = c.location
           /\ \A u \in Memory : Rest(c, t).usage[u] =
                 IF u = t
                 THEN IF c.usage[t] < Size[Head(c.lru[t])] THEN 0
                      ELSE c.usage[t] - Size[Head(c.lru[t])]
                 ELSE c.usage[u]
           /\ \A u \in Memory : Rest(c, t).lru[u] =
                                  IF u = t THEN Tail(c.lru[t]) ELSE c.lru[u]
<1> DEFINE w == WithoutOldest(c, t)
           k == Head(c.lru[t])
           left == IF w.usage[t] < Size[k] THEN 0 ELSE w.usage[t] - Size[k]
<1>1. /\ w \in CacheType /\ w.copies = c.copies /\ w.location = c.location
      /\ w.usage = c.usage
      /\ \A u \in Memory : w.lru[u] = IF u = t THEN Tail(c.lru[t]) ELSE c.lru[u]
  BY WithoutOldestParts
<1>2. k \in Keys
  BY Parts, HeadTailProperties
<1>3. Rest(c, t) = Removed(w, t, k)
  BY DEF Rest
<1> HIDE DEF w, k
<1>4. /\ w.copies \in [Tiers -> [Keys -> Copy]] /\ w.usage \in [Memory -> Nat]
  BY <1>1, Parts
<1>5. left \in Nat /\ NoCopy \in Copy
  BY <1>2, <1>4, Constants DEF NoCopy, Copy
<1> DEFINE copied == [w.copies EXCEPT ![t] = [w.copies[t] EXCEPT ![k] = NoCopy]]
           uses == [w.usage EXCEPT ![t] = left]
           d == [w EXCEPT !.copies = copied, !.usage = uses]
<1>6. Removed(w, t, k) = d
  BY DEF Removed
<1>7. copied \in [Tiers -> [Keys -> Copy]] /\ uses \in [Memory -> Nat]
  <2> HIDE DEF left
  <2> QED
    BY <1>2, <1>4, <1>5, Constants
<1>8. /\ d.copies = copied /\ d.location = w.location /\ d.usage = uses
      /\ d.lru = w.lru /\ d \in CacheType
  <2> HIDE DEF copied, uses
  <2> QED
    BY <1>1, <1>7 DEF CacheType
<1> HIDE DEF d
<1>9. /\ \A u \in Tiers, j \in Keys :
            d.copies[u][j] = IF u = t /\ j = k THEN NoCopy ELSE w.copies[u][j]
      /\ \A u \in Memory : d.usage[u] = IF u = t THEN left ELSE w.usage[u]
  <2> HIDE DEF left
  <2> QED
    BY <1>2, <1>4, <1>8, Constants
<1>10. \A u \in Memory : d.lru[u] = IF u = t THEN Tail(c.lru[t]) ELSE c.lru[u]
  BY <1>1, <1>8
<1>11. \A u \in Tiers, j \in Keys :
            d.copies[u][j] = IF u = t /\ j = k THEN NoCopy ELSE c.copies[u][j]
  BY <1>1, <1>9
<1>12. \A u \in Memory : d.usage[u] =
            IF u = t THEN IF c.usage[t] < Size[k] THEN 0 ELSE c.usage[t] - Size[k]
            ELSE c.usage[u]
  BY <1>1, <1>9
<1>13. Rest(c, t) = d /\ d.location = c.location
  BY <1>1, <1>3, <1>6, <1>8
<1> QED
  BY <1>8, <1>10, <1>11, <1>12, <1>13 DEF k

(* evict, case by case.                                                    *)
LEMMA EvictedCases ==
    ASSUME NEW c, NEW t, NEW k, k = Head(c.lru[t])
    PROVE  /\ c.lru[t] = <<>> => Evicted(c, t) = c
           /\ c.lru[t] # <<>> /\ ~Stored(c, t, k) => Evicted(c, t) = WithoutOldest(c, t)
           /\ c.lru[t] # <<>> /\ Stored(c, t, k) =>
                 Evicted(c, t) = Put(Rest(c, t),
                                     IF t = "gpu" THEN WriteTier(Rest(c, t), k) ELSE "nvme",
                                     k, c.copies[t][k])
BY DEF Evicted, WithoutOldest, Rest

-----------------------------------------------------------------------------
(* Counters, lists and budgets.                                            *)

Holding(c, t) == {k \in Keys : Stored(c, t, k)}

Bytes(c, t) == SumFunctionOnSet(Size, Holding(c, t))

ListsCover(c) ==
    \A t \in Memory :
        /\ IsInjective(c.lru[t])
        /\ \A k \in Keys : Stored(c, t, k) => In(c.lru[t], k)

CountersCover(c) ==
    \A t \in Memory : c.usage[t] >= Bytes(c, t)

Enough(t) == budget[t] > 0 /\ \A k \in Keys : Size[k] <= budget[t]

BudgetsHold(c) ==
    \A t \in Memory : Enough(t) => Bytes(c, t) <= budget[t]

(* TensorsAccounted, of any cache.                                         *)
Accounted(c) ==
    c \in CacheType /\ ListsCover(c) /\ CountersCover(c) /\ BudgetsHold(c)

(* What tensors weigh together.                                            *)
LEMMA Weights ==
    /\ SumFunctionOnSet(Size, {}) = 0
    /\ \A T \in SUBSET Keys : SumFunctionOnSet(Size, T) \in Nat
    /\ \A T \in SUBSET Keys : \A k \in T :
          SumFunctionOnSet(Size, T) = Size[k] + SumFunctionOnSet(Size, T \ {k})
<1>1. IsFiniteSet(Keys) /\ \A k \in Keys : Size[k] \in Nat
  BY Constants
<1> QED
  BY <1>1, SumProperties

(* One more tensor adds its size, unless it was there.                     *)
LEMMA WeightAdded ==
    ASSUME NEW T \in SUBSET Keys, NEW k \in Keys
    PROVE  SumFunctionOnSet(Size, T \union {k}) <= SumFunctionOnSet(Size, T) + Size[k]
<1> DEFINE W(U) == SumFunctionOnSet(Size, U)
           more == T \union {k}
<1>0. W(T) \in Nat /\ Size[k] \in Nat
  BY Weights, Constants
<1>1. CASE k \in T
  <2>1. more = T
    BY <1>1
  <2>2. W(more) = W(T)
    BY <2>1, Zenon
  <2> HIDE DEF W, more
  <2>3. W(more) <= W(T) + Size[k]
    BY <1>0, <2>2
  <2> QED
    BY <2>3 DEF W, more
<1>2. CASE k \notin T
  <2>1. more \ {k} = T /\ more \in SUBSET Keys /\ k \in more
    BY <1>2
  <2> HIDE DEF more
  <2>2. W(more) = Size[k] + W(more \ {k})
    BY <2>1, Weights
  <2>3. W(more) = Size[k] + W(T)
    BY <2>1, <2>2, Zenon
  <2> HIDE DEF W
  <2>4. W(more) <= W(T) + Size[k]
    BY <1>0, <2>3
  <2> QED
    BY <2>4 DEF W, more
<1> QED
  BY <1>1, <1>2

(* A memory holds a number of bytes.                                       *)
LEMMA BytesType ==
    ASSUME NEW c, NEW t
    PROVE  Bytes(c, t) \in Nat
BY Weights DEF Bytes, Holding

(* Storing a copy where it fits, where the budget does not count, or where *)
(* nothing can be evicted any more.                                        *)
LEMMA PutAccounted ==
    ASSUME budget \in [Memory -> Nat], NEW c, Accounted(c),
           NEW t \in Tiers, NEW k \in Keys, NEW copy \in Copy, copy.version > 0,
           t \in Memory => Fits(c, t, Size[k]) \/ ~(budget[t] > 0) \/ c.lru[t] = <<>>
    PROVE  Accounted(Put(c, t, k, copy))
<1> DEFINE p == Put(c, t, k, copy)
<1>0. c \in CacheType /\ ListsCover(c) /\ CountersCover(c) /\ BudgetsHold(c)
  BY DEF Accounted
<1>1. \A u \in Memory : IsInjective(c.lru[u])
  BY <1>0 DEF ListsCover
<1>2. /\ p \in CacheType
      /\ \A u \in Tiers, j \in Keys :
            p.copies[u][j] = IF u = t /\ j = k
                             THEN IF t = "nvme" THEN Compressed(copy) ELSE copy
                             ELSE c.copies[u][j]
      /\ \A u \in Memory : p.usage[u] = IF u = t THEN c.usage[u] + Size[k] ELSE c.usage[u]
      /\ \A u \in Memory : u # t => p.lru[u] = c.lru[u]
      /\ t \in Memory => p.lru[t] = Append(RemoveFirst(c.lru[t], k), k)
  BY <1>0, <1>1, PutParts
<1> HIDE DEF p
<1>3. ASSUME NEW u \in Memory, NEW j \in Keys
      PROVE  Stored(p, u, j) <=> (u = t /\ j = k) \/ Stored(c, u, j)
  BY <1>2, Constants DEF Stored
<1>4. /\ c.lru \in [Memory -> Seq(Keys)] /\ c.usage \in [Memory -> Nat]
  BY <1>0, Parts
<1>5. ListsCover(p)
  <2> SUFFICES ASSUME NEW u \in Memory
               PROVE  /\ IsInjective(p.lru[u])
                      /\ \A j \in Keys : Stored(p, u, j) => In(p.lru[u], j)
    BY DEF ListsCover
  <2>1. CASE u = t
    <3> DEFINE s == c.lru[t]
    <3>1. s \in Seq(Keys) /\ IsInjective(s)
      BY <1>1, <1>4, <2>1
    <3> HIDE DEF s
    <3>2. /\ IsInjective(Append(RemoveFirst(s, k), k))
          /\ \A j : In(Append(RemoveFirst(s, k), k), j) <=> In(s, j) \/ j = k
      BY <3>1, MovedToEnd
    <3>3. p.lru[u] = Append(RemoveFirst(s, k), k)
      BY <1>2, <2>1 DEF s
    <3>4. \A j \in Keys : Stored(c, u, j) => In(s, j)
      BY <1>0, <2>1 DEF ListsCover, s
    <3> QED
      BY <1>3, <3>2, <3>3, <3>4
  <2>2. CASE u # t
    BY <1>0, <1>2, <1>3, <2>2 DEF ListsCover
  <2> QED
    BY <2>1, <2>2
<1>6. ASSUME NEW u \in Memory, u # t PROVE Bytes(p, u) = Bytes(c, u)
  <2>1. Holding(p, u) = Holding(c, u)
    BY <1>3, <1>6 DEF Holding
  <2> QED
    BY <2>1 DEF Bytes
<1>7. ASSUME t \in Memory PROVE Bytes(p, t) <= Bytes(c, t) + Size[k]
  <2>1. Holding(p, t) = Holding(c, t) \union {k}
    BY <1>3, <1>7 DEF Holding
  <2>2. Holding(c, t) \in SUBSET Keys
    BY DEF Holding
  <2> QED
    BY <2>1, <2>2, WeightAdded DEF Bytes
<1>8. CountersCover(p)
  <2> SUFFICES ASSUME NEW u \in Memory PROVE p.usage[u] >= Bytes(p, u)
    BY DEF CountersCover
  <2>1. c.usage[u] >= Bytes(c, u) /\ c.usage[u] \in Nat /\ Size[k] \in Nat
    BY <1>0, <1>4, Constants DEF CountersCover
  <2>2. Bytes(c, u) \in Nat /\ Bytes(p, u) \in Nat
    BY BytesType
  <2>3. CASE u = t
    <3>1. Bytes(p, u) <= Bytes(c, u) + Size[k] /\ p.usage[u] = c.usage[u] + Size[k]
      BY <1>2, <1>7, <2>3
    <3> QED
      BY <2>1, <2>2, <3>1
  <2>4. CASE u # t
    BY <1>2, <1>6, <2>1, <2>4
  <2> QED
    BY <2>3, <2>4
<1>9. BudgetsHold(p)
  <2> SUFFICES ASSUME NEW u \in Memory, Enough(u) PROVE Bytes(p, u) <= budget[u]
    BY DEF BudgetsHold
  <2>1. c.usage[u] >= Bytes(c, u) /\ c.usage[u] \in Nat /\ Size[k] \in Nat
        /\ Bytes(c, u) <= budget[u] /\ budget[u] \in Nat
    BY <1>0, <1>4, Constants DEF CountersCover, BudgetsHold
  <2>2. Bytes(c, u) \in Nat /\ Bytes(p, u) \in Nat
    BY BytesType
  <2>3. CASE u = t
    <3>1. Bytes(p, u) <= Bytes(c, u) + Size[k]
      BY <1>7, <2>3
    <3>2. Fits(c, u, Size[k]) \/ c.lru[u] = <<>>
      BY <2>3 DEF Enough
    <3>3. CASE Fits(c, u, Size[k])
      <4>1. c.usage[u] + Size[k] <= budget[u]
        BY <3>3 DEF Fits
      <4> QED
        BY <2>1, <2>2, <3>1, <4>1
    <3>4. CASE c.lru[u] = <<>>
      <4>1. \A j \in Keys : ~Stored(c, u, j)
        BY <1>0, <3>4 DEF ListsCover, In
      <4>2. Holding(c, u) = {}
        BY <4>1 DEF Holding
      <4>3. Bytes(c, u) = 0
        BY <4>2, Weights DEF Bytes
      <4>4. Size[k] <= budget[u]
        BY DEF Enough
      <4> QED
        BY <2>1, <2>2, <3>1, <4>3, <4>4
    <3> QED
      BY <3>2, <3>3, <3>4
  <2>4. CASE u # t
    BY <1>6, <2>1, <2>4
  <2> QED
    BY <2>3, <2>4
<1> QED
  BY <1>2, <1>5, <1>8, <1>9 DEF Accounted, p

(* Popping an entry whose block the tier does not store.                   *)
LEMMA WithoutOldestAccounted ==
    ASSUME NEW c, Accounted(c), NEW t \in Memory, c.lru[t] # <<>>,
           ~Stored(c, t, Head(c.lru[t]))
    PROVE  Accounted(WithoutOldest(c, t))
<1> DEFINE w == WithoutOldest(c, t)
           s == c.lru[t]
<1>0. c \in CacheType /\ ListsCover(c) /\ CountersCover(c) /\ BudgetsHold(c)
  BY DEF Accounted
<1>1. /\ w \in CacheType /\ w.copies = c.copies /\ w.usage = c.usage
      /\ \A u \in Memory : w.lru[u] = IF u = t THEN Tail(s) ELSE c.lru[u]
  BY <1>0, WithoutOldestParts
<1>2. s \in Seq(Keys) /\ IsInjective(s) /\ s # <<>>
  BY <1>0, Parts DEF ListsCover
<1> HIDE DEF w
<1>3. \A u, j : Stored(w, u, j) <=> Stored(c, u, j)
  BY <1>1 DEF Stored
<1>4. ListsCover(w)
  <2> SUFFICES ASSUME NEW u \in Memory
               PROVE  /\ IsInjective(w.lru[u])
                      /\ \A j \in Keys : Stored(w, u, j) => In(w.lru[u], j)
    BY DEF ListsCover
  <2>1. CASE u = t
    <3>1. \A j \in Keys : Stored(c, t, j) => In(s, j) /\ j # Head(s)
      BY <1>0 DEF ListsCover
    <3> HIDE DEF s
    <3>2. IsInjective(Tail(s)) /\ \A j : In(Tail(s), j) <=> In(s, j) /\ j # Head(s)
      BY <1>2, Popped
    <3> QED
      BY <1>1, <1>3, <2>1, <3>1, <3>2
  <2>2. CASE u # t
    BY <1>0, <1>1, <1>3, <2>2 DEF ListsCover
  <2> QED
    BY <2>1, <2>2
<1>5. \A u : Bytes(w, u) = Bytes(c, u)
  BY <1>3 DEF Bytes, Holding
<1> QED
  BY <1>0, <1>1, <1>4, <1>5 DEF Accounted, CountersCover, BudgetsHold, w

(* Popping an entry and giving up its tensor.                              *)
LEMMA RestAccounted ==
    ASSUME budget \in [Memory -> Nat], NEW c, Accounted(c),
           NEW t \in Memory, c.lru[t] # <<>>, Stored(c, t, Head(c.lru[t]))
    PROVE  Accounted(Rest(c, t))
<1> DEFINE r == Rest(c, t)
           s == c.lru[t]
           k == Head(s)
<1>0. c \in CacheType /\ ListsCover(c) /\ CountersCover(c) /\ BudgetsHold(c)
  BY DEF Accounted
<1>1. /\ r \in CacheType
      /\ \A u \in Tiers, j \in Keys :
            r.copies[u][j] = IF u = t /\ j = k THEN NoCopy ELSE c.copies[u][j]
      /\ \A u \in Memory : r.usage[u] =
            IF u = t THEN IF c.usage[t] < Size[k] THEN 0 ELSE c.usage[t] - Size[k]
            ELSE c.usage[u]
      /\ \A u \in Memory : r.lru[u] = IF u = t THEN Tail(s) ELSE c.lru[u]
  BY <1>0, RestParts
<1>2. s \in Seq(Keys) /\ IsInjective(s) /\ s # <<>>
  BY <1>0, Parts DEF ListsCover
<1> HIDE DEF r
<1>3. \A u \in Memory, j \in Keys :
         Stored(r, u, j) <=> Stored(c, u, j) /\ ~(u = t /\ j = k)
  BY <1>1, Constants DEF Stored, NoCopy
<1>4. ListsCover(r)
  <2> SUFFICES ASSUME NEW u \in Memory
               PROVE  /\ IsInjective(r.lru[u])
                      /\ \A j \in Keys : Stored(r, u, j) => In(r.lru[u], j)
    BY DEF ListsCover
  <2>1. CASE u = t
    <3>1. \A j \in Keys : Stored(r, t, j) => In(s, j) /\ j # Head(s)
      BY <1>0, <1>3 DEF ListsCover
    <3> HIDE DEF s
    <3>2. IsInjective(Tail(s)) /\ \A j : In(Tail(s), j) <=> In(s, j) /\ j # Head(s)
      BY <1>2, Popped
    <3> QED
      BY <1>1, <2>1, <3>1, <3>2
  <2>2. CASE u # t
    BY <1>0, <1>1, <1>3, <2>2 DEF ListsCover
  <2> QED
    BY <2>1, <2>2
<1>5. ASSUME NEW u \in Memory, u # t PROVE Bytes(r, u) = Bytes(c, u)
  <2>1. Holding(r, u) = Holding(c, u)
    BY <1>3, <1>5 DEF Holding
  <2> QED
    BY <2>1 DEF Bytes
<1>6. k \in Keys
  BY <1>2, HeadTailProperties
<1>7. Bytes(c, t) = Size[k] + Bytes(r, t)
  <2>1. Holding(r, t) = Holding(c, t) \ {k} /\ k \in Holding(c, t)
    BY <1>3, <1>6 DEF Holding
  <2>2. Holding(c, t) \in SUBSET Keys
    BY DEF Holding
  <2> HIDE DEF k
  <2> QED
    BY <2>1, <2>2, Weights DEF Bytes
<1>8. /\ \A u \in Memory : c.usage[u] >= Bytes(c, u) /\ c.usage[u] \in Nat
      /\ Size[k] \in Nat
      /\ \A u : Bytes(c, u) \in Nat /\ Bytes(r, u) \in Nat
  BY <1>0, <1>6, Parts, Constants, BytesType DEF CountersCover
<1> HIDE DEF k
<1>9. CountersCover(r)
  BY <1>1, <1>5, <1>7, <1>8, SMTT(20) DEF CountersCover
<1>10. BudgetsHold(r)
  <2> SUFFICES ASSUME NEW u \in Memory, Enough(u) PROVE Bytes(r, u) <= budget[u]
    BY DEF BudgetsHold
  <2>1. Bytes(c, u) <= budget[u] /\ budget[u] \in Nat
    BY <1>0 DEF BudgetsHold
  <2> QED
    BY <1>5, <1>7, <1>8, <2>1
<1> QED
  BY <1>1, <1>4, <1>9, <1>10 DEF Accounted, r

(* Moving an entry, or charging a placeholder.                             *)
LEMMA TouchedAccounted ==
    ASSUME NEW c, Accounted(c), NEW t \in Tiers, NEW k \in Keys
    PROVE  Accounted(Touched(c, t, k))
<1> DEFINE p == Touched(c, t, k)
<1>0. c \in CacheType /\ ListsCover(c) /\ CountersCover(c) /\ BudgetsHold(c)
  BY DEF Accounted
<1>1. \A u \in Memory : IsInjective(c.lru[u])
  BY <1>0 DEF ListsCover
<1>2. /\ p \in CacheType /\ p.copies = c.copies /\ p.usage = c.usage
      /\ \A u \in Memory : u # t => p.lru[u] = c.lru[u]
      /\ t \in Memory => p.lru[t] = Append(RemoveFirst(c.lru[t], k), k)
  BY <1>0, <1>1, TouchedParts
<1> HIDE DEF p
<1>3. \A u, j : Stored(p, u, j) <=> Stored(c, u, j)
  BY <1>2 DEF Stored
<1>4. ListsCover(p)
  <2> SUFFICES ASSUME NEW u \in Memory
               PROVE  /\ IsInjective(p.lru[u])
                      /\ \A j \in Keys : Stored(p, u, j) => In(p.lru[u], j)
    BY DEF ListsCover
  <2>1. CASE u = t
    <3> DEFINE s == c.lru[t]
    <3>1. s \in Seq(Keys) /\ IsInjective(s)
      BY <1>0, <1>1, <2>1, Parts
    <3>2. \A j \in Keys : Stored(c, u, j) => In(s, j)
      BY <1>0, <2>1 DEF ListsCover
    <3>3. p.lru[u] = Append(RemoveFirst(s, k), k)
      BY <1>2, <2>1
    <3> HIDE DEF s
    <3>4. /\ IsInjective(Append(RemoveFirst(s, k), k))
          /\ \A j : In(Append(RemoveFirst(s, k), k), j) <=> In(s, j) \/ j = k
      BY <3>1, MovedToEnd
    <3> QED
      BY <1>3, <3>2, <3>3, <3>4
  <2>2. CASE u # t
    BY <1>0, <1>2, <1>3, <2>2 DEF ListsCover
  <2> QED
    BY <2>1, <2>2
<1>5. \A u : Bytes(p, u) = Bytes(c, u)
  BY <1>3 DEF Bytes, Holding
<1> QED
  BY <1>0, <1>2, <1>4, <1>5 DEF Accounted, CountersCover, BudgetsHold, p

-----------------------------------------------------------------------------
(* Where copies are, and which.                                            *)

(* Only a copy in a memory has the numbers that were written.              *)
Plain(c) ==
    \A t \in Tiers, k \in Keys :
        t = "nvme" \/ ~Stored(c, t, k) => ~c.copies[t][k].exact

(* A read of the block finds a copy.                                       *)
Found(c, k) ==
    /\ c.location[k] # "none"
    /\ \/ \E t \in Memory : Stored(c, t, k)
       \/ c.location[k] = "nvme" /\ Stored(c, "nvme", k)

(* All copies in the memories are of the version v, and alike; where there *)
(* is none, the file has that version.                                     *)
UpToDate(c, k, v) ==
    /\ \A t \in Memory : Stored(c, t, k) => c.copies[t][k].version = v
    /\ \A t, u \in Memory :
          Stored(c, t, k) /\ Stored(c, u, k) => c.copies[t][k] = c.copies[u][k]
    /\ (\A t \in Memory : ~Stored(c, t, k)) => c.copies["nvme"][k].version = v

(* An operation leaves a block alone, or moves its copy from t to g.       *)
Same(c, d, k) ==
    /\ d.location[k] = c.location[k]
    /\ \A u \in Tiers : d.copies[u][k] = c.copies[u][k]

Filed(g, copy) == IF g = "nvme" THEN Compressed(copy) ELSE copy

Moved(c, d, k, t, g) ==
    /\ Stored(c, t, k)
    /\ d.location[k] = g
    /\ \A u \in Tiers :
          d.copies[u][k] = IF u = g THEN Filed(g, c.copies[t][k])
                           ELSE IF u = t THEN NoCopy ELSE c.copies[u][k]

(* Compression loses numbers, not the version.                             *)
LEMMA FiledVersion ==
    ASSUME NEW g \in Tiers, NEW copy \in Copy
    PROVE  /\ Filed(g, copy) \in Copy
           /\ Filed(g, copy).version = copy.version
           /\ g \in Memory => Filed(g, copy) = copy
           /\ g = "nvme" => Filed(g, copy).exact = FALSE
BY DEF Filed, Compressed, Copy, Memory

(* A block that is left alone is found as before.                          *)
LEMMA SameServes ==
    ASSUME NEW c, NEW d, NEW k, Same(c, d, k)
    PROVE  /\ Found(c, k) => Found(d, k)
           /\ \A v : UpToDate(c, k, v) => UpToDate(d, k, v)
           /\ \A u \in Tiers : Stored(d, u, k) <=> Stored(c, u, k)
<1>1. \A u \in Tiers : Stored(d, u, k) <=> Stored(c, u, k)
  BY DEF Same, Stored
<1>2. \A u \in Memory : d.copies[u][k] = c.copies[u][k] /\ (Stored(d, u, k) <=> Stored(c, u, k))
  BY <1>1, Constants DEF Same
<1>3. /\ d.copies["nvme"][k] = c.copies["nvme"][k] /\ (Stored(d, "nvme", k) <=> Stored(c, "nvme", k))
      /\ d.location[k] = c.location[k]
  BY <1>1, Constants DEF Same
<1>4. Found(c, k) => Found(d, k)
  BY <1>2, <1>3 DEF Found
<1>5. ASSUME NEW v, UpToDate(c, k, v) PROVE UpToDate(d, k, v)
  BY <1>2, <1>3, <1>5 DEF UpToDate
<1> QED
  BY <1>1, <1>4, <1>5

(* A block that is moved is found, and in the same version.                *)
LEMMA MovedServes ==
    ASSUME NEW c \in CacheType, NEW d, NEW k \in Keys, NEW t \in Memory, NEW g \in Tiers,
           Moved(c, d, k, t, g)
    PROVE  /\ Found(d, k)
           /\ \A v : UpToDate(c, k, v) => UpToDate(d, k, v)
<1> DEFINE x == c.copies[t][k]
           y == Filed(g, x)
<1>1. x \in Copy /\ x.version > 0
  BY Parts, Constants DEF Moved, Stored
<1>2. /\ y.version = x.version /\ (g \in Memory => y = x)
  BY <1>1, FiledVersion
<1>3. /\ d.location[k] = g
      /\ \A u \in Tiers :
            d.copies[u][k] = IF u = g THEN y ELSE IF u = t THEN NoCopy ELSE c.copies[u][k]
  BY DEF Moved
<1> HIDE DEF y
<1>4. /\ d.copies[g][k] = y /\ Stored(d, g, k)
  BY <1>1, <1>2, <1>3 DEF Stored
<1>5. Found(d, k)
  <2>1. d.location[k] # "none"
    BY <1>3 DEF Tiers, Memory
  <2>2. CASE g \in Memory
    BY <1>4, <2>1, <2>2 DEF Found
  <2>3. CASE g = "nvme"
    BY <1>3, <1>4, <2>1, <2>3 DEF Found
  <2> QED
    BY <2>2, <2>3, Constants
<1>6. ASSUME NEW v, UpToDate(c, k, v) PROVE UpToDate(d, k, v)
  <2>1. x.version = v /\ y.version = v
    BY <1>2, <1>6 DEF UpToDate, Moved
  <2>2. ASSUME NEW u \in Memory, Stored(d, u, k)
        PROVE  d.copies[u][k] = x
    <3>1. CASE u = g
      BY <1>2, <1>3, <2>2, <3>1, Constants
    <3>2. CASE u # g
      <4>1. u # t
        <5>1. u = t => d.copies[u][k] = NoCopy
          BY <1>3, <3>2, Constants
        <5> QED
          BY <2>2, <5>1 DEF Stored, NoCopy
      <4>2. d.copies[u][k] = c.copies[u][k] /\ Stored(c, u, k)
        BY <1>3, <2>2, <3>2, <4>1, Constants DEF Stored
      <4> QED
        BY <1>6, <4>2 DEF UpToDate, Moved
    <3> QED
      BY <3>1, <3>2
  <2>3. ASSUME \A u \in Memory : ~Stored(d, u, k)
        PROVE  d.copies["nvme"][k].version = v
    <3>1. g = "nvme"
      BY <1>4, <2>3, Constants
    <3> QED
      BY <1>4, <2>1, <3>1
  <2> HIDE DEF x
  <2> QED
    BY <2>1, <2>2, <2>3 DEF UpToDate
<1> QED
  BY <1>5, <1>6

(* Of the caches a method leaves: nothing else is exact in a file.         *)
LEMMA PutPlain ==
    ASSUME NEW c, Accounted(c), Plain(c), NEW t \in Tiers, NEW k \in Keys,
           NEW copy \in Copy, copy.version > 0
    PROVE  /\ Plain(Put(c, t, k, copy))
           /\ \A j \in Keys : j # k => Same(c, Put(c, t, k, copy), j)
           /\ Put(c, t, k, copy).location[k] = t
           /\ \A u \in Tiers : Put(c, t, k, copy).copies[u][k] =
                  IF u = t THEN Filed(t, copy) ELSE c.copies[u][k]
<1> DEFINE p == Put(c, t, k, copy)
<1>0. c \in CacheType /\ \A u \in Memory : IsInjective(c.lru[u])
  BY DEF Accounted, ListsCover
<1>1. /\ \A u \in Tiers, j \in Keys :
            p.copies[u][j] = IF u = t /\ j = k THEN Filed(t, copy) ELSE c.copies[u][j]
      /\ \A j \in Keys : p.location[j] = IF j = k THEN t ELSE c.location[j]
  BY <1>0, PutParts DEF Filed
<1>2. /\ Filed(t, copy).version = copy.version
      /\ t = "nvme" => Filed(t, copy).exact = FALSE
  BY FiledVersion
<1> HIDE DEF p
<1>3. Plain(p)
  <2> SUFFICES ASSUME NEW u \in Tiers, NEW j \in Keys, u = "nvme" \/ ~Stored(p, u, j)
               PROVE  ~p.copies[u][j].exact
    BY DEF Plain
  <2>1. CASE u = t /\ j = k
    <3>1. p.copies[u][j] = Filed(t, copy)
      BY <1>1, <2>1
    <3>2. u = "nvme"
      BY <1>2, <3>1 DEF Stored
    <3> QED
      BY <1>2, <2>1, <3>1, <3>2
  <2>2. CASE ~(u = t /\ j = k)
    <3>1. p.copies[u][j] = c.copies[u][j]
      BY <1>1, <2>2
    <3> QED
      BY <3>1 DEF Plain, Stored
  <2> QED
    BY <2>1, <2>2
<1>4. \A j \in Keys : j # k => Same(c, p, j)
  BY <1>1 DEF Same
<1>5. p.location[k] = t
      /\ \A u \in Tiers : p.copies[u][k] = IF u = t THEN Filed(t, copy) ELSE c.copies[u][k]
  BY <1>1
<1> QED
  BY <1>3, <1>4, <1>5 DEF p

(* write() chooses a memory only where the block fits.                     *)
LEMMA WriteTierFits ==
    ASSUME NEW c, NEW k
    PROVE  /\ WriteTier(c, k) \in Tiers
           /\ WriteTier(c, k) \in Memory => Fits(c, WriteTier(c, k), Size[k])
BY DEF WriteTier, Tiers, Memory

(* An eviction loses nothing: counters and lists stay right, and each      *)
(* block stays where it is or moves.                                       *)
LEMMA EvictedKeeps ==
    ASSUME budget \in [Memory -> Nat], NEW c, Accounted(c), Plain(c), NEW t \in Memory
    PROVE  /\ Accounted(Evicted(c, t))
           /\ Plain(Evicted(c, t))
           /\ \A j \in Keys : \/ Same(c, Evicted(c, t), j)
                              \/ \E g \in Tiers : Moved(c, Evicted(c, t), j, t, g)
<1> DEFINE k == Head(c.lru[t])
           e == Evicted(c, t)
<1>0. c \in CacheType
  BY DEF Accounted
<1>1. CASE c.lru[t] = <<>>
  <2>1. e = c
    BY <1>1, EvictedCases
  <2> QED
    BY <2>1 DEF Same
<1>2. CASE c.lru[t] # <<>> /\ ~Stored(c, t, k)
  <2>1. e = WithoutOldest(c, t)
    BY <1>2, EvictedCases
  <2>2. e.copies = c.copies /\ e.location = c.location
    BY <1>0, <1>2, <2>1, WithoutOldestParts
  <2>3. Accounted(e)
    BY <1>2, <2>1, WithoutOldestAccounted
  <2> HIDE DEF e
  <2>4. Plain(e) /\ \A j \in Keys : Same(c, e, j)
    BY <2>2 DEF Plain, Same, Stored
  <2> QED
    BY <2>3, <2>4 DEF e
<1>3. CASE c.lru[t] # <<>> /\ Stored(c, t, k)
  <2> DEFINE r == Rest(c, t)
             x == c.copies[t][k]
             g == IF t = "gpu" THEN WriteTier(r, k) ELSE "nvme"
  <2>1. e = Put(r, g, k, x)
    BY <1>3, EvictedCases
  <2>2. k \in Keys
    BY <1>0, <1>3, Parts, HeadTailProperties
  <2>3. x \in Copy /\ x.version > 0
    BY <1>0, <1>3, <2>2, Parts, Constants DEF Stored
  <2>4. Accounted(r)
    BY <1>3, RestAccounted
  <2>5. /\ \A u \in Tiers, j \in Keys :
              r.copies[u][j] = IF u = t /\ j = k THEN NoCopy ELSE c.copies[u][j]
        /\ r.location = c.location
    BY <1>0, <1>3, RestParts
  <2> HIDE DEF r
  <2>6. g \in Tiers /\ (g \in Memory => Fits(r, g, Size[k]))
    BY WriteTierFits, Constants
  <2> HIDE DEF k, x, g, e
  <2>7. Plain(r)
    <3> SUFFICES ASSUME NEW u \in Tiers, NEW j \in Keys, u = "nvme" \/ ~Stored(r, u, j)
                 PROVE  ~r.copies[u][j].exact
      BY DEF Plain
    <3>1. CASE u = t /\ j = k
      <4>1. r.copies[u][j] = NoCopy
        BY <2>5, <3>1
      <4> QED
        BY <4>1 DEF NoCopy
    <3>2. CASE ~(u = t /\ j = k)
      <4>1. r.copies[u][j] = c.copies[u][j]
        BY <2>5, <3>2
      <4> QED
        BY <4>1 DEF Plain, Stored
    <3> QED
      BY <3>1, <3>2
  <2>8. Accounted(e)
    BY <2>1, <2>2, <2>3, <2>4, <2>6, PutAccounted
  <2>9. /\ Plain(e)
        /\ \A j \in Keys : j # k => Same(r, e, j)
        /\ e.location[k] = g
        /\ \A u \in Tiers : e.copies[u][k] = IF u = g THEN Filed(g, x) ELSE r.copies[u][k]
    BY <2>1, <2>2, <2>3, <2>4, <2>6, <2>7, PutPlain
  <2>10. ASSUME NEW j \in Keys, j # k PROVE Same(c, e, j)
    <3>1. Same(r, e, j)
      BY <2>9, <2>10
    <3>2. \A u \in Tiers : r.copies[u][j] = c.copies[u][j]
      BY <2>5, <2>10
    <3> QED
      BY <2>5, <3>1, <3>2 DEF Same
  <2>11. Moved(c, e, k, t, g)
    <3>1. Stored(c, t, k)
      BY <1>3 DEF k
    <3>2. \A u \in Tiers :
             e.copies[u][k] = IF u = g THEN Filed(g, x)
                              ELSE IF u = t THEN NoCopy ELSE c.copies[u][k]
      BY <2>2, <2>5, <2>9
    <3> QED
      BY <2>9, <3>1, <3>2 DEF Moved, x
  <2>12. \A j \in Keys : Same(c, e, j) \/ \E h \in Tiers : Moved(c, e, j, t, h)
    BY <2>6, <2>10, <2>11
  <2> QED
    BY <2>8, <2>9, <2>12 DEF e
<1> QED
  BY <1>1, <1>2, <1>3

(* allocate_block moves no copy, and points a block elsewhere only if it   *)
(* was nowhere.                                                            *)
LEMMA AllocatedKeeps ==
    ASSUME budget \in [Memory -> Nat], NEW c, Accounted(c), Plain(c), NEW k \in Keys
    PROVE  /\ Accounted(Allocated(c, k))
           /\ Plain(Allocated(c, k))
           /\ \A j \in Keys : Same(c, Allocated(c, k), j) \/ c.location[j] = "none"
           /\ Allocated(c, k).copies = c.copies
<1> DEFINE a == Allocated(c, k)
<1>0. /\ c \in CacheType /\ ListsCover(c) /\ CountersCover(c) /\ BudgetsHold(c)
      /\ \A u \in Memory : IsInjective(c.lru[u])
  BY DEF Accounted, ListsCover
<1>1. CASE c.location[k] # "none"
  <2>1. a = Touched(c, c.location[k], k) /\ c.location[k] \in Tiers
    BY <1>0, <1>1, Parts DEF Allocated
  <2>2. a.copies = c.copies /\ a.location = c.location /\ Accounted(a)
    BY <1>0, <2>1, TouchedParts, TouchedAccounted
  <2> HIDE DEF a
  <2>3. Plain(a) /\ \A j \in Keys : Same(c, a, j)
    BY <2>2 DEF Plain, Same, Stored
  <2> QED
    BY <2>2, <2>3 DEF a
<1>2. CASE c.location[k] = "none"
  <2> DEFINE t == PlaceholderTier(c)
             uses == [u \in Memory |->
                        IF u = t THEN c.usage[u] + PlaceholderSize ELSE c.usage[u]]
             located == [c.location EXCEPT ![k] = t]
             d == [c EXCEPT !.location = located, !.usage = uses]
  <2>1. a = Touched(d, t, k)
    BY <1>2 DEF Allocated
  <2>2. t \in Tiers
    BY DEF PlaceholderTier, Tiers, Memory
  <2> HIDE DEF t
  <2>3. /\ uses \in [Memory -> Nat] /\ located \in [Keys -> Tiers \union {"none"}]
        /\ \A u \in Memory : uses[u] >= c.usage[u]
        /\ \A j \in Keys : j # k => located[j] = c.location[j]
    BY <1>0, <2>2, Parts, Constants, SMTT(20)
  <2> HIDE DEF uses, located
  <2>4. /\ d.copies = c.copies /\ d.lru = c.lru /\ d.usage = uses
        /\ d.location = located /\ d \in CacheType
    BY <1>0, <2>3 DEF CacheType
  <2> HIDE DEF d
  <2>5. \A u, j : Stored(d, u, j) <=> Stored(c, u, j)
    BY <2>4 DEF Stored
  <2>6. \A u : Bytes(d, u) = Bytes(c, u)
    BY <2>5 DEF Bytes, Holding
  <2>7. ListsCover(d)
    BY <1>0, <2>4, <2>5 DEF ListsCover
  <2>8. CountersCover(d)
    <3> SUFFICES ASSUME NEW u \in Memory PROVE d.usage[u] >= Bytes(d, u)
      BY DEF CountersCover
    <3>1. /\ c.usage[u] >= Bytes(c, u) /\ d.usage[u] >= c.usage[u]
          /\ c.usage[u] \in Nat /\ d.usage[u] \in Nat /\ Bytes(c, u) \in Nat
      BY <1>0, <2>3, <2>4, Parts, BytesType DEF CountersCover
    <3> QED
      BY <2>6, <3>1
  <2>9. BudgetsHold(d)
    BY <1>0, <2>6 DEF BudgetsHold
  <2>10. Accounted(d)
    BY <2>4, <2>7, <2>8, <2>9 DEF Accounted
  <2>11. Accounted(a)
    BY <2>1, <2>2, <2>10, TouchedAccounted
  <2>12. \A u \in Memory : IsInjective(d.lru[u])
    BY <1>0, <2>4
  <2>13. a.copies = c.copies /\ a.location = located
    BY <2>1, <2>2, <2>4, <2>12, TouchedParts
  <2> HIDE DEF a
  <2>14. Plain(a) /\ \A j \in Keys : j # k => Same(c, a, j)
    BY <2>3, <2>13 DEF Plain, Same, Stored
  <2> QED
    BY <1>2, <2>11, <2>13, <2>14 DEF a
<1> QED
  BY <1>1, <1>2

-----------------------------------------------------------------------------
(* The inductive invariant.                                                *)

CallType == [by : {"caller", "consumer"}, key : Keys, to : Memory, copy : Copy]

(* What a read holds while it makes room is still what the tier it came    *)
(* from has, and the tiers before that one lack the block.                 *)
CallInv ==
    call # Idle =>
        /\ call \in CallType
        /\ call.copy.version > 0
        /\ ~Stored(cache, "gpu", call.key)
        /\ call.to = "gpu" => call.copy = cache.copies["cpu"][call.key]
        /\ call.to = "cpu" => /\ ~Stored(cache, "cpu", call.key)
                              /\ call.copy = cache.copies["nvme"][call.key]

Served(k) ==
    Written(k) => /\ Found(cache, k)
                  /\ ~forked[k] => UpToDate(cache, k, latest[k])

History ==
    /\ latest \in [Keys -> 0..MaxVersion]
    /\ forked \in [Keys -> BOOLEAN]

CacheInv == budget \in Budgets /\ Accounted(cache) /\ Plain(cache)

TieredInv ==
    /\ CacheInv
    /\ History
    /\ CallInv
    /\ \A k \in Keys : Served(k)

(* What the lemmas about the operations need of the state.                 *)
LEMMA Budgeted ==
    CacheInv => budget \in [Memory -> Nat] /\ cache \in CacheType
BY Constants DEF CacheInv, Accounted

(* Operations that leave copies where they are, or only move them.         *)
LEMMA ServedKept ==
    ASSUME CacheInv, NEW k \in Keys, Served(k),
           latest' = latest, forked' = forked,
           \/ Same(cache, cache', k)
           \/ cache.location[k] = "none"
           \/ \E t \in Memory, g \in Tiers : Moved(cache, cache', k, t, g)
    PROVE  Served(k)'
<1> SUFFICES ASSUME Written(k)
             PROVE  Found(cache', k) /\ (~forked[k] => UpToDate(cache', k, latest[k]))
  BY DEF Served, Written
<1>1. Found(cache, k) /\ (~forked[k] => UpToDate(cache, k, latest[k]))
  BY DEF Served
<1>2. cache.location[k] # "none"
  BY <1>1 DEF Found
<1>3. CASE Same(cache, cache', k)
  BY <1>1, <1>3, SameServes
<1>4. ASSUME NEW t \in Memory, NEW g \in Tiers, Moved(cache, cache', k, t, g)
      PROVE  Found(cache', k) /\ (~forked[k] => UpToDate(cache', k, latest[k]))
  BY <1>1, <1>4, Budgeted, MovedServes
<1> QED
  BY <1>2, <1>3, <1>4

(* The part of the invariant that is about the cache alone.                *)
LEMMA CacheKept ==
    ASSUME CacheInv, budget' = budget, Accounted(cache'), Plain(cache')
    PROVE  CacheInv'
BY DEF CacheInv, Accounted, ListsCover, CountersCover, BudgetsHold, Enough,
       Bytes, Holding, Stored, In, Plain, CacheType

(* The calls that hold the lock for one step.                              *)
LEMMA AllocateKeeps ==
    ASSUME TieredInv, NEW k \in Keys, AllocateBlock(k)
    PROVE  TieredInv'
<1>1. /\ call = Idle /\ call' = call /\ budget' = budget
      /\ latest' = latest /\ forked' = forked /\ cache' = Allocated(cache, k)
  BY DEF AllocateBlock, LockFree
<1>2. /\ Accounted(cache') /\ Plain(cache')
      /\ \A j \in Keys : Same(cache, cache', j) \/ cache.location[j] = "none"
  BY <1>1, Budgeted, AllocatedKeeps DEF TieredInv, CacheInv
<1>3. CacheInv'
  BY <1>1, <1>2, CacheKept DEF TieredInv
<1> QED
  BY <1>1, <1>2, <1>3, ServedKept DEF TieredInv, History, CallInv

(* A write makes one copy the latest, and forks the block if another       *)
(* memory still has one.                                                   *)
LEMMA WriteKeeps ==
    ASSUME TieredInv, NEW k \in Keys, WriteBlock(k)
    PROVE  TieredInv'
<1> DEFINE t == WriteTier(cache, k)
           v == latest[k] + 1
           copy == [version |-> v, exact |-> TRUE]
<1>0. CacheInv /\ History /\ Accounted(cache) /\ Plain(cache)
  BY DEF TieredInv, CacheInv
<1>1. /\ call = Idle /\ call' = call /\ budget' = budget
      /\ latest[k] < MaxVersion
      /\ latest' = [latest EXCEPT ![k] = v]
      /\ cache' = Put(cache, t, k, copy)
      /\ forked' = [forked EXCEPT ![k] = \E u \in Memory \ {t} : Stored(cache, u, k)]
  BY DEF WriteBlock, LockFree
<1>2. v \in 0..MaxVersion /\ v > 0
  BY <1>0, <1>1, Constants DEF History
<1>3. t \in Tiers /\ (t \in Memory => Fits(cache, t, Size[k]))
  BY WriteTierFits
<1> HIDE DEF t, v
<1>4. copy \in Copy /\ copy.version > 0 /\ copy.version = v
  BY <1>2 DEF Copy
<1> HIDE DEF copy
<1>5. /\ Accounted(cache')
      /\ Plain(cache')
      /\ \A j \in Keys : j # k => Same(cache, cache', j)
      /\ cache'.location[k] = t
      /\ \A u \in Tiers :
            cache'.copies[u][k] = IF u = t THEN Filed(t, copy) ELSE cache.copies[u][k]
  BY <1>0, <1>1, <1>3, <1>4, Budgeted, PutAccounted, PutPlain
<1>6. CacheInv'
  BY <1>0, <1>1, <1>5, CacheKept
<1>7. History'
  <2>1. latest' \in [Keys -> 0..MaxVersion]
    BY <1>0, <1>1, <1>2 DEF History
  <2>2. forked' \in [Keys -> BOOLEAN]
    BY <1>0, <1>1 DEF History
  <2> QED
    BY <2>1, <2>2 DEF History
<1>8. ASSUME NEW j \in Keys, j # k PROVE Served(j)'
  <2>1. Same(cache, cache', j) /\ latest'[j] = latest[j] /\ forked'[j] = forked[j]
    BY <1>0, <1>1, <1>5, <1>8 DEF History
  <2>2. Served(j)
    BY DEF TieredInv
  <2>3. /\ Found(cache, j) => Found(cache', j)
        /\ UpToDate(cache, j, latest[j]) => UpToDate(cache', j, latest[j])
    BY <2>1, SameServes
  <2> QED
    BY <2>1, <2>2, <2>3 DEF Served, Written
<1>9. Served(k)'
  <2>1. latest'[k] = v
        /\ forked'[k] = \E u \in Memory \ {t} : Stored(cache, u, k)
    BY <1>0, <1>1 DEF History
  <2>2. /\ Filed(t, copy).version = v
        /\ cache'.copies[t][k] = Filed(t, copy)
        /\ Stored(cache', t, k)
    <3>1. Filed(t, copy).version = v
      BY <1>3, <1>4, FiledVersion
    <3>2. cache'.copies[t][k] = Filed(t, copy)
      BY <1>3, <1>5
    <3> QED
      BY <1>2, <3>1, <3>2 DEF Stored
  <2>3. Found(cache', k)
    <3>1. cache'.location[k] # "none"
      BY <1>3, <1>5 DEF Tiers, Memory
    <3>2. CASE t \in Memory
      BY <2>2, <3>1, <3>2 DEF Found
    <3>3. CASE t = "nvme"
      BY <1>5, <2>2, <3>1, <3>3 DEF Found
    <3> QED
      BY <1>3, <3>2, <3>3, Constants
  <2>4. ASSUME ~\E u \in Memory \ {t} : Stored(cache, u, k)
        PROVE  UpToDate(cache', k, v)
    <3>1. \A u \in Memory : u # t => ~Stored(cache', u, k)
      BY <1>5, <2>4, Constants DEF Stored
    <3>2. \A u \in Memory : Stored(cache', u, k) => cache'.copies[u][k] = Filed(t, copy)
      BY <2>2, <3>1
    <3>3. (\A u \in Memory : ~Stored(cache', u, k)) => t = "nvme"
      BY <1>3, <2>2, Constants
    <3> QED
      BY <2>2, <3>2, <3>3 DEF UpToDate
  <2> QED
    BY <2>1, <2>3, <2>4 DEF Served
<1> QED
  BY <1>1, <1>6, <1>7, <1>8, <1>9 DEF TieredInv, CallInv

(* A call of evict.                                                        *)
LEMMA EvictKeeps ==
    ASSUME TieredInv, NEW t \in Memory, EvictOne(t)
    PROVE  TieredInv'
<1>1. /\ call = Idle /\ call' = call /\ budget' = budget
      /\ latest' = latest /\ forked' = forked /\ cache' = Evicted(cache, t)
  BY DEF EvictOne, LockFree
<1>2. /\ Accounted(cache') /\ Plain(cache')
      /\ \A j \in Keys : \/ Same(cache, cache', j)
                         \/ \E g \in Tiers : Moved(cache, cache', j, t, g)
  BY <1>1, Budgeted, EvictedKeeps DEF TieredInv, CacheInv
<1>3. CacheInv'
  BY <1>1, <1>2, CacheKept DEF TieredInv
<1>4. \A j \in Keys : Served(j)'
  BY <1>1, <1>2, ServedKept DEF TieredInv
<1> QED
  BY <1>1, <1>3, <1>4 DEF TieredInv, History, CallInv

(* A read of a block of the GPU.                                           *)
LEMMA HitKeeps ==
    ASSUME TieredInv, NEW k \in Keys, NEW by, ReadHit(by, k)
    PROVE  TieredInv'
<1>1. /\ call = Idle /\ call' = call /\ budget' = budget
      /\ latest' = latest /\ forked' = forked /\ cache' = Touched(cache, "gpu", k)
  BY DEF ReadHit, LockFree
<1>2. Accounted(cache) /\ Plain(cache) /\ "gpu" \in Tiers
  BY Constants DEF TieredInv, CacheInv
<1>3. cache'.copies = cache.copies /\ cache'.location = cache.location
  BY <1>1, <1>2, TouchedParts DEF Accounted, ListsCover
<1>4. Accounted(cache')
  BY <1>1, <1>2, TouchedAccounted
<1>5. Plain(cache') /\ \A j \in Keys : Same(cache, cache', j)
  BY <1>2, <1>3 DEF Plain, Same, Stored
<1>6. CacheInv'
  BY <1>1, <1>4, <1>5, CacheKept DEF TieredInv
<1>7. \A j \in Keys : Served(j)'
  BY <1>1, <1>5, ServedKept DEF TieredInv
<1> QED
  BY <1>1, <1>6, <1>7 DEF TieredInv, History, CallInv

(* A read of another block takes the lock and a copy.                      *)
LEMMA StartKeeps ==
    ASSUME TieredInv, NEW k \in Keys, NEW by \in {"caller", "consumer"}, ReadStart(by, k)
    PROVE  TieredInv'
<1>1. /\ budget' = budget /\ cache' = cache /\ latest' = latest /\ forked' = forked
      /\ \/ /\ ReadTier(cache, k) = "cpu"
            /\ call' = Reading(by, k, "gpu", cache.copies["cpu"][k])
         \/ /\ ReadTier(cache, k) = "nvme"
            /\ Written(k)
            /\ call' = Reading(by, k, "cpu", cache.copies["nvme"][k])
  BY DEF ReadStart
<1>2. /\ CacheInv /\ History /\ Served(k) /\ cache \in CacheType
      /\ cache.copies["cpu"][k] \in Copy /\ cache.copies["nvme"][k] \in Copy
  BY Budgeted, Parts, Constants DEF TieredInv
<1>3. CallInv'
  <2>1. CASE /\ ReadTier(cache, k) = "cpu"
             /\ call' = Reading(by, k, "gpu", cache.copies["cpu"][k])
    <3>1. ~Stored(cache, "gpu", k) /\ Stored(cache, "cpu", k)
      BY <2>1 DEF ReadTier
    <3>2. /\ call'.key = k /\ call'.to = "gpu"
          /\ call'.copy = cache.copies["cpu"][k]
          /\ call' \in CallType
      BY <1>2, <2>1, Constants DEF Reading, CallType
    <3> QED
      BY <1>1, <3>1, <3>2 DEF CallInv, Stored
  <2>2. CASE /\ ReadTier(cache, k) = "nvme"
             /\ Written(k)
             /\ call' = Reading(by, k, "cpu", cache.copies["nvme"][k])
    <3>1. ~Stored(cache, "gpu", k) /\ ~Stored(cache, "cpu", k)
      BY <2>2 DEF ReadTier
    <3>2. Stored(cache, "nvme", k)
      BY <1>2, <2>2, <3>1 DEF Served, Found, Memory
    <3>3. /\ call'.key = k /\ call'.to = "cpu"
          /\ call'.copy = cache.copies["nvme"][k]
          /\ call' \in CallType
      BY <1>2, <2>2, Constants DEF Reading, CallType
    <3> QED
      BY <1>1, <3>1, <3>2, <3>3 DEF CallInv, Stored
  <2> QED
    BY <1>1, <2>1, <2>2
<1>4. CacheInv'
  <2>1. Accounted(cache') /\ Plain(cache')
    BY <1>1 DEF TieredInv, CacheInv
  <2> QED
    BY <1>1, <1>2, <2>1, CacheKept
<1>5. History'
  BY <1>1, <1>2 DEF History
<1>6. \A j \in Keys : Served(j)'
  BY <1>1 DEF TieredInv, Served, Written
<1> QED
  BY <1>3, <1>4, <1>5, <1>6 DEF TieredInv

(* Steps that leave the cache alone.                                       *)
LEMMA TieredStutters ==
    ASSUME TieredInv, UNCHANGED tieredVars
    PROVE  TieredInv'
<1>1. /\ budget' = budget /\ cache' = cache /\ call' = call
      /\ latest' = latest /\ forked' = forked
  BY DEF tieredVars
<1>2. CacheInv'
  <2>1. CacheInv /\ Accounted(cache') /\ Plain(cache')
    BY <1>1 DEF TieredInv, CacheInv
  <2> QED
    BY <1>1, <2>1, CacheKept
<1>3. CallInv' /\ History'
  BY <1>1 DEF TieredInv, CallInv, History, Stored
<1>4. \A j \in Keys : Served(j)'
  BY <1>1 DEF TieredInv, Served, Written
<1> QED
  BY <1>2, <1>3, <1>4 DEF TieredInv

(* An iteration of _ensure_capacity, for a block its tier does not have.   *)
LEMMA RoomKeeps ==
    ASSUME TieredInv, MakeRoom
    PROVE  TieredInv'
<1> DEFINE t == call.to
           k == call.key
<1>1. /\ call # Idle /\ call' = call /\ budget' = budget
      /\ latest' = latest /\ forked' = forked /\ cache' = Evicted(cache, t)
  BY DEF MakeRoom, LockFree
<1>2. /\ CallInv /\ CacheInv /\ call \in CallType /\ t \in Memory /\ k \in Keys
  BY <1>1 DEF TieredInv, CallInv, CallType
<1>3. /\ Accounted(cache') /\ Plain(cache')
      /\ \A j \in Keys : \/ Same(cache, cache', j)
                         \/ \E g \in Tiers : Moved(cache, cache', j, t, g)
  BY <1>1, <1>2, Budgeted, EvictedKeeps DEF CacheInv
<1>4. CacheInv'
  BY <1>1, <1>2, <1>3, CacheKept
<1>5. \A j \in Keys : Served(j)'
  BY <1>1, <1>2, <1>3, ServedKept DEF TieredInv
<1>6. ~Stored(cache, t, k)
  BY <1>1, <1>2 DEF CallInv, Memory
<1>7. Same(cache, cache', k)
  BY <1>2, <1>3, <1>6 DEF Moved
<1>8. CallInv'
  BY <1>1, <1>2, <1>7, SameServes, Constants DEF CallInv, Same
<1> QED
  BY <1>1, <1>4, <1>5, <1>8 DEF TieredInv, History

(* Putting the copy a read holds where the block is not yet.               *)
LEMMA PromotionServes ==
    ASSUME TieredInv, call # Idle, NEW t \in Memory, t = call.to,
           NEW k, k = call.key, NEW copy, copy = call.copy,
           ~Lacks(cache, t, Size[k]), cache' = Put(cache, t, k, copy),
           budget' = budget, latest' = latest, forked' = forked
    PROVE  /\ CacheInv' /\ History' /\ \A j \in Keys : Served(j)'
           /\ cache'.copies[t][k] = copy
           /\ \A u \in Tiers : u # t => cache'.copies[u][k] = cache.copies[u][k]
<1>1. /\ CacheInv /\ History /\ Accounted(cache) /\ Plain(cache) /\ CallInv
      /\ k \in Keys /\ copy \in Copy /\ copy.version > 0
      /\ ~Stored(cache, "gpu", k)
      /\ t = "gpu" => copy = cache.copies["cpu"][k]
      /\ t = "cpu" => ~Stored(cache, "cpu", k) /\ copy = cache.copies["nvme"][k]
  BY DEF TieredInv, CacheInv, CallInv, CallType
<1>2. Fits(cache, t, Size[k]) \/ ~(budget[t] > 0) \/ cache.lru[t] = <<>>
  BY DEF Lacks
<1>3. cache' = Put(cache, t, k, copy) /\ t \in Tiers
  BY Constants
<1>4. Accounted(cache')
  BY <1>1, <1>2, <1>3, Budgeted, PutAccounted
<1>5. /\ Plain(cache')
      /\ \A j \in Keys : j # k => Same(cache, cache', j)
      /\ cache'.location[k] = t
      /\ \A u \in Tiers :
            cache'.copies[u][k] = IF u = t THEN Filed(t, copy) ELSE cache.copies[u][k]
  BY <1>1, <1>3, PutPlain
<1>6. Filed(t, copy) = copy
  BY <1>1, Constants, FiledVersion
<1>7. CacheInv'
  BY <1>1, <1>4, <1>5, CacheKept
<1>8. ASSUME NEW j \in Keys, j # k PROVE Served(j)'
  BY <1>1, <1>5, <1>8, ServedKept DEF TieredInv
<1>9. Served(k)'
  <2>1. /\ cache'.copies[t][k] = copy /\ Stored(cache', t, k)
        /\ \A u \in Tiers : u # t => cache'.copies[u][k] = cache.copies[u][k]
    BY <1>1, <1>3, <1>5, <1>6 DEF Stored
  <2>2. Found(cache', k)
    BY <1>5, <2>1, Constants DEF Found, Memory
  <2>3. ASSUME UpToDate(cache, k, latest[k]) PROVE UpToDate(cache', k, latest[k])
    <3>1. CASE t = "gpu"
      <4>1. copy.version = latest[k]
        BY <1>1, <2>3, <3>1, Constants DEF UpToDate, Stored
      <4>2. \A u \in Memory : cache'.copies[u][k] = copy
        BY <1>1, <2>1, <3>1, Constants DEF Memory
      <4> QED
        BY <2>1, <4>1, <4>2 DEF UpToDate
    <3>2. CASE t = "cpu"
      <4>1. \A u \in Memory : ~Stored(cache, u, k)
        BY <1>1, <3>2 DEF Memory
      <4>2. copy.version = latest[k]
        BY <1>1, <2>3, <3>2, <4>1 DEF UpToDate
      <4>3. ~Stored(cache', "gpu", k)
        BY <2>1, <3>2, <4>1, Constants DEF Stored
      <4>4. \A u \in Memory : Stored(cache', u, k) => cache'.copies[u][k] = copy
        BY <2>1, <3>2, <4>3 DEF Memory
      <4> QED
        BY <2>1, <4>2, <4>4 DEF UpToDate
    <3> QED
      BY <3>1, <3>2 DEF Memory
  <2>4. Served(k)
    BY <1>1 DEF TieredInv
  <2> QED
    BY <2>2, <2>3, <2>4 DEF Served, Written
<1>10. History'
  BY <1>1 DEF History
<1>11. /\ cache'.copies[t][k] = copy
       /\ \A u \in Tiers : u # t => cache'.copies[u][k] = cache.copies[u][k]
  BY <1>3, <1>5, <1>6
<1>12. \A j \in Keys : Served(j)'
  BY <1>8, <1>9
<1> QED
  BY <1>7, <1>10, <1>11, <1>12

(* The copy reaches the CPU.                                               *)
LEMMA StagedKeeps ==
    ASSUME TieredInv, Staged
    PROVE  TieredInv'
<1>1. /\ call # Idle /\ call.to = "cpu" /\ "cpu" \in Memory
      /\ ~Lacks(cache, "cpu", Size[call.key])
      /\ cache' = Put(cache, "cpu", call.key, call.copy)
      /\ call' = [call EXCEPT !.to = "gpu"]
      /\ budget' = budget /\ latest' = latest /\ forked' = forked
  BY Constants DEF Staged, LockFree
<1>2. /\ CacheInv' /\ History' /\ \A j \in Keys : Served(j)'
      /\ cache'.copies["cpu"][call.key] = call.copy
      /\ \A u \in Tiers : u # "cpu" => cache'.copies[u][call.key] = cache.copies[u][call.key]
  <2>1. PICK k, copy : k = call.key /\ copy = call.copy
    OBVIOUS
  <2>2. /\ CacheInv' /\ History' /\ \A j \in Keys : Served(j)'
        /\ cache'.copies["cpu"][k] = copy
        /\ \A u \in Tiers : u # "cpu" => cache'.copies[u][k] = cache.copies[u][k]
    BY <1>1, <2>1, PromotionServes
  <2> QED
    BY <2>1, <2>2
<1>3. /\ call \in CallType /\ call.copy.version > 0 /\ ~Stored(cache, "gpu", call.key)
  BY <1>1 DEF TieredInv, CallInv
<1>4. /\ call' \in CallType /\ call'.to = "gpu" /\ call'.key = call.key
      /\ call'.copy = call.copy
  BY <1>1, <1>3, Constants DEF CallType
<1>5. cache'.copies["gpu"][call.key] = cache.copies["gpu"][call.key]
  BY <1>2, Constants
<1>6. CallInv'
  BY <1>2, <1>3, <1>4, <1>5 DEF CallInv, Stored
<1> QED
  BY <1>2, <1>6 DEF TieredInv

(* The copy reaches the GPU.                                               *)
LEMMA PromotedKeeps ==
    ASSUME TieredInv, Promoted
    PROVE  TieredInv'
<1>1. /\ call # Idle /\ call.to = "gpu" /\ "gpu" \in Memory
      /\ ~Lacks(cache, "gpu", Size[call.key])
      /\ cache' = Put(cache, "gpu", call.key, call.copy)
      /\ call' = Idle
      /\ budget' = budget /\ latest' = latest /\ forked' = forked
  BY Constants DEF Promoted, LockFree
<1>2. CacheInv' /\ History' /\ \A j \in Keys : Served(j)'
  <2>1. PICK k, copy : k = call.key /\ copy = call.copy
    OBVIOUS
  <2> QED
    BY <1>1, <2>1, PromotionServes
<1>3. CallInv'
  BY <1>1 DEF CallInv
<1> QED
  BY <1>2, <1>3 DEF TieredInv

(* The whole of read, by whomever.                                         *)
LEMMA ReadKeeps ==
    ASSUME TieredInv, NEW k \in Keys, NEW by \in {"caller", "consumer"}, Read(by, k)
    PROVE  TieredInv'
<1>1. CASE ReadHit(by, k)
  BY <1>1, HitKeeps
<1>2. CASE ReadStart(by, k)
  BY <1>2, StartKeeps
<1>3. CASE ReadRaises(by, k)
  <2>1. UNCHANGED tieredVars
    BY <1>3 DEF ReadRaises
  <2> QED
    BY <2>1, TieredStutters
<1> QED
  BY <1>1, <1>2, <1>3 DEF Read

(* What follows once the lock is held.                                     *)
LEMMA ContinueKeeps ==
    ASSUME TieredInv, ContinueRead
    PROVE  TieredInv'
BY RoomKeeps, StagedKeeps, PromotedKeeps DEF ContinueRead

-----------------------------------------------------------------------------
(* The thread, its callers and the cache together.                         *)

PrefetchTypes ==
    /\ hints \in Seq(Keys)
    /\ hinted \in 0..MaxHints
    /\ stop \in BOOLEAN
    /\ consumer \in {"waiting", "holding", "reading", "exited"}
    /\ upcoming \in {{}} \union {{k} : k \in Keys}
    /\ join \in {"no", "waiting", "joined", "timed out"}

IInv == TieredInv /\ PrefetchTypes

(* A new cache stores nothing.                                             *)
LEMMA EmptyAccounted ==
    budget \in Budgets => Accounted(EmptyTiers) /\ Plain(EmptyTiers)
<1> SUFFICES ASSUME budget \in Budgets
             PROVE  Accounted(EmptyTiers) /\ Plain(EmptyTiers)
  OBVIOUS
<1> DEFINE e == EmptyTiers
<1>1. /\ \A t \in Tiers, k \in Keys : e.copies[t][k] = NoCopy
      /\ \A t \in Memory : e.lru[t] = <<>> /\ e.usage[t] = 0
      /\ e \in CacheType
  <2>1. NoCopy \in Copy
    BY Constants DEF NoCopy, Copy
  <2>2. <<>> \in Seq(Keys)
    BY EmptySeq
  <2> QED
    BY <2>1, <2>2 DEF EmptyTiers, CacheType
<1> HIDE DEF e
<1>2. \A t \in Tiers, k \in Keys : ~Stored(e, t, k) /\ ~e.copies[t][k].exact
  BY <1>1 DEF Stored, NoCopy
<1>3. \A t \in Memory : Bytes(e, t) = 0
  <2> SUFFICES ASSUME NEW t \in Memory PROVE Bytes(e, t) = 0
    OBVIOUS
  <2>1. Holding(e, t) = {}
    BY <1>2, Constants DEF Holding
  <2> QED
    BY <2>1, Weights DEF Bytes
<1>4. ListsCover(e)
  <2>1. IsInjective(<<>>)
    BY DEF IsInjective
  <2> QED
    BY <1>1, <1>2, <2>1, Constants DEF ListsCover
<1>5. CountersCover(e)
  BY <1>1, <1>3 DEF CountersCover
<1>6. BudgetsHold(e)
  <2>1. \A t \in Memory : budget[t] \in Nat
    BY Constants
  <2> QED
    BY <1>3, <2>1 DEF BudgetsHold
<1> QED
  BY <1>1, <1>2, <1>4, <1>5, <1>6 DEF Accounted, Plain, e

(* It holds at first.                                                      *)
LEMMA InitInvariant ==
    ASSUME PrefetchInit
    PROVE  IInv
<1>1. CacheInv
  BY EmptyAccounted DEF PrefetchInit, Init, CacheInv
<1>2. History
  BY Constants DEF PrefetchInit, Init, History
<1>3. CallInv /\ \A k \in Keys : Served(k)
  BY DEF PrefetchInit, Init, CallInv, Served, Written
<1>4. PrefetchTypes
  <2>1. hints \in Seq(Keys)
    BY EmptySeq DEF PrefetchInit
  <2>2. hinted \in 0..MaxHints
    BY PrefetchAssumption DEF PrefetchInit
  <2> QED
    BY <2>1, <2>2 DEF PrefetchInit, PrefetchTypes
<1> QED
  BY <1>1, <1>2, <1>3, <1>4 DEF IInv, TieredInv

(* Every step of every actor keeps the part about the cache.               *)
LEMMA NextTiered ==
    ASSUME IInv, Next
    PROVE  TieredInv'
<1>0. TieredInv
  BY DEF IInv
<1>1. CASE CallCache
  <2>1. PICK k \in Keys : AllocateBlock(k) \/ WriteBlock(k) \/ Read("caller", k)
    BY <1>1 DEF CallCache
  <2> QED
    BY <1>0, <2>1, AllocateKeeps, WriteKeeps, ReadKeeps
<1>2. CASE CallEvict
  BY <1>0, <1>2, EvictKeeps DEF CallEvict
<1>3. CASE CallContinues
  BY <1>0, <1>3, ContinueKeeps DEF CallContinues
<1>4. CASE (\E k \in Keys : Hint(k)) \/ Stop \/ EndJoin \/ Pop \/ Exit
  <2>1. UNCHANGED tieredVars
    BY <1>4 DEF Hint, Stop, EndJoin, Pop, Exit
  <2> QED
    BY <1>0, <2>1, TieredStutters
<1>5. CASE ReadAhead
  <2>1. PICK k \in upcoming : Read("consumer", k)
    BY <1>5 DEF ReadAhead
  <2>2. k \in Keys
    BY DEF IInv, PrefetchTypes
  <2> QED
    BY <1>0, <2>1, <2>2, ReadKeeps
<1>6. CASE ReadAheadContinues
  BY <1>0, <1>6, ContinueKeeps DEF ReadAheadContinues
<1> QED
  BY <1>1, <1>2, <1>3, <1>4, <1>5, <1>6 DEF Next, Consume

(* And the part about the thread.                                          *)
LEMMA NextPrefetch ==
    ASSUME PrefetchTypes, Next
    PROVE  PrefetchTypes'
<1>1. CASE CallCache \/ CallEvict \/ CallContinues
  BY <1>1 DEF PrefetchTypes, CallCache, CallEvict, CallContinues, prefetchVars
<1>2. ASSUME NEW k \in Keys, Hint(k) PROVE PrefetchTypes'
  <2>1. Append(hints, k) \in Seq(Keys)
    BY AppendProperties DEF PrefetchTypes
  <2>2. hinted' \in 0..MaxHints
    <3>1. hinted < MaxHints /\ hinted' = hinted + 1 /\ hinted \in 0..MaxHints
      BY <1>2 DEF PrefetchTypes, Hint
    <3> QED
      BY <3>1, PrefetchAssumption
  <2> QED
    BY <1>2, <2>1, <2>2 DEF PrefetchTypes, Hint
<1>3. CASE Stop
  BY <1>3 DEF PrefetchTypes, Stop
<1>4. CASE EndJoin
  BY <1>4 DEF PrefetchTypes, EndJoin
<1>5. CASE Pop
  <2>1. PICK i \in DOMAIN hints : /\ upcoming' = {hints[i]}
                                  /\ hints' = RemoveAt(hints, i)
    BY <1>5 DEF Pop
  <2>2. hints' \in Seq(Keys)
    BY <2>1, RemovedPlace DEF PrefetchTypes
  <2>3. hints[i] \in Keys
    BY <2>1, ElementOfSeq, LenProperties DEF PrefetchTypes
  <2> QED
    BY <1>5, <2>1, <2>2, <2>3 DEF PrefetchTypes, Pop
<1>6. CASE Exit
  BY <1>6 DEF PrefetchTypes, Exit
<1>7. CASE ReadAhead
  BY <1>7 DEF PrefetchTypes, ReadAhead
<1>8. CASE ReadAheadContinues
  BY <1>8 DEF PrefetchTypes, ReadAheadContinues
<1> QED
  BY <1>1, <1>2, <1>3, <1>4, <1>5, <1>6, <1>7, <1>8 DEF Next, Consume

(* IInv holds of every state.                                              *)
LEMMA Invariance ==
  Spec => []IInv
<1>1. PrefetchInit => IInv
  BY InitInvariant
<1>2. IInv /\ [Next]_vars => IInv'
  <2> SUFFICES ASSUME IInv, [Next]_vars PROVE IInv'
    OBVIOUS
  <2>1. CASE Next
    BY <2>1, NextTiered, NextPrefetch DEF IInv
  <2>2. CASE UNCHANGED vars
    <3>1. UNCHANGED tieredVars /\ UNCHANGED prefetchVars
      BY <2>2 DEF vars
    <3>2. TieredInv'
      BY <3>1, TieredStutters DEF IInv
    <3>3. PrefetchTypes'
      BY <3>1 DEF IInv, PrefetchTypes, prefetchVars
    <3> QED
      BY <3>2, <3>3 DEF IInv
  <2> QED
    BY <2>1, <2>2
<1> QED
  BY <1>1, <1>2, PTL DEF Spec

-----------------------------------------------------------------------------
(* The theorems.                                                           *)

(* Every variable of the cache and of the thread keeps its type; the LRU   *)
(* lists and the queue of hints stay lists of blocks, and the usage        *)
(* counters never become negative.                                         *)
THEOREM TypeCorrect ==
  Spec => []TypeOK
<1>1. IInv => TypeOK
  BY DEF IInv, TieredInv, CacheInv, Accounted, History, CallInv, CallType,
         PrefetchTypes, TypeOK
<1> QED
  BY <1>1, Invariance, PTL

(* However the counters leak and whatever promotions overran: the usage    *)
(* counter of a memory covers the tensors it stores, these fit in the      *)
(* budget, and evict finds each of them in the LRU list, once.             *)
THEOREM TensorsAlwaysAccounted ==
  Spec => []TensorsAccounted
<1>1. IInv => TensorsAccounted
  <2> SUFFICES ASSUME IInv, NEW t \in Memory
               PROVE  UsageCoversStore(t) /\ StoredWithinBudget(t) /\ LruCoversStore(t)
    BY DEF TensorsAccounted
  <2>1. ListsCover(cache) /\ CountersCover(cache) /\ BudgetsHold(cache)
    BY DEF IInv, TieredInv, CacheInv, Accounted
  <2>2. StoredBytes(t) = Bytes(cache, t)
    BY DEF StoredBytes, Bytes, Holding
  <2>3. UsageCoversStore(t)
    BY <2>1, <2>2 DEF UsageCoversStore, CountersCover
  <2>4. StoredWithinBudget(t)
    BY <2>1, <2>2 DEF StoredWithinBudget, BudgetsHold, Enough
  <2>5. LruCoversStore(t)
    BY <2>1 DEF LruCoversStore, ListsCover, Listed, In
  <2> QED
    BY <2>3, <2>4, <2>5
<1> QED
  BY <1>1, Invariance, PTL

(* Whatever evictions and promotions run, read() finds a block that was    *)
(* written; what it returns is the version last written, and the best copy *)
(* there is, unless that write left a copy in the other memory.            *)
THEOREM AlwaysServedFresh ==
  Spec => []ServedIsFresh
<1>1. IInv => ServedIsFresh
  <2> SUFFICES ASSUME IInv, NEW k \in Keys, Written(k)
               PROVE  /\ ReadTier(cache, k) # "none"
                      /\ cache.copies[ReadTier(cache, k)][k].version > 0
                      /\ ~forked[k] =>
                            /\ cache.copies[ReadTier(cache, k)][k].version = latest[k]
                            /\ \/ cache.copies[ReadTier(cache, k)][k].exact
                               \/ \A t \in Tiers : ~cache.copies[t][k].exact
    BY DEF ServedIsFresh
  <2> DEFINE t == ReadTier(cache, k)
  <2>1. Found(cache, k) /\ (~forked[k] => UpToDate(cache, k, latest[k])) /\ Plain(cache)
    BY DEF IInv, TieredInv, CacheInv, Served
  <2>2. /\ t \in Tiers /\ Stored(cache, t, k)
        /\ t \in Memory \/ \A u \in Memory : ~Stored(cache, u, k)
    BY <2>1 DEF ReadTier, Found, Memory, Tiers
  <2> HIDE DEF t
  <2>3. ASSUME ~forked[k] PROVE cache.copies[t][k].version = latest[k]
    BY <2>1, <2>2, <2>3, Constants DEF UpToDate
  <2>4. ASSUME ~forked[k], ~cache.copies[t][k].exact, NEW u \in Tiers
        PROVE  ~cache.copies[u][k].exact
    <3>1. CASE u \in Memory /\ Stored(cache, u, k)
      <4>1. t \in Memory
        BY <2>2, <3>1
      <4>2. cache.copies[u][k] = cache.copies[t][k]
        BY <2>1, <2>2, <2>4, <3>1, <4>1 DEF UpToDate
      <4> QED
        BY <2>4, <4>2
    <3>2. CASE ~(u \in Memory /\ Stored(cache, u, k))
      BY <2>1, <3>2, Constants DEF Plain
    <3> QED
      BY <3>1, <3>2
  <2> QED
    BY <2>2, <2>3, <2>4, Constants DEF t, Stored, Tiers, Memory
<1> QED
  BY <1>1, Invariance, PTL

=============================================================================
