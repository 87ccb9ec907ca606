--------------------------- MODULE KVPagesProofs ---------------------------
(***************************************************************************)
(* Lemmas about the operators of KVPages: each method of class KVCache     *)
(* takes a consistent cache to a consistent cache.  They are stated for    *)
(* every cache value, so that any machine built on KVPages can cite them.  *)
(***************************************************************************)
EXTENDS KVPages, FiniteSetTheorems, TLAPS

(* The inductive part of consistency: types, table and counters.           *)
Consistent(c) == CacheType(c) /\ TablesIndexed(c) /\ CountersExact(c)

-----------------------------------------------------------------------------
(* Counting tokens.                                                        *)

(* The slots of some live pages are finitely many.                         *)
LEMMA SlotsFinite ==
  ASSUME NEW c, CacheType(c), NEW S
  PROVE  /\ IsFiniteSet(Slots(c, S))
         /\ Tokens(c, S) \in Nat
<1>1. Slots(c, S) \in SUBSET c.fill
  BY DEF Slots
<1>2. IsFiniteSet(Slots(c, S))
  BY <1>1, FS_Subset DEF CacheType
<1> QED
  BY <1>2, FS_CardinalityType DEF Tokens

(* Tokens is additive over disjoint sets of pages.                         *)
LEMMA TokensDisjoint ==
  ASSUME NEW c, CacheType(c), NEW S, NEW T, S \cap T = {}
  PROVE  Tokens(c, S \cup T) = Tokens(c, S) + Tokens(c, T)
<1>1. Slots(c, S \cup T) = Slots(c, S) \cup Slots(c, T)
  BY DEF Slots
<1>2. Slots(c, S) \cap Slots(c, T) = {}
  BY DEF Slots
<1>3. Cardinality({}) = 0
  BY FS_EmptySet
<1>4. IsFiniteSet(Slots(c, S)) /\ IsFiniteSet(Slots(c, T))
  BY SlotsFinite
<1>5. Cardinality(Slots(c, S) \cup Slots(c, T))
        = Cardinality(Slots(c, S)) + Cardinality(Slots(c, T))
            - Cardinality(Slots(c, S) \cap Slots(c, T))
  BY <1>4, FS_Union
<1>6. Cardinality(Slots(c, S)) \in Nat /\ Cardinality(Slots(c, T)) \in Nat
  BY <1>4, FS_CardinalityType
<1>7. Cardinality(Slots(c, S) \cap Slots(c, T)) = 0
  BY <1>2, <1>3, Zenon
<1>8. Tokens(c, S \cup T) = Cardinality(Slots(c, S) \cup Slots(c, T))
  BY <1>1, Zenon DEF Tokens
<1> QED
  BY <1>5, <1>6, <1>7, <1>8 DEF Tokens

(* Tokens depends on the fill relation only.                               *)
LEMMA TokensSameFill ==
  ASSUME NEW c, NEW d, d.fill = c.fill, NEW S
  PROVE  Tokens(d, S) = Tokens(c, S)
  BY DEF Tokens, Slots

(* What is left of S when V is taken out.                                  *)
LEMMA TokensSplit ==
  ASSUME NEW c, CacheType(c), NEW S, NEW V
  PROVE  Tokens(c, S \ V) = Tokens(c, S) - Tokens(c, S \cap V)
<1>1. S = (S \ V) \cup (S \cap V) /\ (S \ V) \cap (S \cap V) = {}
  OBVIOUS
<1>2. Tokens(c, (S \ V) \cup (S \cap V)) = Tokens(c, S \ V) + Tokens(c, S \cap V)
  BY <1>1, TokensDisjoint
<1>3. Tokens(c, S) = Tokens(c, S \ V) + Tokens(c, S \cap V)
  BY <1>1, <1>2, Zenon
<1>4. Tokens(c, S \ V) \in Nat /\ Tokens(c, S \cap V) \in Nat
  BY SlotsFinite
<1> QED
  BY <1>3, <1>4

-----------------------------------------------------------------------------
(* Removing pages.                                                         *)

(* Removing any live pages keeps the cache consistent.                     *)
LEMMA DroppedConsistent ==
  ASSUME NEW c, Consistent(c), NEW V \in SUBSET c.pages
  PROVE  Consistent(Dropped(c, V))
<1> DEFINE d == Dropped(c, V)
<1> USE PagingAssumption
<1>0. CacheType(c) /\ TablesIndexed(c) /\ CountersExact(c)
  BY DEF Consistent
<1>1. c \in Cache /\ IsFiniteSet(c.pages) /\ IsFiniteSet(c.fill)
  BY <1>0 DEF CacheType
<1>2. IsFiniteSet(V) /\ Cardinality(V) \in Nat /\ Cardinality(c.pages) \in Nat
  BY <1>1, FS_Subset, FS_CardinalityType
<1>3. Tokens(c, V) \in Nat /\ Tokens(c, V \cap c.pinned) \in Nat
  BY <1>0, SlotsFinite
<1>4. /\ d.pages = c.pages \ V
      /\ d.pinned = c.pinned \ V
      /\ d.committed = c.committed \ V
      /\ d.draft = c.draft \ V
      /\ d.fill = {s \in c.fill : s[1] \notin V}
      /\ d.table = {e \in c.table : e[2] \notin V}
      /\ d.older = {e \in c.older : e[1] \notin V /\ e[2] \notin V}
      /\ d.serial = c.serial
      /\ d.liveTokens = c.liveTokens - Tokens(c, V)
      /\ d.pinnedTokens = c.pinnedTokens - Tokens(c, V \cap c.pinned)
      /\ d.capacityTokens = c.capacityTokens - PageSize * Cardinality(V)
  BY <1>1 DEF Dropped, Cache
<1>5. d \in Cache
  <2>1. /\ c.liveTokens - Tokens(c, V) \in Int
        /\ c.pinnedTokens - Tokens(c, V \cap c.pinned) \in Int
        /\ c.capacityTokens - PageSize * Cardinality(V) \in Int
    BY <1>1, <1>2, <1>3 DEF Cache
  <2>2. /\ c.pages \ V \in SUBSET PageIds
        /\ c.pinned \ V \in SUBSET PageIds
        /\ c.committed \ V \in SUBSET PageIds
        /\ c.draft \ V \in SUBSET PageIds
    BY <1>1 DEF Cache
  <2>3. /\ {s \in c.fill : s[1] \notin V} \in SUBSET (PageIds \X Nat)
        /\ {e \in c.table : e[2] \notin V} \in SUBSET (Keys \X PageIds)
        /\ {e \in c.older : e[1] \notin V /\ e[2] \notin V}
              \in SUBSET (PageIds \X PageIds)
    BY <1>1 DEF Cache
  <2> QED
    BY <1>1, <2>1, <2>2, <2>3 DEF Dropped, Cache
<1> HIDE DEF d
<1>6. CacheType(d)
  <2>2. IsFiniteSet(d.pages) /\ IsFiniteSet(d.fill)
    <3>1. d.pages \in SUBSET c.pages /\ d.fill \in SUBSET c.fill
      BY <1>4
    <3> QED
      BY <1>1, <3>1, FS_Subset
  <2> QED
    BY <1>0, <1>4, <1>5, <2>2 DEF CacheType
<1>7. TablesIndexed(d)
  BY <1>0, <1>4 DEF TablesIndexed
<1>9. \A S, T : Tokens(c, S \ T) = Tokens(c, S) - Tokens(c, S \cap T)
  BY <1>0, TokensSplit
<1>8. CountersExact(d)
  <2>1. d.liveTokens = Tokens(d, d.pages)
    <3>1. Slots(d, d.pages) = Slots(c, c.pages \ V)
      BY <1>4 DEF Slots
    <3>2. Tokens(c, c.pages \ V) = Tokens(c, c.pages) - Tokens(c, c.pages \cap V)
      BY <1>9, Zenon
    <3>3. c.pages \cap V = V
      OBVIOUS
    <3> QED
      BY <3>1, <3>2, <3>3, <1>0, <1>4, Zenon DEF CountersExact, Tokens
  <2>2. d.pinnedTokens = Tokens(d, d.pinned)
    <3>1. Slots(d, d.pinned) = Slots(c, c.pinned \ V)
      BY <1>4 DEF Slots
    <3>2. Tokens(c, c.pinned \ V)
            = Tokens(c, c.pinned) - Tokens(c, c.pinned \cap V)
      BY <1>9, Zenon
    <3>3. c.pinned \cap V = V \cap c.pinned
      OBVIOUS
    <3> QED
      BY <3>1, <3>2, <3>3, <1>0, <1>4, Zenon DEF CountersExact, Tokens
  <2>3. d.capacityTokens = PageSize * Cardinality(d.pages)
    <3>1. Cardinality(c.pages \ V) = Cardinality(c.pages) - Cardinality(V)
      <4>1. c.pages \cap V = V
        OBVIOUS
      <4> QED
        BY <4>1, <1>1, FS_Difference
    <3> QED
      BY <3>1, <1>0, <1>2, <1>4 DEF CountersExact
  <2> QED
    BY <2>1, <2>2, <2>3 DEF CountersExact
<1> QED
  BY <1>6, <1>7, <1>8 DEF Consistent, d

(* The lists of a request hold exactly its live pages.                     *)
LEMMA PagesOfLive ==
  ASSUME NEW c, TablesIndexed(c), NEW r
  PROVE  PagesOf(c, r) = {p \in c.pages : Owner(p) = r}
<1>1. ASSUME NEW e \in c.table
      PROVE  e[2] \in c.pages /\ e[1][1] = Owner(e[2])
  <2>1. PICK p \in c.pages : e = <<Key(p), p>>
    BY DEF TablesIndexed
  <2>2. e[2] = p /\ e[1] = Key(p)
    BY <2>1
  <2> QED
    BY <2>2 DEF Key, Owner
<1>2. ASSUME NEW p \in c.pages
      PROVE  <<Key(p), p>> \in c.table
  BY DEF TablesIndexed
<1>3. PagesOf(c, r) \subseteq {p \in c.pages : Owner(p) = r}
  BY <1>1 DEF PagesOf
<1>4. ASSUME NEW p \in c.pages, Owner(p) = r
      PROVE  p \in PagesOf(c, r)
  <2> DEFINE e == <<Key(p), p>>
  <2>1. e \in c.table
    BY <1>2
  <2>2. e[1][1] = r /\ e[2] = p
    BY <1>4 DEF Key, Owner
  <2> HIDE DEF e
  <2>3. e \in {d \in c.table : d[1][1] = r}
    BY <2>1, <2>2
  <2> QED
    BY <2>2, <2>3, Zenon DEF PagesOf
<1> QED
  BY <1>3, <1>4

(* release_request: the counters it clamps are not negative.               *)
LEMMA ReleasedConsistent ==
  ASSUME NEW c, Consistent(c), NEW r
  PROVE  Consistent(Released(c, r)) /\ Released(c, r) = Dropped(c, PagesOf(c, r))
<1> DEFINE d == Dropped(c, PagesOf(c, r))
<1>1. PagesOf(c, r) \in SUBSET c.pages
  BY PagesOfLive DEF Consistent
<1>2. Consistent(d)
  BY <1>1, DroppedConsistent
<1> HIDE DEF d
<1>3. d.liveTokens \in Nat /\ d.pinnedTokens \in Nat
  BY <1>2, SlotsFinite DEF Consistent, CountersExact
<1>4. d.capacityTokens \in Nat
  <2>1. Cardinality(d.pages) \in Nat
    BY <1>2, FS_CardinalityType DEF Consistent, CacheType
  <2>2. PageSize * Cardinality(d.pages) \in Nat
    BY <2>1, PagingAssumption
  <2> QED
    BY <1>2, <2>2 DEF Consistent, CountersExact
<1>5. Clamp(d.liveTokens) = d.liveTokens
  BY <1>3 DEF Clamp
<1>6. Clamp(d.pinnedTokens) = d.pinnedTokens
  BY <1>3 DEF Clamp
<1>7. Clamp(d.capacityTokens) = d.capacityTokens
  BY <1>4 DEF Clamp
<1>8. Released(c, r) = [d EXCEPT !.liveTokens     = d.liveTokens,
                                 !.pinnedTokens   = d.pinnedTokens,
                                 !.capacityTokens = d.capacityTokens]
  BY <1>5, <1>6, <1>7, Zenon DEF Released, d
<1>9. d \in Cache
  BY <1>2 DEF Consistent, CacheType
<1>10. Released(c, r) = d
  BY <1>8, <1>9 DEF Cache
<1> QED
  BY <1>2, <1>10 DEF d

-----------------------------------------------------------------------------
(* Changing the order or the flags of pages.                               *)

(* A change of the LRU order alone.                                        *)
LEMMA ReorderedConsistent ==
  ASSUME NEW c, Consistent(c),
         NEW o \in SUBSET (c.pages \X c.pages)
  PROVE  Consistent([c EXCEPT !.older = o])
<1> DEFINE d == [c EXCEPT !.older = o]
<1>0. CacheType(c) /\ TablesIndexed(c) /\ CountersExact(c)
  BY DEF Consistent
<1>1. c \in Cache /\ o \in SUBSET (PageIds \X PageIds)
  BY <1>0 DEF CacheType, Cache
<1>2. d \in Cache
  BY <1>1 DEF Cache
<1>3. /\ d.pages = c.pages /\ d.pinned = c.pinned
      /\ d.committed = c.committed /\ d.draft = c.draft
      /\ d.fill = c.fill /\ d.table = c.table /\ d.serial = c.serial
      /\ d.older = o
      /\ d.liveTokens = c.liveTokens /\ d.pinnedTokens = c.pinnedTokens
      /\ d.capacityTokens = c.capacityTokens
  BY <1>1 DEF Cache
<1> HIDE DEF d
<1>4. CacheType(d)
  BY <1>0, <1>2, <1>3 DEF CacheType
<1>5. TablesIndexed(d)
  BY <1>0, <1>3 DEF TablesIndexed
<1>6. CountersExact(d)
  BY <1>0, <1>3 DEF CountersExact, Tokens, Slots
<1> QED
  BY <1>4, <1>5, <1>6 DEF Consistent, d

(* touch_pages.                                                            *)
LEMMA TouchedConsistent ==
  ASSUME NEW c, Consistent(c), NEW S \in SUBSET c.pages
  PROVE  Consistent(Touched(c, S, ListOrder(S)))
<1>1. MovedToEnd(c, S, ListOrder(S)) \in SUBSET (c.pages \X c.pages)
  BY DEF MovedToEnd, ListOrder, Consistent, CacheType
<1> QED
  BY <1>1, ReorderedConsistent DEF Touched

(* A change of the committed and draft flags of live pages.                *)
LEMMA FlaggedConsistent ==
  ASSUME NEW c, Consistent(c), NEW C \in SUBSET c.pages, NEW D \in SUBSET c.pages
  PROVE  Consistent([c EXCEPT !.committed = C, !.draft = D])
<1> DEFINE d == [c EXCEPT !.committed = C, !.draft = D]
<1>0. CacheType(c) /\ TablesIndexed(c) /\ CountersExact(c)
  BY DEF Consistent
<1>1. c \in Cache /\ C \in SUBSET PageIds /\ D \in SUBSET PageIds
  BY <1>0 DEF CacheType, Cache
<1>2. d \in Cache
  BY <1>1 DEF Cache
<1>3. /\ d.pages = c.pages /\ d.pinned = c.pinned
      /\ d.committed = C /\ d.draft = D
      /\ d.fill = c.fill /\ d.table = c.table /\ d.serial = c.serial
      /\ d.older = c.older
      /\ d.liveTokens = c.liveTokens /\ d.pinnedTokens = c.pinnedTokens
      /\ d.capacityTokens = c.capacityTokens
  BY <1>1 DEF Cache
<1> HIDE DEF d
<1>4. CacheType(d)
  BY <1>0, <1>2, <1>3 DEF CacheType
<1>5. TablesIndexed(d)
  BY <1>0, <1>3 DEF TablesIndexed
<1>6. CountersExact(d)
  BY <1>0, <1>3 DEF CountersExact, Tokens, Slots
<1> QED
  BY <1>4, <1>5, <1>6 DEF Consistent, d

(* commit_tokens, allocate_draft_pages and accept_draft_pages, once their  *)
(* allocation is done.                                                     *)
LEMMA MarkedConsistent ==
  ASSUME NEW c, Consistent(c), NEW r
  PROVE  /\ Consistent(Marked(c, r))
         /\ Consistent(Drafted(c, r))
         /\ Consistent(DraftsAccepted(c, r))
<1>1. PagesOf(c, r) \in SUBSET c.pages
  BY PagesOfLive DEF Consistent
<1>2. c.committed \in SUBSET c.pages /\ c.draft \in SUBSET c.pages
  BY DEF Consistent, CacheType
<1>3. Consistent(Marked(c, r))
  <2>1. /\ c.committed \cup PagesOf(c, r) \in SUBSET c.pages
        /\ c.draft \ PagesOf(c, r) \in SUBSET c.pages
    BY <1>1, <1>2
  <2> QED
    BY <2>1, FlaggedConsistent DEF Marked
<1>4. Consistent(Drafted(c, r))
  <2>1. c.draft \cup (PagesOf(c, r) \ c.committed) \in SUBSET c.pages
    BY <1>1, <1>2
  <2>2. Consistent([c EXCEPT !.committed = c.committed,
                             !.draft = c.draft \cup (PagesOf(c, r) \ c.committed)])
    BY <1>2, <2>1, FlaggedConsistent
  <2>3. c \in Cache
    BY DEF Consistent, CacheType
  <2>4. Drafted(c, r)
          = [c EXCEPT !.committed = c.committed,
                      !.draft = c.draft \cup (PagesOf(c, r) \ c.committed)]
    BY <2>3 DEF Drafted, Cache
  <2> QED
    BY <2>2, <2>4
<1>5. Consistent(DraftsAccepted(c, r))
  <2>1. /\ c.committed \cup (PagesOf(c, r) \cap c.draft) \in SUBSET c.pages
        /\ c.draft \ PagesOf(c, r) \in SUBSET c.pages
    BY <1>1, <1>2
  <2> QED
    BY <2>1, FlaggedConsistent DEF DraftsAccepted
<1> QED
  BY <1>3, <1>4, <1>5

-----------------------------------------------------------------------------
(* Pins.                                                                   *)

(* A change of the pins of live pages, with the counter it calls for.      *)
LEMMA RepinnedConsistent ==
  ASSUME NEW c, Consistent(c), NEW P \in SUBSET c.pages,
         NEW n, n = Tokens(c, P)
  PROVE  Consistent([c EXCEPT !.pinned = P, !.pinnedTokens = n])
<1> DEFINE d == [c EXCEPT !.pinned = P, !.pinnedTokens = n]
<1>0. CacheType(c) /\ TablesIndexed(c) /\ CountersExact(c)
  BY DEF Consistent
<1>1. c \in Cache /\ P \in SUBSET PageIds /\ n \in Int
  BY <1>0, SlotsFinite DEF CacheType, Cache
<1>2. d \in Cache
  BY <1>1 DEF Cache
<1>3. /\ d.pages = c.pages /\ d.pinned = P
      /\ d.committed = c.committed /\ d.draft = c.draft
      /\ d.fill = c.fill /\ d.table = c.table /\ d.serial = c.serial
      /\ d.older = c.older
      /\ d.liveTokens = c.liveTokens /\ d.pinnedTokens = n
      /\ d.capacityTokens = c.capacityTokens
  BY <1>1 DEF Cache
<1> HIDE DEF d
<1>4. CacheType(d)
  BY <1>0, <1>2, <1>3 DEF CacheType
<1>5. TablesIndexed(d)
  BY <1>0, <1>3 DEF TablesIndexed
<1>6. CountersExact(d)
  BY <1>0, <1>3 DEF CountersExact, Tokens, Slots
<1> QED
  BY <1>4, <1>5, <1>6 DEF Consistent, d

(* pin_pages counts the pages that were not pinned, unpin_pages those that *)
(* were.                                                                   *)
LEMMA PinsConsistent ==
  ASSUME NEW c, Consistent(c), NEW S
  PROVE  Consistent(PinsSet(c, S)) /\ Consistent(PinsCleared(c, S))
<1>0. CacheType(c) /\ CountersExact(c)
  BY DEF Consistent
<1>1. c.pinned \in SUBSET c.pages
  BY <1>0 DEF CacheType
<1>2. Consistent(PinsSet(c, S))
  <2> DEFINE P == c.pinned \cup (S \cap c.pages)
             N == S \cap Unpinned(c)
  <2>1. P \in SUBSET c.pages
    BY <1>1
  <2>2. P = c.pinned \cup N /\ c.pinned \cap N = {}
    BY <1>1 DEF Unpinned
  <2> HIDE DEF P, N
  <2>3. Tokens(c, c.pinned \cup N) = Tokens(c, c.pinned) + Tokens(c, N)
    <3>1. \A A, B : A \cap B = {} => Tokens(c, A \cup B) = Tokens(c, A) + Tokens(c, B)
      BY <1>0, TokensDisjoint
    <3> QED
      BY <2>2, <3>1, Zenon
  <2>4. c.pinnedTokens + Tokens(c, N) = Tokens(c, P)
    BY <2>2, <2>3, <1>0, Zenon DEF CountersExact
  <2> QED
    BY <2>1, <2>4, RepinnedConsistent DEF PinsSet, P, N
<1>3. Consistent(PinsCleared(c, S))
  <2> DEFINE P == c.pinned \ S
  <2>1. P \in SUBSET c.pages
    BY <1>1
  <2>2. c.pinned \cap S = S \cap c.pinned
    OBVIOUS
  <2>3. Tokens(c, P) = Tokens(c, c.pinned) - Tokens(c, S \cap c.pinned)
    <3>1. \A A, B : Tokens(c, A \ B) = Tokens(c, A) - Tokens(c, A \cap B)
      BY <1>0, TokensSplit
    <3> QED
      BY <2>2, <3>1, Zenon
  <2>4. c.pinnedTokens - Tokens(c, S \cap c.pinned) = Tokens(c, P)
    BY <2>3, <1>0, Zenon DEF CountersExact
  <2> HIDE DEF P
  <2> QED
    BY <2>1, <2>4, RepinnedConsistent DEF PinsCleared, P
<1> QED
  BY <1>2, <1>3

-----------------------------------------------------------------------------
(* Creating pages.                                                         *)

(* The values of a function on a finite set.                               *)
LEMMA RangeFinite ==
  ASSUME NEW S, IsFiniteSet(S), NEW f, f = [x \in S |-> f[x]]
  PROVE  IsFiniteSet({f[x] : x \in S})
<1> DEFINE T == {f[x] : x \in S}
<1>1. f \in [S -> T]
  OBVIOUS
<1>2. \A y \in T : \E x \in S : f[x] = y
  OBVIOUS
<1> HIDE DEF T
<1>3. f \in Surjection(S, T)
  BY <1>1, <1>2 DEF Surjection
<1>4. IsFiniteSet(T)
  BY <1>3, FS_Surjection
<1> QED
  BY <1>4 DEF T

(* The table lists of a request and layer are finite.                      *)
LEMMA EntriesFinite ==
  ASSUME NEW c, Consistent(c), NEW r, NEW l
  PROVE  IsFiniteSet(Entries(c, r, l)) /\ Cardinality(Entries(c, r, l)) \in Nat
<1> DEFINE f == [p \in c.pages |-> <<Key(p), p>>]
<1>1. IsFiniteSet(c.pages) /\ c.table = {<<Key(p), p>> : p \in c.pages}
  BY DEF Consistent, CacheType, TablesIndexed
<1>2. IsFiniteSet({f[p] : p \in c.pages})
  <2>1. f = [p \in c.pages |-> f[p]]
    OBVIOUS
  <2> HIDE DEF f
  <2> QED
    BY <1>1, <2>1, RangeFinite
<1>3. Entries(c, r, l) \in SUBSET {f[p] : p \in c.pages}
  BY <1>1 DEF Entries
<1>4. IsFiniteSet(Entries(c, r, l))
  BY <1>2, <1>3, FS_Subset
<1> QED
  BY <1>4, FS_CardinalityType

(* The number of pages a layer lacks is a natural number.                  *)
LEMMA LackingType ==
  ASSUME NEW c, Consistent(c), NEW r, NEW l, NEW total \in Nat
  PROVE  Required(total) \in Nat /\ Lacking(c, r, l, total) \in Nat
<1>1. Required(total) \in Nat
  BY PagingAssumption DEF Required
<1>2. Cardinality(Entries(c, r, l)) \in Nat
  BY EntriesFinite
<1> QED
  BY <1>1, <1>2 DEF Lacking

(* New ids are finitely many, belong to the request, and are fresh: their  *)
(* serials follow those the cache has issued.                              *)
LEMMA NewPagesFresh ==
  ASSUME NEW c, Consistent(c), NEW r \in Requests, NEW total \in Nat
  PROVE  /\ IsFiniteSet(NewPages(c, r, total))
         /\ NewPages(c, r, total) \in SUBSET PageIds
         /\ NewPages(c, r, total) \cap c.pages = {}
         /\ \A p \in NewPages(c, r, total) :
               /\ Owner(p) = r
               /\ Key(p) \in Keys
               /\ p[3] \in Int
               /\ p[3] > c.serial[Key(p)]
               /\ p[3] <= c.serial[Key(p)] + Lacking(c, r, p[2], total)
<1> DEFINE Layer(l) == {<<r, l, c.serial[<<r, l>>] + i>> :
                           i \in 1..Lacking(c, r, l, total)}
           f == [l \in Layers |-> Layer(l)]
<1>0. NewPages(c, r, total) = UNION {Layer(l) : l \in Layers}
  BY DEF NewPages
<1>1. ASSUME NEW l \in Layers
      PROVE  Lacking(c, r, l, total) \in Nat /\ c.serial[<<r, l>>] \in Nat
  <2>1. c.serial \in [Keys -> Nat] /\ <<r, l>> \in Keys
    BY DEF Consistent, CacheType, Cache, Keys
  <2> QED
    BY <2>1, LackingType
<1>2. ASSUME NEW l \in Layers
      PROVE  IsFiniteSet(Layer(l))
  <2> DEFINE I == 1..Lacking(c, r, l, total)
             g == [i \in I |-> <<r, l, c.serial[<<r, l>>] + i>>]
  <2>1. IsFiniteSet(I)
    <3>1. \A n \in Nat : IsFiniteSet(1..n)
      BY FS_Interval
    <3> QED
      BY <1>1, <3>1
  <2>2. g = [i \in I |-> g[i]]
    OBVIOUS
  <2>3. Layer(l) = {g[i] : i \in I}
    OBVIOUS
  <2> HIDE DEF g, I
  <2>4. IsFiniteSet({g[i] : i \in I})
    BY <2>1, <2>2, RangeFinite
  <2> QED
    BY <2>3, <2>4, Zenon
<1>3. ASSUME NEW p \in NewPages(c, r, total)
      PROVE  /\ p \in PageIds
             /\ Owner(p) = r
             /\ Key(p) \in Keys
             /\ p[3] \in Int
             /\ p[3] > c.serial[Key(p)]
             /\ p[3] <= c.serial[Key(p)] + Lacking(c, r, p[2], total)
  <2>1. PICK l \in Layers : p \in Layer(l)
    BY <1>0
  <2>2. PICK i \in 1..Lacking(c, r, l, total) :
           p = <<r, l, c.serial[<<r, l>>] + i>>
    BY <2>1
  <2>3. p[1] = r /\ p[2] = l /\ p[3] = c.serial[<<r, l>>] + i
    BY <2>2
  <2>4. Key(p) = <<r, l>> /\ Owner(p) = r /\ <<r, l>> \in Keys
    BY <2>3 DEF Key, Owner, Keys
  <2>5. c.serial[<<r, l>>] + i \in Nat \ {0}
    BY <1>1, <2>2
  <2>6. p \in PageIds
    BY <2>2, <2>5 DEF PageIds
  <2> QED
    BY <1>1, <2>2, <2>3, <2>4, <2>6
<1>4. IsFiniteSet(NewPages(c, r, total))
  <2>1. IsFiniteSet({f[l] : l \in Layers})
    <3>1. f = [l \in Layers |-> f[l]]
      OBVIOUS
    <3> HIDE DEF f
    <3> QED
      BY <3>1, RangeFinite, PagingAssumption
  <2>2. \A T \in {f[l] : l \in Layers} : IsFiniteSet(T)
    BY <1>2
  <2>3. IsFiniteSet(UNION {f[l] : l \in Layers})
    BY <2>1, <2>2, FS_UNION
  <2>4. NewPages(c, r, total) = UNION {f[l] : l \in Layers}
    BY <1>0
  <2> QED
    BY <2>3, <2>4, Zenon
<1>5. ASSUME NEW p \in NewPages(c, r, total) PROVE p \notin c.pages
  <2>1. SUFFICES ASSUME p \in c.pages PROVE FALSE
    OBVIOUS
  <2>2. p[3] <= c.serial[Key(p)]
    BY <2>1 DEF Consistent, TablesIndexed
  <2>3. c.serial[Key(p)] \in Nat
    BY <1>3 DEF Consistent, CacheType, Cache
  <2> QED
    BY <1>3, <2>2, <2>3
<1> HIDE DEF f, Layer
<1>6. NewPages(c, r, total) \in SUBSET PageIds
  BY <1>3
<1>7. NewPages(c, r, total) \cap c.pages = {}
  BY <1>5
<1> QED
  BY <1>3, <1>4, <1>6, <1>7

(* Each new page covers finitely many positions, all natural numbers.      *)
LEMMA SpanType ==
  ASSUME NEW c, Consistent(c), NEW r \in Requests, NEW total \in Nat,
         NEW p \in NewPages(c, r, total)
  PROVE  Span(c, p, total) \in SUBSET (0..total)
<1> DEFINE before == Cardinality(Entries(c, p[1], p[2]))
                        + (p[3] - c.serial[Key(p)] - 1)
<1>1. Cardinality(Entries(c, p[1], p[2])) \in Nat
  BY EntriesFinite
<1>2. c.serial[Key(p)] \in Nat /\ p[3] \in Int /\ p[3] > c.serial[Key(p)]
  BY NewPagesFresh DEF Consistent, CacheType, Cache
<1>3. before \in Nat
  BY <1>1, <1>2
<1>4. Span(c, p, total)
        = {t \in (before * PageSize)..(before * PageSize + PageSize - 1) :
              t < total}
  BY DEF Span
<1> HIDE DEF before
<1>5. before * PageSize \in Nat
  BY <1>3, PagingAssumption
<1> QED
  BY <1>4, <1>5, PagingAssumption

(* The loops of allocate_for_request that create the pages.                *)
LEMMA GrownConsistent ==
  ASSUME NEW c, Consistent(c), NEW r \in Requests, NEW total \in Nat,
         NEW pin \in BOOLEAN
  PROVE  Consistent(Grown(c, r, total, pin))
<1> DEFINE new    == NewPages(c, r, total)
           filled == UNION {{<<p, t>> : t \in Span(c, p, total)} : p \in new}
           d      == Grown(c, r, total, pin)
<1>0. CacheType(c) /\ TablesIndexed(c) /\ CountersExact(c)
  BY DEF Consistent
<1>1. c \in Cache /\ IsFiniteSet(c.pages) /\ IsFiniteSet(c.fill)
  BY <1>0 DEF CacheType
<1>2. /\ IsFiniteSet(new)
      /\ new \in SUBSET PageIds
      /\ new \cap c.pages = {}
      /\ \A p \in new : /\ Owner(p) = r
                        /\ Key(p) \in Keys
                        /\ p[3] \in Int
                        /\ p[3] <= c.serial[Key(p)] + Lacking(c, r, p[2], total)
  BY NewPagesFresh
<1>3. /\ filled \in SUBSET (new \X (0..total))
      /\ \A s \in filled : s[1] \in new
  <2>1. ASSUME NEW s \in filled
        PROVE  s \in new \X (0..total) /\ s[1] \in new
    <3>1. PICK p \in new : s \in {<<p, t>> : t \in Span(c, p, total)}
      OBVIOUS
    <3>2. PICK t \in Span(c, p, total) : s = <<p, t>>
      BY <3>1
    <3>3. t \in 0..total
      BY <3>2, SpanType
    <3> HIDE DEF new
    <3> QED
      BY <3>2, <3>3
  <2> HIDE DEF filled
  <2> QED
    BY <2>1
<1>4. d = [c EXCEPT
            !.pages  = c.pages \cup new,
            !.pinned = IF pin THEN c.pinned \cup new ELSE c.pinned,
            !.fill   = c.fill \cup filled,
            !.table  = c.table \cup {<<Key(p), p>> : p \in new},
            !.older  = MovedToEnd(c, new, ListOrder(new)),
            !.serial = [k \in Keys |->
                           IF k[1] = r THEN c.serial[k] + Lacking(c, r, k[2], total)
                                       ELSE c.serial[k]],
            !.liveTokens     = c.liveTokens + Cardinality(filled),
            !.pinnedTokens   = c.pinnedTokens
                                   + (IF pin THEN Cardinality(filled) ELSE 0),
            !.capacityTokens = c.capacityTokens + PageSize * Cardinality(new)]
  BY DEF Grown
<1> HIDE DEF d, filled, new
<1>5. IsFiniteSet(filled) /\ Cardinality(filled) \in Nat /\ Cardinality(new) \in Nat
  <2>1. \A n \in Nat : IsFiniteSet(0..n)
    BY FS_Interval
  <2>2. IsFiniteSet(0..total)
    BY <2>1
  <2>3. IsFiniteSet(new \X (0..total))
    BY <1>2, <2>2, FS_Product
  <2>4. IsFiniteSet(filled)
    BY <1>3, <2>3, FS_Subset
  <2> QED
    BY <1>2, <2>4, FS_CardinalityType
<1>6. /\ d.pages = c.pages \cup new
      /\ d.pinned = (IF pin THEN c.pinned \cup new ELSE c.pinned)
      /\ d.committed = c.committed
      /\ d.draft = c.draft
      /\ d.fill = c.fill \cup filled
      /\ d.table = c.table \cup {<<Key(p), p>> : p \in new}
      /\ d.older = MovedToEnd(c, new, ListOrder(new))
      /\ d.serial = [k \in Keys |->
                        IF k[1] = r THEN c.serial[k] + Lacking(c, r, k[2], total)
                                    ELSE c.serial[k]]
      /\ d.liveTokens = c.liveTokens + Cardinality(filled)
      /\ d.pinnedTokens = c.pinnedTokens + (IF pin THEN Cardinality(filled) ELSE 0)
      /\ d.capacityTokens = c.capacityTokens + PageSize * Cardinality(new)
  BY <1>1, <1>4 DEF Cache
<1>7. /\ d.older \in SUBSET (d.pages \X d.pages)
      /\ \A k \in Keys : d.serial[k] \in Nat /\ d.serial[k] >= c.serial[k]
      /\ d.serial \in [Keys -> Nat]
  <2>1. d.older \in SUBSET (d.pages \X d.pages)
    BY <1>0, <1>6 DEF MovedToEnd, ListOrder, CacheType
  <2>2. ASSUME NEW k \in Keys
        PROVE  d.serial[k] \in Nat /\ d.serial[k] >= c.serial[k]
    <3>1. Lacking(c, r, k[2], total) \in Nat
      BY LackingType
    <3>2. c.serial[k] \in Nat
      BY <1>1 DEF Cache
    <3> QED
      BY <1>6, <3>1, <3>2
  <2>3. d.serial \in [Keys -> Nat]
    BY <1>6, <2>2
  <2> QED
    BY <2>1, <2>2, <2>3
<1>8. d \in Cache
  <2>1. /\ c.pages \cup new \in SUBSET PageIds
        /\ (IF pin THEN c.pinned \cup new ELSE c.pinned) \in SUBSET PageIds
        /\ {<<Key(p), p>> : p \in new} \in SUBSET (Keys \X PageIds)
    BY <1>1, <1>2 DEF Cache
  <2>2. filled \in SUBSET (PageIds \X Nat)
    BY <1>2, <1>3
  <2>3. d.older \in SUBSET (PageIds \X PageIds)
    BY <1>6, <1>7, <2>1
  <2>4. /\ d.liveTokens \in Int
        /\ d.pinnedTokens \in Int
        /\ d.capacityTokens \in Int
    <3>1. PageSize * Cardinality(new) \in Int
      BY <1>5, PagingAssumption
    <3> QED
      BY <1>1, <1>5, <1>6, <3>1 DEF Cache
  <2>5. /\ d.fill \in SUBSET (PageIds \X Nat)
        /\ d.table \in SUBSET (Keys \X PageIds)
        /\ d.pages \in SUBSET PageIds
        /\ d.pinned \in SUBSET PageIds
    <3>1. c.fill \in SUBSET (PageIds \X Nat) /\ c.table \in SUBSET (Keys \X PageIds)
      BY <1>1 DEF Cache
    <3> QED
      BY <1>6, <2>1, <2>2, <3>1
  <2>6. d.serial \in [Keys -> Nat]
    BY <1>7
  <2>7. d = [c EXCEPT
              !.pages = d.pages, !.pinned = d.pinned, !.fill = d.fill,
              !.table = d.table, !.older = d.older, !.serial = d.serial,
              !.liveTokens = d.liveTokens, !.pinnedTokens = d.pinnedTokens,
              !.capacityTokens = d.capacityTokens]
    BY <1>4, <1>6, Zenon
  <2> QED
    BY <1>1, <2>3, <2>4, <2>5, <2>6, <2>7 DEF Cache
<1>9. CacheType(d)
  <2>1. IsFiniteSet(d.pages)
    <3>1. IsFiniteSet(c.pages \cup new)
      BY <1>1, <1>2, FS_Union
    <3> QED
      BY <1>6, <3>1, Zenon
  <2>2. IsFiniteSet(d.fill)
    <3>1. IsFiniteSet(c.fill \cup filled)
      BY <1>1, <1>5, FS_Union
    <3> QED
      BY <1>6, <3>1, Zenon
  <2>3. \A s \in d.fill : s[1] \in d.pages
    BY <1>0, <1>3, <1>6 DEF CacheType
  <2>4. /\ d.pinned \subseteq d.pages
        /\ d.committed \subseteq d.pages
        /\ d.draft \subseteq d.pages
    BY <1>0, <1>6 DEF CacheType
  <2> QED
    BY <1>7, <1>8, <2>1, <2>2, <2>3, <2>4 DEF CacheType
<1>10. TablesIndexed(d)
  <2>1. d.table = {<<Key(p), p>> : p \in d.pages}
    BY <1>0, <1>6 DEF TablesIndexed
  <2>2. ASSUME NEW p \in d.pages PROVE p[3] <= d.serial[Key(p)]
    <3>1. CASE p \in c.pages
      <4>1. Key(p) \in Keys /\ p[3] \in Nat
        BY <1>1, <3>1 DEF Cache, PageIds, Keys, Key
      <4>2. p[3] <= c.serial[Key(p)]
        BY <1>0, <3>1 DEF TablesIndexed
      <4>3. c.serial[Key(p)] \in Nat
        BY <1>1, <4>1 DEF Cache
      <4> QED
        BY <1>7, <4>1, <4>2, <4>3
    <3>2. CASE p \in new
      <4>1. Key(p) \in Keys /\ Key(p)[1] = r /\ Key(p)[2] = p[2]
        BY <1>2, <3>2 DEF Key, Owner
      <4> QED
        BY <1>2, <1>6, <3>2, <4>1
    <3> QED
      BY <1>6, <3>1, <3>2
  <2> QED
    BY <2>1, <2>2 DEF TablesIndexed
<1>11. CountersExact(d)
  <2>1. ASSUME NEW S \in SUBSET c.pages
        PROVE  /\ Slots(d, S) = Slots(c, S)
               /\ Slots(d, S \cup new) = Slots(c, S) \cup filled
               /\ Slots(c, S) \cap filled = {}
    <3>1. \A s \in c.fill : s[1] \in c.pages /\ s[1] \notin new
      BY <1>0, <1>2 DEF CacheType
    <3>2. \A s \in filled : s[1] \in new /\ s[1] \notin S
      BY <1>2, <1>3
    <3>3. d.fill = c.fill \cup filled
      BY <1>6
    <3>4. Slots(d, S) = Slots(c, S)
      BY <3>2, <3>3 DEF Slots
    <3>5. Slots(d, S \cup new) = Slots(c, S) \cup filled
      BY <3>1, <3>2, <3>3 DEF Slots
    <3>6. Slots(c, S) \cap filled = {}
      BY <3>1, <3>2 DEF Slots
    <3> QED
      BY <3>4, <3>5, <3>6
  <2>2. ASSUME NEW S \in SUBSET c.pages
        PROVE  Tokens(d, S \cup new) = Tokens(c, S) + Cardinality(filled)
    <3>1. IsFiniteSet(Slots(c, S)) /\ Cardinality(Slots(c, S)) \in Nat
      BY <1>0, SlotsFinite, FS_CardinalityType
    <3>2. Cardinality(Slots(c, S) \cup filled)
            = Cardinality(Slots(c, S)) + Cardinality(filled)
                - Cardinality(Slots(c, S) \cap filled)
      BY <3>1, <1>5, FS_Union
    <3>3. Cardinality(Slots(c, S) \cap filled) = 0
      <4>1. Cardinality({}) = 0
        BY FS_EmptySet
      <4> QED
        BY <2>1, <4>1, Zenon
    <3>4. Tokens(d, S \cup new) = Cardinality(Slots(c, S) \cup filled)
      BY <2>1, Zenon DEF Tokens
    <3> QED
      BY <1>5, <3>1, <3>2, <3>3, <3>4 DEF Tokens
  <2>3. c.pages \in SUBSET c.pages /\ c.pinned \in SUBSET c.pages
    BY <1>0 DEF CacheType
  <2>4. d.liveTokens = Tokens(d, d.pages)
    <3>1. Tokens(d, c.pages \cup new) = Tokens(c, c.pages) + Cardinality(filled)
      BY <2>2, <2>3, Zenon
    <3> QED
      BY <3>1, <1>0, <1>6, Zenon DEF CountersExact
  <2>5. d.pinnedTokens = Tokens(d, d.pinned)
    <3>1. CASE pin
      <4>1. Tokens(d, c.pinned \cup new) = Tokens(c, c.pinned) + Cardinality(filled)
        BY <2>2, <2>3, Zenon
      <4>2. d.pinned = c.pinned \cup new
        BY <3>1, <1>6
      <4>3. d.pinnedTokens = c.pinnedTokens + Cardinality(filled)
        BY <3>1, <1>6
      <4> QED
        BY <4>1, <4>2, <4>3, <1>0, Zenon DEF CountersExact
    <3>2. CASE ~pin
      <4>1. d.pinned = c.pinned
        BY <3>2, <1>6
      <4>2. d.pinnedTokens = c.pinnedTokens
        BY <3>2, <1>1, <1>6 DEF Cache
      <4>3. Slots(d, c.pinned) = Slots(c, c.pinned)
        BY <2>1, <2>3, Zenon
      <4> QED
        BY <4>1, <4>2, <4>3, <1>0, Zenon DEF CountersExact, Tokens
    <3> QED
      BY <3>1, <3>2
  <2>6. d.capacityTokens = PageSize * Cardinality(d.pages)
    <3>1. Cardinality(c.pages \cup new)
            = Cardinality(c.pages) + Cardinality(new) - Cardinality(c.pages \cap new)
      BY <1>1, <1>2, FS_Union
    <3>2. Cardinality(c.pages \cap new) = 0
      <4>1. c.pages \cap new = {} /\ Cardinality({}) = 0
        BY <1>2, FS_EmptySet
      <4> QED
        BY <4>1, Zenon
    <3>3. Cardinality(c.pages) \in Nat
      BY <1>1, FS_CardinalityType
    <3>4. Cardinality(d.pages) = Cardinality(c.pages) + Cardinality(new)
      BY <1>5, <1>6, <3>1, <3>2, <3>3
    <3>5. \A a, b \in Nat : PageSize * (a + b) = PageSize * a + PageSize * b
      BY PagingAssumption
    <3> QED
      BY <1>0, <1>5, <1>6, <3>3, <3>4, <3>5 DEF CountersExact
  <2> QED
    BY <2>4, <2>5, <2>6 DEF CountersExact
<1> QED
  BY <1>9, <1>10, <1>11 DEF Consistent, d

-----------------------------------------------------------------------------
(* The LRU order.                                                          *)

StrictOrder(o, S) ==
    /\ \A p \in S : <<p, p>> \notin o
    /\ \A p, q \in S : p # q => (<<p, q>> \in o <=> <<q, p>> \notin o)
    /\ \A p, q, s \in S :
          <<p, q>> \in o /\ <<q, s>> \in o => <<p, s>> \in o

(* The list order is strict and total on the pages of one request.         *)
LEMMA ListOrderStrict ==
  ASSUME NEW r, NEW S \in SUBSET PageIds, \A p \in S : Owner(p) = r
  PROVE  StrictOrder(ListOrder(S), S)
<1>1. \A p, q \in S : <<p, q>> \in ListOrder(S)
                         <=> p[2] < q[2] \/ (p[2] = q[2] /\ p[3] < q[3])
  BY DEF ListOrder
<1>2. ASSUME NEW p \in S
      PROVE  p = <<r, p[2], p[3]>> /\ p[2] \in Int /\ p[3] \in Int
  <2>1. p \in Requests \X Layers \X (Nat \ {0})
    BY DEF PageIds
  <2>2. p = <<p[1], p[2], p[3]>> /\ p[2] \in Layers /\ p[3] \in Nat
    BY <2>1
  <2>3. p[1] = r
    BY DEF Owner
  <2> QED
    BY <2>2, <2>3, PagingAssumption
<1>3. \A p, q \in S : p # q => p[2] # q[2] \/ p[3] # q[3]
  <2>1. \A x, y, u, v : x = u /\ y = v => <<r, x, y>> = <<r, u, v>>
    OBVIOUS
  <2> QED
    BY <1>2, <2>1
<1> QED
  BY <1>1, <1>2, <1>3 DEF StrictOrder

(* Moving an ordered set of pages to the end keeps the order strict and    *)
(* total, on the pages that were there and on those that are new to it.    *)
LEMMA MovedToEndStrict ==
  ASSUME NEW c, StrictOrder(c.older, c.pages),
         NEW S, NEW o \in SUBSET (S \X S), StrictOrder(o, S)
  PROVE  StrictOrder(MovedToEnd(c, S, o), c.pages \cup S)
<1> DEFINE m == MovedToEnd(c, S, o)
           D == c.pages \cup S
<1>1. \A p, q : <<p, q>> \in m <=> \/ <<p, q>> \in c.older /\ p \notin S /\ q \notin S
                                   \/ p \in c.pages /\ p \notin S /\ q \in S
                                   \/ <<p, q>> \in o
  BY DEF MovedToEnd
<1>2. \A p, q : <<p, q>> \in o => p \in S /\ q \in S
  OBVIOUS
<1>3. \A p \in D : p \in c.pages \/ p \in S
  OBVIOUS
<1> HIDE DEF m, D
<1>4. ASSUME NEW p \in D PROVE <<p, p>> \notin m
  <2>1. p \in c.pages => <<p, p>> \notin c.older
    BY DEF StrictOrder
  <2>2. p \in S => <<p, p>> \notin o
    BY DEF StrictOrder
  <2>3. <<p, p>> \in m <=> \/ <<p, p>> \in c.older /\ p \notin S /\ p \notin S
                           \/ p \in c.pages /\ p \notin S /\ p \in S
                           \/ <<p, p>> \in o
    BY <1>1, Zenon
  <2> QED
    BY <1>2, <1>3, <2>1, <2>2, <2>3, Zenon
<1>5. \A p, q \in D : p # q => (<<p, q>> \in m <=> <<q, p>> \notin m)
  BY <1>1, <1>2, <1>3 DEF StrictOrder
<1>6. \A p, q, s \in D : <<p, q>> \in m /\ <<q, s>> \in m => <<p, s>> \in m
  BY <1>1, <1>2, <1>3 DEF StrictOrder
<1> QED
  BY <1>4, <1>5, <1>6 DEF StrictOrder, m, D

(* Removing pages keeps the order of those that stay.                      *)
LEMMA DroppedOrdered ==
  ASSUME NEW c, c \in Cache, LruOrdered(c), NEW V
  PROVE  LruOrdered(Dropped(c, V))
<1> DEFINE d == Dropped(c, V)
<1>1. d.pages = c.pages \ V
  BY DEF Dropped, Cache
<1>2. d.older = {e \in c.older : e[1] \notin V /\ e[2] \notin V}
  BY DEF Dropped, Cache
<1> HIDE DEF d
<1>3. \A p, q \in d.pages : <<p, q>> \in d.older <=> <<p, q>> \in c.older
  BY <1>1, <1>2
<1>4. \A p \in d.pages : p \in c.pages
  BY <1>1
<1> QED
  BY <1>3, <1>4 DEF LruOrdered, d

(* touch_pages, for pages of one request.                                  *)
LEMMA TouchedOrdered ==
  ASSUME NEW c, Consistent(c), LruOrdered(c), NEW r,
         NEW S \in SUBSET PagesOf(c, r)
  PROVE  LruOrdered(Touched(c, S, ListOrder(S)))
<1> DEFINE d == Touched(c, S, ListOrder(S))
<1>1. c \in Cache /\ c.pages \in SUBSET PageIds
  BY DEF Consistent, CacheType, Cache
<1>2. \A p \in S : p \in c.pages /\ Owner(p) = r
  BY PagesOfLive DEF Consistent
<1>3. StrictOrder(ListOrder(S), S)
  BY <1>1, <1>2, ListOrderStrict
<1>4. ListOrder(S) \in SUBSET (S \X S)
  BY DEF ListOrder
<1>5. StrictOrder(c.older, c.pages)
  BY DEF StrictOrder, LruOrdered
<1>6. StrictOrder(MovedToEnd(c, S, ListOrder(S)), c.pages \cup S)
  BY <1>3, <1>4, <1>5, MovedToEndStrict
<1>7. d.pages = c.pages \cup S /\ d.older = MovedToEnd(c, S, ListOrder(S))
  BY <1>1, <1>2 DEF Touched, Cache
<1> HIDE DEF d
<1>8. StrictOrder(d.older, d.pages)
  BY <1>6, <1>7, Zenon
<1> QED
  BY <1>8 DEF StrictOrder, LruOrdered, d

(* A change that leaves the pages and their order alone.                   *)
LEMMA SameOrder ==
  ASSUME NEW c, LruOrdered(c), NEW d, d.pages = c.pages, d.older = c.older
  PROVE  LruOrdered(d)
BY DEF LruOrdered

(* What the loops of allocate_for_request change, besides the counters.    *)
LEMMA GrownFields ==
  ASSUME NEW c, c \in Cache, NEW r, NEW total, NEW pin
  PROVE  /\ Grown(c, r, total, pin).pages = c.pages \cup NewPages(c, r, total)
         /\ Grown(c, r, total, pin).committed = c.committed
         /\ Grown(c, r, total, pin).draft = c.draft
         /\ Grown(c, r, total, pin).older
              = MovedToEnd(c, NewPages(c, r, total), ListOrder(NewPages(c, r, total)))
BY DEF Grown, Cache

(* allocate_for_request appends its pages to the LRU order.                *)
LEMMA GrownOrdered ==
  ASSUME NEW c, Consistent(c), LruOrdered(c), NEW r \in Requests,
         NEW total \in Nat, NEW pin \in BOOLEAN
  PROVE  LruOrdered(Grown(c, r, total, pin))
<1> DEFINE d   == Grown(c, r, total, pin)
           new == NewPages(c, r, total)
<1>1. c \in Cache
  BY DEF Consistent, CacheType
<1>2. new \in SUBSET PageIds /\ \A p \in new : Owner(p) = r
  BY NewPagesFresh
<1>3. d.pages = c.pages \cup new /\ d.older = MovedToEnd(c, new, ListOrder(new))
  BY <1>1, GrownFields
<1> HIDE DEF d, new
<1>4. StrictOrder(ListOrder(new), new)
  BY <1>2, ListOrderStrict
<1>5. ListOrder(new) \in SUBSET (new \X new)
  BY DEF ListOrder
<1>6. StrictOrder(c.older, c.pages)
  BY DEF StrictOrder, LruOrdered
<1>7. StrictOrder(MovedToEnd(c, new, ListOrder(new)), c.pages \cup new)
  BY <1>4, <1>5, <1>6, MovedToEndStrict
<1>8. StrictOrder(d.older, d.pages)
  BY <1>3, <1>7, Zenon
<1> QED
  BY <1>8 DEF StrictOrder, LruOrdered, d

-----------------------------------------------------------------------------
(* Committed and draft pages.                                              *)

Exclusive(c) == c.committed \cap c.draft = {}

(* Removing pages.                                                         *)
LEMMA DroppedExclusive ==
  ASSUME NEW c, c \in Cache, Exclusive(c), NEW V
  PROVE  Exclusive(Dropped(c, V))
BY DEF Dropped, Cache, Exclusive

(* Setting flags.                                                          *)
LEMMA MarkedExclusive ==
  ASSUME NEW c, c \in Cache, Exclusive(c), NEW r
  PROVE  /\ Exclusive(Marked(c, r))
         /\ Exclusive(Drafted(c, r))
         /\ Exclusive(DraftsAccepted(c, r))
<1> DEFINE P == PagesOf(c, r)
<1>1. Marked(c, r).committed = c.committed \cup P /\ Marked(c, r).draft = c.draft \ P
  BY DEF Marked, Cache
<1>2. /\ Drafted(c, r).committed = c.committed
      /\ Drafted(c, r).draft = c.draft \cup (P \ c.committed)
  BY DEF Drafted, Cache
<1>3. /\ DraftsAccepted(c, r).committed = c.committed \cup (P \cap c.draft)
      /\ DraftsAccepted(c, r).draft = c.draft \ P
  BY DEF DraftsAccepted, Cache
<1> QED
  BY <1>1, <1>2, <1>3 DEF Exclusive

-----------------------------------------------------------------------------
(* All of it, per method.                                                  *)

Sound(c) == Consistent(c) /\ LruOrdered(c) /\ Exclusive(c)

(* The cache the constructor makes.                                        *)
LEMMA EmptySound ==
  Sound(EmptyCache)
<1> DEFINE e == EmptyCache
<1>1. /\ e.pages = {} /\ e.pinned = {} /\ e.committed = {} /\ e.draft = {}
      /\ e.fill = {} /\ e.table = {} /\ e.older = {}
      /\ e.liveTokens = 0 /\ e.pinnedTokens = 0 /\ e.capacityTokens = 0
      /\ e \in Cache
  BY DEF EmptyCache, Cache
<1> HIDE DEF e
<1>3. IsFiniteSet({}) /\ Cardinality({}) = 0
  BY FS_EmptySet
<1>4. CacheType(e)
  <2>1. IsFiniteSet(e.pages) /\ IsFiniteSet(e.fill)
    BY <1>1, <1>3, Zenon
  <2> QED
    BY <1>1, <2>1 DEF CacheType
<1>5. TablesIndexed(e)
  BY <1>1 DEF TablesIndexed
<1>6. CountersExact(e)
  <2>1. Slots(e, e.pages) = {} /\ Slots(e, e.pinned) = {}
    BY <1>1 DEF Slots
  <2>2. Tokens(e, e.pages) = 0 /\ Tokens(e, e.pinned) = 0
    BY <1>3, <2>1, Zenon DEF Tokens
  <2>3. Cardinality(e.pages) = 0
    BY <1>1, <1>3, Zenon
  <2> QED
    BY <1>1, <2>2, <2>3, PagingAssumption DEF CountersExact
<1>7. LruOrdered(e) /\ Exclusive(e)
  BY <1>1 DEF LruOrdered, Exclusive
<1> QED
  BY <1>4, <1>5, <1>6, <1>7 DEF Sound, Consistent, e

(* Every method that removes pages.                                        *)
LEMMA DroppedSound ==
  ASSUME NEW c, Sound(c), NEW V \in SUBSET c.pages
  PROVE  Sound(Dropped(c, V))
<1>1. c \in Cache
  BY DEF Sound, Consistent, CacheType
<1> QED
  BY <1>1, DroppedConsistent, DroppedOrdered, DroppedExclusive DEF Sound

(* evict_lru and ensure_capacity.                                          *)
LEMMA EvictedForSound ==
  ASSUME NEW c, Sound(c), NEW n
  PROVE  Sound(Evicted(c, n)) /\ Sound(EvictedFor(c, n))
<1>1. ASSUME NEW k PROVE Sound(Evicted(c, k))
  <2>1. Victims(c, k) \in SUBSET c.pages
    BY DEF Victims, Unpinned
  <2> QED
    BY <2>1, DroppedSound DEF Evicted
<1> QED
  BY <1>1 DEF EvictedFor

(* release_request and release_draft_pages.                                *)
LEMMA ReleasedSound ==
  ASSUME NEW c, Sound(c), NEW r
  PROVE  Sound(Released(c, r)) /\ Sound(DraftsReleased(c, r))
<1>1. PagesOf(c, r) \in SUBSET c.pages
  BY PagesOfLive DEF Sound, Consistent
<1>2. PagesOf(c, r) \cap c.draft \in SUBSET c.pages
  BY <1>1
<1>3. Released(c, r) = Dropped(c, PagesOf(c, r))
  BY ReleasedConsistent DEF Sound
<1> QED
  BY <1>1, <1>2, <1>3, DroppedSound DEF DraftsReleased

(* touch_pages.                                                            *)
LEMMA TouchedSound ==
  ASSUME NEW c, Sound(c), NEW r, NEW S \in SUBSET PagesOf(c, r)
  PROVE  Sound(Touched(c, S, ListOrder(S)))
<1>1. S \in SUBSET c.pages
  BY PagesOfLive DEF Sound, Consistent
<1>2. c \in Cache
  BY DEF Sound, Consistent, CacheType
<1>3. Exclusive(Touched(c, S, ListOrder(S)))
  BY <1>2 DEF Touched, Cache, Exclusive, Sound
<1> QED
  BY <1>1, <1>3, TouchedConsistent, TouchedOrdered DEF Sound

(* The flags of commit_tokens, allocate_draft_pages, accept_draft_pages.   *)
LEMMA MarkedSound ==
  ASSUME NEW c, Sound(c), NEW r
  PROVE  Sound(Marked(c, r)) /\ Sound(Drafted(c, r)) /\ Sound(DraftsAccepted(c, r))
<1>1. c \in Cache
  BY DEF Sound, Consistent, CacheType
<1>2. /\ Marked(c, r).pages = c.pages /\ Marked(c, r).older = c.older
      /\ Drafted(c, r).pages = c.pages /\ Drafted(c, r).older = c.older
      /\ DraftsAccepted(c, r).pages = c.pages
      /\ DraftsAccepted(c, r).older = c.older
  BY <1>1 DEF Marked, Drafted, DraftsAccepted, Cache
<1>3. LruOrdered(Marked(c, r)) /\ LruOrdered(Drafted(c, r))
        /\ LruOrdered(DraftsAccepted(c, r))
  BY <1>2, SameOrder DEF Sound
<1> QED
  BY <1>1, <1>3, MarkedConsistent, MarkedExclusive DEF Sound

(* pin_pages and unpin_pages.                                              *)
LEMMA PinsSound ==
  ASSUME NEW c, Sound(c), NEW S
  PROVE  Sound(PinsSet(c, S)) /\ Sound(PinsCleared(c, S))
<1>1. c \in Cache
  BY DEF Sound, Consistent, CacheType
<1>2. /\ PinsSet(c, S).pages = c.pages /\ PinsSet(c, S).older = c.older
      /\ PinsCleared(c, S).pages = c.pages /\ PinsCleared(c, S).older = c.older
      /\ PinsSet(c, S).committed = c.committed /\ PinsSet(c, S).draft = c.draft
      /\ PinsCleared(c, S).committed = c.committed
      /\ PinsCleared(c, S).draft = c.draft
  BY <1>1 DEF PinsSet, PinsCleared, Cache
<1>3. LruOrdered(PinsSet(c, S)) /\ LruOrdered(PinsCleared(c, S))
  BY <1>2, SameOrder DEF Sound
<1>4. Exclusive(PinsSet(c, S)) /\ Exclusive(PinsCleared(c, S))
  BY <1>2 DEF Sound, Exclusive
<1> QED
  BY <1>3, <1>4, PinsConsistent DEF Sound

(* allocate_for_request, whether it returns or raises.                     *)
LEMMA AllocationSound ==
  ASSUME NEW c, Sound(c), NEW r \in Requests, NEW total \in Nat,
         NEW pin \in BOOLEAN
  PROVE  Sound(Allocation(c, r, total, pin).kv)
<1> DEFINE needed == PagesNeeded(c, r, total)
           room   == EvictedFor(c, needed)
<1>1. Sound(room)
  BY EvictedForSound
<1>2. Allocation(c, r, total, pin).kv
        = IF FreePages(room) >= needed THEN Grown(room, r, total, pin) ELSE room
  BY DEF Allocation
<1> HIDE DEF room, needed
<1>3. Sound(Grown(room, r, total, pin))
  <2>1. room \in Cache
    BY <1>1 DEF Sound, Consistent, CacheType
  <2>2. Exclusive(Grown(room, r, total, pin))
    BY <1>1, <2>1, GrownFields DEF Sound, Exclusive
  <2> QED
    BY <1>1, <2>2, GrownConsistent, GrownOrdered DEF Sound
<1> QED
  BY <1>1, <1>2, <1>3

(* evict_lru and ensure_capacity, and allocate_for_request, of a cache     *)
(* whose LRU order may be any.                                             *)
LEMMA EvictedForConsistent ==
  ASSUME NEW c, Consistent(c), NEW n
  PROVE  Consistent(Evicted(c, n)) /\ Consistent(EvictedFor(c, n))
<1>1. ASSUME NEW k PROVE Consistent(Evicted(c, k))
  <2>1. Victims(c, k) \in SUBSET c.pages
    BY DEF Victims, Unpinned
  <2> QED
    BY <2>1, DroppedConsistent DEF Evicted
<1> QED
  BY <1>1 DEF EvictedFor

LEMMA AllocationConsistent ==
  ASSUME NEW c, Consistent(c), NEW r \in Requests, NEW total \in Nat,
         NEW pin \in BOOLEAN
  PROVE  Consistent(Allocation(c, r, total, pin).kv)
<1> DEFINE room == EvictedFor(c, PagesNeeded(c, r, total))
<1>1. Consistent(room)
  BY EvictedForConsistent
<1>2. Consistent(Grown(room, r, total, pin))
  BY <1>1, GrownConsistent
<1> QED
  BY <1>1, <1>2 DEF Allocation

-----------------------------------------------------------------------------
(* What an eviction takes away, and what an allocation then adds.          *)

(* The pages an eviction leaves are the ones whose ids and table entries   *)
(* it leaves; it issues no id.                                             *)
LEMMA EvictedForFields ==
  ASSUME NEW c, Consistent(c), NEW n
  PROVE  /\ EvictedFor(c, n).pages \in SUBSET c.pages
         /\ EvictedFor(c, n).pinned = c.pinned
         /\ EvictedFor(c, n).serial = c.serial
         /\ \A e : e \in EvictedFor(c, n).table
                     <=> e \in c.table /\ e[2] \in EvictedFor(c, n).pages
<1> DEFINE room == EvictedFor(c, n)
<1>1. c \in Cache /\ c.pinned \in SUBSET c.pages
  BY DEF Consistent, CacheType
<1>2. \A e \in c.table : e[2] \in c.pages
  <2>1. ASSUME NEW e \in c.table PROVE e[2] \in c.pages
    <3>1. PICK p \in c.pages : e = <<Key(p), p>>
      BY DEF Consistent, TablesIndexed
    <3> QED
      BY <3>1
  <2> QED
    BY <2>1
<1>3. ASSUME NEW k
      PROVE  /\ Evicted(c, k).pages \in SUBSET c.pages
             /\ Evicted(c, k).pinned = c.pinned
             /\ Evicted(c, k).serial = c.serial
             /\ \A e : e \in Evicted(c, k).table
                         <=> e \in c.table /\ e[2] \in Evicted(c, k).pages
  <2> DEFINE V == Victims(c, k)
             d == Evicted(c, k)
  <2>1. V \in SUBSET c.pages /\ V \cap c.pinned = {}
    BY DEF Victims, Unpinned
  <2>2. /\ d.pages = c.pages \ V
        /\ d.pinned = c.pinned \ V
        /\ d.serial = c.serial
        /\ d.table = {e \in c.table : e[2] \notin V}
    BY <1>1 DEF Evicted, Dropped, Cache
  <2> HIDE DEF V, d
  <2>3. d.pinned = c.pinned
    BY <2>1, <2>2
  <2>4. \A e : e \in d.table <=> e \in c.table /\ e[2] \in d.pages
    BY <1>2, <2>2
  <2>5. d.pages \in SUBSET c.pages
    BY <2>2
  <2> QED
    BY <2>2, <2>3, <2>4, <2>5 DEF d
<1>4. CASE n > FreePages(c)
  BY <1>3, <1>4 DEF EvictedFor
<1>5. CASE ~(n > FreePages(c))
  <2>1. room = c
    BY <1>5 DEF EvictedFor
  <2> QED
    BY <1>2, <2>1
<1> QED
  BY <1>4, <1>5

(* If the eviction leaves the request's own pages alone, the loop that     *)
(* creates pages creates exactly those that were counted before it.        *)
LEMMA CountStillRight ==
  ASSUME NEW c, Consistent(c), NEW r \in Requests, NEW total \in Nat, NEW n,
         \A p \in c.pages : Owner(p) = r => p \in EvictedFor(c, n).pages
  PROVE  NewPages(EvictedFor(c, n), r, total) = NewPages(c, r, total)
<1> DEFINE room == EvictedFor(c, n)
<1>1. /\ room.serial = c.serial
      /\ \A e : e \in room.table <=> e \in c.table /\ e[2] \in room.pages
  BY EvictedForFields
<1>2. \A p \in c.pages : Owner(p) = r => p \in room.pages
  OBVIOUS
<1> HIDE DEF room
<1>3. ASSUME NEW l PROVE Entries(room, r, l) = Entries(c, r, l)
  <2>1. ASSUME NEW e \in Entries(c, r, l) PROVE e \in Entries(room, r, l)
    <3>1. e \in c.table /\ e[1] = <<r, l>>
      BY DEF Entries
    <3>2. PICK p \in c.pages : e = <<Key(p), p>>
      BY <3>1 DEF Consistent, TablesIndexed
    <3>3. Owner(p) = r /\ e[2] = p
      BY <3>1, <3>2 DEF Key, Owner
    <3> QED
      BY <1>1, <1>2, <3>1, <3>2, <3>3 DEF Entries
  <2>2. Entries(room, r, l) \subseteq Entries(c, r, l)
    BY <1>1 DEF Entries
  <2> QED
    BY <2>1, <2>2
<1>4. ASSUME NEW l PROVE Lacking(room, r, l, total) = Lacking(c, r, l, total)
  <2>1. Cardinality(Entries(room, r, l)) = Cardinality(Entries(c, r, l))
    BY <1>3, Zenon
  <2> QED
    BY <2>1 DEF Lacking
<1>5. NewPages(room, r, total) = NewPages(c, r, total)
  <2> DEFINE Layer(d, l) == {<<r, l, d.serial[<<r, l>>] + i>> :
                                i \in 1..Lacking(d, r, l, total)}
  <2>1. ASSUME NEW l PROVE Layer(room, l) = Layer(c, l)
    <3>1. room.serial[<<r, l>>] = c.serial[<<r, l>>]
      BY <1>1, Zenon
    <3>2. 1..Lacking(room, r, l, total) = 1..Lacking(c, r, l, total)
      BY <1>4, Zenon
    <3> QED
      BY <3>1, <3>2
  <2>2. /\ NewPages(room, r, total) = UNION {Layer(room, l) : l \in Layers}
        /\ NewPages(c, r, total) = UNION {Layer(c, l) : l \in Layers}
    BY DEF NewPages
  <2> HIDE DEF Layer
  <2> QED
    BY <2>1, <2>2
<1> QED
  BY <1>5 DEF room

(* The ids drawn are those up to the serial of their key.                  *)
LEMMA IssuedIff ==
  ASSUME NEW c, c \in Cache
  PROVE  \A p : p \in Issued(c) <=> p \in PageIds /\ p[3] <= c.serial[Key(p)]
<1>1. ASSUME NEW p \in Issued(c)
      PROVE  p \in PageIds /\ p[3] <= c.serial[Key(p)]
  <2>1. PICK k \in Keys : p \in {<<k[1], k[2], n>> : n \in 1..c.serial[k]}
    BY DEF Issued
  <2>2. PICK n \in 1..c.serial[k] : p = <<k[1], k[2], n>>
    BY <2>1
  <2>3. k = <<k[1], k[2]>> /\ k[1] \in Requests /\ k[2] \in Layers
    BY DEF Keys
  <2>4. Key(p) = k /\ p[3] = n
    BY <2>2, <2>3 DEF Key
  <2>5. c.serial[k] \in Nat
    BY DEF Cache
  <2>6. n \in Nat \ {0} /\ n <= c.serial[k]
    BY <2>2, <2>5
  <2>7. p \in PageIds
    BY <2>2, <2>3, <2>6 DEF PageIds
  <2> QED
    BY <2>4, <2>6, <2>7
<1>2. ASSUME NEW p \in PageIds, p[3] <= c.serial[Key(p)]
      PROVE  p \in Issued(c)
  <2> DEFINE k == Key(p)
             Ids(j) == {<<j[1], j[2], n>> : n \in 1..c.serial[j]}
  <2>1. p = <<p[1], p[2], p[3]>> /\ p[1] \in Requests /\ p[2] \in Layers
          /\ p[3] \in Nat \ {0}
    BY DEF PageIds
  <2>2. k \in Keys /\ k[1] = p[1] /\ k[2] = p[2]
    BY <2>1 DEF Key, Keys
  <2>3. c.serial[k] \in Nat
    BY <2>2 DEF Cache
  <2>4. p[3] \in 1..c.serial[k]
    BY <1>2, <2>1, <2>3
  <2>5. p \in Ids(k)
    BY <2>1, <2>2, <2>4
  <2>6. Issued(c) = UNION {Ids(j) : j \in Keys}
    BY DEF Issued
  <2> HIDE DEF k, Ids
  <2> QED
    BY <2>2, <2>5, <2>6
<1> QED
  BY <1>1, <1>2

(* A method that draws no id.                                              *)
LEMMA SameIssued ==
  ASSUME NEW c, c \in Cache, NEW d, d \in Cache, d.serial = c.serial
  PROVE  Issued(d) = Issued(c)
<1>1. \A p : p \in Issued(c) <=> p \in PageIds /\ p[3] <= c.serial[Key(p)]
  BY IssuedIff
<1>2. \A p : p \in Issued(d) <=> p \in PageIds /\ p[3] <= d.serial[Key(p)]
  BY IssuedIff
<1> QED
  BY <1>1, <1>2

(* The pages an allocation creates are exactly the ids it draws, and none  *)
(* of them was drawn before.                                               *)
LEMMA NewPagesIssue ==
  ASSUME NEW c, Consistent(c), NEW r \in Requests, NEW total \in Nat,
         NEW pin \in BOOLEAN
  PROVE  /\ \A p \in NewPages(c, r, total) : p \notin Issued(c)
         /\ Issued(Grown(c, r, total, pin)) = Issued(c) \cup NewPages(c, r, total)
<1> DEFINE new == NewPages(c, r, total)
           d   == Grown(c, r, total, pin)
<1>1. c \in Cache /\ d \in Cache /\ Consistent(c)
  BY GrownConsistent DEF Consistent, CacheType
<1>2. d.serial = [k \in Keys |->
                     IF k[1] = r THEN c.serial[k] + Lacking(c, r, k[2], total)
                                 ELSE c.serial[k]]
  BY <1>1 DEF Grown, Cache
<1>3. \A p : p \in Issued(c) <=> p \in PageIds /\ p[3] <= c.serial[Key(p)]
  BY <1>1, IssuedIff
<1>4. \A p : p \in Issued(d) <=> p \in PageIds /\ p[3] <= d.serial[Key(p)]
  BY <1>1, IssuedIff
<1> HIDE DEF d
<1>5. ASSUME NEW p \in new
      PROVE  p \in PageIds /\ p \notin Issued(c) /\ p \in Issued(d)
  <2>1. /\ p \in PageIds
        /\ Owner(p) = r
        /\ Key(p) \in Keys
        /\ p[3] \in Int
        /\ p[3] > c.serial[Key(p)]
        /\ p[3] <= c.serial[Key(p)] + Lacking(c, r, p[2], total)
    BY <1>1, NewPagesFresh
  <2>2. c.serial[Key(p)] \in Nat
    BY <1>1, <2>1 DEF Cache
  <2>3. Key(p)[1] = r /\ Key(p)[2] = p[2]
    BY <2>1 DEF Key, Owner
  <2> HIDE DEF new
  <2>4. d.serial[Key(p)] = c.serial[Key(p)] + Lacking(c, r, p[2], total)
    BY <1>2, <2>1, <2>3
  <2> QED
    BY <1>3, <1>4, <2>1, <2>2, <2>4
<1>6. ASSUME NEW p \in Issued(d), p \notin Issued(c)
      PROVE  p \in new
  <2>1. p \in PageIds /\ p[3] <= d.serial[Key(p)] /\ ~(p[3] <= c.serial[Key(p)])
    BY <1>3, <1>4, <1>6
  <2>2. p = <<p[1], p[2], p[3]>> /\ p[2] \in Layers /\ p[3] \in Nat
          /\ Key(p) = <<p[1], p[2]>> /\ Key(p) \in Keys
    BY <2>1 DEF PageIds, Key, Keys
  <2>3. p[1] = r
    BY <1>2, <2>1, <2>2
  <2>4. /\ d.serial[Key(p)] = c.serial[Key(p)] + Lacking(c, r, p[2], total)
        /\ Lacking(c, r, p[2], total) \in Nat
        /\ c.serial[Key(p)] \in Nat
    BY <1>1, <1>2, <2>2, <2>3, LackingType DEF Cache
  <2> DEFINE i == p[3] - c.serial[Key(p)]
             Layer(l) == {<<r, l, c.serial[<<r, l>>] + j>> :
                             j \in 1..Lacking(c, r, l, total)}
  <2>5. i \in 1..Lacking(c, r, p[2], total)
    BY <2>1, <2>2, <2>4
  <2>6. p[3] = c.serial[<<r, p[2]>>] + i
    BY <2>2, <2>3, <2>4
  <2> HIDE DEF i
  <2>7. p \in Layer(p[2])
    BY <2>2, <2>3, <2>5, <2>6
  <2>8. new = UNION {Layer(l) : l \in Layers}
    BY DEF NewPages
  <2> HIDE DEF new, Layer
  <2> QED
    BY <2>2, <2>7, <2>8
<1>7. ASSUME NEW p \in Issued(c)
      PROVE  p \in Issued(d)
  <2>1. p \in PageIds /\ p[3] <= c.serial[Key(p)]
    BY <1>3
  <2>2. Key(p) \in Keys /\ p[3] \in Nat
    BY <2>1 DEF PageIds, Key, Keys
  <2>3. c.serial[Key(p)] \in Nat /\ Lacking(c, r, Key(p)[2], total) \in Nat
    BY <1>1, <2>2, LackingType DEF Cache
  <2>4. d.serial[Key(p)] >= c.serial[Key(p)] /\ d.serial[Key(p)] \in Nat
    BY <1>2, <2>2, <2>3
  <2> QED
    BY <1>4, <2>1, <2>2, <2>3, <2>4
<1> HIDE DEF new
<1>8. Issued(d) = Issued(c) \cup new
  BY <1>5, <1>6, <1>7
<1> QED
  BY <1>5, <1>8 DEF d, new

(* A call of allocate_for_request overflows max_pages only if it evicted   *)
(* pages of the request it then creates pages for.                         *)
LEMMA AllocationOverflow ==
  ASSUME NEW c, Consistent(c), NEW r \in Requests, NEW total \in Nat,
         NEW pin \in BOOLEAN, NEW d, d = Allocation(c, r, total, pin).kv
  PROVE  \/ Cardinality(d.pages) <= MaxPages
         \/ d.pages \subseteq c.pages
         \/ \E p \in c.pages \ d.pages, q \in d.pages \ c.pages :
               Owner(p) = Owner(q)
<1> DEFINE needed == PagesNeeded(c, r, total)
           room   == EvictedFor(c, needed)
           new    == NewPages(room, r, total)
<1>1. Consistent(room) /\ room \in Cache
  BY EvictedForConsistent DEF Consistent, CacheType
<1>2. room.pages \in SUBSET c.pages /\ room.serial = c.serial
  BY EvictedForFields
<1>3. IsFiniteSet(new) /\ \A p \in new : Owner(p) = r
  BY <1>1, NewPagesFresh
<1>4. new \cap c.pages = {}
  <2>1. \A p \in new : p \notin Issued(room)
    BY <1>1, NewPagesIssue
  <2>2. c.pages \subseteq Issued(c)
    BY IssuedIff DEF Consistent, CacheType, Cache, TablesIndexed
  <2>3. Issued(room) = Issued(c)
    BY <1>1, <1>2, SameIssued DEF Consistent, CacheType
  <2> QED
    BY <2>1, <2>2, <2>3
<1>5. CASE FreePages(room) >= needed
  <2>1. d.pages = room.pages \cup new
    BY <1>1, <1>5, GrownFields DEF Allocation
  <2>2. CASE \A p \in c.pages : Owner(p) = r => p \in room.pages
    <3>1. Cardinality(new) = needed
      BY <2>2, CountStillRight DEF PagesNeeded
    <3>2. IsFiniteSet(room.pages)
      BY <1>1 DEF Consistent, CacheType
    <3>3. Cardinality(room.pages \cup new)
            = Cardinality(room.pages) + Cardinality(new)
                - Cardinality(room.pages \cap new)
      BY <1>3, <3>2, FS_Union
    <3>4. Cardinality(room.pages \cap new) = 0
      <4>1. room.pages \cap new = {} /\ Cardinality({}) = 0
        BY <1>2, <1>4, FS_EmptySet
      <4> QED
        BY <4>1, Zenon
    <3>5. Cardinality(room.pages) \in Nat /\ Cardinality(new) \in Nat
      BY <1>3, <3>2, FS_CardinalityType
    <3>6. Cardinality(d.pages) = Cardinality(room.pages) + Cardinality(new)
      BY <2>1, <3>3, <3>4, <3>5
    <3>7. MaxPages - Cardinality(room.pages) >= needed
      BY <1>5 DEF FreePages
    <3> HIDE DEF new, room, needed
    <3> QED
      BY <3>1, <3>5, <3>6, <3>7, PagingAssumption
  <2>3. CASE \E p \in c.pages : Owner(p) = r /\ p \notin room.pages
    <3>1. PICK p \in c.pages : Owner(p) = r /\ p \notin room.pages
      BY <2>3
    <3> HIDE DEF new, room, needed
    <3>2. p \in c.pages \ d.pages
      BY <1>4, <2>1, <3>1
    <3>3. CASE new = {}
      BY <1>2, <2>1, <3>3
    <3>4. CASE new # {}
      <4>1. PICK q \in new : TRUE
        BY <3>4
      <4>2. q \in d.pages \ c.pages /\ Owner(q) = Owner(p)
        BY <1>3, <1>4, <2>1, <3>1, <4>1
      <4> QED
        BY <3>2, <4>2
    <3> QED
      BY <3>3, <3>4
  <2> QED
    BY <2>2, <2>3
<1>6. CASE ~(FreePages(room) >= needed)
  <2>1. d = room
    BY <1>6 DEF Allocation
  <2> QED
    BY <1>2, <2>1
<1> QED
  BY <1>5, <1>6

(* A call of allocate_for_request, seen as page ids only: it keeps the     *)
(* pinned pages, whoever owns them, and adds fresh pages of one request.   *)
LEMMA AllocationTakes ==
  ASSUME NEW c, Consistent(c), NEW r \in Requests, NEW total \in Nat,
         NEW pin \in BOOLEAN, NEW d, d = Allocation(c, r, total, pin).kv
  PROVE  /\ c.pinned \subseteq d.pages
         /\ \A p \in d.pages \ c.pages :
               p \in PageIds \ Issued(c) /\ Owner(p) = r
         /\ Issued(d) = Issued(c) \cup (d.pages \ c.pages)
         /\ pin => d.pinned = c.pinned \cup (d.pages \ c.pages)
         /\ ~pin => d.pinned = c.pinned
<1> DEFINE needed == PagesNeeded(c, r, total)
           room   == EvictedFor(c, needed)
           new    == NewPages(room, r, total)
<1>1. Consistent(room) /\ room \in Cache
  BY EvictedForConsistent DEF Consistent, CacheType
<1>2. c \in Cache /\ c.pages \in SUBSET PageIds
  BY DEF Consistent, CacheType, Cache
<1>3. /\ room.pages \in SUBSET c.pages
      /\ room.serial = c.serial
      /\ room.pinned = c.pinned
  BY EvictedForFields
<1>4. c.pinned \subseteq room.pages
  BY <1>1, <1>3 DEF Consistent, CacheType
<1>5. Issued(room) = Issued(c)
  BY <1>1, <1>2, <1>3, SameIssued
<1>6. CASE FreePages(room) >= needed
  <2>1. d = Grown(room, r, total, pin)
    BY <1>6 DEF Allocation
  <2>2. /\ \A p \in new : Owner(p) = r /\ p \in PageIds
        /\ \A p \in new : p \notin Issued(room)
        /\ Issued(d) = Issued(room) \cup new
    BY <1>1, <2>1, NewPagesFresh, NewPagesIssue
  <2>3. d.pages = room.pages \cup new
    BY <1>1, <2>1, GrownFields
  <2>4. d.pinned = (IF pin THEN room.pinned \cup new ELSE room.pinned)
    BY <1>1, <2>1 DEF Grown, Cache
  <2> HIDE DEF room, new, needed
  <2>5. c.pages \subseteq Issued(c)
    BY <1>2, IssuedIff DEF Consistent, TablesIndexed
  <2>6. d.pages \ c.pages = new
    BY <1>3, <1>5, <2>2, <2>3, <2>5
  <2> QED
    BY <1>3, <1>4, <1>5, <2>2, <2>3, <2>4, <2>6
<1>7. CASE ~(FreePages(room) >= needed)
  <2>1. d = room
    BY <1>7 DEF Allocation
  <2> HIDE DEF room, new, needed
  <2>2. d.pages \ c.pages = {}
    BY <1>3, <2>1
  <2>3. Issued(d) = Issued(c) \cup (d.pages \ c.pages)
    BY <1>5, <2>1, <2>2
  <2> QED
    BY <1>3, <1>4, <2>1, <2>2, <2>3
<1> QED
  BY <1>6, <1>7

(* Removing pages draws no id.                                             *)
LEMMA DroppedIssued ==
  ASSUME NEW c, Consistent(c), NEW V \in SUBSET c.pages
  PROVE  /\ Issued(Dropped(c, V)) = Issued(c)
         /\ Dropped(c, V).pages = c.pages \ V
         /\ Dropped(c, V).pinned = c.pinned \ V
<1>1. c \in Cache /\ Dropped(c, V) \in Cache
  BY DroppedConsistent DEF Consistent, CacheType
<1>2. /\ Dropped(c, V).serial = c.serial
      /\ Dropped(c, V).pages = c.pages \ V
      /\ Dropped(c, V).pinned = c.pinned \ V
  BY <1>1 DEF Dropped, Cache
<1> QED
  BY <1>1, <1>2, SameIssued

-----------------------------------------------------------------------------
(* What a call guarantees its request, and takes from the others.          *)

(* allocate_for_request gives every layer of the request the pages its     *)
(* tokens require, whatever the tables held before.                        *)
LEMMA GrownCovers ==
  ASSUME NEW c, Consistent(c), NEW r \in Requests, NEW total \in Nat,
         NEW pin \in BOOLEAN, NEW l \in Layers
  PROVE  Cardinality(Entries(Grown(c, r, total, pin), r, l)) >= Required(total)
<1> DEFINE d   == Grown(c, r, total, pin)
           new == NewPages(c, r, total)
           k   == Lacking(c, r, l, total)
           s   == c.serial[<<r, l>>]
           f   == [i \in 1..k |-> <<<<r, l>>, <<r, l, s + i>>>>]
           N   == {f[i] : i \in 1..k}
           E   == Entries(c, r, l)
<1>1. /\ c \in Cache
      /\ c.table = {<<Key(p), p>> : p \in c.pages}
      /\ \A p \in c.pages : p[3] <= c.serial[Key(p)]
  BY DEF Consistent, CacheType, TablesIndexed
<1>2. s \in Nat /\ k \in Nat /\ Required(total) \in Nat
  <2>1. <<r, l>> \in Keys
    BY DEF Keys
  <2> QED
    BY <1>1, <2>1, LackingType DEF Cache
<1>3. IsFiniteSet(E) /\ Cardinality(E) \in Nat
  BY EntriesFinite
<1>4. k >= Required(total) - Cardinality(E)
  BY <1>2, <1>3 DEF Lacking
<1>5. d.table = c.table \cup {<<Key(p), p>> : p \in new}
  BY <1>1 DEF Grown, Cache
<1> HIDE DEF d, k, s
<1>6. IsFiniteSet(N) /\ Cardinality(N) = k
  <2>1. IsFiniteSet(1..k) /\ Cardinality(1..k) = k
    <3>1. 1 \in Int /\ k \in Int
      BY <1>2
    <3>2. /\ IsFiniteSet(1..k)
          /\ Cardinality(1..k) = IF 1 > k THEN 0 ELSE k - 1 + 1
      BY <3>1, FS_Interval
    <3> QED
      BY <1>2, <3>2
  <2>2. f \in Surjection(1..k, N)
    BY DEF Surjection
  <2>3. \A i, j \in 1..k : f[i] = f[j] => i = j
    BY <1>2
  <2>4. f \in Injection(1..k, N)
    BY <2>2, <2>3 DEF Injection, Surjection, IsInjective
  <2> HIDE DEF f, N
  <2> QED
    BY <2>1, <2>2, <2>4, FS_Surjection
<1>7. N \subseteq Entries(d, r, l)
  <2>1. ASSUME NEW i \in 1..k
        PROVE  f[i] \in Entries(d, r, l)
    <3> DEFINE p == <<r, l, s + i>>
    <3>1. p \in new
      BY DEF NewPages, k, s
    <3>2. Key(p) = <<r, l>>
      BY DEF Key
    <3>3. <<Key(p), p>> \in d.table
      BY <1>5, <3>1
    <3>4. f[i] = <<Key(p), p>>
      BY <3>2
    <3> HIDE DEF p, new
    <3> QED
      BY <3>2, <3>3, <3>4 DEF Entries
  <2> QED
    BY <2>1
<1>8. E \subseteq Entries(d, r, l)
  BY <1>5 DEF Entries
<1>9. E \cap N = {}
  <2>1. ASSUME NEW i \in 1..k, f[i] \in E
        PROVE  FALSE
    <3>1. f[i] \in c.table
      BY <2>1 DEF Entries
    <3>2. PICK p \in c.pages : f[i] = <<Key(p), p>>
      BY <1>1, <3>1
    <3>3. p = <<r, l, s + i>> /\ Key(p) = <<r, l>>
      BY <3>2
    <3>4. p[3] = s + i /\ p[3] <= s
      BY <1>1, <3>3 DEF s
    <3> QED
      BY <1>2, <3>4
  <2> QED
    BY <2>1
<1>10. IsFiniteSet(Entries(d, r, l)) /\ Cardinality(Entries(d, r, l)) \in Nat
  BY GrownConsistent, EntriesFinite DEF d
<1> HIDE DEF N, E
<1>11. Cardinality(E \cup N) = Cardinality(E) + Cardinality(N)
  <2>1. Cardinality(E \cup N)
          = Cardinality(E) + Cardinality(N) - Cardinality(E \cap N)
    BY <1>3, <1>6, FS_Union
  <2>2. Cardinality(E \cap N) = 0
    BY <1>9, FS_EmptySet, Zenon
  <2> QED
    BY <1>2, <1>3, <1>6, <2>1, <2>2
<1>12. Cardinality(E \cup N) <= Cardinality(Entries(d, r, l))
  <2>1. E \cup N \in SUBSET Entries(d, r, l)
    BY <1>7, <1>8
  <2> QED
    BY <1>10, <2>1, FS_Subset
<1> QED
  BY <1>2, <1>3, <1>4, <1>6, <1>10, <1>11, <1>12 DEF d

-----------------------------------------------------------------------------
(* The order of eviction.                                                  *)

(* Drafts before others, then by age: a strict total order on the pages.   *)
LEMMA EvictedBeforeStrict ==
  ASSUME NEW c, LruOrdered(c)
  PROVE  /\ \A p \in c.pages : ~EvictedBefore(c, p, p)
         /\ \A p, q \in c.pages :
               p # q => (EvictedBefore(c, p, q) <=> ~EvictedBefore(c, q, p))
         /\ \A p, q, s \in c.pages :
               EvictedBefore(c, p, q) /\ EvictedBefore(c, q, s)
                  => EvictedBefore(c, p, s)
BY DEF LruOrdered, EvictedBefore

(* The pages of S that go before p.                                        *)
Ahead(c, S, p) == {q \in S : EvictedBefore(c, q, p)}

(* A page has fewer pages before it than any page that comes after it.     *)
LEMMA AheadGrows ==
  ASSUME NEW c, LruOrdered(c), NEW S \in SUBSET c.pages, IsFiniteSet(S),
         NEW p \in S, NEW q \in S, EvictedBefore(c, p, q)
  PROVE  /\ Cardinality(Ahead(c, S, p)) \in Nat
         /\ Cardinality(Ahead(c, S, q)) \in Nat
         /\ Cardinality(Ahead(c, S, p)) < Cardinality(Ahead(c, S, q))
<1> DEFINE P == Ahead(c, S, p)
           Q == Ahead(c, S, q)
<1>1. P \in SUBSET Q /\ p \in Q /\ p \notin P
  BY EvictedBeforeStrict DEF Ahead
<1>2. Q \in SUBSET S /\ P \in SUBSET S
  BY DEF Ahead
<1> HIDE DEF P, Q
<1>3. IsFiniteSet(P) /\ IsFiniteSet(Q)
  BY <1>2, FS_Subset
<1>4. Cardinality(P) \in Nat /\ Cardinality(Q) \in Nat
  BY <1>3, FS_CardinalityType
<1>5. Cardinality(P) <= Cardinality(Q) /\ (Cardinality(P) = Cardinality(Q) => P = Q)
  BY <1>1, <1>3, FS_Subset
<1> QED
  BY <1>1, <1>4, <1>5 DEF P, Q

(* evict_lru takes the first of its order: no unpinned page it leaves goes *)
(* before one it takes; and it takes no more than it was asked for.        *)
LEMMA VictimsFirst ==
  ASSUME NEW c, Sound(c), NEW n \in Nat
  PROVE  /\ \A p \in Victims(c, n), q \in Unpinned(c) \ Victims(c, n) :
               EvictedBefore(c, p, q)
         /\ IsFiniteSet(Victims(c, n))
         /\ Cardinality(Victims(c, n)) <= n
<1> DEFINE S == Unpinned(c)
           V == Victims(c, n)
<1>1. LruOrdered(c) /\ IsFiniteSet(c.pages)
  BY DEF Sound, Consistent, CacheType
<1>2. S \in SUBSET c.pages /\ IsFiniteSet(S)
  <2>1. S \in SUBSET c.pages
    BY DEF Unpinned
  <2> QED
    BY <1>1, <2>1, FS_Subset
<1>3. V = {p \in S : Cardinality(Ahead(c, S, p)) < n}
  BY DEF Victims, Ahead
<1>4. \A p \in S : Cardinality(Ahead(c, S, p)) \in Nat
  <2>1. \A p \in S : Ahead(c, S, p) \in SUBSET S
    BY DEF Ahead
  <2>2. \A p \in S : IsFiniteSet(Ahead(c, S, p))
    BY <1>2, <2>1, FS_Subset
  <2> QED
    BY <2>2, FS_CardinalityType
<1> HIDE DEF S, V
<1>5. \A p, q \in S : EvictedBefore(c, p, q)
                        => Cardinality(Ahead(c, S, p)) < Cardinality(Ahead(c, S, q))
  BY <1>1, <1>2, AheadGrows
<1>6. \A p, q \in S : p # q => EvictedBefore(c, p, q) \/ EvictedBefore(c, q, p)
  BY <1>1, <1>2, EvictedBeforeStrict
<1>7. ASSUME NEW p \in V, NEW q \in S \ V
      PROVE  EvictedBefore(c, p, q)
  <2>1. /\ p \in S /\ Cardinality(Ahead(c, S, p)) < n
        /\ q \in S /\ ~(Cardinality(Ahead(c, S, q)) < n)
        /\ p # q
    BY <1>3
  <2>2. ~(Cardinality(Ahead(c, S, q)) < Cardinality(Ahead(c, S, p)))
    BY <1>4, <2>1
  <2> QED
    BY <1>5, <1>6, <2>1, <2>2
<1>8. IsFiniteSet(V) /\ Cardinality(V) <= n
  <2> DEFINE f == [p \in V |-> Cardinality(Ahead(c, S, p))]
  <2>1. f \in [V -> 0..(n - 1)]
    BY <1>3, <1>4
  <2>2. \A p, q \in V : f[p] = f[q] => p = q
    <3>1. SUFFICES ASSUME NEW p \in V, NEW q \in V, f[p] = f[q], p # q
                   PROVE  FALSE
      OBVIOUS
    <3>2. p \in S /\ q \in S
      BY <1>3
    <3>3. /\ Cardinality(Ahead(c, S, p)) = Cardinality(Ahead(c, S, q))
          /\ Cardinality(Ahead(c, S, p)) \in Nat
      BY <1>4, <3>1, <3>2
    <3>4. ~(Cardinality(Ahead(c, S, p)) < Cardinality(Ahead(c, S, q)))
            /\ ~(Cardinality(Ahead(c, S, q)) < Cardinality(Ahead(c, S, p)))
      BY <3>3
    <3> QED
      BY <1>5, <1>6, <3>1, <3>2, <3>4
  <2>3. f \in Injection(V, 0..(n - 1))
    BY <2>1, <2>2 DEF Injection, IsInjective
  <2>4. IsFiniteSet(0..(n - 1)) /\ Cardinality(0..(n - 1)) = n
    <3>1. 0 \in Int /\ n - 1 \in Int
      OBVIOUS
    <3>2. /\ IsFiniteSet(0..(n - 1))
          /\ Cardinality(0..(n - 1)) = IF 0 > n - 1 THEN 0 ELSE (n - 1) - 0 + 1
      BY <3>1, FS_Interval
    <3> QED
      BY <3>2
  <2> HIDE DEF f
  <2> QED
    BY <2>3, <2>4, FS_Injection
<1> QED
  BY <1>7, <1>8 DEF S, V

(* The same of ensure_capacity.                                            *)
LEMMA EvictedForFirst ==
  ASSUME NEW c, Sound(c), NEW n \in Nat
  PROVE  /\ \A p \in c.pages \ EvictedFor(c, n).pages,
               q \in EvictedFor(c, n).pages \cap Unpinned(c) :
                  EvictedBefore(c, p, q)
         /\ EvictedFor(c, n).pages # c.pages
               => Cardinality(EvictedFor(c, n).pages) >= MaxPages - n
<1> DEFINE room == EvictedFor(c, n)
           m    == n - FreePages(c)
           V    == Victims(c, m)
<1>1. c \in Cache /\ IsFiniteSet(c.pages)
  BY DEF Sound, Consistent, CacheType
<1>2. Cardinality(c.pages) \in Nat
  BY <1>1, FS_CardinalityType
<1>3. FreePages(c) \in Int /\ FreePages(c) = MaxPages - Cardinality(c.pages)
        /\ m \in Int
  BY <1>2, PagingAssumption DEF FreePages
<1>4. CASE n > FreePages(c)
  <2>1. m \in Nat
    BY <1>3, <1>4
  <2>2. V \in SUBSET Unpinned(c) /\ V \in SUBSET c.pages
    BY DEF Victims, Unpinned
  <2>3. room.pages = c.pages \ V
    BY <1>1, <1>4 DEF EvictedFor, Evicted, Dropped, Cache
  <2>4. /\ \A p \in V, q \in Unpinned(c) \ V : EvictedBefore(c, p, q)
        /\ IsFiniteSet(V) /\ Cardinality(V) <= m
    BY <2>1, VictimsFirst
  <2> HIDE DEF V, room
  <2>5. Cardinality(room.pages) = Cardinality(c.pages) - Cardinality(V)
    <3>1. c.pages \cap V = V
      BY <2>2
    <3> QED
      BY <1>1, <2>3, <3>1, FS_Difference
  <2>6. Cardinality(V) \in Nat
    BY <2>4, FS_CardinalityType
  <2>7. Cardinality(room.pages) >= MaxPages - n
    <3>1. Cardinality(V) <= n - (MaxPages - Cardinality(c.pages))
      BY <1>3, <2>4
    <3> QED
      BY <1>2, <2>5, <2>6, <3>1, PagingAssumption
  <2>8. \A p \in c.pages \ room.pages, q \in room.pages \cap Unpinned(c) :
           EvictedBefore(c, p, q)
    BY <2>2, <2>3, <2>4
  <2> QED
    BY <2>7, <2>8 DEF room
<1>5. CASE ~(n > FreePages(c))
  BY <1>5 DEF EvictedFor
<1> QED
  BY <1>4, <1>5

(* What is counted before the eviction is created at least.                *)
LEMMA NewPagesGrow ==
  ASSUME NEW c, Sound(c), NEW r \in Requests, NEW total \in Nat, NEW n
  PROVE  NewPages(c, r, total) \subseteq NewPages(EvictedFor(c, n), r, total)
<1> DEFINE room == EvictedFor(c, n)
<1>1. Consistent(c) /\ Consistent(room)
  BY EvictedForSound DEF Sound
<1>2. /\ room.serial = c.serial
      /\ \A e : e \in room.table => e \in c.table
  BY EvictedForFields DEF Sound
<1> HIDE DEF room
<1>3. ASSUME NEW l
      PROVE  /\ Lacking(c, r, l, total) \in Nat
             /\ Lacking(room, r, l, total) \in Nat
             /\ Lacking(c, r, l, total) <= Lacking(room, r, l, total)
  <2>1. Entries(room, r, l) \in SUBSET Entries(c, r, l)
    BY <1>2 DEF Entries
  <2>2. Cardinality(Entries(room, r, l)) <= Cardinality(Entries(c, r, l))
    BY <1>1, <2>1, EntriesFinite, FS_Subset
  <2>3. /\ Cardinality(Entries(room, r, l)) \in Nat
        /\ Cardinality(Entries(c, r, l)) \in Nat
    BY <1>1, EntriesFinite
  <2>4. Required(total) \in Nat
    BY <1>1, LackingType
  <2> QED
    BY <2>2, <2>3, <2>4 DEF Lacking
<1>4. ASSUME NEW p \in NewPages(c, r, total)
      PROVE  p \in NewPages(room, r, total)
  <2>1. PICK l \in Layers :
           p \in {<<r, l, c.serial[<<r, l>>] + i>> : i \in 1..Lacking(c, r, l, total)}
    BY DEF NewPages
  <2>2. PICK i \in 1..Lacking(c, r, l, total) : p = <<r, l, c.serial[<<r, l>>] + i>>
    BY <2>1
  <2>3. i \in 1..Lacking(room, r, l, total)
    BY <1>3
  <2>4. p = <<r, l, room.serial[<<r, l>>] + i>>
    BY <1>2, <2>2
  <2> QED
    BY <2>3, <2>4 DEF NewPages
<1> QED
  BY <1>4 DEF room

(* A call of allocate_for_request takes pages of others in the order of    *)
(* eviction, and only as many as fill the cache.                           *)
LEMMA AllocationEvictsFirst ==
  ASSUME NEW c, Sound(c), NEW r \in Requests, NEW total \in Nat,
         NEW pin \in BOOLEAN, NEW d, d = Allocation(c, r, total, pin).kv
  PROVE  /\ \A p \in c.pages \ d.pages, q \in d.pages \cap Unpinned(c) :
               EvictedBefore(c, p, q)
         /\ d.pages \ c.pages # {} /\ c.pages \ d.pages # {}
               => Cardinality(d.pages) >= MaxPages
<1> DEFINE needed == PagesNeeded(c, r, total)
           room   == EvictedFor(c, needed)
           new    == NewPages(room, r, total)
<1>1. Sound(room) /\ Consistent(room) /\ room \in Cache /\ IsFiniteSet(room.pages)
  BY EvictedForSound DEF Sound, Consistent, CacheType
<1>2. room.pages \in SUBSET c.pages /\ room.serial = c.serial
  BY EvictedForFields DEF Sound
<1>3. needed \in Nat
  BY NewPagesFresh, FS_CardinalityType DEF PagesNeeded, Sound
<1>4. /\ \A p \in c.pages \ room.pages, q \in room.pages \cap Unpinned(c) :
            EvictedBefore(c, p, q)
      /\ room.pages # c.pages => Cardinality(room.pages) >= MaxPages - needed
  BY <1>3, EvictedForFirst
<1>5. IsFiniteSet(new) /\ new \cap c.pages = {}
  <2>1. \A p \in new : p \notin Issued(room)
    BY <1>1, NewPagesIssue
  <2>2. c.pages \subseteq Issued(c)
    BY IssuedIff DEF Sound, Consistent, CacheType, Cache, TablesIndexed
  <2>3. Issued(room) = Issued(c)
    BY <1>1, <1>2, SameIssued DEF Sound, Consistent, CacheType
  <2> QED
    BY <1>1, <2>1, <2>2, <2>3, NewPagesFresh
<1>6. needed <= Cardinality(new)
  <2>1. NewPages(c, r, total) \in SUBSET new
    BY NewPagesGrow
  <2> QED
    BY <1>5, <2>1, FS_Subset DEF PagesNeeded
<1>7. d = room \/ d.pages = room.pages \cup new
  BY <1>1, GrownFields DEF Allocation
<1> HIDE DEF new, room, needed
<1>8. \A p \in c.pages \ d.pages, q \in d.pages \cap Unpinned(c) :
         EvictedBefore(c, p, q)
  <2>1. Unpinned(c) \subseteq c.pages
    BY DEF Unpinned
  <2> QED
    BY <1>4, <1>5, <1>7, <2>1
<1>9. ASSUME d.pages \ c.pages # {}, c.pages \ d.pages # {}
      PROVE  Cardinality(d.pages) >= MaxPages
  <2>1. d.pages = room.pages \cup new /\ room.pages # c.pages
    BY <1>2, <1>7, <1>9
  <2>2. Cardinality(room.pages) >= MaxPages - needed
    BY <1>4, <2>1
  <2>3. Cardinality(d.pages)
          = Cardinality(room.pages) + Cardinality(new)
              - Cardinality(room.pages \cap new)
    BY <1>1, <1>5, <2>1, FS_Union
  <2>4. Cardinality(room.pages \cap new) = 0
    <3>1. room.pages \cap new = {} /\ Cardinality({}) = 0
      BY <1>2, <1>5, FS_EmptySet
    <3> QED
      BY <3>1, Zenon
  <2>5. Cardinality(room.pages) \in Nat /\ Cardinality(new) \in Nat
    BY <1>1, <1>5, FS_CardinalityType
  <2> QED
    BY <1>3, <1>6, <2>2, <2>3, <2>4, <2>5, PagingAssumption
<1> QED
  BY <1>8, <1>9

-----------------------------------------------------------------------------
(* What the pages of a request cover.                                      *)

(* Quotient and remainder.                                                 *)
LEMMA DivBounds ==
  ASSUME NEW a \in Nat, NEW b \in Nat \ {0}
  PROVE  /\ a \div b \in Nat
         /\ b * (a \div b) <= a
         /\ a < b * ((a \div b) + 1)
<1>1. a = b * (a \div b) + (a % b) /\ a % b \in 0..(b - 1)
  OBVIOUS
<1>2. a \div b \in Nat
  OBVIOUS
<1>3. b * ((a \div b) + 1) = b * (a \div b) + b
  BY <1>2
<1> QED
  BY <1>1, <1>2, <1>3

LEMMA TimesMonotone ==
  ASSUME NEW b \in Nat, NEW m \in Nat, NEW n \in Nat, m <= n
  PROVE  b * m <= b * n
<1>1. PICK k \in Nat : n = m + k
  <2>1. n - m \in Nat /\ n = m + (n - m)
    OBVIOUS
  <2> QED
    BY <2>1
<1>2. b * n = b * m + b * k
  BY <1>1
<1>3. b * m \in Nat /\ b * k \in Nat
  BY <1>1
<1> QED
  BY <1>2, <1>3

(* Every required page starts before the end of the tokens.                *)
LEMMA RequiredBound ==
  ASSUME NEW total \in Nat
  PROVE  /\ Required(total) \in Nat
         /\ \A i \in 1..Required(total) :
               (i - 1) * PageSize \in Nat /\ (i - 1) * PageSize < total
<1> DEFINE a == total + PageSize - 1
           q == a \div PageSize
<1>1. PageSize \in Nat \ {0} /\ a \in Nat
  BY PagingAssumption
<1>2. Required(total) = q /\ q \in Nat /\ PageSize * q <= a
  <2>1. Required(total) = q
    BY DEF Required
  <2> HIDE DEF a
  <2> QED
    BY <1>1, <2>1, DivBounds
<1>3. ASSUME NEW i \in 1..q
      PROVE  (i - 1) * PageSize \in Nat /\ (i - 1) * PageSize < total
  <2> HIDE DEF q
  <2>1. i \in Nat /\ i - 1 \in Nat /\ i <= q
    BY <1>2, <1>3
  <2>2. PageSize * i <= PageSize * q
    BY <1>1, <1>2, <2>1, TimesMonotone
  <2>3. PageSize * i = PageSize * (i - 1) + PageSize
    BY <1>1, <2>1
  <2>4. (i - 1) * PageSize = PageSize * (i - 1) /\ PageSize * (i - 1) \in Nat
    BY <1>1, <2>1
  <2>5. PageSize * i \in Nat /\ PageSize * q \in Nat
    BY <1>1, <1>2, <2>1
  <2>6. PageSize * (i - 1) + PageSize <= total + PageSize - 1
    BY <1>1, <1>2, <2>2, <2>3, <2>5
  <2> QED
    BY <1>1, <2>4, <2>6
<1> QED
  BY <1>2, <1>3

(* More tokens require no fewer pages; no token requires none.             *)
LEMMA RequiredMonotone ==
  ASSUME NEW m \in Nat, NEW n \in Nat, m <= n
  PROVE  Required(m) <= Required(n) /\ Required(0) = 0
<1> DEFINE a == m + PageSize - 1
           b == n + PageSize - 1
<1>1. PageSize \in Nat \ {0} /\ a \in Nat /\ b \in Nat /\ a <= b
  BY PagingAssumption
<1>2. Required(m) = a \div PageSize /\ Required(n) = b \div PageSize
  BY DEF Required
<1> HIDE DEF a, b
<1>3. /\ a \div PageSize \in Nat /\ PageSize * (a \div PageSize) <= a
      /\ b \div PageSize \in Nat /\ b < PageSize * ((b \div PageSize) + 1)
  BY <1>1, DivBounds
<1>4. a \div PageSize <= b \div PageSize
  <2> DEFINE x == a \div PageSize
             y == b \div PageSize
  <2>1. SUFFICES ASSUME y + 1 <= x PROVE FALSE
    BY <1>3
  <2>2. x \in Nat /\ y + 1 \in Nat /\ PageSize * x <= a /\ b < PageSize * (y + 1)
    BY <1>3
  <2> HIDE DEF x, y
  <2>3. PageSize * (y + 1) <= PageSize * x
    BY <1>1, <2>1, <2>2, TimesMonotone
  <2>4. PageSize * (y + 1) \in Nat /\ PageSize * x \in Nat
    BY <1>1, <2>2
  <2> QED
    BY <1>1, <2>2, <2>3, <2>4
<1>5. Required(0) = 0
  <2> DEFINE e == PageSize - 1
  <2>1. e \in Nat /\ Required(0) = e \div PageSize /\ e < PageSize
    BY <1>1 DEF Required
  <2>2. e \div PageSize \in Nat /\ PageSize * (e \div PageSize) <= e
    <3> HIDE DEF e
    <3> QED
      BY <1>1, <2>1, DivBounds
  <2> DEFINE x == e \div PageSize
  <2>3. SUFFICES ASSUME 1 <= x PROVE FALSE
    BY <2>1, <2>2
  <2>4. x \in Nat /\ PageSize * x <= e
    BY <2>2
  <2> HIDE DEF x, e
  <2>5. PageSize * 1 <= PageSize * x
    BY <1>1, <2>3, <2>4, TimesMonotone
  <2>6. PageSize * x \in Nat /\ PageSize * 1 = PageSize
    BY <1>1, <2>4
  <2> QED
    BY <1>1, <2>1, <2>4, <2>5, <2>6
<1> QED
  BY <1>2, <1>4, <1>5

(* The slots and serials the loops of allocate_for_request leave.          *)
LEMMA GrownSlots ==
  ASSUME NEW c, Consistent(c), NEW r \in Requests, NEW total \in Nat,
         NEW pin \in BOOLEAN, NEW d, d = Grown(c, r, total, pin)
  PROVE  /\ \A p \in c.pages : \A t : <<p, t>> \in d.fill <=> <<p, t>> \in c.fill
         /\ \A p \in NewPages(c, r, total) : \A t :
               <<p, t>> \in d.fill <=> t \in Span(c, p, total)
         /\ \A k \in Keys : d.serial[k] =
               IF k[1] = r THEN c.serial[k] + Lacking(c, r, k[2], total)
                           ELSE c.serial[k]
<1> DEFINE new == NewPages(c, r, total)
           filled == UNION {{<<p, t>> : t \in Span(c, p, total)} : p \in new}
<1>1. c \in Cache /\ \A s \in c.fill : s[1] \in c.pages
  BY DEF Consistent, CacheType
<1>2. d.fill = c.fill \cup filled
  BY <1>1 DEF Grown, Cache
<1>3. d.serial = [k \in Keys |->
                    IF k[1] = r THEN c.serial[k] + Lacking(c, r, k[2], total)
                                ELSE c.serial[k]]
  BY <1>1 DEF Grown, Cache
<1>4. new \cap c.pages = {}
  BY NewPagesFresh
<1>5. ASSUME NEW p, NEW t
      PROVE  <<p, t>> \in filled <=> p \in new /\ t \in Span(c, p, total)
  <2> HIDE DEF new
  <2>1. ASSUME p \in new, t \in Span(c, p, total) PROVE <<p, t>> \in filled
    BY <2>1
  <2>2. ASSUME <<p, t>> \in filled PROVE p \in new /\ t \in Span(c, p, total)
    <3>1. PICK q \in new : <<p, t>> \in {<<q, u>> : u \in Span(c, q, total)}
      BY <2>2
    <3>2. PICK u \in Span(c, q, total) : <<p, t>> = <<q, u>>
      BY <3>1
    <3> QED
      BY <3>2
  <2> QED
    BY <2>1, <2>2
<1> HIDE DEF filled, new
<1>6. ASSUME NEW p \in c.pages, NEW t
      PROVE  <<p, t>> \in d.fill <=> <<p, t>> \in c.fill
  BY <1>2, <1>4, <1>5
<1>7. ASSUME NEW p \in new, NEW t
      PROVE  <<p, t>> \in d.fill <=> t \in Span(c, p, total)
  <2>1. <<p, t>> \notin c.fill
    BY <1>1, <1>4
  <2> QED
    BY <1>2, <1>5, <2>1
<1> QED
  BY <1>3, <1>6, <1>7 DEF new

(* t is the first position that p covers.                                  *)
Starts(c, p, t) ==
    <<p, t>> \in c.fill /\ \A u \in Nat : <<p, u>> \in c.fill => t <= u

(* The live pages of r in layer l were issued after the first `base'.       *)
IssuedAfter(c, r, l, base) ==
    \A p \in c.pages : Key(p) = <<r, l>> => p[3] > base

(* The live pages of r in layer l are those issued last, one for each page *)
(* that `total' tokens require, and start where it does.                   *)
LayerCovered(c, r, l, total) ==
    \E base \in Nat :
        /\ c.serial[<<r, l>>] = base + Required(total)
        /\ IssuedAfter(c, r, l, base)
        /\ \A i \in 1..Required(total) :
              /\ <<r, l, base + i>> \in c.pages
              /\ Starts(c, <<r, l, base + i>>, (i - 1) * PageSize)

Covered(c, r, total) == \A l \in Layers : LayerCovered(c, r, l, total)

(* The live pages of r in layer l, and n ids in serial order after base.   *)
LayerPages(c, r, l) == {p \in c.pages : Key(p) = <<r, l>>}

LayerIds(r, l, base, n) == {<<r, l, base + i>> : i \in 1..n}

(* There are as many of them as required.                                  *)
LEMMA LayerCount ==
  ASSUME NEW c, Consistent(c), NEW r \in Requests, NEW l \in Layers,
         NEW n \in Nat, NEW base \in Nat,
         c.serial[<<r, l>>] = base + n,
         IssuedAfter(c, r, l, base),
         \A i \in 1..n : <<r, l, base + i>> \in c.pages
  PROVE  /\ Cardinality(Entries(c, r, l)) = n
         /\ Cardinality(LayerPages(c, r, l)) = n
         /\ LayerPages(c, r, l) = LayerIds(r, l, base, n)
<1> DEFINE P == {p \in c.pages : Key(p) = <<r, l>>}
           E == Entries(c, r, l)
           f == [i \in 1..n |-> <<r, l, base + i>>]
           g == [i \in 1..n |-> <<<<r, l>>, <<r, l, base + i>>>>]
<1>1. /\ c.table = {<<Key(p), p>> : p \in c.pages}
      /\ \A p \in c.pages : p[3] <= c.serial[Key(p)]
      /\ c.pages \subseteq PageIds
  BY DEF Consistent, CacheType, TablesIndexed, Cache
<1>2. ASSUME NEW p \in P PROVE \E i \in 1..n : p = <<r, l, base + i>>
  <2>1. Key(p) = <<r, l>> /\ p \in PageIds /\ p[3] > base /\ p[3] <= base + n
    BY <1>1 DEF IssuedAfter
  <2>2. p = <<r, l, p[3]>> /\ p[3] \in Nat
    BY <2>1 DEF PageIds, Key
  <2>3. p[3] - base \in 1..n /\ base + (p[3] - base) = p[3]
    BY <2>1, <2>2
  <2> QED
    BY <2>2, <2>3
<1>3. ASSUME NEW i \in 1..n PROVE <<r, l, base + i>> \in P
  BY DEF Key
<1>4. IsFiniteSet(1..n) /\ Cardinality(1..n) = n
  <2>1. 1 \in Int /\ n \in Int
    OBVIOUS
  <2>2. /\ IsFiniteSet(1..n)
        /\ Cardinality(1..n) = IF 1 > n THEN 0 ELSE n - 1 + 1
    BY <2>1, FS_Interval
  <2> QED
    BY <2>2
<1>5. P = {<<r, l, base + i>> : i \in 1..n}
  <2> HIDE DEF P
  <2> QED
    BY <1>2, <1>3
<1>6. Cardinality(P) = n
  <2>1. f \in Surjection(1..n, P)
    BY <1>5 DEF Surjection
  <2>2. \A i, j \in 1..n : f[i] = f[j] => i = j
    OBVIOUS
  <2>3. f \in Injection(1..n, P)
    BY <2>1, <2>2 DEF Injection, Surjection, IsInjective
  <2> HIDE DEF f, P
  <2> QED
    BY <1>4, <2>1, <2>3, FS_Surjection
<1>7. E = {<<<<r, l>>, <<r, l, base + i>>>> : i \in 1..n}
  <2>1. ASSUME NEW e \in E PROVE \E i \in 1..n : e = <<<<r, l>>, <<r, l, base + i>>>>
    <3>1. e \in c.table /\ e[1] = <<r, l>>
      BY DEF Entries
    <3>2. PICK p \in c.pages : e = <<Key(p), p>>
      BY <1>1, <3>1
    <3>3. p \in P
      BY <3>1, <3>2
    <3> HIDE DEF P, E
    <3> QED
      BY <1>2, <3>1, <3>2, <3>3
  <2>2. ASSUME NEW i \in 1..n PROVE <<<<r, l>>, <<r, l, base + i>>>> \in E
    <3>1. <<r, l, base + i>> \in c.pages /\ Key(<<r, l, base + i>>) = <<r, l>>
      BY <1>3
    <3>2. <<<<r, l>>, <<r, l, base + i>>>> \in c.table
      BY <1>1, <3>1
    <3> QED
      BY <3>2 DEF Entries
  <2> HIDE DEF E
  <2> QED
    BY <2>1, <2>2
<1>8. Cardinality(E) = n
  <2>1. g \in Surjection(1..n, E)
    BY <1>7 DEF Surjection
  <2>2. \A i, j \in 1..n : g[i] = g[j] => i = j
    OBVIOUS
  <2>3. g \in Injection(1..n, E)
    BY <2>1, <2>2 DEF Injection, Surjection, IsInjective
  <2> HIDE DEF g, E
  <2> QED
    BY <1>4, <2>1, <2>3, FS_Surjection
<1> QED
  BY <1>5, <1>6, <1>8 DEF LayerPages, LayerIds

(* The loops of allocate_for_request continue the sequence where the pages *)
(* of the request end.                                                     *)
LEMMA GrownCovered ==
  ASSUME NEW c, Consistent(c), NEW r \in Requests, NEW m \in Nat,
         NEW total \in Nat, m <= total, Covered(c, r, m), NEW pin \in BOOLEAN
  PROVE  Covered(Grown(c, r, total, pin), r, total)
<1> SUFFICES ASSUME NEW l \in Layers
             PROVE  LayerCovered(Grown(c, r, total, pin), r, l, total)
  BY DEF Covered
<1> DEFINE d == Grown(c, r, total, pin)
           new == NewPages(c, r, total)
           R == Required(m)
           T == Required(total)
           k == Lacking(c, r, l, total)
<1>0. /\ c \in Cache /\ \A p \in c.pages : p[3] <= c.serial[Key(p)]
      /\ <<r, l>> \in Keys
  BY DEF Consistent, CacheType, TablesIndexed, Keys
<1>1. R \in Nat /\ T \in Nat /\ R <= T
  BY RequiredBound, RequiredMonotone
<1>2. PICK base \in Nat :
         /\ c.serial[<<r, l>>] = base + R
         /\ IssuedAfter(c, r, l, base)
         /\ \A i \in 1..R :
               /\ <<r, l, base + i>> \in c.pages
               /\ Starts(c, <<r, l, base + i>>, (i - 1) * PageSize)
  BY DEF Covered, LayerCovered
<1>3. Cardinality(Entries(c, r, l)) = R
  <2>1. \A i \in 1..R : <<r, l, base + i>> \in c.pages
    BY <1>2
  <2>2. IssuedAfter(c, r, l, base)
    BY <1>2
  <2>3. c.serial[<<r, l>>] = base + R
    BY <1>2
  <2> HIDE DEF R
  <2> QED
    BY <1>1, <2>1, <2>2, <2>3, LayerCount, ZenonT(30)
<1>4. k = T - R
  <2>1. k = IF T > Cardinality(Entries(c, r, l))
            THEN T - Cardinality(Entries(c, r, l)) ELSE 0
    BY DEF Lacking
  <2> HIDE DEF k, T, R
  <2> QED
    BY <1>1, <1>3, <2>1
<1>5. /\ \A p \in c.pages : \A t : <<p, t>> \in d.fill <=> <<p, t>> \in c.fill
      /\ \A p \in new : \A t : <<p, t>> \in d.fill <=> t \in Span(c, p, total)
      /\ d.serial[<<r, l>>] = c.serial[<<r, l>>] + k
  <2>1. /\ \A p \in c.pages : \A t : <<p, t>> \in d.fill <=> <<p, t>> \in c.fill
        /\ \A p \in new : \A t : <<p, t>> \in d.fill <=> t \in Span(c, p, total)
        /\ \A j \in Keys : d.serial[j] =
              IF j[1] = r THEN c.serial[j] + Lacking(c, r, j[2], total)
                          ELSE c.serial[j]
    BY GrownSlots
  <2> HIDE DEF d
  <2>2. d.serial[<<r, l>>] = c.serial[<<r, l>>] + Lacking(c, r, l, total)
    BY <1>0, <2>1
  <2> QED
    BY <2>1, <2>2
<1>6. d.pages = c.pages \cup new
  BY <1>0, GrownFields
<1>7. \A p \in new : p[3] > c.serial[Key(p)]
  BY NewPagesFresh
<1>8. ASSUME NEW i \in (R + 1)..T
      PROVE  <<r, l, base + i>> \in new
  <2>1. i - R \in 1..k /\ base + i = c.serial[<<r, l>>] + (i - R)
    <3> HIDE DEF R, T, k
    <3> QED
      BY <1>1, <1>2, <1>4
  <2>2. <<r, l, c.serial[<<r, l>>] + (i - R)>> \in new
    <3> HIDE DEF k, R
    <3> QED
      BY <2>1 DEF NewPages, k
  <2> QED
    BY <2>1, <2>2
<1>9. ASSUME NEW i \in (R + 1)..T
      PROVE  Starts(d, <<r, l, base + i>>, (i - 1) * PageSize)
  <2> DEFINE p == <<r, l, base + i>>
  <2>1. p \in new
    BY <1>8
  <2>2. Key(p) = <<r, l>> /\ p[1] = r /\ p[2] = l /\ p[3] = base + i
    BY DEF Key
  <2>3. Span(c, p, total)
          = {t \in ((i - 1) * PageSize)..((i - 1) * PageSize + PageSize - 1) :
                t < total}
    <3>1. Cardinality(Entries(c, p[1], p[2])) + (p[3] - c.serial[Key(p)] - 1) = i - 1
      <4> HIDE DEF R, T, p
      <4> QED
        BY <1>1, <1>2, <1>3, <2>2
    <3> HIDE DEF p
    <3> QED
      BY <3>1, Zenon DEF Span
  <2>4. (i - 1) * PageSize \in Nat /\ (i - 1) * PageSize < total
    <3>1. i \in 1..T
      <4> HIDE DEF R, T
      <4> QED
        BY <1>1
    <3> QED
      BY <3>1, RequiredBound
  <2>5. \A t : <<p, t>> \in d.fill <=> t \in Span(c, p, total)
    BY <1>5, <2>1
  <2> HIDE DEF p, d
  <2>6. (i - 1) * PageSize \in Span(c, p, total)
    BY <2>3, <2>4, PagingAssumption
  <2>7. \A u \in Nat : u \in Span(c, p, total) => (i - 1) * PageSize <= u
    BY <2>3, <2>4
  <2> QED
    BY <2>5, <2>6, <2>7 DEF Starts, p
<1>10. ASSUME NEW i \in 1..R
       PROVE  Starts(d, <<r, l, base + i>>, (i - 1) * PageSize)
  <2>1. /\ <<r, l, base + i>> \in c.pages
        /\ Starts(c, <<r, l, base + i>>, (i - 1) * PageSize)
    BY <1>2
  <2> HIDE DEF d
  <2> QED
    BY <1>5, <2>1 DEF Starts
<1> HIDE DEF d, new, R, T, k
<1>11. d.serial[<<r, l>>] = base + T
  BY <1>1, <1>2, <1>4, <1>5
<1>12. ASSUME NEW p \in d.pages, Key(p) = <<r, l>> PROVE p[3] > base
  <2>1. CASE p \in c.pages
    BY <1>2, <1>12, <2>1 DEF IssuedAfter
  <2>2. CASE p \in new
    <3>1. p[3] > base + R /\ p[3] \in Int
      BY <1>2, <1>7, <1>12, <2>2, NewPagesFresh DEF new
    <3> QED
      BY <1>1, <3>1
  <2> QED
    BY <1>6, <2>1, <2>2
<1>13. ASSUME NEW i \in 1..T
       PROVE  /\ <<r, l, base + i>> \in d.pages
              /\ Starts(d, <<r, l, base + i>>, (i - 1) * PageSize)
  <2>1. i \in 1..R \/ i \in (R + 1)..T
    BY <1>1
  <2> QED
    BY <1>2, <1>6, <1>8, <1>9, <1>10, <2>1
<1> QED
  BY <1>11, <1>12, <1>13 DEF LayerCovered, IssuedAfter, d, T

(* The same pages and slots of r, and none issued to it in between.        *)
SameFor(c, d, r) ==
    /\ \A p \in PageIds : Owner(p) = r => (p \in d.pages <=> p \in c.pages)
    /\ \A p \in c.pages : Owner(p) = r =>
          \A t \in Nat : <<p, t>> \in d.fill <=> <<p, t>> \in c.fill
    /\ \A l \in Layers : d.serial[<<r, l>>] = c.serial[<<r, l>>]

LEMMA SameForTransitive ==
  ASSUME NEW c, Consistent(c), NEW d, NEW e, NEW r, SameFor(c, d, r), SameFor(d, e, r)
  PROVE  SameFor(c, e, r)
<1>1. c.pages \subseteq PageIds
  BY DEF Consistent, CacheType, Cache
<1> QED
  BY <1>1 DEF SameFor

LEMMA SameCovered ==
  ASSUME NEW c, Consistent(c), NEW d, Consistent(d), NEW r \in Requests,
         NEW total \in Nat, Covered(c, r, total), SameFor(c, d, r)
  PROVE  Covered(d, r, total)
<1> SUFFICES ASSUME NEW l \in Layers PROVE LayerCovered(d, r, l, total)
  BY DEF Covered
<1>1. PICK base \in Nat :
         /\ c.serial[<<r, l>>] = base + Required(total)
         /\ IssuedAfter(c, r, l, base)
         /\ \A i \in 1..Required(total) :
               /\ <<r, l, base + i>> \in c.pages
               /\ Starts(c, <<r, l, base + i>>, (i - 1) * PageSize)
  BY DEF Covered, LayerCovered
<1>2. c.pages \subseteq PageIds /\ d.pages \subseteq PageIds
  BY DEF Consistent, CacheType, Cache
<1>3. d.serial[<<r, l>>] = base + Required(total)
  BY <1>1 DEF SameFor
<1>4. ASSUME NEW p \in d.pages, Key(p) = <<r, l>> PROVE p[3] > base
  <2>1. Owner(p) = r
    BY <1>4 DEF Key, Owner
  <2> QED
    BY <1>1, <1>2, <1>4, <2>1 DEF SameFor, IssuedAfter
<1>5. ASSUME NEW i \in 1..Required(total)
      PROVE  /\ <<r, l, base + i>> \in d.pages
             /\ Starts(d, <<r, l, base + i>>, (i - 1) * PageSize)
  <2> DEFINE p == <<r, l, base + i>>
  <2>1. p \in c.pages /\ Starts(c, p, (i - 1) * PageSize) /\ Owner(p) = r
    BY <1>1 DEF Owner
  <2>2. (i - 1) * PageSize \in Nat
    BY RequiredBound
  <2> HIDE DEF p
  <2>3. p \in d.pages
    BY <1>2, <2>1 DEF SameFor
  <2>4. Starts(d, p, (i - 1) * PageSize)
    BY <2>1, <2>2 DEF SameFor, Starts
  <2> QED
    BY <2>3, <2>4 DEF p
<1> QED
  BY <1>3, <1>4, <1>5 DEF LayerCovered, IssuedAfter

(* A request without pages has what no token requires.                     *)
LEMMA NoneCovered ==
  ASSUME NEW c, Consistent(c), NEW r \in Requests,
         \A p \in c.pages : Owner(p) # r
  PROVE  Covered(c, r, 0)
<1> SUFFICES ASSUME NEW l \in Layers PROVE LayerCovered(c, r, l, 0)
  BY DEF Covered
<1>1. Required(0) = 0
  BY RequiredMonotone
<1>2. c.serial[<<r, l>>] \in Nat
  BY DEF Consistent, CacheType, Cache, Keys
<1>3. \A p \in c.pages : Key(p) # <<r, l>>
  BY DEF Key, Owner
<1>4. /\ c.serial[<<r, l>>] = c.serial[<<r, l>>] + Required(0)
      /\ \A i : i \notin 1..Required(0)
  BY <1>1, <1>2
<1> QED
  BY <1>2, <1>3, <1>4 DEF LayerCovered, IssuedAfter

(* The slots and serials that a removal leaves.                            *)
LEMMA DroppedSlots ==
  ASSUME NEW c, Consistent(c), NEW V
  PROVE  /\ Dropped(c, V).pages = c.pages \ V
         /\ \A p \in Dropped(c, V).pages : \A t :
               <<p, t>> \in Dropped(c, V).fill <=> <<p, t>> \in c.fill
         /\ Dropped(c, V).serial = c.serial
<1>1. c \in Cache
  BY DEF Consistent, CacheType
<1>2. /\ Dropped(c, V).pages = c.pages \ V
      /\ Dropped(c, V).fill = {s \in c.fill : s[1] \notin V}
      /\ Dropped(c, V).serial = c.serial
  BY <1>1 DEF Dropped, Cache
<1> QED
  BY <1>2

(* The eviction of an allocation, likewise.                                *)
LEMMA EvictedForSlots ==
  ASSUME NEW c, Consistent(c), NEW n
  PROVE  /\ \A p \in EvictedFor(c, n).pages : \A t :
               <<p, t>> \in EvictedFor(c, n).fill <=> <<p, t>> \in c.fill
         /\ EvictedFor(c, n).serial = c.serial
<1>1. CASE n > FreePages(c)
  <2>1. EvictedFor(c, n) = Dropped(c, Victims(c, n - FreePages(c)))
    BY <1>1 DEF EvictedFor, Evicted
  <2> QED
    BY <2>1, DroppedSlots
<1>2. CASE ~(n > FreePages(c))
  BY <1>2 DEF EvictedFor
<1> QED
  BY <1>1, <1>2

(* The pages made after an eviction are not among those it took either.    *)
LEMMA NewPagesApart ==
  ASSUME NEW c, Consistent(c), NEW n, NEW r \in Requests, NEW total \in Nat
  PROVE  \A p \in NewPages(EvictedFor(c, n), r, total) : p \notin c.pages
<1> DEFINE room == EvictedFor(c, n)
<1>1. Consistent(room) /\ room.serial = c.serial
  BY EvictedForConsistent, EvictedForSlots
<1> HIDE DEF room
<1>2. ASSUME NEW p \in NewPages(room, r, total), p \in c.pages PROVE FALSE
  <2>1. p[3] > room.serial[Key(p)] /\ p[3] \in Int /\ Key(p) \in Keys
    BY <1>1, <1>2, NewPagesFresh
  <2>2. p[3] <= c.serial[Key(p)] /\ c.serial[Key(p)] \in Nat
    BY <1>2, <2>1 DEF Consistent, TablesIndexed, CacheType, Cache
  <2> QED
    BY <1>1, <2>1, <2>2
<1> QED
  BY <1>2 DEF room

(* An allocation writes no slot of a page that was there, and issues ids   *)
(* to its own request only.                                                *)
LEMMA AllocationSlots ==
  ASSUME NEW c, Consistent(c), NEW r \in Requests, NEW total \in Nat,
         NEW pin \in BOOLEAN, NEW d, d = Allocation(c, r, total, pin).kv
  PROVE  /\ \A p \in c.pages \cap d.pages : \A t :
               <<p, t>> \in d.fill <=> <<p, t>> \in c.fill
         /\ \A k \in Keys : k[1] # r => d.serial[k] = c.serial[k]
<1> DEFINE room == EvictedFor(c, PagesNeeded(c, r, total))
           g == Grown(room, r, total, pin)
<1>1. d = g \/ d = room
  BY DEF Allocation
<1>2. /\ Consistent(room) /\ room.pages \in SUBSET c.pages
      /\ room.serial = c.serial
      /\ \A p \in room.pages : \A t : <<p, t>> \in room.fill <=> <<p, t>> \in c.fill
  BY EvictedForConsistent, EvictedForFields, EvictedForSlots
<1> HIDE DEF room
<1>3. CASE d = room
  BY <1>2, <1>3
<1>4. CASE d = g
  <2>1. /\ \A p \in room.pages : \A t : <<p, t>> \in g.fill <=> <<p, t>> \in room.fill
        /\ \A k \in Keys : g.serial[k] =
              IF k[1] = r THEN room.serial[k] + Lacking(room, r, k[2], total)
                          ELSE room.serial[k]
    BY <1>2, GrownSlots
  <2>2. g.pages = room.pages \cup NewPages(room, r, total)
    BY <1>2, GrownFields DEF Consistent, CacheType
  <2>3. \A p \in NewPages(room, r, total) : p \notin c.pages
    BY NewPagesApart DEF room
  <2> HIDE DEF g
  <2> QED
    BY <1>2, <1>4, <2>1, <2>2, <2>3
<1> QED
  BY <1>1, <1>3, <1>4

-----------------------------------------------------------------------------
(* Positions without a gap.                                                *)

(* A page that starts at t is one whose token_start is t.                  *)
LEMMA StartIsTokenStart ==
  ASSUME NEW c, Consistent(c), NEW p, NEW t \in Nat, Starts(c, p, t)
  PROVE  TokenStart(c, p) = t
<1> DEFINE held == {s[2] : s \in Slots(c, {p})}
<1>1. c.fill \subseteq PageIds \X Nat
  BY DEF Consistent, CacheType, Cache
<1>2. held = {u \in Nat : <<p, u>> \in c.fill}
  <2>1. ASSUME NEW u \in held PROVE u \in Nat /\ <<p, u>> \in c.fill
    <3>1. PICK s \in c.fill : s[1] = p /\ u = s[2]
      BY DEF Slots
    <3>2. s = <<s[1], s[2]>> /\ s[2] \in Nat
      BY <1>1, <3>1
    <3> QED
      BY <3>1, <3>2
  <2>2. ASSUME NEW u \in Nat, <<p, u>> \in c.fill PROVE u \in held
    <3>1. <<p, u>> \in Slots(c, {p}) /\ <<p, u>>[2] = u
      BY <2>2 DEF Slots
    <3> QED
      BY <3>1
  <2> HIDE DEF held
  <2> QED
    BY <2>1, <2>2
<1>3. t \in held /\ \A u \in held : t <= u
  BY <1>2 DEF Starts
<1>4. TokenStart(c, p) = CHOOSE x \in held : \A u \in held : x <= u
  BY DEF TokenStart
<1>5. ASSUME NEW x \in held, \A u \in held : x <= u PROVE x = t
  <2>1. x \in Nat
    BY <1>2
  <2> HIDE DEF held
  <2>2. t <= x /\ x <= t
    BY <1>3, <1>5
  <2> QED
    BY <2>1, <2>2
<1> HIDE DEF held
<1>6. (CHOOSE x \in held : \A u \in held : x <= u) = t
  BY <1>3, <1>5
<1> QED
  BY <1>4, <1>6

(* Pages whose slots are the same start at the same position.              *)
LEMMA SameTokenStart ==
  ASSUME NEW c, Consistent(c), NEW d, Consistent(d), NEW p,
         \A t \in Nat : <<p, t>> \in d.fill <=> <<p, t>> \in c.fill
  PROVE  TokenStart(d, p) = TokenStart(c, p)
<1>1. c.fill \subseteq PageIds \X Nat /\ d.fill \subseteq PageIds \X Nat
  BY DEF Consistent, CacheType, Cache
<1>2. Slots(d, {p}) = Slots(c, {p})
  <2>1. ASSUME NEW s, s[1] = p
        PROVE  s \in d.fill <=> s \in c.fill
    <3>1. CASE s \in PageIds \X Nat
      <4>1. s = <<p, s[2]>> /\ s[2] \in Nat
        BY <2>1, <3>1
      <4> QED
        BY <4>1
    <3>2. CASE s \notin PageIds \X Nat
      BY <1>1, <3>2
    <3> QED
      BY <3>1, <3>2
  <2> QED
    BY <2>1 DEF Slots
<1> QED
  BY <1>2, Zenon DEF TokenStart

(* Pages that keep their slots through a change keep their positions.      *)
LEMMA SameGapless ==
  ASSUME NEW c, Consistent(c), NEW d, Consistent(d), NEW S,
         \A p \in S : \A t \in Nat : <<p, t>> \in d.fill <=> <<p, t>> \in c.fill
  PROVE  Gapless(d, S) <=> Gapless(c, S)
<1>1. \A p \in S : TokenStart(d, p) = TokenStart(c, p)
  BY SameTokenStart
<1>2. ASSUME NEW l
      PROVE  {TokenStart(d, p) : p \in {q \in S : q[2] = l}}
               = {TokenStart(c, p) : p \in {q \in S : q[2] = l}}
  BY <1>1
<1> QED
  BY <1>2, Zenon DEF Gapless

(* A call that makes no page of r, and writes no slot of those it leaves.  *)
LEMMA KeptGapless ==
  ASSUME NEW c, Consistent(c), NEW d, Consistent(d), NEW r,
         \A p \in d.pages : Owner(p) = r =>
            p \in c.pages /\ \A t \in Nat : <<p, t>> \in d.fill <=> <<p, t>> \in c.fill
  PROVE  /\ PagesOf(d, r) = PagesOf(c, r) \cap d.pages
         /\ Gapless(d, PagesOf(d, r)) <=> Gapless(c, PagesOf(c, r) \cap d.pages)
<1>1. /\ PagesOf(c, r) = {p \in c.pages : Owner(p) = r}
      /\ PagesOf(d, r) = {p \in d.pages : Owner(p) = r}
  BY PagesOfLive DEF Consistent
<1>2. PagesOf(d, r) = PagesOf(c, r) \cap d.pages
  BY <1>1
<1>3. \A p \in PagesOf(d, r) : \A t \in Nat :
         <<p, t>> \in d.fill <=> <<p, t>> \in c.fill
  BY <1>1
<1>4. Gapless(d, PagesOf(d, r)) <=> Gapless(c, PagesOf(d, r))
  BY <1>3, SameGapless
<1> QED
  BY <1>2, <1>4

(* A layer of a request has as many live pages as its table has entries.   *)
LEMMA EntriesCount ==
  ASSUME NEW c, Consistent(c), NEW r, NEW l
  PROVE  LET layer == {p \in PagesOf(c, r) : p[2] = l}
         IN  /\ IsFiniteSet(layer)
             /\ Cardinality(layer) = Cardinality(Entries(c, r, l))
             /\ Cardinality(layer) \in Nat
<1> DEFINE layer == {p \in PagesOf(c, r) : p[2] = l}
           E == Entries(c, r, l)
           f == [e \in E |-> e[2]]
<1>1. c.table = {<<Key(p), p>> : p \in c.pages}
  BY DEF Consistent, TablesIndexed
<1>2. PagesOf(c, r) = {p \in c.pages : Owner(p) = r}
  BY PagesOfLive DEF Consistent
<1>3. ASSUME NEW e \in E
      PROVE  e[2] \in layer /\ e = <<Key(e[2]), e[2]>>
  <2>1. e \in c.table /\ e[1] = <<r, l>>
    BY DEF Entries
  <2>2. PICK p \in c.pages : e = <<Key(p), p>>
    BY <1>1, <2>1
  <2>3. e[2] = p /\ Key(p) = <<r, l>>
    BY <2>1, <2>2
  <2>4. Owner(p) = r /\ p[2] = l
    BY <2>3 DEF Key, Owner
  <2> QED
    BY <1>2, <2>2, <2>3, <2>4
<1>4. ASSUME NEW p \in layer
      PROVE  <<Key(p), p>> \in E
  <2>1. p \in c.pages /\ Key(p) = <<r, l>>
    BY <1>2 DEF Key, Owner
  <2>2. <<Key(p), p>> \in c.table
    BY <1>1, <2>1
  <2> QED
    BY <2>1, <2>2 DEF Entries
<1>5. IsFiniteSet(E) /\ Cardinality(E) \in Nat
  BY EntriesFinite
<1> HIDE DEF layer, E
<1>6. f \in [E -> layer]
  BY <1>3
<1>7. \A p \in layer : \E e \in E : f[e] = p
  <2>1. ASSUME NEW p \in layer PROVE \E e \in E : f[e] = p
    <3>1. <<Key(p), p>> \in E /\ f[<<Key(p), p>>] = p
      BY <1>4
    <3> QED
      BY <3>1
  <2> QED
    BY <2>1
<1>8. \A e, g \in E : f[e] = f[g] => e = g
  BY <1>3
<1>9. f \in Surjection(E, layer) /\ f \in Injection(E, layer)
  BY <1>6, <1>7, <1>8 DEF Surjection, Injection, IsInjective
<1> HIDE DEF f
<1>10. IsFiniteSet(layer) /\ Cardinality(layer) = Cardinality(E)
  BY <1>5, <1>9, FS_Surjection
<1> QED
  BY <1>5, <1>10 DEF layer, E

(* n consecutive ids.                                                      *)
LEMMA IdsCount ==
  ASSUME NEW r, NEW l, NEW base \in Nat, NEW n \in Nat
  PROVE  /\ IsFiniteSet(LayerIds(r, l, base, n))
         /\ Cardinality(LayerIds(r, l, base, n)) = n
<1> DEFINE f == [i \in 1..n |-> <<r, l, base + i>>]
           P == LayerIds(r, l, base, n)
<1>1. IsFiniteSet(1..n) /\ Cardinality(1..n) = n
  <2>1. 1 \in Int /\ n \in Int
    OBVIOUS
  <2>2. /\ IsFiniteSet(1..n)
        /\ Cardinality(1..n) = IF 1 > n THEN 0 ELSE n - 1 + 1
    BY <2>1, FS_Interval
  <2> QED
    BY <2>2
<1>2. f \in Surjection(1..n, P)
  BY DEF Surjection, LayerIds
<1>3. \A i, j \in 1..n : f[i] = f[j] => i = j
  OBVIOUS
<1>4. f \in Injection(1..n, P)
  BY <1>2, <1>3 DEF Injection, Surjection, IsInjective
<1> HIDE DEF f
<1> QED
  BY <1>1, <1>2, <1>4, FS_Surjection

(* The page of position t is among those that `total' tokens require.      *)
LEMMA RequiredReaches ==
  ASSUME NEW total \in Nat, NEW t \in 0..(total - 1)
  PROVE  /\ t \div PageSize \in Nat
         /\ (t \div PageSize) + 1 <= Required(total)
         /\ (t \div PageSize) * PageSize \in Nat
         /\ (t \div PageSize) * PageSize <= t
         /\ t < (t \div PageSize) * PageSize + PageSize
<1> DEFINE a == total + PageSize - 1
           q == a \div PageSize
           x == t \div PageSize
<1>1. PageSize \in Nat \ {0} /\ a \in Nat /\ t \in Nat
  BY PagingAssumption
<1>2. x \in Nat /\ PageSize * x <= t /\ t < PageSize * (x + 1)
  BY <1>1, DivBounds
<1>3. Required(total) = q
  BY DEF Required
<1>4. q \in Nat /\ PageSize * q <= a /\ a < PageSize * (q + 1)
  <2> HIDE DEF a
  <2> QED
    BY <1>1, DivBounds
<1>5. t + PageSize <= a
  BY <1>1
<1> HIDE DEF a, q, x
<1>6. x * PageSize = PageSize * x /\ x * PageSize \in Nat
        /\ PageSize * (x + 1) = x * PageSize + PageSize
  BY <1>1, <1>2
<1>7. x + 1 <= q
  <2>1. SUFFICES ASSUME q + 1 <= x + 1 PROVE FALSE
    BY <1>2, <1>4
  <2>2. PageSize * (q + 1) <= PageSize * (x + 1)
    BY <1>1, <1>2, <1>4, <2>1, TimesMonotone
  <2>3. PageSize * (q + 1) \in Nat
    BY <1>1, <1>4
  <2> QED
    BY <1>1, <1>2, <1>4, <1>5, <1>6, <2>2, <2>3
<1> QED
  BY <1>2, <1>3, <1>6, <1>7 DEF x

(* The pages that the table of r and l lists.                              *)
LayerOf(c, r, l) == {p \in PagesOf(c, r) : p[2] = l}

(* They are at least those that `total' tokens require, without a gap.     *)
LayerReaches(c, r, l, total) ==
    /\ Cardinality(LayerOf(c, r, l)) \in Nat
    /\ Cardinality(LayerOf(c, r, l)) >= Required(total)
    /\ {TokenStart(c, p) : p \in LayerOf(c, r, l)}
         = {(i - 1) * PageSize : i \in 1..Cardinality(LayerOf(c, r, l))}

(* In one layer, the loops of allocate_for_request continue where the      *)
(* pages of r end, if these have no gap.                                   *)
LEMMA GrownLayer ==
  ASSUME NEW c, Consistent(c), NEW r \in Requests, NEW total \in Nat,
         NEW pin \in BOOLEAN, NEW d, d = Grown(c, r, total, pin),
         Gapless(c, PagesOf(c, r)), NEW l \in Layers
  PROVE  LayerReaches(d, r, l, total)
<1> DEFINE new == NewPages(c, r, total)
           old   == {p \in PagesOf(c, r) : p[2] = l}
           layer == {p \in PagesOf(d, r) : p[2] = l}
           n == Cardinality(old)
           k == Lacking(c, r, l, total)
           s == c.serial[<<r, l>>]
           ids == LayerIds(r, l, s, k)
<1>1. /\ Consistent(d) /\ d.pages = c.pages \cup new
      /\ \A p \in new : Owner(p) = r
      /\ new \cap c.pages = {}
  BY GrownConsistent, GrownFields, NewPagesFresh DEF Consistent, CacheType
<1>2. /\ \A p \in c.pages : \A t : <<p, t>> \in d.fill <=> <<p, t>> \in c.fill
      /\ \A p \in new : \A t : <<p, t>> \in d.fill <=> t \in Span(c, p, total)
  BY GrownSlots
<1>3. /\ PagesOf(c, r) = {p \in c.pages : Owner(p) = r}
      /\ PagesOf(d, r) = {p \in d.pages : Owner(p) = r}
      /\ PagesOf(d, r) = PagesOf(c, r) \cup new
  <2>1. /\ PagesOf(c, r) = {p \in c.pages : Owner(p) = r}
        /\ PagesOf(d, r) = {p \in d.pages : Owner(p) = r}
    BY <1>1, PagesOfLive DEF Consistent
  <2> HIDE DEF new
  <2> QED
    BY <1>1, <2>1
<1>4. /\ n \in Nat /\ k \in Nat /\ s \in Nat
      /\ IsFiniteSet(old) /\ n = Cardinality(Entries(c, r, l))
      /\ Required(total) \in Nat
      /\ k = IF Required(total) > n THEN Required(total) - n ELSE 0
  <2>1. c.serial \in [Keys -> Nat] /\ <<r, l>> \in Keys
    BY DEF Consistent, CacheType, Cache, Keys
  <2>2. IsFiniteSet(old) /\ n = Cardinality(Entries(c, r, l)) /\ n \in Nat
    BY EntriesCount
  <2>3. Required(total) \in Nat /\ k \in Nat
    BY LackingType
  <2> QED
    BY <2>1, <2>2, <2>3 DEF Lacking
<1>5. {p \in new : p[2] = l} = ids
  <2>1. ASSUME NEW p \in new, p[2] = l PROVE p \in ids
    <3>1. PICK m \in Layers :
             p \in {<<r, m, c.serial[<<r, m>>] + i>> : i \in 1..Lacking(c, r, m, total)}
      BY DEF NewPages
    <3>2. PICK i \in 1..Lacking(c, r, m, total) : p = <<r, m, c.serial[<<r, m>>] + i>>
      BY <3>1
    <3>3. m = l
      BY <2>1, <3>2
    <3> QED
      BY <3>2, <3>3 DEF LayerIds
  <2>2. ASSUME NEW p \in ids PROVE p \in new /\ p[2] = l
    BY DEF NewPages, LayerIds
  <2> HIDE DEF new
  <2> QED
    BY <2>1, <2>2
<1>6. /\ layer = old \cup ids
      /\ Cardinality(layer) = n + k
  <2>1. layer = old \cup ids /\ old \cap ids = {}
    <3>1. layer = old \cup {p \in new : p[2] = l}
      BY <1>3
    <3>2. old \cap {p \in new : p[2] = l} = {}
      BY <1>1, <1>3
    <3> HIDE DEF layer, old, new, ids
    <3> QED
      BY <1>5, <3>1, <3>2
  <2>2. IsFiniteSet(ids) /\ Cardinality(ids) = k
    <3> HIDE DEF k, s
    <3> QED
      BY <1>4, IdsCount
  <2> HIDE DEF layer, old, ids, k
  <2>3. Cardinality(old \cup ids)
          = Cardinality(old) + Cardinality(ids) - Cardinality(old \cap ids)
    BY <1>4, <2>2, FS_Union
  <2>4. Cardinality(old \cap ids) = 0
    BY <2>1, FS_EmptySet, Zenon
  <2> QED
    BY <1>4, <2>1, <2>2, <2>3, <2>4
<1>7. ASSUME NEW p \in PagesOf(c, r)
      PROVE  TokenStart(d, p) = TokenStart(c, p)
  <2>1. p \in c.pages
    BY <1>3
  <2> HIDE DEF new
  <2>2. \A t \in Nat : <<p, t>> \in d.fill <=> <<p, t>> \in c.fill
    BY <1>2, <2>1
  <2> QED
    BY <1>1, <2>2, SameTokenStart
<1>8. ASSUME NEW i \in 1..k
      PROVE  TokenStart(d, <<r, l, s + i>>) = (n + i - 1) * PageSize
  <2> DEFINE p == <<r, l, s + i>>
             b == (n + i - 1) * PageSize
  <2>1. p \in new
    <3>1. p \in ids
      BY DEF LayerIds
    <3> HIDE DEF p, new, ids
    <3> QED
      BY <1>5, <3>1
  <2>2. Span(c, p, total) = {t \in b..(b + PageSize - 1) : t < total}
    <3>1. p[1] = r /\ p[2] = l /\ p[3] = s + i /\ Key(p) = <<r, l>>
      BY DEF Key
    <3>2. Cardinality(Entries(c, p[1], p[2])) + (p[3] - c.serial[Key(p)] - 1)
            = n + i - 1
      <4>1. /\ Cardinality(Entries(c, p[1], p[2])) = n
            /\ c.serial[Key(p)] = s /\ p[3] = s + i
        BY <1>4, <3>1
      <4> HIDE DEF p, n, s, k
      <4> QED
        BY <1>4, <4>1
    <3> HIDE DEF p, n
    <3> QED
      BY <3>2, Zenon DEF Span
  <2>3. b \in Nat /\ b < total
    <3>1. n + i \in 1..Required(total)
      <4> HIDE DEF n, k
      <4> QED
        BY <1>4
    <3> DEFINE j == n + i
    <3> HIDE DEF n
    <3>2. j \in 1..Required(total) /\ n + i - 1 = j - 1
      BY <1>4, <3>1
    <3> HIDE DEF j
    <3>3. (j - 1) * PageSize \in Nat /\ (j - 1) * PageSize < total
      BY <3>2, RequiredBound
    <3> QED
      BY <3>2, <3>3
  <2>4. \A t : <<p, t>> \in d.fill <=> t \in Span(c, p, total)
    BY <1>2, <2>1
  <2> HIDE DEF p, b
  <2>5. Starts(d, p, b)
    <3>1. b \in Span(c, p, total)
      BY <2>2, <2>3, PagingAssumption
    <3>2. \A u \in Nat : u \in Span(c, p, total) => b <= u
      BY <2>2, <2>3
    <3> QED
      BY <2>4, <3>1, <3>2 DEF Starts
  <2> QED
    BY <1>1, <2>3, <2>5, StartIsTokenStart DEF p, b
<1>9. {TokenStart(d, p) : p \in layer}
        = {(i - 1) * PageSize : i \in 1..(n + k)}
  <2>1. {TokenStart(c, p) : p \in old} = {(i - 1) * PageSize : i \in 1..n}
    BY Zenon DEF Gapless
  <2>2. {TokenStart(d, p) : p \in old} = {(i - 1) * PageSize : i \in 1..n}
    <3>1. \A p \in old : TokenStart(d, p) = TokenStart(c, p)
      BY <1>7
    <3> HIDE DEF old, n
    <3> QED
      BY <2>1, <3>1
  <2>3. {TokenStart(d, p) : p \in ids}
          = {(n + i - 1) * PageSize : i \in 1..k}
    <3>1. ids = {<<r, l, s + i>> : i \in 1..k}
      BY DEF LayerIds
    <3> HIDE DEF ids, n, k, s
    <3> QED
      BY <1>8, <3>1
  <2>4. {(i - 1) * PageSize : i \in 1..(n + k)}
          = {(i - 1) * PageSize : i \in 1..n}
              \cup {(n + i - 1) * PageSize : i \in 1..k}
    <3> HIDE DEF n, k
    <3> DEFINE A == {(i - 1) * PageSize : i \in 1..(n + k)}
               B == {(i - 1) * PageSize : i \in 1..n}
               C == {(n + i - 1) * PageSize : i \in 1..k}
    <3>1. ASSUME NEW j \in 1..(n + k) PROVE (j - 1) * PageSize \in B \cup C
      <4>1. CASE j \in 1..n
        BY <4>1
      <4>2. CASE j \notin 1..n
        <5>1. j - n \in 1..k /\ n + (j - n) - 1 = j - 1
          BY <1>4, <4>2
        <5>2. (n + (j - n) - 1) * PageSize \in C
          BY <5>1
        <5> HIDE DEF C
        <5> QED
          BY <5>1, <5>2
      <4> QED
        BY <4>1, <4>2
    <3>2. ASSUME NEW j \in 1..k PROVE (n + j - 1) * PageSize \in A
      <4> DEFINE i == n + j
      <4>1. i \in 1..(n + k) /\ n + j - 1 = i - 1
        BY <1>4
      <4> HIDE DEF i
      <4>2. (i - 1) * PageSize \in A
        BY <4>1
      <4> HIDE DEF A
      <4> QED
        BY <4>1, <4>2
    <3>3. ASSUME NEW j \in 1..n PROVE (j - 1) * PageSize \in A
      <4>1. j \in 1..(n + k)
        BY <1>4
      <4> QED
        BY <4>1
    <3>4. A \subseteq B \cup C
      <4> HIDE DEF B, C
      <4> QED
        BY <3>1
    <3>5. B \cup C \subseteq A
      <4> HIDE DEF A
      <4> QED
        BY <3>2, <3>3
    <3> QED
      BY <3>4, <3>5
  <2>5. layer = old \cup ids
    BY <1>6
  <2> HIDE DEF layer, old, ids, n, k
  <2>6. {TokenStart(d, p) : p \in layer}
          = {TokenStart(d, p) : p \in old} \cup {TokenStart(d, p) : p \in ids}
    BY <2>5
  <2> QED
    BY <2>2, <2>3, <2>4, <2>6
<1> HIDE DEF layer, old, ids, n, k
<1>10. n + k \in Nat /\ n + k >= Required(total)
  BY <1>4
<1>11. Cardinality(layer) \in Nat /\ Cardinality(layer) >= Required(total)
  BY <1>6, <1>10
<1>12. {TokenStart(d, p) : p \in layer}
         = {(i - 1) * PageSize : i \in 1..Cardinality(layer)}
  BY <1>6, <1>9
<1> QED
  BY <1>11, <1>12 DEF layer, LayerOf, LayerReaches

(* They leave no gap then, and a page for every position.                  *)
LEMMA GrownGapless ==
  ASSUME NEW c, Consistent(c), NEW r \in Requests, NEW total \in Nat,
         NEW pin \in BOOLEAN, NEW d, d = Grown(c, r, total, pin),
         Gapless(c, PagesOf(c, r))
  PROVE  /\ Gapless(d, PagesOf(d, r))
         /\ \A l \in Layers, t \in 0..(total - 1) :
               \E p \in PagesOf(d, r) : Ranges(d, p, l, t)
<1>1. \A l \in Layers : LayerReaches(d, r, l, total)
  BY GrownLayer
<1>2. Gapless(d, PagesOf(d, r))
  BY <1>1, Zenon DEF LayerReaches, Gapless, LayerOf
<1>3. ASSUME NEW l \in Layers, NEW t \in 0..(total - 1)
      PROVE  \E p \in PagesOf(d, r) : Ranges(d, p, l, t)
  <2> DEFINE x == t \div PageSize
             layer == LayerOf(d, r, l)
             m == Cardinality(layer)
  <2>1. /\ x \in Nat /\ x + 1 <= Required(total) /\ x * PageSize \in Nat
        /\ x * PageSize <= t /\ t < x * PageSize + PageSize
    BY RequiredReaches
  <2>2. /\ m \in Nat /\ m >= Required(total)
        /\ {TokenStart(d, p) : p \in layer} = {(i - 1) * PageSize : i \in 1..m}
    BY <1>1 DEF LayerReaches
  <2>3. Required(total) \in Nat
    BY RequiredBound
  <2> HIDE DEF x, m, layer
  <2>4. x + 1 \in 1..m /\ (x + 1) - 1 = x
    BY <2>1, <2>2, <2>3
  <2>5. ((x + 1) - 1) * PageSize \in {(i - 1) * PageSize : i \in 1..m}
    BY <2>4
  <2>6. x * PageSize \in {TokenStart(d, p) : p \in layer}
    BY <2>2, <2>4, <2>5
  <2>7. PICK p \in layer : TokenStart(d, p) = x * PageSize
    BY <2>6
  <2> QED
    BY <2>1, <2>7 DEF Ranges, layer, LayerOf
<1> QED
  BY <1>2, <1>3

(* An allocation, whether it raises or not: no request's pages get a gap   *)
(* that the eviction did not make, and one that returns has made a page    *)
(* for every position if it left none.                                     *)
LEMMA AllocationGapless ==
  ASSUME NEW c, Consistent(c), NEW r \in Requests, NEW total \in Nat,
         NEW pin \in BOOLEAN, NEW d, d = Allocation(c, r, total, pin).kv,
         NEW q \in Requests, Gapless(c, PagesOf(c, q) \cap d.pages)
  PROVE  /\ Gapless(d, PagesOf(d, q))
         /\ q = r /\ Allocation(c, r, total, pin).ok =>
               \A l \in Layers, t \in 0..(total - 1) :
                  \E p \in PagesOf(d, r) : Ranges(d, p, l, t)
<1>1. Consistent(d)
  BY AllocationConsistent
<1>2. /\ \A p \in c.pages \cap d.pages : \A t :
            <<p, t>> \in d.fill <=> <<p, t>> \in c.fill
      /\ \A k \in Keys : k[1] # r => d.serial[k] = c.serial[k]
  BY AllocationSlots
<1> DEFINE room == EvictedFor(c, PagesNeeded(c, r, total))
           g == Grown(room, r, total, pin)
           a == Allocation(c, r, total, pin)
<1>3. IF a.ok THEN d = g ELSE d = room
  BY DEF Allocation
<1>4. /\ Consistent(room) /\ room.pages \in SUBSET c.pages
      /\ \A p \in room.pages : \A t : <<p, t>> \in room.fill <=> <<p, t>> \in c.fill
  BY EvictedForConsistent, EvictedForFields, EvictedForSlots
<1> HIDE DEF room, a
<1>5. CASE ~a.ok
  <2>1. d = room
    BY <1>3, <1>5
  <2>2. Gapless(d, PagesOf(d, q))
    BY <1>4, <1>1, <2>1, KeptGapless
  <2> QED
    BY <1>5, <2>2 DEF a
<1>6. CASE a.ok
  <2>0. d = g
    BY <1>3, <1>6
  <2>1. /\ g.pages = room.pages \cup NewPages(room, r, total)
        /\ \A p \in NewPages(room, r, total) : Owner(p) = r
    BY <1>4, GrownFields, NewPagesFresh DEF Consistent, CacheType
  <2>2. \A p \in NewPages(room, r, total) : p \notin c.pages
    BY NewPagesApart DEF room
  <2> HIDE DEF g
  <2>3. CASE q # r
    <3>1. \A p \in d.pages : Owner(p) = q =>
             p \in c.pages /\ \A t \in Nat : <<p, t>> \in d.fill <=> <<p, t>> \in c.fill
      BY <1>4, <1>2, <2>0, <2>1, <2>3
    <3> QED
      BY <1>1, <2>3, <3>1, KeptGapless
  <2>4. CASE q = r
    <3>1. PagesOf(c, r) = {p \in c.pages : Owner(p) = r}
      BY PagesOfLive DEF Consistent
    <3>2. PagesOf(c, r) \cap room.pages = PagesOf(c, r) \cap d.pages
      BY <1>4, <2>0, <2>1, <2>2, <3>1
    <3>3. \A p \in room.pages : Owner(p) = r =>
             p \in c.pages /\ \A t \in Nat : <<p, t>> \in room.fill <=> <<p, t>> \in c.fill
      BY <1>4
    <3>4. Gapless(room, PagesOf(room, r)) <=> Gapless(c, PagesOf(c, r) \cap room.pages)
      BY <1>4, <3>3, KeptGapless
    <3>5. Gapless(room, PagesOf(room, r))
      BY <2>4, <3>2, <3>4
    <3>6. /\ Gapless(d, PagesOf(d, r))
          /\ \A l \in Layers, t \in 0..(total - 1) :
                \E p \in PagesOf(d, r) : Ranges(d, p, l, t)
      BY <1>4, <2>0, <3>5, GrownGapless DEF g
    <3> QED
      BY <2>4, <3>6
  <2> QED
    BY <2>3, <2>4
<1> QED
  BY <1>5, <1>6

-----------------------------------------------------------------------------
(* What pressure takes.                                                    *)

(* ensure_capacity takes unpinned pages, no more than it lacks.            *)
LEMMA EvictedForBounded ==
  ASSUME NEW c, Sound(c), NEW n \in Nat
  PROVE  /\ EvictedFor(c, n).pages \in SUBSET c.pages
         /\ (c.pages \ EvictedFor(c, n).pages) \cap c.pinned = {}
         /\ Cardinality(c.pages \ EvictedFor(c, n).pages) <= Clamp(n - FreePages(c))
<1> DEFINE m == n - FreePages(c)
           V == Victims(c, m)
<1>1. c \in Cache /\ IsFiniteSet(c.pages)
  BY DEF Sound, Consistent, CacheType
<1>2. m \in Int
  BY <1>1, FS_CardinalityType, PagingAssumption DEF FreePages
<1>3. CASE n > FreePages(c)
  <2>1. m \in Nat /\ Clamp(m) = m
    BY <1>1, <1>2, <1>3, FS_CardinalityType, PagingAssumption DEF FreePages, Clamp
  <2>2. V \in SUBSET Unpinned(c) /\ V \in SUBSET c.pages /\ V \cap c.pinned = {}
    BY DEF Victims, Unpinned
  <2>3. EvictedFor(c, n).pages = c.pages \ V
    BY <1>1, <1>3 DEF EvictedFor, Evicted, Dropped, Cache
  <2>4. Cardinality(V) <= m
    BY <2>1, VictimsFirst
  <2> HIDE DEF V, m
  <2>5. c.pages \ EvictedFor(c, n).pages = V
    BY <2>2, <2>3
  <2> QED
    BY <2>1, <2>2, <2>3, <2>4, <2>5 DEF m
<1>4. CASE ~(n > FreePages(c))
  <2>1. EvictedFor(c, n) = c
    BY <1>4 DEF EvictedFor
  <2>2. c.pages \ EvictedFor(c, n).pages = {} /\ Cardinality({}) = 0
    BY <2>1, FS_EmptySet
  <2>3. 0 <= Clamp(m)
    BY <1>2 DEF Clamp
  <2> QED
    BY <2>1, <2>2, <2>3
<1> QED
  BY <1>3, <1>4

(* So does a call of allocate_for_request.                                 *)
LEMMA AllocationBounded ==
  ASSUME NEW c, Sound(c), NEW r \in Requests, NEW total \in Nat,
         NEW pin \in BOOLEAN, NEW d, d = Allocation(c, r, total, pin).kv
  PROVE  /\ (c.pages \ d.pages) \cap c.pinned = {}
         /\ Cardinality(c.pages \ d.pages)
               <= Clamp(PagesNeeded(c, r, total) - FreePages(c))
<1> DEFINE needed == PagesNeeded(c, r, total)
           room == EvictedFor(c, needed)
<1>1. needed \in Nat
  BY NewPagesFresh, FS_CardinalityType DEF PagesNeeded, Sound
<1>2. Consistent(c) /\ Consistent(room) /\ room.serial = c.serial
  BY EvictedForSound, EvictedForSlots DEF Sound
<1>3. d = room \/ d = Grown(room, r, total, pin)
  BY DEF Allocation
<1> HIDE DEF needed
<1>4. /\ room.pages \in SUBSET c.pages
      /\ (c.pages \ room.pages) \cap c.pinned = {}
      /\ Cardinality(c.pages \ room.pages) <= Clamp(needed - FreePages(c))
  BY <1>1, EvictedForBounded
<1> HIDE DEF room
<1>5. CASE d = room
  BY <1>4, <1>5 DEF needed
<1>6. CASE d = Grown(room, r, total, pin)
  <2>1. d.pages = room.pages \cup NewPages(room, r, total)
    BY <1>2, <1>6, GrownFields DEF Consistent, CacheType
  <2>2. \A p \in NewPages(room, r, total) : p \notin c.pages
    BY <1>2, NewPagesApart DEF room
  <2>3. c.pages \ d.pages = c.pages \ room.pages
    BY <2>1, <2>2
  <2> QED
    BY <1>4, <2>3 DEF needed
<1> QED
  BY <1>3, <1>5, <1>6

=============================================================================
