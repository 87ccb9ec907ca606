--------------------------- MODULE KVCacheProofs ---------------------------
(***************************************************************************)
(* Theorems about KVCache, for any finite sets of requests and layers, any *)
(* page size, any capacity and any bounds.                                 *)
(***************************************************************************)
EXTENDS KVCache, KVPagesProofs

(* The inductive invariant.  The counters alone are not inductive: a page  *)
(* created under an id that is still live, or listed under another key,    *)
(* would be counted wrongly, so types and table agreement come with them.  *)
IInv == Sound(kv) /\ tokens \in [Requests -> 1..MaxTokens]

-----------------------------------------------------------------------------

(* The empty cache satisfies it.                                           *)
LEMMA InitSound ==
  Init => IInv
BY EmptySound DEF Init, IInv

(* Every call of a method preserves it.                                    *)
LEMMA NextSound ==
  IInv /\ [Next]_vars => IInv'
<1> SUFFICES ASSUME IInv, [Next]_vars PROVE IInv'
  OBVIOUS
<1> USE DEF IInv
<1>0. ASSUME NEW r \in Requests
      PROVE  tokens[r] \in Nat
  BY BoundsAssumption
<1>1. ASSUME NEW r \in Requests, NEW pin \in BOOLEAN, AllocateForRequest(r, pin)
      PROVE  IInv'
  BY <1>0, <1>1, AllocationSound DEF AllocateForRequest
<1>2. ASSUME NEW r \in Requests, NEW pin \in BOOLEAN, NEW n \in 0..MaxTokens,
             CommitTokens(r, n, pin)
      PROVE  IInv'
  <2> DEFINE a == Allocation(kv, r, tokens[r] + n, pin)
  <2>1. tokens[r] + n \in Nat /\ tokens[r] + n \in 1..MaxTokens
    BY <1>2, BoundsAssumption DEF CommitTokens
  <2>2. Sound(a.kv)
    BY <2>1, AllocationSound
  <2>3. \/ kv' = Marked(a.kv, r) /\ tokens' = [tokens EXCEPT ![r] = @ + n]
        \/ kv' = a.kv /\ tokens' = tokens
    BY <1>2 DEF CommitTokens
  <2> HIDE DEF a
  <2>4. Sound(kv')
    BY <2>2, <2>3, MarkedSound
  <2>5. tokens' \in [Requests -> 1..MaxTokens]
    BY <2>1, <2>3
  <2> QED
    BY <2>4, <2>5
<1>3. ASSUME NEW r \in Requests, NEW n \in 1..MaxTokens, AllocateDraftPages(r, n)
      PROVE  IInv'
  <2> DEFINE a == Allocation(kv, r, tokens[r] + n, TRUE)
  <2>1. tokens[r] + n \in Nat
    BY <1>0
  <2>2. Sound(a.kv)
    BY <2>1, AllocationSound
  <2>3. (kv' = Drafted(a.kv, r) \/ kv' = a.kv) /\ tokens' = tokens
    BY <1>3 DEF AllocateDraftPages
  <2> HIDE DEF a
  <2> QED
    BY <2>2, <2>3, MarkedSound
<1>4. ASSUME NEW r \in Requests, NEW n \in 1..MaxTokens, EnsureCapacity(r, n)
      PROVE  IInv'
  BY <1>4, EvictedForSound DEF EnsureCapacity
<1>5. ASSUME NEW r \in Requests, ReleaseDraftPages(r)
      PROVE  IInv'
  BY <1>5, ReleasedSound DEF ReleaseDraftPages
<1>6. ASSUME NEW r \in Requests, AcceptDraftPages(r)
      PROVE  IInv'
  BY <1>6, MarkedSound DEF AcceptDraftPages
<1>7. ASSUME NEW r \in Requests, ReleaseRequest(r)
      PROVE  IInv'
  BY <1>7, ReleasedSound DEF ReleaseRequest
<1>8. ASSUME NEW r \in Requests, NEW S \in SUBSET PagesOf(kv, r), PinPages(S)
      PROVE  IInv'
  BY <1>8, PinsSound DEF PinPages
<1>9. ASSUME NEW r \in Requests, NEW S \in SUBSET PagesOf(kv, r), UnpinPages(S)
      PROVE  IInv'
  BY <1>9, PinsSound DEF UnpinPages
<1>10. ASSUME NEW r \in Requests, NEW S \in SUBSET PagesOf(kv, r), TouchPages(S)
       PROVE  IInv'
  BY <1>10, TouchedSound DEF TouchPages
<1>11. ASSUME NEW n \in 1..MaxPages, EvictLru(n)
       PROVE  IInv'
  BY <1>11, EvictedForSound DEF EvictLru
<1>12. CASE UNCHANGED vars
  BY <1>12 DEF vars
<1> QED
  BY <1>1, <1>2, <1>3, <1>4, <1>5, <1>6, <1>7, <1>8, <1>9, <1>10, <1>11, <1>12
     DEF Next

(* It holds in every reachable state.                                      *)
LEMMA Invariance ==
  Spec => []IInv
BY InitSound, NextSound, PTL DEF Spec

-----------------------------------------------------------------------------

(* The fields of the cache keep their types, and the flags, token counts   *)
(* and LRU entries are those of live pages only: nothing of a removed page *)
(* stays behind in class KVCache.                                          *)
THEOREM TypeCorrect ==
  Spec => []TypeOK
<1>1. IInv => TypeOK
  BY DEF IInv, TypeOK, Sound, Consistent
<1> QED
  BY <1>1, Invariance, PTL

(* `_pages', `_page_table' and `_lru' agree after every call.              *)
THEOREM IndexesAgreeAlways ==
  Spec => []IndexesAgree
<1>1. IInv => IndexesAgree
  BY DEF IInv, IndexesAgree, FlagsExclusive, Sound, Consistent, Exclusive
<1> QED
  BY <1>1, Invariance, PTL

(* The byte counters equal a recount of the live pages after every call:   *)
(* they never drift and release_request's clamp never fires.               *)
THEOREM AccountingCorrect ==
  Spec => []AccountingOK
<1>1. IInv => AccountingOK
  BY DEF IInv, AccountingOK, Sound, Consistent
<1> QED
  BY <1>1, Invariance, PTL

(* No page is committed and draft at once.                                 *)
THEOREM FlagsAlwaysExclusive ==
  Spec => []FlagsExclusive
<1>1. IInv => FlagsExclusive
  BY DEF IInv, FlagsExclusive, Sound, Exclusive
<1> QED
  BY <1>1, Invariance, PTL

-----------------------------------------------------------------------------

(* Whatever the capacity, only a call that evicted pages of the request it *)
(* then allocated for leaves more than max_pages pages.                    *)
THEOREM OverflowOnlyBySelfEviction ==
  Spec => OverflowNeedsSelfEviction
<1> DEFINE Explained ==
             \/ Cardinality(kv'.pages) <= MaxPages
             \/ kv'.pages \subseteq kv.pages
             \/ \E p \in kv.pages \ kv'.pages, q \in kv'.pages \ kv.pages :
                   Owner(p) = Owner(q)
<1>1. IInv /\ [Next]_vars => [Explained]_vars
  <2> SUFFICES ASSUME IInv, Next PROVE Explained
    OBVIOUS
  <2>0. Sound(kv) /\ kv \in Cache
    BY DEF IInv, Sound, Consistent, CacheType
  <2>1. ASSUME NEW r \in Requests, NEW total \in Nat, NEW pin \in BOOLEAN,
               kv'.pages = Allocation(kv, r, total, pin).kv.pages
        PROVE  Explained
    <3> DEFINE d == Allocation(kv, r, total, pin).kv
    <3>1. \/ Cardinality(d.pages) <= MaxPages
          \/ d.pages \subseteq kv.pages
          \/ \E p \in kv.pages \ d.pages, q \in d.pages \ kv.pages :
                Owner(p) = Owner(q)
      BY <2>0, AllocationOverflow DEF Sound
    <3>2. kv'.pages = d.pages
      BY <2>1
    <3> HIDE DEF d
    <3> QED
      BY <3>1, <3>2
  <2>2. ASSUME NEW r \in Requests
        PROVE  tokens[r] \in Nat
    BY BoundsAssumption DEF IInv
  <2>3. ASSUME NEW r \in Requests, NEW pin \in BOOLEAN, AllocateForRequest(r, pin)
        PROVE  Explained
    BY <2>1, <2>2, <2>3 DEF AllocateForRequest
  <2>4. ASSUME NEW r \in Requests, NEW pin \in BOOLEAN, NEW n \in 0..MaxTokens,
               CommitTokens(r, n, pin)
        PROVE  Explained
    <3> DEFINE a == Allocation(kv, r, tokens[r] + n, pin)
    <3>1. tokens[r] + n \in Nat
      BY <2>2
    <3>2. a.kv \in Cache
      BY <2>0, <3>1, AllocationSound DEF Sound, Consistent, CacheType
    <3>3. kv' = Marked(a.kv, r) \/ kv' = a.kv
      BY <2>4 DEF CommitTokens
    <3>4. kv'.pages = a.kv.pages
      BY <3>2, <3>3 DEF Marked, Cache
    <3> QED
      BY <2>1, <3>1, <3>4
  <2>5. ASSUME NEW r \in Requests, NEW n \in 1..MaxTokens, AllocateDraftPages(r, n)
        PROVE  Explained
    <3> DEFINE a == Allocation(kv, r, tokens[r] + n, TRUE)
    <3>1. tokens[r] + n \in Nat
      BY <2>2
    <3>2. a.kv \in Cache
      BY <2>0, <3>1, AllocationSound DEF Sound, Consistent, CacheType
    <3>3. kv' = Drafted(a.kv, r) \/ kv' = a.kv
      BY <2>5 DEF AllocateDraftPages
    <3>4. kv'.pages = a.kv.pages
      BY <3>2, <3>3 DEF Drafted, Cache
    <3> QED
      BY <2>1, <3>1, <3>4
  <2>6. ASSUME NEW r \in Requests, NEW n \in 1..MaxTokens, EnsureCapacity(r, n)
        PROVE  Explained
    BY <2>0, <2>6, EvictedForFields DEF EnsureCapacity, Sound
  <2>7. ASSUME NEW r \in Requests, ReleaseDraftPages(r)
        PROVE  Explained
    BY <2>0, <2>7 DEF ReleaseDraftPages, DraftsReleased, Dropped, Cache
  <2>8. ASSUME NEW r \in Requests, AcceptDraftPages(r)
        PROVE  Explained
    BY <2>0, <2>8 DEF AcceptDraftPages, DraftsAccepted, Cache
  <2>9. ASSUME NEW r \in Requests, ReleaseRequest(r)
        PROVE  Explained
    <3>1. kv' = Dropped(kv, PagesOf(kv, r))
      BY <2>0, <2>9, ReleasedConsistent DEF ReleaseRequest, Sound
    <3> QED
      BY <2>0, <3>1 DEF Dropped, Cache
  <2>10. ASSUME NEW S, PinPages(S) \/ UnpinPages(S) \/ TouchPages(S)
         PROVE  Explained
    BY <2>0, <2>10
       DEF PinPages, PinsSet, UnpinPages, PinsCleared, TouchPages, Touched, Cache
  <2>11. ASSUME NEW n \in 1..MaxPages, EvictLru(n)
         PROVE  Explained
    BY <2>0, <2>11 DEF EvictLru, Evicted, Dropped, Cache
  <2> QED
    BY <2>3, <2>4, <2>5, <2>6, <2>7, <2>8, <2>9, <2>10, <2>11 DEF Next
<1>2. [][Explained]_vars <=> OverflowNeedsSelfEviction
  BY DEF OverflowNeedsSelfEviction
<1> QED
  BY <1>1, <1>2, Invariance, PTL DEF Spec

-----------------------------------------------------------------------------
(* What a commit leaves, and what an allocation takes.                     *)

(* Marking changes neither the tables nor what they list.                  *)
LEMMA MarkedTables ==
  ASSUME NEW c, c \in Cache, NEW r, NEW l
  PROVE  /\ Entries(Marked(c, r), r, l) = Entries(c, r, l)
         /\ PagesOf(Marked(c, r), r) = PagesOf(c, r)
         /\ PagesOf(c, r) \subseteq Marked(c, r).committed
         /\ PagesOf(c, r) \cap Marked(c, r).draft = {}
<1>1. /\ Marked(c, r).table = c.table
      /\ Marked(c, r).committed = c.committed \cup PagesOf(c, r)
      /\ Marked(c, r).draft = c.draft \ PagesOf(c, r)
  BY DEF Marked, Cache
<1>2. PagesOf(Marked(c, r), r) = PagesOf(c, r)
  BY <1>1 DEF PagesOf
<1> QED
  BY <1>1, <1>2 DEF Entries

(* An allocation and a change of flags: what continues without a gap.      *)
LEMMA FlaggedGapless ==
  ASSUME NEW c, Consistent(c), NEW r \in Requests, NEW total \in Nat,
         NEW pin \in BOOLEAN, NEW d, d = Allocation(c, r, total, pin).kv,
         NEW e, Consistent(e), e.pages = d.pages, e.fill = d.fill,
         NEW q \in Requests, Gapless(c, PagesOf(c, q) \cap e.pages)
  PROVE  /\ Gapless(e, PagesOf(e, q))
         /\ q = r /\ Allocation(c, r, total, pin).ok =>
               \A l \in Layers, t \in 0..(total - 1) :
                  \E p \in PagesOf(e, r) : Ranges(e, p, l, t)
<1>1. Consistent(d)
  BY AllocationConsistent
<1>2. /\ Gapless(d, PagesOf(d, q))
      /\ q = r /\ Allocation(c, r, total, pin).ok =>
            \A l \in Layers, t \in 0..(total - 1) :
               \E p \in PagesOf(d, r) : Ranges(d, p, l, t)
  BY AllocationGapless
<1>3. \A x : PagesOf(e, x) = PagesOf(d, x)
  BY <1>1, PagesOfLive DEF Consistent
<1>4. \A p, l, t : Ranges(e, p, l, t) <=> Ranges(d, p, l, t)
  BY DEF Ranges, TokenStart, Slots
<1>5. Gapless(e, PagesOf(d, q))
  BY <1>1, <1>2, SameGapless
<1> QED
  BY <1>2, <1>3, <1>4, <1>5

(* commit_tokens and the other calls: pages are made where those that the  *)
(* request keeps end; a commit that returns leaves enough committed pages, *)
(* and a page for every position if the call left no gap below the pages   *)
(* that stayed.                                                            *)
THEOREM CommitAlwaysCovers ==
  Spec => CommitCovers
<1> DEFINE Continues(r) == KeepsWhole(r) => Gapless(kv', PagesOf(kv', r))
           Complete(r) == tokens'[r] > tokens[r] => CoversCommitted(r)
           AllCovered == \A r \in Requests : /\ Continues(r)
                                             /\ Complete(r)
<1>1. IInv /\ [Next]_vars => [AllCovered]_vars
  <2> SUFFICES ASSUME IInv, Next, NEW r \in Requests
               PROVE  Continues(r) /\ Complete(r)
    OBVIOUS
  <2>0. /\ Sound(kv) /\ Consistent(kv) /\ kv \in Cache
        /\ tokens \in [Requests -> 1..MaxTokens] /\ MaxTokens \in Nat
    BY BoundsAssumption DEF IInv, Sound, Consistent, CacheType
  <2>1. Consistent(kv') /\ kv' \in Cache
    BY NextSound DEF IInv, Sound, Consistent, CacheType
  <2>2. ASSUME tokens' = tokens PROVE Complete(r)
    BY <2>0, <2>2
  <2>3. ASSUME \A p \in kv'.pages : p \in kv.pages /\ \A t \in Nat :
                  <<p, t>> \in kv'.fill <=> <<p, t>> \in kv.fill
        PROVE  Continues(r)
    BY <2>0, <2>1, <2>3, KeptGapless DEF KeepsWhole
  <2>4. ASSUME NEW s \in Requests, NEW total \in Nat, NEW pin \in BOOLEAN,
               kv'.pages = Allocation(kv, s, total, pin).kv.pages,
               kv'.fill = Allocation(kv, s, total, pin).kv.fill
        PROVE  /\ Continues(r)
               /\ r = s /\ Allocation(kv, s, total, pin).ok /\ KeepsWhole(r) =>
                     \A l \in Layers, t \in 0..(total - 1) :
                        \E p \in PagesOf(kv', s) : Ranges(kv', p, l, t)
    BY <2>0, <2>1, <2>4, FlaggedGapless DEF KeepsWhole
  <2>5. ASSUME NEW s \in Requests, NEW pin \in BOOLEAN, AllocateForRequest(s, pin)
        PROVE  Continues(r) /\ Complete(r)
    <3>1. tokens[s] \in Nat
      BY <2>0
    <3>2. kv' = Allocation(kv, s, tokens[s], pin).kv /\ tokens' = tokens
      BY <2>5 DEF AllocateForRequest
    <3> QED
      BY <2>2, <2>4, <3>1, <3>2
  <2>6. ASSUME NEW s \in Requests, NEW pin \in BOOLEAN, NEW n \in 0..MaxTokens,
               CommitTokens(s, n, pin)
        PROVE  Continues(r) /\ Complete(r)
    <3> DEFINE total == tokens[s] + n
               a     == Allocation(kv, s, total, pin)
    <3>1. total \in Nat
      BY <2>0
    <3>2. \/ a.ok /\ kv' = Marked(a.kv, s) /\ tokens' = [tokens EXCEPT ![s] = @ + n]
          \/ ~a.ok /\ kv' = a.kv /\ tokens' = tokens
      BY <2>6 DEF CommitTokens
    <3> HIDE DEF total
    <3>3. Consistent(a.kv) /\ a.kv \in Cache
      BY <2>0, <3>1, AllocationConsistent DEF Consistent, CacheType
    <3>4. kv'.pages = a.kv.pages /\ kv'.fill = a.kv.fill
      BY <3>2, <3>3 DEF Marked, Cache
    <3>5. Continues(r)
      BY <2>4, <3>1, <3>4
    <3>6. CASE a.ok /\ r = s /\ tokens' # tokens
      <4>1. tokens'[r] = total
        BY <2>0, <3>2, <3>6 DEF total
      <4>2. kv' = Marked(a.kv, s)
        BY <3>2, <3>6
      <4>3. /\ \A l \in Layers : Entries(kv', s, l) = Entries(a.kv, s, l)
            /\ PagesOf(kv', s) \subseteq kv'.committed \ kv'.draft
        BY <3>3, <4>2, MarkedTables
      <4>4. \A l \in Layers : Cardinality(Entries(a.kv, s, l)) >= Required(total)
        <5> DEFINE room == EvictedFor(kv, PagesNeeded(kv, s, total))
        <5>1. a.kv = Grown(room, s, total, pin)
          BY <3>6 DEF Allocation
        <5>2. Consistent(room)
          BY <2>0, EvictedForConsistent
        <5> QED
          BY <3>1, <5>1, <5>2, GrownCovers
      <4>5. KeepsWhole(r) => \A l \in Layers, t \in 0..(total - 1) :
                                \E p \in PagesOf(kv', s) : Ranges(kv', p, l, t)
        BY <2>4, <3>1, <3>4, <3>6
      <4> HIDE DEF a
      <4>6. Complete(r)
        BY <3>6, <4>1, <4>3, <4>4, <4>5 DEF CoversCommitted
      <4> QED
        BY <3>5, <4>6
    <3>7. CASE ~(a.ok /\ r = s /\ tokens' # tokens)
      <4>1. tokens'[r] = tokens[r] /\ tokens[r] \in Nat
        BY <2>0, <3>2, <3>7
      <4> QED
        BY <3>5, <4>1
    <3> QED
      BY <3>6, <3>7
  <2>7. ASSUME NEW s \in Requests, NEW n \in 1..MaxTokens, AllocateDraftPages(s, n)
        PROVE  Continues(r) /\ Complete(r)
    <3> DEFINE total == tokens[s] + n
               a     == Allocation(kv, s, total, TRUE)
    <3>1. total \in Nat
      BY <2>0
    <3>2. (kv' = Drafted(a.kv, s) \/ kv' = a.kv) /\ tokens' = tokens
      BY <2>7 DEF AllocateDraftPages
    <3> HIDE DEF total
    <3>3. a.kv \in Cache
      BY <2>0, <3>1, AllocationConsistent DEF Consistent, CacheType
    <3>4. kv'.pages = a.kv.pages /\ kv'.fill = a.kv.fill
      BY <3>2, <3>3 DEF Drafted, Cache
    <3> QED
      BY <2>2, <2>4, <3>1, <3>2, <3>4
  <2>8. ASSUME NEW V, kv' = Dropped(kv, V), tokens' = tokens
        PROVE  Continues(r) /\ Complete(r)
    <3>1. \A p \in kv'.pages : p \in kv.pages /\ \A t \in Nat :
             <<p, t>> \in kv'.fill <=> <<p, t>> \in kv.fill
      BY <2>0, <2>8, DroppedSlots
    <3> QED
      BY <2>2, <2>3, <2>8, <3>1
  <2>9. ASSUME NEW s \in Requests, NEW n \in 1..MaxTokens, EnsureCapacity(s, n)
        PROVE  Continues(r) /\ Complete(r)
    <3>1. /\ kv' = EvictedFor(kv, PagesNeeded(kv, s, tokens[s] + n))
          /\ tokens' = tokens
      BY <2>9 DEF EnsureCapacity
    <3>2. \A p \in kv'.pages : p \in kv.pages /\ \A t \in Nat :
             <<p, t>> \in kv'.fill <=> <<p, t>> \in kv.fill
      BY <2>0, <3>1, EvictedForSlots, EvictedForFields
    <3> QED
      BY <2>2, <2>3, <3>1, <3>2
  <2>10. ASSUME NEW s \in Requests, ReleaseDraftPages(s) \/ ReleaseRequest(s)
         PROVE  Continues(r) /\ Complete(r)
    <3>1. (\E V : kv' = Dropped(kv, V)) /\ tokens' = tokens
      BY <2>0, <2>10, ReleasedConsistent
         DEF ReleaseDraftPages, DraftsReleased, ReleaseRequest
    <3> QED
      BY <2>8, <3>1
  <2>11. ASSUME NEW n, EvictLru(n)
         PROVE  Continues(r) /\ Complete(r)
    BY <2>8, <2>11 DEF EvictLru, Evicted
  <2>12. ASSUME kv'.pages = kv.pages, kv'.fill = kv.fill, tokens' = tokens
         PROVE  Continues(r) /\ Complete(r)
    BY <2>2, <2>3, <2>12
  <2>13. ASSUME NEW s \in Requests, AcceptDraftPages(s)
         PROVE  Continues(r) /\ Complete(r)
    <3>1. kv'.pages = kv.pages /\ kv'.fill = kv.fill /\ tokens' = tokens
      BY <2>0, <2>13 DEF AcceptDraftPages, DraftsAccepted, Cache
    <3> QED
      BY <2>12, <3>1
  <2>14. ASSUME NEW S, PinPages(S) \/ UnpinPages(S) \/ TouchPages(S)
         PROVE  Continues(r) /\ Complete(r)
    <3>1. kv'.pages = kv.pages /\ kv'.fill = kv.fill /\ tokens' = tokens
      BY <2>0, <2>14
         DEF PinPages, PinsSet, UnpinPages, PinsCleared, TouchPages, Touched, Cache
    <3> QED
      BY <2>12, <3>1
  <2> HIDE DEF Continues, Complete
  <2> QED
    BY <2>5, <2>6, <2>7, <2>9, <2>10, <2>11, <2>13, <2>14 DEF Next
<1>2. [][AllCovered]_vars <=> CommitCovers
  BY DEF CommitCovers
<1> QED
  BY <1>1, <1>2, Invariance, PTL DEF Spec

(* evict_lru and the eviction of allocate_for_request: pages that pressure *)
(* takes away are unpinned, the first of the eviction order, and no more   *)
(* than asked for or than the room the call lacked, also when it raises.   *)
THEOREM EvictionAlwaysInOrder ==
  Spec => EvictionInOrder
<1> DEFINE Gone == kv.pages \ kv'.pages
           InOrder ==
             /\ Gone \cap kv.pinned = {}
             /\ \A p \in Gone, q \in kv'.pages \cap Unpinned(kv) :
                   EvictedBefore(kv, p, q)
           Asked == \A n \in 1..MaxPages : Cardinality(Gone) <= n \/ ~EvictLru(n)
           Wanted == \A r \in Requests : \A n \in 0..(MaxTokens - tokens[r]) :
                        \/ Cardinality(Gone) <= RoomLacked(r, tokens[r] + n)
                        \/ ~MakesRoom(r, n)
           Full == kv'.pages \subseteq kv.pages \/ Cardinality(kv'.pages) >= MaxPages
           Orderly == kv.pages \ kv'.pages # {} => TakesInOrder(kv.pages \ kv'.pages)
<1>1. IInv /\ [Next]_vars => [Orderly]_vars
  <2> SUFFICES ASSUME IInv, Next, Gone # {}
               PROVE  (InOrder \/ OwnerReleases) /\ Asked /\ Wanted /\ Full
    BY DEF TakesInOrder
  <2>0. Sound(kv) /\ kv \in Cache
    BY DEF IInv, Sound, Consistent, CacheType
  <2>1. ASSUME NEW r \in Requests
        PROVE  tokens[r] \in Nat
    BY BoundsAssumption DEF IInv
  <2>2. ASSUME NEW r \in Requests, NEW total \in Nat, NEW pin \in BOOLEAN,
               kv'.pages = Allocation(kv, r, total, pin).kv.pages
        PROVE  InOrder /\ Full /\ Cardinality(Gone) <= RoomLacked(r, total)
    <3> DEFINE d == Allocation(kv, r, total, pin).kv
    <3>1. /\ \A p \in kv.pages \ d.pages, q \in d.pages \cap Unpinned(kv) :
                EvictedBefore(kv, p, q)
          /\ d.pages \ kv.pages # {} /\ kv.pages \ d.pages # {}
                => Cardinality(d.pages) >= MaxPages
      BY <2>0, AllocationEvictsFirst
    <3>2. /\ (kv.pages \ d.pages) \cap kv.pinned = {}
          /\ Cardinality(kv.pages \ d.pages) <= RoomLacked(r, total)
      BY <2>0, AllocationBounded DEF RoomLacked
    <3>3. kv'.pages = d.pages
      BY <2>2
    <3> HIDE DEF d
    <3> QED
      BY <3>1, <3>2, <3>3
  <2>3. ASSUME NEW r \in Requests, NEW total \in Nat,
               kv' = EvictedFor(kv, PagesNeeded(kv, r, total))
        PROVE  InOrder /\ Full /\ Cardinality(Gone) <= RoomLacked(r, total)
    <3> DEFINE needed == PagesNeeded(kv, r, total)
    <3>1. needed \in Nat
      BY <2>0, NewPagesFresh, FS_CardinalityType DEF PagesNeeded, Sound
    <3>2. /\ EvictedFor(kv, needed).pages \subseteq kv.pages
          /\ (kv.pages \ EvictedFor(kv, needed).pages) \cap kv.pinned = {}
          /\ Cardinality(kv.pages \ EvictedFor(kv, needed).pages)
                <= RoomLacked(r, total)
      <4> HIDE DEF needed
      <4>1. Cardinality(kv.pages \ EvictedFor(kv, needed).pages)
              <= Clamp(needed - FreePages(kv))
        BY <2>0, <3>1, EvictedForBounded
      <4> QED
        BY <2>0, <3>1, <4>1, EvictedForBounded DEF RoomLacked, needed
    <3>3. \A p \in kv.pages \ EvictedFor(kv, needed).pages,
             q \in EvictedFor(kv, needed).pages \cap Unpinned(kv) :
                EvictedBefore(kv, p, q)
      <4> HIDE DEF needed
      <4> QED
        BY <2>0, <3>1, EvictedForFirst
    <3> QED
      BY <2>3, <3>2, <3>3
  <2>4. ASSUME NEW r \in Requests, NEW n \in Nat, MakesRoom(r, n)
        PROVE  InOrder /\ Full /\ Cardinality(Gone) <= RoomLacked(r, tokens[r] + n)
    <3>1. tokens[r] + n \in Nat
      BY <2>1
    <3>2. CASE EnsureCapacity(r, n)
      BY <2>3, <3>1, <3>2 DEF EnsureCapacity
    <3>3. CASE AllocateDraftPages(r, n)
      <4> DEFINE a == Allocation(kv, r, tokens[r] + n, TRUE)
      <4>1. a.kv \in Cache
        BY <2>0, <3>1, AllocationSound DEF Sound, Consistent, CacheType
      <4>2. kv' = Drafted(a.kv, r) \/ kv' = a.kv
        BY <3>3 DEF AllocateDraftPages
      <4>3. kv'.pages = a.kv.pages
        BY <4>1, <4>2 DEF Drafted, Cache
      <4> QED
        BY <2>2, <3>1, <4>3
    <3>4. ASSUME NEW pin \in BOOLEAN, CommitTokens(r, n, pin)
          PROVE  InOrder /\ Full /\ Cardinality(Gone) <= RoomLacked(r, tokens[r] + n)
      <4> DEFINE a == Allocation(kv, r, tokens[r] + n, pin)
      <4>1. a.kv \in Cache
        BY <2>0, <3>1, AllocationSound DEF Sound, Consistent, CacheType
      <4>2. kv' = Marked(a.kv, r) \/ kv' = a.kv
        BY <3>4 DEF CommitTokens
      <4>3. kv'.pages = a.kv.pages
        BY <4>1, <4>2 DEF Marked, Cache
      <4> QED
        BY <2>2, <3>1, <4>3
    <3>5. ASSUME NEW pin \in BOOLEAN, n = 0, AllocateForRequest(r, pin)
          PROVE  InOrder /\ Full /\ Cardinality(Gone) <= RoomLacked(r, tokens[r] + n)
      <4>1. tokens[r] + n = tokens[r]
        BY <2>1, <3>5
      <4>2. kv'.pages = Allocation(kv, r, tokens[r] + n, pin).kv.pages
        BY <3>5, <4>1 DEF AllocateForRequest
      <4> QED
        BY <2>2, <3>1, <4>2
    <3> HIDE DEF InOrder, Full, Gone
    <3> QED
      BY <2>4, <3>2, <3>3, <3>4, <3>5 DEF MakesRoom
  <2>5. ASSUME NEW n \in 1..MaxPages, EvictLru(n)
        PROVE  InOrder /\ Full /\ Cardinality(Gone) <= n
    <3>1. n \in Nat /\ kv' = Evicted(kv, n)
      BY <2>5, PagingAssumption DEF EvictLru
    <3>2. kv'.pages = kv.pages \ Victims(kv, n)
      BY <2>0, <3>1 DEF Evicted, Dropped, Cache
    <3>3. /\ \A p \in Victims(kv, n), q \in Unpinned(kv) \ Victims(kv, n) :
                EvictedBefore(kv, p, q)
          /\ Cardinality(Victims(kv, n)) <= n
      BY <2>0, <3>1, VictimsFirst
    <3>4. Victims(kv, n) \subseteq kv.pages /\ Victims(kv, n) \cap kv.pinned = {}
      BY DEF Victims, Unpinned
    <3>5. Gone = Victims(kv, n)
      BY <3>2, <3>4
    <3> HIDE DEF Gone
    <3> QED
      BY <3>2, <3>3, <3>4, <3>5
  <2>6. ASSUME NEW r \in Requests, ReleaseDraftPages(r) \/ ReleaseRequest(r)
        PROVE  OwnerReleases /\ Full
    <3>1. OwnerReleases
      BY <2>6 DEF OwnerReleases
    <3>2. \E V : kv' = Dropped(kv, V)
      BY <2>0, <2>6, ReleasedConsistent
         DEF ReleaseDraftPages, DraftsReleased, ReleaseRequest, Sound
    <3>3. kv'.pages \subseteq kv.pages
      BY <2>0, <3>2 DEF Dropped, Cache
    <3> QED
      BY <3>1, <3>3
  <2>7. ASSUME kv'.pages = kv.pages PROVE FALSE
    BY <2>7
  <2>8. ASSUME NEW r \in Requests, AcceptDraftPages(r)
        PROVE  FALSE
    <3>1. kv'.pages = kv.pages
      BY <2>0, <2>8 DEF AcceptDraftPages, DraftsAccepted, Cache
    <3> QED
      BY <2>7, <3>1
  <2>9. ASSUME NEW S, PinPages(S) \/ UnpinPages(S) \/ TouchPages(S)
        PROVE  FALSE
    <3>1. kv'.pages = kv.pages
      BY <2>0, <2>9
         DEF PinPages, PinsSet, UnpinPages, PinsCleared, TouchPages, Touched, Cache
    <3> QED
      BY <2>7, <3>1
  <2> HIDE DEF InOrder, Full, Gone
  <2>10. Asked
    BY <2>5
  <2>11. Wanted
    <3>1. \A r \in Requests : \A n \in 0..(MaxTokens - tokens[r]) : n \in Nat
      OBVIOUS
    <3> QED
      BY <2>4, <3>1
  <2>12. (InOrder \/ OwnerReleases) /\ Full
    <3>1. ASSUME NEW r \in Requests, NEW pin \in BOOLEAN, AllocateForRequest(r, pin)
          PROVE  InOrder /\ Full
      BY <2>4, <3>1 DEF MakesRoom
    <3>2. ASSUME NEW r \in Requests, NEW pin \in BOOLEAN, NEW n \in 0..MaxTokens,
                 CommitTokens(r, n, pin)
          PROVE  InOrder /\ Full
      BY <2>4, <3>2 DEF MakesRoom
    <3>3. ASSUME NEW r \in Requests, NEW n \in 1..MaxTokens,
                 AllocateDraftPages(r, n) \/ EnsureCapacity(r, n)
          PROVE  InOrder /\ Full
      BY <2>4, <3>3 DEF MakesRoom
    <3> QED
      BY <2>5, <2>6, <2>8, <2>9, <3>1, <3>2, <3>3 DEF Next
  <2> QED
    BY <2>10, <2>11, <2>12
<1>2. [][Orderly]_vars <=> EvictionInOrder
  BY DEF EvictionInOrder
<1> QED
  BY <1>1, <1>2, Invariance, PTL DEF Spec

-----------------------------------------------------------------------------
(* KVCache implements PageLedger.                                          *)

(* A call that allocates takes fresh pages for one request.                *)
LEMMA AllocationIsTake ==
  ASSUME IInv, NEW r \in Requests, NEW total \in Nat, NEW pin \in BOOLEAN,
         NEW d, d = Allocation(kv, r, total, pin).kv,
         kv'.pages = d.pages, kv'.pinned = d.pinned, Issued(kv)' = Issued(d)
  PROVE  Ledger!Take(r)
<1>1. Sound(kv)
  BY DEF IInv
<1>2. /\ kv.pinned \subseteq d.pages
      /\ \A p \in d.pages \ kv.pages :
            p \in PageIds \ Issued(kv) /\ Owner(p) = r
      /\ Issued(d) = Issued(kv) \cup (d.pages \ kv.pages)
      /\ pin => d.pinned = kv.pinned \cup (d.pages \ kv.pages)
      /\ ~pin => d.pinned = kv.pinned
  BY <1>1, AllocationTakes DEF Sound
<1> QED
  BY <1>2 DEF Ledger!Take

(* Every step of the cache is a step of the ledger or a stutter.           *)
LEMMA LedgerStep ==
  IInv /\ [Next]_vars => [Ledger!Next]_(Ledger!vars)
<1> SUFFICES ASSUME IInv, [Next]_vars
             PROVE  Ledger!Next \/ UNCHANGED Ledger!vars
  OBVIOUS
<1>0. Sound(kv) /\ Consistent(kv) /\ kv \in Cache
  BY DEF IInv, Sound, Consistent, CacheType
<1>1. ASSUME NEW r \in Requests
      PROVE  tokens[r] \in Nat
  BY BoundsAssumption DEF IInv
<1>2. ASSUME NEW r \in Requests, Ledger!Take(r) \/ Ledger!GiveUp(r)
      PROVE  Ledger!Next
  BY <1>2 DEF Ledger!Next
<1>3. ASSUME NEW r \in Requests, NEW pin \in BOOLEAN, AllocateForRequest(r, pin)
      PROVE  Ledger!Next
  <2> DEFINE d == Allocation(kv, r, tokens[r], pin).kv
  <2>1. kv' = d
    BY <1>3 DEF AllocateForRequest
  <2>2. Issued(kv)' = Issued(d)
    BY <2>1
  <2> QED
    BY <1>1, <1>2, <2>1, <2>2, AllocationIsTake
<1>4. ASSUME NEW r \in Requests, NEW pin \in BOOLEAN, NEW n \in 0..MaxTokens,
             CommitTokens(r, n, pin)
      PROVE  Ledger!Next
  <2> DEFINE a == Allocation(kv, r, tokens[r] + n, pin)
  <2>1. tokens[r] + n \in Nat
    BY <1>1
  <2>2. Sound(a.kv) /\ a.kv \in Cache
    BY <1>0, <2>1, AllocationSound DEF Sound, Consistent, CacheType
  <2>3. kv' = Marked(a.kv, r) \/ kv' = a.kv
    BY <1>4 DEF CommitTokens
  <2> HIDE DEF a
  <2>4. kv'.pages = a.kv.pages /\ kv'.pinned = a.kv.pinned
          /\ kv'.serial = a.kv.serial
    BY <2>2, <2>3 DEF Marked, Cache
  <2>5. kv' \in Cache
    BY <2>2, <2>3, MarkedSound DEF Sound, Consistent, CacheType
  <2>6. Issued(kv)' = Issued(a.kv)
    BY <2>2, <2>4, <2>5, SameIssued
  <2> USE DEF a
  <2> QED
    BY <1>2, <2>1, <2>4, <2>6, AllocationIsTake
<1>5. ASSUME NEW r \in Requests, NEW n \in 1..MaxTokens, AllocateDraftPages(r, n)
      PROVE  Ledger!Next
  <2> DEFINE a == Allocation(kv, r, tokens[r] + n, TRUE)
  <2>1. tokens[r] + n \in Nat
    BY <1>1
  <2>2. Sound(a.kv) /\ a.kv \in Cache
    BY <1>0, <2>1, AllocationSound DEF Sound, Consistent, CacheType
  <2>3. kv' = Drafted(a.kv, r) \/ kv' = a.kv
    BY <1>5 DEF AllocateDraftPages
  <2> HIDE DEF a
  <2>4. kv'.pages = a.kv.pages /\ kv'.pinned = a.kv.pinned
          /\ kv'.serial = a.kv.serial
    BY <2>2, <2>3 DEF Drafted, Cache
  <2>5. kv' \in Cache
    BY <2>2, <2>3, MarkedSound DEF Sound, Consistent, CacheType
  <2>6. Issued(kv)' = Issued(a.kv)
    BY <2>2, <2>4, <2>5, SameIssued
  <2> USE DEF a
  <2> QED
    BY <1>2, <2>1, <2>4, <2>6, AllocationIsTake
<1>6. ASSUME NEW n, kv' = Evicted(kv, n)
      PROVE  Ledger!Shed
  <2>1. Victims(kv, n) \in SUBSET kv.pages /\ Victims(kv, n) \cap kv.pinned = {}
    BY DEF Victims, Unpinned
  <2>2. /\ Issued(kv') = Issued(kv)
        /\ kv'.pages = kv.pages \ Victims(kv, n)
        /\ kv'.pinned = kv.pinned \ Victims(kv, n)
    BY <1>0, <1>6, <2>1, DroppedIssued DEF Evicted
  <2>3. kv.pinned \subseteq kv.pages
    BY <1>0 DEF Consistent, CacheType
  <2> QED
    BY <2>1, <2>2, <2>3 DEF Ledger!Shed
<1>7. ASSUME NEW n \in 1..MaxPages, EvictLru(n)
      PROVE  Ledger!Next
  BY <1>6, <1>7 DEF EvictLru, Ledger!Next
<1>8. ASSUME NEW r \in Requests, NEW n \in 1..MaxTokens, EnsureCapacity(r, n)
      PROVE  Ledger!Next \/ UNCHANGED Ledger!vars
  <2>1. kv' = kv \/ \E k : kv' = Evicted(kv, k)
    BY <1>8 DEF EnsureCapacity, EvictedFor
  <2> QED
    BY <1>6, <2>1 DEF Ledger!Next, Ledger!vars
<1>9. ASSUME NEW r \in Requests, ReleaseDraftPages(r) \/ ReleaseRequest(r)
      PROVE  Ledger!Next
  <2>1. PICK V \in SUBSET PagesOf(kv, r) : kv' = Dropped(kv, V)
    <3>1. CASE ReleaseDraftPages(r)
      BY <3>1 DEF ReleaseDraftPages, DraftsReleased
    <3>2. CASE ReleaseRequest(r)
      BY <1>0, <3>2, ReleasedConsistent DEF ReleaseRequest
    <3> QED
      BY <1>9, <3>1, <3>2
  <2>2. \A p \in V : p \in kv.pages /\ Owner(p) = r
    BY <1>0, PagesOfLive DEF Consistent
  <2>3. /\ Issued(kv') = Issued(kv)
        /\ kv'.pages = kv.pages \ V
        /\ kv'.pinned = kv.pinned \ V
    BY <1>0, <2>1, <2>2, DroppedIssued
  <2>4. kv.pinned \subseteq kv.pages
    BY <1>0 DEF Consistent, CacheType
  <2>5. Ledger!GiveUp(r)
    BY <2>2, <2>3, <2>4 DEF Ledger!GiveUp
  <2> QED
    BY <1>2, <2>5
<1>10. ASSUME NEW S, PinPages(S) \/ UnpinPages(S)
       PROVE  Ledger!Next
  <2>1. kv' = PinsSet(kv, S) \/ kv' = PinsCleared(kv, S)
    BY <1>10 DEF PinPages, UnpinPages
  <2>2. kv'.pages = kv.pages /\ kv'.serial = kv.serial
    BY <1>0, <2>1 DEF PinsSet, PinsCleared, Cache
  <2>3. kv' \in Cache /\ kv'.pinned \subseteq kv'.pages
    BY <1>0, <2>1, PinsConsistent DEF Consistent, CacheType
  <2>4. Issued(kv)' = Issued(kv)
    BY <1>0, <2>2, <2>3, SameIssued
  <2> QED
    BY <2>2, <2>3, <2>4 DEF Ledger!Next, Ledger!Repin
<1>11. ASSUME NEW r \in Requests, AcceptDraftPages(r)
       PROVE  UNCHANGED Ledger!vars
  <2>1. kv'.pages = kv.pages /\ kv'.pinned = kv.pinned /\ kv'.serial = kv.serial
    BY <1>0, <1>11 DEF AcceptDraftPages, DraftsAccepted, Cache
  <2>2. kv' \in Cache
    BY <1>0, <1>11, MarkedSound DEF AcceptDraftPages, Sound, Consistent, CacheType
  <2>3. Issued(kv)' = Issued(kv)
    BY <1>0, <2>1, <2>2, SameIssued
  <2> QED
    BY <2>1, <2>3 DEF Ledger!vars
<1>12. ASSUME NEW r \in Requests, NEW S \in SUBSET PagesOf(kv, r), TouchPages(S)
       PROVE  UNCHANGED Ledger!vars
  <2>1. kv'.pages = kv.pages /\ kv'.pinned = kv.pinned /\ kv'.serial = kv.serial
    BY <1>0, <1>12 DEF TouchPages, Touched, Cache
  <2>2. kv' \in Cache
    BY <1>0, <1>12, TouchedSound DEF TouchPages, Sound, Consistent, CacheType
  <2>3. Issued(kv)' = Issued(kv)
    BY <1>0, <2>1, <2>2, SameIssued
  <2> QED
    BY <2>1, <2>3 DEF Ledger!vars
<1>13. CASE UNCHANGED vars
  BY <1>13 DEF vars, Ledger!vars
<1> QED
  BY <1>3, <1>4, <1>5, <1>7, <1>8, <1>9, <1>10, <1>11, <1>12, <1>13 DEF Next

(* The initial state of the cache maps to that of the ledger.              *)
LEMMA LedgerInit ==
  Init => Ledger!Init
<1> SUFFICES ASSUME Init PROVE Ledger!Init
  OBVIOUS
<1>1. kv.pages = {} /\ kv.pinned = {} /\ kv.serial = [k \in Keys |-> 0]
  BY DEF Init, EmptyCache
<1>2. \A k \in Keys : 1..kv.serial[k] = {}
  BY <1>1
<1>3. Issued(kv) = {}
  BY <1>2 DEF Issued
<1> QED
  BY <1>1, <1>3 DEF Ledger!Init

(* The cache implements the page ledger: ids are never issued twice, a     *)
(* pinned page leaves only when its owner gives it up, and a call adds     *)
(* pages for one request.                                                  *)
THEOREM ImplementsLedger ==
  Spec => RefinesLedger
BY LedgerInit, LedgerStep, Invariance, PTL DEF Spec, RefinesLedger, Ledger!Spec

=============================================================================
