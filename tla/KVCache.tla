------------------------------ MODULE KVCache ------------------------------
(***************************************************************************)
(* Class KVCache of src/src/megakernel_lab/kv_cache.py as a state machine: *)
(* its public methods, called in any order by the requests that share it.  *)
(* A call is one step (the simulator is single threaded); a call that      *)
(* raises leaves behind the eviction it had already done.                  *)
(***************************************************************************)
EXTENDS KVPages

CONSTANTS
    MaxTokens,  \* bound: prompt plus committed tokens of a request
    MaxSerial   \* bound: pages ever created for one request and layer

ASSUME BoundsAssumption == MaxTokens \in Nat \ {0} /\ MaxSerial \in Nat

VARIABLES
    kv,         \* the cache, see KVPages
    tokens      \* len(prompt_tokens) + len(committed_tokens) of each request

vars == <<kv, tokens>>

Init ==
    /\ kv = EmptyCache
    /\ tokens \in [Requests -> 1..MaxTokens]

WithinBounds(c) == \A k \in Keys : c.serial[k] <= MaxSerial

(* allocate_for_request, called with every token of the request.           *)
AllocateForRequest(r, pin) ==
    /\ kv' = Allocation(kv, r, tokens[r], pin).kv
    /\ WithinBounds(kv')
    /\ UNCHANGED tokens

(* commit_tokens, and the caller extending its committed tokens once the   *)
(* call has returned; when it raises neither the marks nor the extension   *)
(* happen.                                                                 *)
CommitTokens(r, n, pin) ==
    LET a == Allocation(kv, r, tokens[r] + n, pin)
    IN  /\ tokens[r] + n <= MaxTokens
        /\ \/ /\ a.ok
              /\ kv' = Marked(a.kv, r)
              /\ tokens' = [tokens EXCEPT ![r] = @ + n]
           \/ /\ ~a.ok
              /\ kv' = a.kv
              /\ UNCHANGED tokens
        /\ WithinBounds(kv')

AllocateDraftPages(r, n) ==
    LET a == Allocation(kv, r, tokens[r] + n, TRUE)
    IN  /\ tokens[r] + n <= MaxTokens
        /\ kv' = IF a.ok THEN Drafted(a.kv, r) ELSE a.kv
        /\ WithinBounds(kv')
        /\ UNCHANGED tokens

ReleaseDraftPages(r) ==
    /\ kv' = DraftsReleased(kv, r)
    /\ UNCHANGED tokens

AcceptDraftPages(r) ==
    /\ kv' = DraftsAccepted(kv, r)
    /\ UNCHANGED tokens

(* pin_pages, unpin_pages and touch_pages take a list of ids: here some of *)
(* the request's live pages, in list order (other ids are skipped).        *)
PinPages(S) ==
    /\ kv' = PinsSet(kv, S)
    /\ UNCHANGED tokens

UnpinPages(S) ==
    /\ kv' = PinsCleared(kv, S)
    /\ UNCHANGED tokens

TouchPages(S) ==
    /\ kv' = Touched(kv, S, ListOrder(S))
    /\ UNCHANGED tokens

EvictLru(n) ==
    /\ kv' = Evicted(kv, n)
    /\ UNCHANGED tokens

(* ensure_capacity; the exception it may raise changes nothing more.       *)
EnsureCapacity(r, n) ==
    /\ tokens[r] + n <= MaxTokens
    /\ kv' = EvictedFor(kv, PagesNeeded(kv, r, tokens[r] + n))
    /\ UNCHANGED tokens

ReleaseRequest(r) ==
    /\ kv' = Released(kv, r)
    /\ UNCHANGED tokens

Next ==
    \/ \E r \in Requests, pin \in BOOLEAN :
          \/ AllocateForRequest(r, pin)
          \/ \E n \in 0..MaxTokens : CommitTokens(r, n, pin)
    \/ \E r \in Requests, n \in 1..MaxTokens :
          \/ AllocateDraftPages(r, n)
          \/ EnsureCapacity(r, n)
    \/ \E r \in Requests :
          \/ ReleaseDraftPages(r)
          \/ AcceptDraftPages(r)
          \/ ReleaseRequest(r)
    \/ \E r \in Requests : \E S \in SUBSET PagesOf(kv, r) :
          \/ PinPages(S)
          \/ UnpinPages(S)
          \/ TouchPages(S)
    \/ \E n \in 1..MaxPages : EvictLru(n)

Spec == Init /\ [][Next]_vars

-----------------------------------------------------------------------------
(* Invariants.                                                             *)

(* The variables have the types of the attributes of class KVCache.        *)
TypeOK == CacheType(kv) /\ tokens \in [Requests -> 1..MaxTokens]

(* No page is both committed and draft, whatever drafts and commits        *)
(* interleave: a rejected draft cannot take committed tokens with it.      *)
FlagsExclusive ==
    kv.committed \cap kv.draft = {}

(* The three indexes of the class agree after every method, whatever calls *)
(* removed or created pages: `_pages', `_page_table' and `_lru'; and so do *)
(* the flags of a page.                                                    *)
IndexesAgree == TablesIndexed(kv) /\ LruOrdered(kv) /\ FlagsExclusive

(* No byte counter drifts over any sequence of allocations, pins, unpins,  *)
(* evictions and releases, so release_request's clamp never fires.  They    *)
(* are recounted from what each page recorded when it was made.            *)
AccountingOK == CountersExact(kv)

(* kv_cache.py:51: total_live_kv_bytes is the "bytes currently resident in *)
(* the cache".  So every committed token of a request is in the record of  *)
(* a page, where the counter and positions_for find it, if commits left    *)
(* the request the pages its tokens require and no gap between them.  It   *)
(* does not hold: tokens that fit in the free part of the last page change *)
(* nothing, whose record stays what it was when the page was made.         *)
CommittedTokensHeld ==
    \A r \in Requests, l \in Layers :
        LET held == {p \in PagesOf(kv, r) : p[2] = l}
        IN  (/\ Gapless(kv, held)
             /\ held \subseteq kv.committed
             /\ Cardinality(held) = Required(tokens[r]))
               => \A t \in 0..(tokens[r] - 1) : \E p \in held : <<p, t>> \in kv.fill

-----------------------------------------------------------------------------
(* Action properties.                                                      *)

OwnerReleases ==
    \E r \in Requests : ReleaseRequest(r) \/ ReleaseDraftPages(r)

(* The calls that make room for r and n more tokens.                       *)
MakesRoom(r, n) ==
    \/ EnsureCapacity(r, n)
    \/ AllocateDraftPages(r, n)
    \/ \E pin \in BOOLEAN : \/ CommitTokens(r, n, pin)
                            \/ n = 0 /\ AllocateForRequest(r, pin)

(* The pages a call for `total' tokens of r wants beyond the free ones.    *)
RoomLacked(r, total) == Clamp(PagesNeeded(kv, r, total) - FreePages(kv))

(* A step takes pages that are unpinned and the first of the eviction      *)
(* order, unless their owner releases them; no more than asked for, or     *)
(* than the room the call lacked; and the pages it makes fill the cache.   *)
TakesInOrder(gone) ==
    /\ \/ /\ gone \cap kv.pinned = {}
          /\ \A p \in gone, q \in kv'.pages \cap Unpinned(kv) :
                EvictedBefore(kv, p, q)
       \/ OwnerReleases
    /\ \A n \in 1..MaxPages : Cardinality(gone) <= n \/ ~EvictLru(n)
    /\ \A r \in Requests : \A n \in 0..(MaxTokens - tokens[r]) :
          \/ Cardinality(gone) <= RoomLacked(r, tokens[r] + n)
          \/ ~MakesRoom(r, n)
    /\ \/ kv'.pages \subseteq kv.pages
       \/ Cardinality(kv'.pages) >= MaxPages

(* Pages that pressure takes away are unpinned and the first of the        *)
(* eviction order: drafts before others, then least recently used; no      *)
(* unpinned survivor was due before a victim.  They are no more than       *)
(* evict_lru was asked for, or than the room a call lacked, raise or not;  *)
(* and a call that evicts and creates leaves no page of the cache free.    *)
EvictionInOrder ==
    [][kv.pages \ kv'.pages # {} => TakesInOrder(kv.pages \ kv'.pages)]_vars

(* The cache grows past max_pages only in a call that evicted pages of the *)
(* very request it then allocated for: pages_needed was counted before.    *)
OverflowNeedsSelfEviction ==
    [][\/ Cardinality(kv'.pages) <= MaxPages
       \/ kv'.pages \subseteq kv.pages
       \/ \E p \in kv.pages \ kv'.pages, q \in kv'.pages \ kv.pages :
             Owner(p) = Owner(q)]_vars

(* The pages that r keeps through a step hold the first positions.         *)
KeepsWhole(r) == Gapless(kv, PagesOf(kv, r) \cap kv'.pages)

(* A commit of r leaves enough pages, all committed; and every position    *)
(* has one if those it keeps hold the first positions.                     *)
CoversCommitted(r) ==
    /\ PagesOf(kv', r) \subseteq kv'.committed \ kv'.draft
    /\ \A l \in Layers : Cardinality(Entries(kv', r, l)) >= Required(tokens'[r])
    /\ KeepsWhole(r) => \A l \in Layers, t \in 0..(tokens'[r] - 1) :
                           \E p \in PagesOf(kv', r) : Ranges(kv', p, l, t)

(* New pages continue where the pages that r keeps through the call end,   *)
(* if these hold the first positions without a gap; a commit that returns  *)
(* then leaves, in every layer, a page for every position of the request.  *)
(* It leaves enough pages, all committed, in any case; but after a loss    *)
(* below a page that stayed these do not cover every position: the place   *)
(* of a new page follows from the length of the table.                     *)
CommitCovers ==
    [][\A r \in Requests :
          /\ KeepsWhole(r) => Gapless(kv', PagesOf(kv', r))
          /\ tokens'[r] > tokens[r] => CoversCommitted(r)]_vars

(* The cache implements the page ledger: ids are never issued twice, a     *)
(* pinned page leaves only when its owner gives it up, and a call adds     *)
(* pages for one request.                                                  *)
Ledger == INSTANCE PageLedger WITH
    held   <- kv.pages,
    pins   <- kv.pinned,
    issued <- Issued(kv)

RefinesLedger == Ledger!Spec

=============================================================================
