------------------------------ MODULE KVPages ------------------------------
(***************************************************************************)
(* The data of src/src/megakernel_lab/kv_cache.py: one cache value `c' and *)
(* one operator per method of class KVCache, each returning the cache the  *)
(* method leaves behind.  KVCache.tla turns the methods into actions of a  *)
(* state machine; PersistentRuntime.tla calls them from its handlers.      *)
(*                                                                         *)
(* Abstractions.                                                           *)
(*  - A page id is <<owner, layer, serial>>.  The code draws ids from one  *)
(*    counter and never reuses one; so does a counter per (owner, layer),  *)
(*    and the position of a page in its table list is its serial order.    *)
(*  - The fields of the KVPage objects in the dict `_pages' are kept as    *)
(*    sets and relations over the live ids; so is the page table.          *)
(*  - The OrderedDict `_lru' is the strict order `older' on live pages.    *)
(*  - Bytes are counted in tokens (bytes per token is a constant factor),  *)
(*    which makes `_used_capacity_tokens' equal to the live counter.       *)
(*  - The hit, access and eviction statistics are left out: nothing reads  *)
(*    them back.                                                           *)
(***************************************************************************)
EXTENDS Integers, FiniteSets

CONSTANTS
    Requests,   \* the requests, all with the same layer_ids
    Layers,     \* request.layer_ids, in ascending order
    PageSize,   \* tokens per page
    MaxPages    \* self.max_pages

ASSUME PagingAssumption ==
    /\ IsFiniteSet(Requests)
    /\ Layers \subseteq Nat
    /\ IsFiniteSet(Layers)
    /\ PageSize \in Nat \ {0}
    /\ MaxPages \in Nat

Keys == Requests \X Layers

PageIds == Requests \X Layers \X (Nat \ {0})

Owner(p) == p[1]

Key(p) == <<p[1], p[2]>>

Cache ==
    [pages     : SUBSET PageIds,                \* _pages: the live ids
     pinned    : SUBSET PageIds,                \* those with page.pinned,
     committed : SUBSET PageIds,                \* page.is_committed,
     draft     : SUBSET PageIds,                \* page.is_draft
     fill      : SUBSET (PageIds \X Nat),       \* <<p, t>>: p covers position t
     table     : SUBSET (Keys \X PageIds),      \* _page_table
     older     : SUBSET (PageIds \X PageIds),   \* _lru: <<p, q>>, p before q
     serial    : [Keys -> Nat],                 \* pages ever made, _next_page_id
     liveTokens     : Int,                      \* _total_live_kv_bytes
     pinnedTokens   : Int,                      \* _pinned_kv_bytes
     capacityTokens : Int]                      \* _total_capacity_tokens

EmptyCache ==
    [pages |-> {}, pinned |-> {}, committed |-> {}, draft |-> {},
     fill |-> {}, table |-> {}, older |-> {},
     serial |-> [k \in Keys |-> 0],
     liveTokens |-> 0, pinnedTokens |-> 0, capacityTokens |-> 0]

-----------------------------------------------------------------------------
(* Reading a cache.                                                        *)

Unpinned(c) == c.pages \ c.pinned

Entries(c, r, l) == {e \in c.table : e[1] = <<r, l>>}

(* Every id in the request's table lists.                                  *)
PagesOf(c, r) == {e[2] : e \in {d \in c.table : d[1][1] = r}}

(* The token slots the pages of S hold, and how many there are.            *)
Slots(c, S) == {s \in c.fill : s[1] \in S}

Tokens(c, S) == Cardinality(Slots(c, S))

(* page.token_start *)
TokenStart(c, p) ==
    LET held == {s[2] : s \in Slots(c, {p})}
    IN  CHOOSE t \in held : \A u \in held : t <= u

(* Position t of layer l is one of the PageSize positions from p's start.  *)
Ranges(c, p, l, t) ==
    /\ p[2] = l
    /\ TokenStart(c, p) <= t /\ t < TokenStart(c, p) + PageSize

(* In each layer the pages of S start at the first multiples of PageSize.  *)
Gapless(c, S) ==
    \A l \in Layers :
        LET layer == {p \in S : p[2] = l}
        IN  {TokenStart(c, p) : p \in layer}
               = {(i - 1) * PageSize : i \in 1..Cardinality(layer)}

Required(total) == (total + PageSize - 1) \div PageSize

(* Pages the table of r and l lacks for `total' tokens.                    *)
Lacking(c, r, l, total) ==
    IF Required(total) > Cardinality(Entries(c, r, l))
    THEN Required(total) - Cardinality(Entries(c, r, l))
    ELSE 0

(* The pages an allocation for `total' tokens would create.                *)
NewPages(c, r, total) ==
    UNION {{<<r, l, c.serial[<<r, l>>] + i>> : i \in 1..Lacking(c, r, l, total)} :
              l \in Layers}

PagesNeeded(c, r, total) == Cardinality(NewPages(c, r, total))

(* The ids drawn so far.                                                   *)
Issued(c) == UNION {{<<k[1], k[2], n>> : n \in 1..c.serial[k]} : k \in Keys}

FreePages(c) == MaxPages - Cardinality(c.pages)

CanAllocate(c, r, total) ==
    \/ PagesNeeded(c, r, total) = 0
    \/ FreePages(c) + Cardinality(Unpinned(c)) >= PagesNeeded(c, r, total)

-----------------------------------------------------------------------------
(* Removing pages.                                                         *)

(* Mutants: the LRU order, or the page table, keeps the removed pages.     *)
DroppedNotFromLru(c, V) ==
    [c EXCEPT
        !.pages     = c.pages \ V,
        !.pinned    = c.pinned \ V,
        !.committed = c.committed \ V,
        !.draft     = c.draft \ V,
        !.fill      = {s \in c.fill : s[1] \notin V},
        !.table     = {e \in c.table : e[2] \notin V},
        !.liveTokens     = c.liveTokens - Tokens(c, V),
        !.pinnedTokens   = c.pinnedTokens - Tokens(c, V \cap c.pinned),
        !.capacityTokens = c.capacityTokens - PageSize * Cardinality(V)]

DroppedNotFromTable(c, V) ==
    [DroppedNotFromLru(c, V) EXCEPT
        !.table = c.table,
        !.older = {e \in c.older : e[1] \notin V /\ e[2] \notin V}]

(* Take the pages of V out of the dict, the tables, the LRU order and the  *)
(* counters: what every removing loop of the class does for one page.      *)
Dropped(c, V) ==
    [c EXCEPT
        !.pages     = c.pages \ V,
        !.pinned    = c.pinned \ V,
        !.committed = c.committed \ V,
        !.draft     = c.draft \ V,
        !.fill      = {s \in c.fill : s[1] \notin V},
        !.table     = {e \in c.table : e[2] \notin V},
        !.older     = {e \in c.older : e[1] \notin V /\ e[2] \notin V},
        !.liveTokens     = c.liveTokens - Tokens(c, V),
        !.pinnedTokens   = c.pinnedTokens - Tokens(c, V \cap c.pinned),
        !.capacityTokens = c.capacityTokens - PageSize * Cardinality(V)]

(* Drafts go first, then the least recently used.                          *)
EvictedBefore(c, q, p) ==
    \/ q \in c.draft /\ p \notin c.draft
    \/ (q \in c.draft <=> p \in c.draft) /\ <<q, p>> \in c.older

(* Mutants: pins are not looked at; drafts get no precedence.              *)
VictimsIgnoringPins(c, n) ==
    {p \in c.pages :
        Cardinality({q \in c.pages : EvictedBefore(c, q, p)}) < n}

VictimsLruOnly(c, n) ==
    {p \in Unpinned(c) :
        Cardinality({q \in Unpinned(c) : <<q, p>> \in c.older}) < n}

Victims(c, n) ==
    {p \in Unpinned(c) :
        Cardinality({q \in Unpinned(c) : EvictedBefore(c, q, p)}) < n}

Evicted(c, n) == Dropped(c, Victims(c, n))

(* The eviction that makes room for `needed' pages, when room is lacking.  *)
EvictedFor(c, needed) ==
    IF needed > FreePages(c) THEN Evicted(c, needed - FreePages(c)) ELSE c

Clamp(n) == IF n < 0 THEN 0 ELSE n

Released(c, r) ==
    LET d == Dropped(c, PagesOf(c, r))
    IN  [d EXCEPT !.liveTokens     = Clamp(d.liveTokens),
                  !.pinnedTokens   = Clamp(d.pinnedTokens),
                  !.capacityTokens = Clamp(d.capacityTokens)]

DraftsReleased(c, r) == Dropped(c, PagesOf(c, r) \cap c.draft)

-----------------------------------------------------------------------------
(* Ordering pages.                                                         *)

(* The order of a request's flattened page lists: by layer, then by age.   *)
ListOrder(S) ==
    {e \in S \X S : \/ e[1][2] < e[2][2]
                    \/ e[1][2] = e[2][2] /\ e[1][3] < e[2][3]}

(* The LRU order once the pages of S, taken in the order `sequence', have  *)
(* been moved to its recent end.                                           *)
MovedToEnd(c, S, sequence) ==
    {e \in c.older : e[1] \notin S /\ e[2] \notin S}
        \cup ((c.pages \ S) \X S) \cup sequence

Touched(c, S, sequence) == [c EXCEPT !.older = MovedToEnd(c, S, sequence)]

-----------------------------------------------------------------------------
(* Creating pages.                                                         *)

(* Mutant: token_start does not skip the pages the table already has.      *)
SpanFromZero(c, p, total) ==
    LET before == p[3] - c.serial[Key(p)] - 1
    IN  {t \in (before * PageSize)..(before * PageSize + PageSize - 1) :
            t < total}

(* The positions the new page p covers: its place in the table counts, not *)
(* what the pages before it cover.                                         *)
Span(c, p, total) ==
    LET before == Cardinality(Entries(c, p[1], p[2]))
                      + (p[3] - c.serial[Key(p)] - 1)
    IN  {t \in (before * PageSize)..(before * PageSize + PageSize - 1) :
            t < total}

Grown(c, r, total, pin) ==
    LET new    == NewPages(c, r, total)
        filled == UNION {{<<p, t>> : t \in Span(c, p, total)} : p \in new}
    IN  [c EXCEPT
            !.pages  = c.pages \cup new,
            !.pinned = IF pin THEN c.pinned \cup new ELSE c.pinned,
            !.fill   = c.fill \cup filled,
            !.table  = c.table \cup {<<Key(p), p>> : p \in new},
            !.older  = MovedToEnd(c, new, ListOrder(new)),
            !.serial = [k \in Keys |->
                           IF k[1] = r THEN c.serial[k] + Lacking(c, r, k[2], total)
                                       ELSE c.serial[k]],
            !.liveTokens     = c.liveTokens + Cardinality(filled),
            !.pinnedTokens   = c.pinnedTokens
                                   + (IF pin THEN Cardinality(filled) ELSE 0),
            !.capacityTokens = c.capacityTokens + PageSize * Cardinality(new)]

(* Mutant: the room is not checked after the eviction.                     *)
AllocationUnchecked(c, r, total, pin) ==
    [ok |-> TRUE,
     kv |-> Grown(EvictedFor(c, PagesNeeded(c, r, total)), r, total, pin)]

(* allocate_for_request.  The room is computed before the eviction and     *)
(* checked after it; the loop that creates pages reads the tables again.   *)
(* `ok' is FALSE when the method raises, with the eviction already done.   *)
Allocation(c, r, total, pin) ==
    LET needed == PagesNeeded(c, r, total)
        room   == EvictedFor(c, needed)
        fits   == FreePages(room) >= needed
    IN  [ok |-> fits,
         kv |-> IF fits THEN Grown(room, r, total, pin) ELSE room]

-----------------------------------------------------------------------------
(* Flags.                                                                  *)

Marked(c, r) ==
    [c EXCEPT !.committed = c.committed \cup PagesOf(c, r),
              !.draft     = c.draft \ PagesOf(c, r)]

Drafted(c, r) ==
    [c EXCEPT !.draft = c.draft \cup (PagesOf(c, r) \ c.committed)]

DraftsAccepted(c, r) ==
    [c EXCEPT !.committed = c.committed \cup (PagesOf(c, r) \cap c.draft),
              !.draft     = c.draft \ PagesOf(c, r)]

(* Mutant: pages already pinned are counted again.                         *)
PinsSetTwice(c, S) ==
    [c EXCEPT !.pinned       = c.pinned \cup (S \cap c.pages),
              !.pinnedTokens = c.pinnedTokens + Tokens(c, S \cap c.pages)]

(* Setting the pin of the pages of S; ids that are not live are skipped,   *)
(* and so are, for the counter, pages whose pin is set already.            *)
PinsSet(c, S) ==
    [c EXCEPT !.pinned       = c.pinned \cup (S \cap c.pages),
              !.pinnedTokens = c.pinnedTokens + Tokens(c, S \cap Unpinned(c))]

PinsCleared(c, S) ==
    [c EXCEPT !.pinned       = c.pinned \ S,
              !.pinnedTokens = c.pinnedTokens - Tokens(c, S \cap c.pinned)]

-----------------------------------------------------------------------------
(* Consistency of one cache value.                                         *)

(* The flags, the token counts and the LRU entries are those of live pages.*)
CacheType(c) ==
    /\ c \in Cache
    /\ IsFiniteSet(c.pages)
    /\ c.pinned \subseteq c.pages
    /\ c.committed \subseteq c.pages
    /\ c.draft \subseteq c.pages
    /\ IsFiniteSet(c.fill) /\ \A s \in c.fill : s[1] \in c.pages
    /\ c.older \subseteq c.pages \X c.pages

(* `_page_table' lists each live page under its own request and layer and  *)
(* nothing else; ids are issued in serial order.                           *)
TablesIndexed(c) ==
    /\ c.table = {<<Key(p), p>> : p \in c.pages}
    /\ \A p \in c.pages : p[3] <= c.serial[Key(p)]

(* `_lru' orders exactly the live pages, strictly and totally.             *)
LruOrdered(c) ==
    /\ \A p \in c.pages : <<p, p>> \notin c.older
    /\ \A p, q \in c.pages :
          p # q => (<<p, q>> \in c.older <=> <<q, p>> \notin c.older)
    /\ \A p, q, s \in c.pages :
          <<p, q>> \in c.older /\ <<q, s>> \in c.older => <<p, s>> \in c.older

(* The incremental counters equal a recount of the live pages.             *)
CountersExact(c) ==
    /\ c.liveTokens = Tokens(c, c.pages)
    /\ c.pinnedTokens = Tokens(c, c.pinned)
    /\ c.capacityTokens = PageSize * Cardinality(c.pages)

=============================================================================
