--------------------------- MODULE TieredKVCache ---------------------------
(***************************************************************************)
(* src/tiered-kv-cache/tiered_kv_cache.py: class TieredKVCache, with the   *)
(* lossy block format of compression.py.                                   *)
(*                                                                         *)
(* Every method holds one re-entrant lock from its first line to its last, *)
(* so a call is one step, but for a read that has to make room: there each *)
(* iteration of the loop of _ensure_capacity is a step, and the lock stays *)
(* taken until the read ends.                                              *)
(*                                                                         *)
(* Abstractions.  A tensor is the version of its block and whether its     *)
(* numbers are still those written.  Blocks of one key have one shape.     *)
(* Statistics are left out, and so are the usage and the LRU list of the   *)
(* NVMe tier, which no decision reads.  The metadata of a block has a      *)
(* shape exactly if the block was written.                                 *)
(***************************************************************************)
EXTENDS Integers, SequencesExt

CONSTANTS
    Keys,               \* the (layer, block) pairs in use
    Size,               \* [Keys -> Nat]  bytes of a block's tensor
    PlaceholderSize,    \* what allocate_block charges, 4 MiB in the code
    Budgets,            \* the pairs of budgets a cache may be made with
    MaxVersion          \* bound: writes of one key by the callers

Memory == {"gpu", "cpu"}
Tiers == Memory \union {"nvme"}

ASSUME TieredAssumption ==
    /\ IsFiniteSet(Keys)
    /\ Size \in [Keys -> Nat \ {0}]
    /\ PlaceholderSize \in Nat \ {0}
    /\ Budgets \subseteq [Memory -> Nat]
    /\ MaxVersion \in Nat

VARIABLES
    budget,         \* gpu_budget_bytes and cpu_budget_bytes
    cache,          \* the stores, locations, LRU lists and usage
    call,           \* the read that is making room, holding the lock
    latest,         \* history: versions written by the callers
    forked          \* history: the last write left a copy in another memory

tieredVars == <<budget, cache, call, latest, forked>>

-----------------------------------------------------------------------------
(* A copy of a block; version 0 where there is none.                       *)

Copy == [version : 0..MaxVersion, exact : BOOLEAN]
NoCopy == [version |-> 0, exact |-> FALSE]

(* compress_block keeps eight bits of each number.                         *)
Compressed(copy) == [copy EXCEPT !.exact = FALSE]

CacheType ==
    [copies   : [Tiers -> [Keys -> Copy]],
     location : [Keys -> Tiers \union {"none"}],
     lru      : [Memory -> Seq(Keys)],
     usage    : [Memory -> Nat]]

EmptyTiers ==
    [copies   |-> [t \in Tiers |-> [k \in Keys |-> NoCopy]],
     location |-> [k \in Keys |-> "none"],
     lru      |-> [t \in Memory |-> <<>>],
     usage    |-> [t \in Memory |-> 0]]

Stored(c, t, k) == c.copies[t][k].version > 0

Written(k) == latest[k] > 0

Fits(c, t, bytes) == c.usage[t] + bytes <= budget[t]

Listed(c, t, k) == \E i \in DOMAIN c.lru[t] : c.lru[t][i] = k

(* A known entry moves to the young end, a new one is put there.           *)
Touched(c, t, k) ==
    IF t \in Memory
    THEN [c EXCEPT !.lru[t] = Append(RemoveFirst(@, k), k)]
    ELSE c

(* Put a copy in a tier: store it, point the location at it, charge its    *)
(* usage and move it to the young end of the LRU list.  A copy another     *)
(* tier holds stays, and what the tier held is overwritten but not         *)
(* credited.                                                               *)
Put(c, t, k, copy) ==
    Touched([c EXCEPT
                !.copies[t][k] = IF t = "nvme" THEN Compressed(copy) ELSE copy,
                !.location[k] = t,
                !.usage = [u \in Memory |-> IF u = t THEN @[u] + Size[k] ELSE @[u]]],
            t, k)

(* The tier write() chooses.  Its own call of _ensure_capacity then finds  *)
(* room and evicts nothing.                                                *)
WriteTier(c, k) ==
    IF budget["gpu"] > 0 /\ Fits(c, "gpu", Size[k]) THEN "gpu"
    ELSE IF budget["cpu"] > 0 /\ Fits(c, "cpu", Size[k]) THEN "cpu"
    ELSE "nvme"

(* A store gives a block up; usage is clamped at zero.                     *)
Removed(c, t, k) ==
    [c EXCEPT !.copies[t][k] = NoCopy,
              !.usage[t] = IF @ < Size[k] THEN 0 ELSE @ - Size[k]]

(* Mutant: a block evicted from the CPU is not written to its file.        *)
EvictedUnwritten(c, t) ==
    LET k == Head(c.lru[t])
        popped == [c EXCEPT !.lru[t] = Tail(@)]
        copy == c.copies[t][k]
        rest == Removed(popped, t, k)
    IN  IF c.lru[t] = <<>> THEN c
        ELSE IF ~Stored(c, t, k) THEN popped
        ELSE IF t = "gpu" THEN Put(rest, WriteTier(rest, k), k, copy)
        ELSE rest

(* Mutant: a block evicted from the GPU always goes to the CPU.            *)
EvictedToCpu(c, t) ==
    LET k == Head(c.lru[t])
        popped == [c EXCEPT !.lru[t] = Tail(@)]
        copy == c.copies[t][k]
        rest == Removed(popped, t, k)
    IN  IF c.lru[t] = <<>> THEN c
        ELSE IF ~Stored(c, t, k) THEN popped
        ELSE Put(rest, IF t = "gpu" THEN "cpu" ELSE "nvme", k, copy)

(* evict(tier): the oldest entry, if any, leaves the LRU list.  A block of *)
(* the GPU is handed to write(), which may choose the GPU again; one of    *)
(* the CPU goes to its file; the entry of a placeholder is just forgotten. *)
Evicted(c, t) ==
    LET k == Head(c.lru[t])
        popped == [c EXCEPT !.lru[t] = Tail(@)]
        copy == c.copies[t][k]
        rest == Removed(popped, t, k)
    IN  IF c.lru[t] = <<>> THEN c
        ELSE IF ~Stored(c, t, k) THEN popped
        ELSE Put(rest, IF t = "gpu" THEN WriteTier(rest, k) ELSE "nvme", k, copy)

(* allocate_block: a known block is touched where it is, a new one gets    *)
(* the first tier with room for a placeholder, which holds no tensor.      *)
PlaceholderTier(c) ==
    IF Fits(c, "gpu", PlaceholderSize) THEN "gpu"
    ELSE IF Fits(c, "cpu", PlaceholderSize) THEN "cpu"
    ELSE "nvme"

(* Mutant: the placeholder is taken off the usage.                         *)
AllocatedCredited(c, k) ==
    IF c.location[k] # "none" THEN Touched(c, c.location[k], k)
    ELSE LET t == PlaceholderTier(c)
         IN  Touched([c EXCEPT !.location[k] = t,
                               !.usage = [u \in Memory |->
                                    IF u = t THEN @[u] - PlaceholderSize ELSE @[u]]],
                     t, k)

Allocated(c, k) ==
    IF c.location[k] # "none" THEN Touched(c, c.location[k], k)
    ELSE LET t == PlaceholderTier(c)
         IN  Touched([c EXCEPT !.location[k] = t,
                               !.usage = [u \in Memory |->
                                    IF u = t THEN @[u] + PlaceholderSize ELSE @[u]]],
                     t, k)

(* Where a read finds a block: the first store that has it, or its file.   *)
ReadTier(c, k) ==
    IF Stored(c, "gpu", k) THEN "gpu"
    ELSE IF Stored(c, "cpu", k) THEN "cpu"
    ELSE IF c.location[k] = "nvme" THEN "nvme"
    ELSE "none"

(* Mutant: an empty LRU list does not end the loop.                        *)
LacksEvenIfEmpty(c, t, bytes) == budget[t] > 0 /\ ~Fits(c, t, bytes)

(* The condition of the loop of _ensure_capacity.                          *)
Lacks(c, t, bytes) == budget[t] > 0 /\ ~Fits(c, t, bytes) /\ c.lru[t] # <<>>

-----------------------------------------------------------------------------
(* The lock, and the read that holds it between two steps.                 *)

Idle == [by |-> "nobody"]

Reading(by, k, t, copy) == [by |-> by, key |-> k, to |-> t, copy |-> copy]

LockFree == call = Idle

Init ==
    /\ budget \in Budgets
    /\ cache = EmptyTiers
    /\ call = Idle
    /\ latest = [k \in Keys |-> 0]
    /\ forked = [k \in Keys |-> FALSE]

AllocateBlock(k) ==
    /\ LockFree
    /\ cache' = Allocated(cache, k)
    /\ UNCHANGED <<budget, call, latest, forked>>

WriteBlock(k) ==
    LET t == WriteTier(cache, k)
    IN  /\ LockFree
        /\ latest[k] < MaxVersion
        /\ latest' = [latest EXCEPT ![k] = @ + 1]
        /\ cache' = Put(cache, t, k, [version |-> latest[k] + 1, exact |-> TRUE])
        /\ forked' = [forked EXCEPT ![k] = \E u \in Memory \ {t} : Stored(cache, u, k)]
        /\ UNCHANGED <<budget, call>>

(* A call of evict from outside.                                           *)
EvictOne(t) ==
    /\ LockFree
    /\ cache' = Evicted(cache, t)
    /\ UNCHANGED <<budget, call, latest, forked>>

(* Reading a block of the GPU store returns it.                            *)
ReadHit(by, k) ==
    /\ LockFree
    /\ ReadTier(cache, k) = "gpu"
    /\ cache' = Touched(cache, "gpu", k)
    /\ UNCHANGED <<budget, call, latest, forked>>

(* Other blocks are first brought to the CPU, then to the GPU.             *)
ReadStart(by, k) ==
    /\ LockFree
    /\ \/ /\ ReadTier(cache, k) = "cpu"
          /\ call' = Reading(by, k, "gpu", cache.copies["cpu"][k])
       \/ /\ ReadTier(cache, k) = "nvme"
          /\ Written(k)
          /\ call' = Reading(by, k, "cpu", cache.copies["nvme"][k])
    /\ UNCHANGED <<budget, cache, latest, forked>>

(* No block: KeyError.  A placeholder on NVMe: TypeError, for its metadata *)
(* has no shape.                                                           *)
ReadRaises(by, k) ==
    /\ LockFree
    /\ ReadTier(cache, k) = "none" \/ (ReadTier(cache, k) = "nvme" /\ ~Written(k))
    /\ UNCHANGED tieredVars

(* One iteration of _ensure_capacity.                                      *)
MakeRoom ==
    /\ ~LockFree
    /\ Lacks(cache, call.to, Size[call.key])
    /\ cache' = Evicted(cache, call.to)
    /\ UNCHANGED <<budget, call, latest, forked>>

(* The block is in the CPU store, and goes on to the GPU.                  *)
Staged ==
    /\ ~LockFree
    /\ call.to = "cpu"
    /\ ~Lacks(cache, "cpu", Size[call.key])
    /\ cache' = Put(cache, "cpu", call.key, call.copy)
    /\ call' = [call EXCEPT !.to = "gpu"]
    /\ UNCHANGED <<budget, latest, forked>>

(* The block is in the GPU store: the read returns it.                     *)
Promoted ==
    /\ ~LockFree
    /\ call.to = "gpu"
    /\ ~Lacks(cache, "gpu", Size[call.key])
    /\ cache' = Put(cache, "gpu", call.key, call.copy)
    /\ call' = Idle
    /\ UNCHANGED <<budget, latest, forked>>

Read(by, k) == ReadHit(by, k) \/ ReadStart(by, k) \/ ReadRaises(by, k)

ContinueRead == MakeRoom \/ Staged \/ Promoted

-----------------------------------------------------------------------------
(* Properties.                                                             *)

StoredBytes(t) ==
    SumFunctionOnSet(Size, {k \in Keys : Stored(cache, t, k)})

(* The usage counter of a memory is at least what its store holds, so the  *)
(* clamp in evict never loses bytes: usage may only leak upwards, through  *)
(* overwritten blocks and placeholders.                                    *)
UsageCoversStore(t) == cache.usage[t] >= StoredBytes(t)

(* A budget of zero is the exception: write avoids that tier and promotion *)
(* fills it without limit.                                                 *)
StoredWithinBudget(t) ==
    budget[t] > 0 /\ (\A k \in Keys : Size[k] <= budget[t])
        => StoredBytes(t) <= budget[t]

(* Every stored tensor can be found by evict, and is listed once.          *)
LruCoversStore(t) ==
    /\ \A k \in Keys : Stored(cache, t, k) => Listed(cache, t, k)
    /\ IsInjective(cache.lru[t])

(* However the counters leak and whatever promotions overran, counters and *)
(* lists cover what a memory stores, and that fits in its budget.          *)
TensorsAccounted ==
    \A t \in Memory : UsageCoversStore(t) /\ StoredWithinBudget(t) /\ LruCoversStore(t)

(* Whatever evictions and promotions run, a block that was written can be  *)
(* read: some tier read() looks in has a copy.  Unless its last write left *)
(* a copy in the other memory, that is the version last written, and no    *)
(* tier has a better copy of it.                                           *)
ServedIsFresh ==
    \A k \in Keys : Written(k) =>
        /\ ReadTier(cache, k) # "none"
        /\ LET served == cache.copies[ReadTier(cache, k)][k]
           IN  /\ served.version > 0
               /\ ~forked[k] =>
                     /\ served.version = latest[k]
                     /\ served.exact \/ \A t \in Tiers : ~cache.copies[t][k].exact

(* The loop of _ensure_capacity on the GPU finds a tensor to evict and     *)
(* room for it in the GPU, where the eviction just took it from.           *)
Stuck ==
    /\ ~LockFree
    /\ call.to = "gpu"
    /\ Lacks(cache, "gpu", Size[call.key])
    /\ cache.usage["gpu"] <= budget["gpu"]
    /\ \E k \in Keys : Stored(cache, "gpu", k)

(* A read ends, unless it waits for room in the GPU while tensors fill it: *)
(* then it never does, and holds the lock for ever.                        *)
ReadsEnd == ~LockFree ~> (LockFree \/ []Stuck)

=============================================================================
