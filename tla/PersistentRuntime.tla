------------------------- MODULE PersistentRuntime -------------------------
(***************************************************************************)
(* src/src/megakernel_lab/runtime.py: PersistentDecodeRuntime, its worker  *)
(* pool, prefill and decode workers, with the proposer and the verifier of *)
(* spec_decode.py and the CPU stub backend, over the KV cache of KVPages.  *)
(*                                                                         *)
(* run() is one thread; a step is one iteration of one of its loops.       *)
(* Submissions and calls of run() alternate in any order.  A RuntimeError  *)
(* of the cache leaves run() at once, and its local lists are lost.        *)
(*                                                                         *)
(* Abstractions.  A target sequence is its length and the positions of its *)
(* end-of-sequence tokens: proposals are slices of it.  Latencies, traces  *)
(* and worker statistics are left out; the workers of a pool differ only   *)
(* in their names, so a worker is not part of a step.                      *)
(***************************************************************************)
EXTENDS KVPages, SequencesExt

CONSTANTS
    PromptLength,       \* [Requests -> Nat]  len(prompt_tokens)
    TargetLength,       \* [Requests -> Nat]  len(target_tokens)
    EosPositions,       \* [Requests -> SUBSET Nat]  in target_tokens, from 1
    MaxNewTokens,       \* [Requests -> Nat]  max_new_tokens
    Priority,           \* [Requests -> Int]  priority
    Configs             \* the configurations a runtime may be made with

Config ==
    [blockSizes        : SUBSET (Nat \ {0}),   \* block_size alone, or all the
                                               \* adaptive policy may set
     mismatchStride    : Nat,                  \* of the AcceptancePolicy
     rejectDraftBlocks : BOOLEAN,              \* of the AcceptancePolicy
     pinReady          : BOOLEAN,              \* pin_ready_decode_pages
     sparseTopK        : Nat,                  \* 0 when sparse KV is off
     decodeWorkers     : Nat \ {0}]            \* num_decode_workers

ASSUME RuntimeAssumption ==
    /\ PromptLength \in [Requests -> Nat]
    /\ TargetLength \in [Requests -> Nat]
    /\ EosPositions \in [Requests -> SUBSET (Nat \ {0})]
    /\ MaxNewTokens \in [Requests -> Nat]
    /\ Priority \in [Requests -> Int]
    /\ Configs \subseteq Config

VARIABLES
    config,         \* self.config and its policies, fixed by the constructor
    kv,             \* self.kv_cache
    phase,          \* request.phase; "new" before submit
    committed,      \* len(request.committed_tokens)
    snapshot,       \* request.kv_page_ids
    prefillQueue,   \* prefill_queue, in push order
    decodeQueue,    \* decode_queue, in push order
    at,             \* where run() is; "idle" between calls
    batch,          \* completed_prefill or decode_results of this iteration
    quota,          \* iterations left in dispatch_decode
    final,          \* final_results of this call
    returned        \* requests whose result a call has returned

vars == <<config, kv, phase, committed, snapshot, prefillQueue, decodeQueue,
          at, batch, quota, final, returned>>

requestVars == <<phase, committed, snapshot>>
queueVars == <<prefillQueue, decodeQueue>>
runVars == <<at, batch, quota, final, returned>>

Init ==
    /\ config \in Configs
    /\ kv = EmptyCache
    /\ phase = [r \in Requests |-> "new"]
    /\ committed = [r \in Requests |-> 0]
    /\ snapshot = [r \in Requests |-> {}]
    /\ prefillQueue = <<>> /\ decodeQueue = <<>>
    /\ at = "idle"
    /\ batch = <<>>
    /\ quota = 0
    /\ final = {}
    /\ returned = {}

Total(r) == PromptLength[r] + committed[r]

-----------------------------------------------------------------------------
(* Proposing and verifying.                                                *)

Smaller(m, n) == IF m < n THEN m ELSE n

TokenBudgetLeft(r) ==
    IF committed[r] < MaxNewTokens[r] THEN MaxNewTokens[r] - committed[r] ELSE 0

RemainingTarget(r) ==
    IF committed[r] < TargetLength[r] THEN TargetLength[r] - committed[r] ELSE 0

(* No token of the target may be drafted: the proposal is one EOS.         *)
Exhausted(r) == RemainingTarget(r) = 0 \/ TokenBudgetLeft(r) = 0

(* Mutant: the token budget does not bound the draft.                      *)
ProposalLengthUnbudgeted(r, block) ==
    IF Exhausted(r) THEN 1 ELSE Smaller(block, RemainingTarget(r))

ProposalLength(r, block) ==
    IF Exhausted(r) THEN 1
    ELSE Smaller(block, Smaller(RemainingTarget(r), TokenBudgetLeft(r)))

(* The simulated mismatch ends the accepted prefix at the first position   *)
(* divisible by the stride, unless that is the last one of the proposal.   *)
MismatchesAt(r, length) ==
    {i \in 1..(length - 1) :
        config.mismatchStride > 0 /\ (committed[r] + i) % config.mismatchStride = 0}

AcceptedPrefix(r, length) ==
    IF MismatchesAt(r, length) = {} THEN length
    ELSE CHOOSE i \in MismatchesAt(r, length) :
            \A j \in MismatchesAt(r, length) : i <= j

(* Tokens one iteration accepts.  A rejected block is retried with block   *)
(* size 1, and one drafted target token is always accepted.                *)
AcceptedCount(r, block) ==
    IF Exhausted(r)
    THEN IF RemainingTarget(r) > 0 /\ committed[r] + 1 \in EosPositions[r]
         THEN 1 ELSE 0
    ELSE IF config.rejectDraftBlocks /\ ProposalLength(r, block) > 1 THEN 1
    ELSE AcceptedPrefix(r, ProposalLength(r, block))

-----------------------------------------------------------------------------
(* Sparse selection.                                                       *)

Distance(m, n) == IF m < n THEN n - m ELSE m - n

Score(c, p, total) ==
    Tokens(c, {p}) * 10000 - p[2]
        - 100 * Distance(TokenStart(c, p) + Tokens(c, {p}), total)

Selectable(c, r) ==
    (PagesOf(c, r) \cap c.committed) \ c.draft

RanksBefore(c, p, q, total) ==
    \/ Score(c, p, total) > Score(c, q, total)
    \/ /\ Score(c, p, total) = Score(c, q, total)
       /\ \/ p[2] < q[2]
          \/ p[2] = q[2] /\ TokenStart(c, p) < TokenStart(c, q)
          \/ p[2] = q[2] /\ TokenStart(c, p) = TokenStart(c, q) /\ p[3] < q[3]

Selected(c, r, total) ==
    {p \in Selectable(c, r) :
        Cardinality({q \in Selectable(c, r) : RanksBefore(c, q, p, total)})
            < config.sparseTopK}

-----------------------------------------------------------------------------
(* Queues: highest priority first, then first pushed.                      *)

IsNext(queue, i) ==
    \A j \in DOMAIN queue :
        \/ Priority[queue[j]] < Priority[queue[i]]
        \/ Priority[queue[j]] = Priority[queue[i]] /\ i <= j

(* The step of run() that raises: its local lists are dropped, and the     *)
(* popped request is in none of the queues.                                *)
Raise ==
    /\ at' = "idle"
    /\ batch' = <<>>
    /\ quota' = 0
    /\ final' = {}
    /\ UNCHANGED returned

-----------------------------------------------------------------------------
(* The callers.                                                            *)

Submit(r) ==
    /\ at = "idle"
    /\ phase[r] = "new"
    /\ phase' = [phase EXCEPT ![r] = "waiting_prefill"]
    /\ prefillQueue' = Append(prefillQueue, r)
    /\ UNCHANGED <<config, kv, committed, snapshot, decodeQueue, runVars>>

(* run() with work to do; with none it returns an empty list.              *)
CallRun ==
    /\ at = "idle"
    /\ prefillQueue # <<>> \/ decodeQueue # <<>>
    /\ at' = "prefill"
    /\ UNCHANGED <<config, kv, requestVars, queueVars, batch, quota, final, returned>>

-----------------------------------------------------------------------------
(* dispatch_prefill: every queued request in turn.                         *)

(* PrefillWorker.process on the next request.                              *)
Prefill(i) ==
    LET r == prefillQueue[i]
        a == Allocation(kv, r, PromptLength[r], config.pinReady)
        pages == PagesOf(a.kv, r)
    IN  /\ at = "prefill"
        /\ IsNext(prefillQueue, i)
        /\ prefillQueue' = RemoveAt(prefillQueue, i)
        /\ \/ /\ a.ok
              /\ kv' = Touched(a.kv, pages, ListOrder(pages))
              /\ phase' = [phase EXCEPT ![r] = "ready_decode"]
              /\ snapshot' = [snapshot EXCEPT ![r] = pages]
              /\ batch' = Append(batch, r)
              /\ UNCHANGED <<at, quota, final, returned>>
           \/ /\ ~a.ok
              /\ kv' = a.kv
              /\ phase' = [phase EXCEPT ![r] = "prefill"]
              /\ UNCHANGED snapshot
              /\ Raise
        /\ UNCHANGED <<config, committed, decodeQueue>>

(* Mutants: no bound by the workers; one iteration too few.                *)
DispatchQuotaUnbounded(queue) == Len(queue)

DispatchQuotaShort(queue) == Smaller(Len(queue) - 1, config.decodeWorkers)

DispatchQuota(queue) == Smaller(Len(queue), config.decodeWorkers)

(* Mutant: the prefilled requests replace the waiting ones.                *)
EndPrefillOverwrites ==
    /\ at = "prefill"
    /\ prefillQueue = <<>>
    /\ decodeQueue' = batch
    /\ quota' = DispatchQuota(decodeQueue')
    /\ batch' = <<>>
    /\ at' = "decode"
    /\ UNCHANGED <<config, kv, requestVars, prefillQueue, final, returned>>

(* run() enqueues what was prefilled; dispatch_decode fixes its quota.     *)
EndPrefill ==
    /\ at = "prefill"
    /\ prefillQueue = <<>>
    /\ decodeQueue' = decodeQueue \o batch
    /\ quota' = DispatchQuota(decodeQueue')
    /\ batch' = <<>>
    /\ at' = "decode"
    /\ UNCHANGED <<config, kv, requestVars, prefillQueue, final, returned>>

-----------------------------------------------------------------------------
(* dispatch_decode: DecodeWorker.process on up to `quota' requests.        *)

(* _rehydrate_if_needed: when a snapshot page is gone, drop the rest and   *)
(* allocate for the whole sequence, pinned.                                *)
Rehydration(r) ==
    IF snapshot[r] \subseteq kv.pages
    THEN [ok |-> TRUE, kv |-> kv, pages |-> snapshot[r]]
    ELSE LET a == Allocation(Released(kv, r), r, Total(r), TRUE)
         IN  [ok |-> a.ok, kv |-> a.kv, pages |-> PagesOf(a.kv, r)]

(* decode_kv_page_ids: the selected pages, or all when none is selected.   *)
DecodePages(r, c, pages) ==
    IF Selected(c, r, Total(r)) = {} THEN pages ELSE Selected(c, r, Total(r))

DecodeOrder(r, c, S) ==
    IF Selected(c, r, Total(r)) = {}
    THEN ListOrder(S)
    ELSE {e \in S \X S : RanksBefore(c, e[1], e[2], Total(r))}

(* The commit of n accepted tokens, after the eviction process() adds when *)
(* the room looks short.                                                   *)
Commit(r, c, n) ==
    LET total == Total(r) + n
        room  == IF CanAllocate(c, r, total) THEN c
                 ELSE Evicted(c, PagesNeeded(c, r, total))
        a     == Allocation(room, r, total, TRUE)
    IN  [ok |-> a.ok, kv |-> IF a.ok THEN Marked(a.kv, r) ELSE a.kv]

(* After n tokens were accepted on top of those committed.                 *)
Finishes(r, n) ==
    \/ committed[r] + n >= MaxNewTokens[r]
    \/ n > 0 /\ committed[r] + n \in EosPositions[r]
    \/ committed[r] + n >= TargetLength[r]
    \/ n = 0

(* The end of process(): a finished request unpins its snapshot, one that  *)
(* goes on unpins the pages it decoded with unless ready pages stay pinned.*)
Conclude(r, c, pages, used, n) ==
    IF Finishes(r, n)
    THEN /\ phase' = [phase EXCEPT ![r] = "finished"]
         /\ kv' = PinsCleared(c, pages)
    ELSE /\ phase' = [phase EXCEPT ![r] = "ready_decode"]
         /\ kv' = IF config.pinReady THEN c ELSE PinsCleared(c, used)

Decode(i, block) ==
    LET r    == decodeQueue[i]
        h    == Rehydration(r)
        used == DecodePages(r, h.kv, h.pages)
        c    == Touched(PinsSet(h.kv, used), used, DecodeOrder(r, h.kv, used))
        n    == AcceptedCount(r, block)
        done == Commit(r, c, n)
        Fail(left, pages) ==
            /\ kv' = left
            /\ phase' = [phase EXCEPT ![r] = "decode"]
            /\ snapshot' = [snapshot EXCEPT ![r] = pages]
            /\ UNCHANGED committed
            /\ Raise
        Succeed(left, pages) ==
            /\ snapshot' = [snapshot EXCEPT ![r] = pages]
            /\ committed' = [committed EXCEPT ![r] = @ + n]
            /\ Conclude(r, left, pages, used, n)
            /\ batch' = Append(batch, r)
            /\ quota' = quota - 1
            /\ UNCHANGED <<at, final, returned>>
    IN  /\ at = "decode"
        /\ quota > 0
        /\ IsNext(decodeQueue, i)
        /\ decodeQueue' = RemoveAt(decodeQueue, i)
        /\ UNCHANGED <<config, prefillQueue>>
        /\ \/ ~h.ok /\ Fail(h.kv, snapshot[r])
           \/ h.ok /\ n > 0 /\ ~done.ok /\ Fail(done.kv, h.pages)
           \/ h.ok /\ n > 0 /\ done.ok /\ Succeed(done.kv, PagesOf(done.kv, r))
           \/ h.ok /\ n = 0 /\ Succeed(c, h.pages)

EndDecode ==
    /\ at = "decode"
    /\ quota = 0
    /\ at' = "collect"
    /\ UNCHANGED <<config, kv, requestVars, queueVars, batch, quota, final, returned>>

-----------------------------------------------------------------------------
(* run() collects the decode results, and loops or returns.                *)

Collect ==
    LET r == Head(batch)
    IN  /\ at = "collect"
        /\ batch # <<>>
        /\ batch' = Tail(batch)
        /\ \/ /\ phase[r] = "finished"
              /\ final' = final \cup {r}
              /\ kv' = Released(kv, r)
              /\ UNCHANGED decodeQueue
           \/ /\ phase[r] # "finished"
              /\ decodeQueue' = Append(decodeQueue, r)
              /\ UNCHANGED <<kv, final>>
        /\ UNCHANGED <<config, requestVars, prefillQueue, at, quota, returned>>

Iterate ==
    /\ at = "collect"
    /\ batch = <<>>
    /\ prefillQueue # <<>> \/ decodeQueue # <<>>
    /\ at' = "prefill"
    /\ UNCHANGED <<config, kv, requestVars, queueVars, batch, quota, final, returned>>

Return ==
    /\ at = "collect"
    /\ batch = <<>>
    /\ prefillQueue = <<>> /\ decodeQueue = <<>>
    /\ at' = "idle"
    /\ final' = {}
    /\ returned' = returned \cup final
    /\ UNCHANGED <<config, kv, requestVars, queueVars, batch, quota>>

-----------------------------------------------------------------------------
RunStep ==
    \/ \E i \in DOMAIN prefillQueue : Prefill(i)
    \/ EndPrefill
    \/ \E i \in DOMAIN decodeQueue, block \in config.blockSizes : Decode(i, block)
    \/ EndDecode
    \/ Collect
    \/ Iterate
    \/ Return

Next == CallRun \/ RunStep \/ \E r \in Requests : Submit(r)

(* The thread inside run() keeps running: some step of run() is always     *)
(* possible until it is idle, and only run() steps are, so this is weak    *)
(* fairness of RunStep, written without the ENABLED that TLC would expand  *)
(* at every state.                                                         *)
RunContinues == []<>(at = "idle") \/ []<><<at # "idle">>_vars

(* A caller that has submitted work calls run(); nobody has to submit.     *)
Fairness == RunContinues /\ WF_vars(CallRun)

Spec == Init /\ [][Next]_vars /\ Fairness

-----------------------------------------------------------------------------
(* Invariants.                                                             *)

Phases == {"new", "waiting_prefill", "prefill", "ready_decode", "decode",
           "finished"}

(* Every variable has its type; the queues and lists hold requests.        *)
TypeOK ==
    /\ config \in Configs
    /\ CacheType(kv)
    /\ phase \in [Requests -> Phases]
    /\ committed \in [Requests -> Nat]
    /\ snapshot \in [Requests -> SUBSET PageIds]
    /\ prefillQueue \in Seq(Requests) /\ decodeQueue \in Seq(Requests)
    /\ at \in {"idle", "prefill", "decode", "collect"}
    /\ batch \in Seq(Requests)
    /\ quota \in 0..config.decodeWorkers
    /\ final \subseteq Requests /\ returned \subseteq Requests

Occurrences(queue, r) == Cardinality({i \in DOMAIN queue : queue[i] = r})

(* docs/ARCHITECTURE.md: "runtime owns request state until completion".    *)
(* From submit until its result is returned a request is in exactly one of *)
(* the queues and lists of the runtime, and in none before or after.  Live *)
(* pages belong to requests still being decoded: a request takes none with *)
(* it when it leaves, however it came by them.                             *)
Custody ==
    /\ \A r \in Requests :
          Occurrences(prefillQueue \o decodeQueue \o batch, r)
              + (IF r \in final THEN 1 ELSE 0)
            = IF phase[r] = "new" \/ r \in returned THEN 0 ELSE 1
    /\ \A p \in kv.pages : Owner(p) \in ToSet(decodeQueue \o batch)

(* A ready request whose snapshot is resident, which the worker therefore  *)
(* does not rehydrate, has in every layer pages that start where the pages *)
(* of its whole sequence start: none is missing and none is doubled.       *)
SnapshotCoversSequence ==
    \A r \in Requests :
        phase[r] = "ready_decode" /\ snapshot[r] \subseteq kv.pages =>
            \A l \in Layers :
                /\ {TokenStart(kv, p) : p \in {q \in snapshot[r] : q[2] = l}}
                      = {(i - 1) * PageSize : i \in 1..Required(Total(r))}
                /\ Cardinality({q \in snapshot[r] : q[2] = l})
                      = Required(Total(r))

(* config.py: max_pages is the "Total physical pages available in the KV   *)
(* cache".                                                                 *)
CapacityRespected == Cardinality(kv.pages) <= MaxPages

(* pin_ready_decode_pages: ready requests keep their KV between decode     *)
(* iterations, so none of them is ever rehydrated.                         *)
ReadyStaysResident ==
    config.pinReady =>
        \A r \in ToSet(decodeQueue) : snapshot[r] \subseteq kv.pages

(* docs/ARCHITECTURE.md: "EOS or max token limit ends the request".  The   *)
(* worker looks for EOS in the last token of an accepted block only.       *)
EosEndsRequest ==
    \A r \in Requests : \A e \in EosPositions[r] : committed[r] <= e

-----------------------------------------------------------------------------
(* Promises to the callers.                                                *)

(* The length of r's output when tokens are decoded one by one.            *)
SerialLength(r) ==
    CHOOSE n \in 0..TargetLength[r] :
        LET Stop(m) == \/ m = TargetLength[r]
                       \/ m >= MaxNewTokens[r]
                       \/ m \in EosPositions[r]
        IN  Stop(n) /\ \A m \in 0..(n - 1) : ~Stop(m)

Stream == INSTANCE TokenStream WITH
    FinalLength <- SerialLength,
    out         <- committed,
    delivered   <- returned

(* Whatever the block size, the rejections, the evictions and the order of *)
(* the requests, a request commits the tokens serial decoding would and    *)
(* its result is delivered complete.                                       *)
RefinesTokenStream == Stream!Spec

(* run: "Run until all submitted requests finish."  Every submitted        *)
(* request is eventually in the result of a call.                          *)
AllReturned ==
    \A r \in Requests : phase[r] # "new" ~> r \in returned

=============================================================================
