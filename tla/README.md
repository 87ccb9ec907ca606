# A TLA+ model of gpu-resident-inference-lab

The repository simulates a decode runtime that keeps requests resident: a
Python simulator with a paged KV cache and speculative decoding, CUDA kernels
that carry the same control flow as one persistent launch, a tiered KV cache
over GPU, CPU and NVMe, and tools around them.  This directory models the
control of that code in TLA+ and checks it with TLC on small instances: twelve
runs cover the simulator, the tiered cache with its prefetch thread, the
decision benchmark with the processes that share its database, and the CUDA
launcher with the mega-kernel.  TLAPS proves the safety of most of it for every
size: the KV cache and the persistent runtime over it, each with its refinement
of an abstract specification; the tiered cache under its thread; the block
runtime; the benchmark and its database; the mega-kernel, the
agreement of the launcher's two paths, and its trace replay, scheduling and
rebalancing kernels.

Paths below are relative to the repository root (`src/` of this workspace);
`kv_cache.py` is `src/megakernel_lab/kv_cache.py`, and so on.

## 1. Inventory

| component | state | operations | what is hard |
|---|---|---|---|
| KV cache (`kv_cache.py`) | page dict, page table per (request, layer), LRU order, pin, draft and committed flags, byte counters | allocate, commit, draft / accept / release drafts, pin, unpin, touch, evict, ensure_capacity, release | three indexes and five counters kept in step by hand; room counted before an eviction that may take the caller's own pages; exceptions after an eviction |
| persistent runtime (`runtime.py`, `state.py`, `config.py`, `backend.py`, `sparse_kv.py`) | two priority queues, phase, committed tokens and snapshot of each request, local lists of `run()` | submit, run, prefill, decode, rehydrate, collect | requests that evict one another between steps; a request in flight when the cache raises; retry after a rejected block; sparse reads |
| speculative decoding, ASBS (`spec_decode.py`) | EMA and block size of a request | propose, verify, update_block_size | partial acceptance, budgets, EOS inside a block |
| block speculative runtime (`block_runtime.py`, `block_spec_decode.py`, `token_state.py`, `swa_state.py`) | committed, draft, accepted and rejected tokens, position, window | draft, verify, commit, discard | position and tail bookkeeping over several iterations |
| tiered KV cache (`tiered-kv-cache/tiered_kv_cache.py`) | three stores, locations, LRU and usage per tier | allocate, write, read (promotes), evict (demotes) | copies left behind by a promotion, usage that is not given back, eviction that writes back into the tier it empties |
| prefetch scheduler (`tiered-kv-cache/prefetch_scheduler.py`) | heap of hints, stop flag, thread | hint, consume, stop | races of stop, hints and reads |
| CUDA persistent megakernel (`cuda/src/xl_persistent_megakernel.cu`, `cuda/include/stage_*.cuh`, `kv_page_table.h`) | request descriptors, page entries, done counter, shutdown flag | one loop per block: prefill, select, decode, verify, commit, count | plain reads of shared flags, iteration bound, page states by flags |
| CUDA verify/commit and decode kernels | descriptors, pages | standalone variants of the stages | agreement with the stages |
| CUDA page movement kernels | page metadata, tiers | evict, rebalance, prefetch, stage, plan DMA | budgets, protected pages, capacity |
| CUDA scheduling and admission (`trace_replay_admission_kernel.cu`, `resident_scheduler_kernel.cu`, `queue_desc.h`) | ring queue, active slots | push, pop, admit, serve | a full ring, bounded slots, a 256-request scan |
| CUDA host launcher (`cuda/src/host_launcher.cpp`) | buffers | fill, launch, collect | the initial states the kernels run from |
| decision benchmark (`ds-benchmark/runner.py` and its task and score modules) | coroutines, semaphore, SQLite table | call, fall back, verify, insert, commit, score | exceptions that cancel others, a table another program widens, a lock with a timeout |
| unified pipeline (`unified-pipeline/pipeline.py`) | the same SQLite table, one cache per run | run, save | check and ALTER without a transaction |
| bench and demo, scripts, tools | experiment records | drive, report | metrics of a runtime that serves several requests |

Interactions.  `run()` calls the workers of `WorkerPool`, which call the cache,
the proposer, the verifier and the backend synchronously: one thread, no
callbacks.  The cache is the only state requests share, so every interaction
between two requests goes through an eviction.  A CUDA block owns one request;
blocks share only the done counter and the shutdown flag.  The prefetch thread
and its callers share the tiered cache under one lock.  Runs of the benchmark and
of the pipeline are separate processes that share one SQLite file.

What makes each correct:

* cache: the indexes describe the same pages; counters equal a recount; drafts
  are evicted before others, then by age, pinned pages never, and no more than
  room is lacking; new pages continue where the pages of the request end, so
  that a commit which lost none leaves a page for every position; the cache
  stays within `max_pages` unless the call evicted from its own request.
* tiered cache: a written block can be read, as last written; tensors stay
  within the budgets; a read ends and gives the lock back.
* benchmark: every task has one row with its own result; the report counts
  them all; the run ends; the score means what it is printed as.
* mega-kernel: blocks keep to their own part of the shared buffers; the flag is
  raised only with nothing left to do; every launch comes back.
* runtime: a request is in exactly one place from submission to result; its
  output is what serial decoding gives, whatever the blocks, rejections and
  evictions; a request that resumes has the pages of its whole sequence;
  everything submitted is returned.

## 2. Modules

| module | role |
|---|---|
| `KVPages` | the data of class `KVCache` and one operator per method, as a function from cache value to cache value |
| `KVCache` | the class as a state machine: any method in any order by any request |
| `PageLedger` | abstract: which ids are held, pinned and issued, with no policy |
| `PersistentRuntime` | `submit` and `run()` over `KVPages`: one action per iteration of each loop |
| `TokenStream` | abstract: a request's output grows to its serial length and is delivered whole |
| `TieredKVCache` | the tiered cache: a step per method, and per eviction of a read that makes room |
| `PrefetchScheduler` | the consumer thread and the callers of the cache, over `TieredKVCache` |
| `BlockRuntime` | the block speculative runtime and the batch loop that benchmarks it |
| `AdaptiveBlocks` | adaptive block sizing, of the simulator and of the kernel |
| `MegaKernel` | the persistent mega-kernel, one action per access to shared memory, over `AdaptiveBlocks` |
| `TraceReplay` | the trace replay and admission kernel with its ring |
| `ResidentPlanning` | the scheduler kernel and the tier rebalancing kernel |
| `HostLauncher` | `main()`: the baseline, then one kernel; composes the three modules above |
| `CudaProperties` | what the CUDA side promises |
| `DecisionBenchmark` | the coroutines of the benchmark and the pipeline processes |
| `MCKVCache`, `MCPersistentRuntime`, `MCTiered`, `MCBlocks`, `MCCuda`, `MCDecisions` | instances for TLC |
| `SetLemmas` | lemmas the proofs share: least elements, induction over subsets, sums over a set |
| `KVPagesProofs` | lemmas: what each operator of `KVPages` preserves |
| `KVCacheProofs` | the theorems about `KVCache` |
| `PersistentRuntimeProofs` | the theorems about `PersistentRuntime` |
| `TieredProofs` | the theorems about `PrefetchScheduler` over `TieredKVCache` |
| `BlockRuntimeProofs` | the theorems about `BlockRuntime` |
| `HostLauncherProofs` | the theorems about `HostLauncher` and the kernels it runs |
| `DecisionBenchmarkProofs` | the theorems about `DecisionBenchmark` |

### KVPages and KVCache

A cache is a record `c`.  `c.pages` is the key set of `_pages`; `pinned`,
`committed` and `draft` are the pages with that flag; `fill` holds the pairs of
a page and a token position it covers (`token_start`, `token_count`); `table`
is `_page_table`; `older` is the order of `_lru`; `liveTokens`, `pinnedTokens`
and `capacityTokens` are the byte counters in units of one token's bytes.
A page id is `<<request, layer, serial>>` where the code draws numbers from a
single counter: both are unique, never reused and increasing along each list of
the page table, and nothing else depends on the number.

The removing loops (`_evict_single_page`, `release_request`,
`release_draft_pages`) do the same to one page and share `Dropped`.  The two
passes of `evict_lru` are `Victims`: drafts first, then least recently used.
`Allocation` keeps the order of the code: count the need, evict the deficit,
check the count, then create what the tables lack *after* the eviction.  The
two numbers may differ, and that is where the interesting behaviour is.

Each public method is one action; the simulator is single threaded, so a call is
atomic.  A call that raises is the same action with the eviction done and
nothing else.

### PersistentRuntime

`at` says where `run()` is; `batch` is the local list of the current loop
(`completed_prefill`, then `decode_results`), `quota` the iterations left in
`dispatch_decode`, `final` the results of this call.  A queue is a sequence in
push order, popped at its first element of highest priority, as the heap with
its counter does.  `Prefill` and `Decode` are whole `process` methods: for
`Decode` the rehydration, the sparse selection, pin and touch, propose, verify,
the serial retry, the extra eviction, the commit, the finish test and the unpin
are one step.  An exception of the cache is the disjunct in which `Raise`
empties the local lists.

The target of a request is its length and its EOS positions.  The verifier then
accepts a prefix the model computes from `mismatch_stride` and
`reject_draft_blocks`.  With the adaptive policy the block size of a step is any
member of `BlockSizes`, which covers every history of acceptance rates and
cache pressure.

### TieredKVCache and PrefetchScheduler

A tensor is the version of its block and whether its numbers are still exact: a
file keeps eight bits of each, so what comes back from one is not.  `copies` are
the GPU and CPU stores and the files, `location` is `locations`, `lru` and
`usage` are the lists and counters.  Every method holds one re-entrant lock, so
a call is one action, but for a read that brings a block up: it goes through
`Staged` and `Promoted`, with a `MakeRoom` per iteration of `_ensure_capacity`,
and `call` holds the lock until it ends.  That makes a loop that does not end
visible.  `evict` on the GPU hands the block to `write`, which may choose the
GPU again (`WriteTier`).  `forked` and `latest` are history.

The consumer pops a hint, then needs the lock; `stop` sets the flag and joins
for a second, with `EndJoin` for either end.  An exception of a read is
swallowed.  The clock orders the heap; the model pops any hint.

### BlockRuntime

One row of the sweep: a runtime serves `batch` requests, `Draft` and `Verify`
being the halves of an iteration.  The token arithmetic is kept, with the
repository's vocabulary and seed, since acceptance depends on it.  `metrics`
belong to the runtime, `totals` to the benchmark that adds them up.  The branch
of an empty prefix in `Verify` is translated although the repository's verifier
never takes it: it accepts the first half of a draft unseen.

### MegaKernel, TraceReplay, ResidentPlanning, HostLauncher

A block of the kernel is a process of five actions, one per access to memory
others touch: the loop condition reads the flag, `Decode` writes the draft
buffer, `VerifyAndCommit` reads it, `Count` adds to the counter, `Poll` (block 0)
reads it and raises the flag.  The kernel reads flag and counter by plain loads
of what other blocks write: they may return any earlier value, so `FlagReads`
offers FALSE beside a raised flag and `Poll` any count so far.  Draft buffer and
page entries belong to one block by the launcher's offsets; that they do is the
property `OwnDrafts`, not an assumption.  Rates are ten-thousandths; the code
computes them in floating point, the simulator in double precision and the
kernel in single, and where a rate comes within `Slack` of a threshold the model
allows both blocks.  `AdaptiveBlocks` has each program's policy from its own
source.

`TraceReplay` is the single thread of its kernel, with an action per iteration of
each loop: a request of the trace looked at, one admitted, one slot served; `scan`
is the counter of the loop it is in, and the ring keeps head, tail and a spare
cell as `queue_desc.h` does.  `ResidentPlanning` has an action per slot of the schedule
and per page of each rebalancing pass.  `HostLauncher` picks a mode in `Init`
with the arguments each benchmark function would set up, and waits for the
kernel.  The branches the launcher never selects are left out: serial decode
inside the kernel, KV pressure, an EOS token above zero.

### DecisionBenchmark

An action is what one coroutine does from an `await` to the next: `Enter` the
semaphore, `Answer`, `Insert`, `Commit`.  A call that fails or times out gets
the canned response of its domain.  SQLite is one writer lock: a statement that
finds it taken raises after five seconds.  An exception leaves `gather`, the
others go on (`raising`), and `asyncio.run` cancels them; a commit already on
its way may still happen.  A response is the answer, the confidence and which of
them comes last, because the math verifier reads the last number.

## 3. Runs

`tlc -config X.cfg M`, with the module named in the second column.

| run | module | question | distinct states |
|---|---|---|---|
| `cache` | `MCKVCache` | any sequence of calls by two requests | 37,932 |
| `runtime_tight` | `MCPersistentRuntime` | custody, snapshots, output and completion of requests that evict one another, over two layers | 10,375 |
| `runtime_exhausted` | `MCPersistentRuntime` | calls of `run()` that fail, under every configuration but unpinned sparse reads | 13,053 |
| `tiered` | `MCTiered` | callers, a prefetch thread and `stop` on one tiered cache of four shapes | 153,666 |
| `decisions` | `MCDecisions` | a benchmark of three tasks beside two pipeline processes on its database | 152,752 |
| `blocks` | `MCBlocks` | every mode of the block runtime over small batches | 5,544 |
| `cuda` | `MCCuda` | both paths of the launcher, with every interleaving of the kernel's blocks, and three research kernels | 54,755 |

Bounds.  `cache`: `MaxTokens` 3, `PageSize` 2, so a request has one or two
pages, full or partly filled; `MaxPages` 2 makes one request's second page
another's eviction, and lets a request evict its own; `MaxSerial` 3 allows a
page to be evicted and made again, in either place of a table.  Two requests
are enough for one to take from the other; symmetry swaps them.  One layer is
enough there, as layers differ only in the order they are visited in; the
theorems of section 4 hold for any number of them.

The runtime runs have no bound beyond the requests they submit: each ends by
itself.  `config` is chosen in `Init` among the configurations of
`MCPersistentRuntime` and never changes, so one run covers many runtimes: ready
requests pinned or not, one worker or two, blocks verified in part (stride 3)
or rejected whole, sparse reads of one page or dense ones.  Three requests of
two priorities make the quota, the order of the queue and the eviction of a
waiting request all matter.  They want nine pages per layer: `MaxPages` 10 over
two layers is room for about half; in `runtime_exhausted`, where one request has
nothing to decode, 4 pages hold one request and the prompts of others, and calls
fail wherever they can.
`CHECK_DEADLOCK FALSE` in the runtime configurations: with every request
returned nothing is left to do.

`tiered`: two blocks of size 1, a placeholder of 2 and four pairs of budgets:
no GPU, room for one block, two on the CPU, two on the GPU and none on the CPU.
`MaxVersion` 2 lets a block be overwritten, `MaxHints` 1 is one hint at any
moment; the thread may find the block in every tier, or nowhere, or locked.
With a placeholder larger than a block, usage leaks as it does with the code's
4 MiB.

`decisions`: three tasks of three domains, or three math tasks of which one has
the ground truth "1,000" and raises; a semaphore of 2 and a database that is
new, of eight columns or of nine.  Two pipelines race for the same ALTER.

`blocks`: batches of 1 to 3, blocks of 1 to 4, windows shorter and longer than
the output.

`cuda`: one to four blocks, draft lengths 1, 4, 5 and 8 (four of five accepted
is the rate at the high threshold), budgets of 0 to 6, and
iterations that suffice and do not.  `ThreadsPerBlock` (256 in the code) is 3, so
the launch of four has one request the baseline does not reach; `ScanLimit`
(256) is 10, below the longest list.  `MostBlocks` 4 bounds the fairness
conjuncts.  Traces have 1 to 14 requests and 1 to 3 slots: 14 exceeds the
horizon of one slot.

`CHECK_DEADLOCK FALSE` in `blocks`, `cuda` and `decisions`: they end when the
row, the launch or the run is reported.

Properties, beyond the type invariants:

* `IndexesAgree`, `AccountingOK`: the cache's redundant state agrees after
  every method, and no page is both draft and committed.
* `EvictionInOrder`: which pages pressure may take: unpinned ones, drafts first,
  then by age; no more of them than `evict_lru` was asked for or than the call
  lacked room for, also when the call raises in the end.
* `OverflowNeedsSelfEviction`: the only way past `max_pages`.
* `CommitCovers`: new pages continue where those the request keeps end, and a
  commit that returns leaves a page for every position.  The condition is named:
  no page of the request was lost below one that stayed.  After such a loss the
  pages are enough in number but cover later positions twice and the
  lost ones never, since the place of a new page is the length of the table.
* `RefinesLedger`: the cache implements `PageLedger`.
* `Custody`: no request is lost between the lists, and no page of one that has
  left them.
* `SnapshotCoversSequence`: a request that is not rehydrated needs not be.
* `CapacityRespected`, `ReadyStaysResident`: `max_pages` and
  `pin_ready_decode_pages` mean what they say, in the runs where they do.
* `RefinesTokenStream`: the runtime implements `TokenStream`.
* `AllReturned`: every submitted request is eventually returned.
* `TensorsAccounted`: usage counters that leak upwards never lose bytes, so
  tensors keep to the budget, and eviction can find every one of them.
* `ServedIsFresh`: what was written can be read, as last written.  The exception
  is named: a write that goes to another memory leaves the old copy, and reads
  prefer the GPU whatever the location says.
* `ReadsEnd`: a read ends unless it waits for room on the GPU while an eviction
  puts the block back where it was; then it never does, and keeps the lock.
  `ConsumerAnswers`: the thread's part in that, its hints and its end.
* `WritersApart`: the write lock is held exactly by who is between its INSERT
  and its commit, and an ALTER fails with a duplicate column only for a pipeline
  another has overtaken; it may also find the table locked.
* `RowsMatchTasks`, `ReportCountsAllTasks`: what failures and cancellations
  leave of a run, and what its report says; the penalty for confidence
  multiplies a score that is zero already.
* `RunEnds`: every run ends; one whose table a pipeline has widened ends failed.
* `TokensInStep`: drafter and verifier agree always, nothing is rejected; the
  position runs at twice the tokens; output is rounded up to whole blocks.
* `WindowFollowsCommitted`: a later request of a batch starts on its
  predecessor's window.
* `TotalsRecount`: the benchmark adds up cumulative metrics; rates survive that,
  launch counts do not.
* `OwnDrafts`: a block verifies its own drafts.  With `--draft-len 1` a region
  has four tokens and a block may adapt to eight; it never does, because the
  first token after the prompt is rejected.
* `FlagMeansAllDone`, `StrandedOnlyAtBound`: every finished request is counted
  once, and no stale read raises the flag early or leaves a request behind that
  had iterations to go.
* `FirstPageOnly`: pages are committed from the length of a prefix, not of the
  output: the rest of a request's region is never committed.
* `DeviceFollowsSimulator`: after the same acceptance from the same rate the
  kernel and the simulator choose the same block, whatever each one's rounding
  makes of the rate.  At a threshold rounding may decide either way, and they are
  one size apart at most; away from it they agree.  One rejection does not go
  from eight to one.
* `BothPathsAgree`: both paths yield as many tokens, one for a budget of zero; a
  request beyond the baseline's threads yields none there.
* `ReplayServesInOrder`: the ring and the slots lose no request, serve in order,
  and finish but for one slot and more than eight requests.
* `PlansAreSound`: what the scheduler and the rebalancing leave.
* `LauncherEnds`: every launch comes back.

Each of them fails for at least one small change of the code, kept as an
operator beside the one it changes (`PinsSetTwice`, `SpanFromZero`, ...).

### Where documents and code disagree

| run | the code | the document |
|---|---|---|
| `cache_fill` | tokens committed into the free part of the last page change nothing in its record | `kv_cache.py:51` "bytes currently resident in the cache", of a counter that misses them |
| `runtime_sparse_overflow` | an allocation that evicts its own request's pages creates more than it counted | `config.py:15` "Total physical pages available in the KV cache" |
| `runtime_sparse_loss` | with sparse KV a commit may replace evicted pages, and the snapshot hides it | `runtime.py:132` "Rebuild KV residency if the request snapshot was evicted" |
| `runtime_stranded` | an exception loses the requests in the local lists of `run()` | `runtime.py:398` "Run until all submitted requests finish" |
| `runtime_eos` | EOS is looked for in the last token of a block only | `docs/ARCHITECTURE.md:79` "EOS or max token limit ends the request" |

`cache_fill` takes three states: one token allocated in a page of two, a second
committed.  `CommittedTokensHeld` asks for the positions only where no page was
lost and the number of pages is right, so the loss of `runtime_sparse_loss` is
not what breaks it.  `AccountingOK` recounts from the same stale record and holds.

Three more have no run: a document is too vague to refute, or one step of the
code decides and a run would only repeat it.  The model does what the code does:

| definition | the code | the document |
|---|---|---|
| `LastNumber` | a math response is graded by its last number, which is the confidence that `runner.py:55` asks for: a right answer with its confidence after it is wrong, and so is the canned answer, unless the truth is 80 (`decisions_benchmark.py:89`) | `unified-pipeline/README.md:44` "verifies the final answer" |
| `FirstPageOnly` | of a request's region only the first page is ever committed, since the number of pages follows from one prefix (`stage_commit.cuh:40`) | `docs/CUDA_STAGING.md:198` "mark accepted KV pages as committed" |
| `ReportCountsAllTasks` | the penalty multiplies the score of a wrong answer, which is zero already (`ds_scorer.py:28`) | `docs/DECISIONS_PER_SECOND_AGENDA.md:118`, a plan: "Wrong high-confidence decisions should be punished harder." |

The trace of `runtime_stranded` also shows a second thing: `commit_tokens` pins
the page it creates, and the end of the step unpins only the pages read before
it.  A request that waits unpinned therefore still holds one pin, and in a
cache of four pages that pin is what another request's allocation fails on.

`CapacityRespected` and `SnapshotCoversSequence` hold in the other runs because
a decode step without sparse selection pins all pages of its request first, and
a rehydration starts from none: only a partial pin lets a request evict itself.
`PinnedCapacity` and `SnapshotAlwaysCovers` of section 4 prove that for every
runtime in which a commit finds its pages pinned.

### Fairness

`run()` is one thread that never blocks, so once inside it keeps taking steps
until it returns or raises: `RunContinues`.  It is weak fairness of `RunStep`,
written as "idle infinitely often or a step taken inside `run()` infinitely
often"; some `RunStep` is always enabled there, and only such steps can be
taken, so the two agree.  `WF_vars(CallRun)` says that a caller with queued work
calls `run()`, again after an exception; without a call nothing is owed.
No fairness is assumed of `Submit`, and none of the choice between block sizes.

`PrefetchScheduler`: a thread inside a read runs on (`CallContinues`,
`ReadAheadContinues`), the consumer wakes every 0.1 s (`Pop \/ Exit`), a join
ends within its second.  `ReadAhead` needs the lock, which other callers keep
taking and giving back: strong fairness says that it gets it in the end.
Callers need not call.

`DecisionBenchmark`: `WF_vars(RunnerStep)`.  Every `await` ends, a call after 30
seconds and a wait for the lock after five; the event loop then runs the task.
Nothing is assumed of the pipelines, which may stop with the lock in hand.

`BlockRuntime` states none: its properties are of states.  `HostLauncher`: the host
goes on while it can, each single-thread kernel runs, and so does every block of
the mega-kernel, which the GPU keeps resident.  No fairness makes a stale read
become fresh: `LauncherEnds` rests on the bound on iterations.

## 4. Proofs

| theorem | module | property |
|---|---|---|
| `TypeCorrect` | `KVCacheProofs` | `TypeOK` |
| `IndexesAgreeAlways` | `KVCacheProofs` | `IndexesAgree` |
| `AccountingCorrect` | `KVCacheProofs` | `AccountingOK` |
| `OverflowOnlyBySelfEviction` | `KVCacheProofs` | `OverflowNeedsSelfEviction` |
| `CommitAlwaysCovers` | `KVCacheProofs` | `CommitCovers` |
| `EvictionAlwaysInOrder` | `KVCacheProofs` | `EvictionInOrder` |
| `ImplementsLedger` | `KVCacheProofs` | `RefinesLedger` |
| `TypeCorrect` | `PersistentRuntimeProofs` | `TypeOK` |
| `CustodyUnlessRaised` | `PersistentRuntimeProofs` | `Custody`, while no call has raised |
| `ReadyAlwaysResident` | `PersistentRuntimeProofs` | `ReadyStaysResident` |
| `PinnedCapacity` | `PersistentRuntimeProofs` | `CapacityRespected`, where commits find their pages pinned |
| `SnapshotAlwaysCovers` | `PersistentRuntimeProofs` | `SnapshotCoversSequence`, likewise |
| `ImplementsTokenStream` | `PersistentRuntimeProofs` | `RefinesTokenStream`, where the worker sees every EOS |
| `TypeCorrect` | `TieredProofs` | `TypeOK` |
| `TensorsAlwaysAccounted` | `TieredProofs` | `TensorsAccounted` |
| `AlwaysServedFresh` | `TieredProofs` | `ServedIsFresh` |
| `TypeCorrect` | `BlockRuntimeProofs` | `TypeOK` |
| `TokensAlwaysInStep` | `BlockRuntimeProofs` | `TokensInStep` |
| `WindowAlwaysFollows` | `BlockRuntimeProofs` | `WindowFollowsCommitted` |
| `TotalsAlwaysRecount` | `BlockRuntimeProofs` | `TotalsRecount` |
| `FlagCorrect` | `HostLauncherProofs` | `FlagMeansAllDone` |
| `StrandedAtBound` | `HostLauncherProofs` | `StrandedOnlyAtBound` |
| `DraftsAlwaysOwn` | `HostLauncherProofs` | `OwnDrafts` |
| `FirstPageAlone` | `HostLauncherProofs` | `FirstPageOnly` |
| `PoliciesAgree` | `HostLauncherProofs` | `DeviceFollowsSimulator` |
| `PathsAgree` | `HostLauncherProofs` | `BothPathsAgree`, where no sum of tokens reaches the vocabulary |
| `ReplayAlwaysServes` | `HostLauncherProofs` | `ReplayServesInOrder` |
| `PlansAlwaysSound` | `HostLauncherProofs` | `PlansAreSound` |
| `TypeCorrect` | `HostLauncherProofs` | `TypeOK` |
| `TypeCorrect` | `DecisionBenchmarkProofs` | `TypeOK` |
| `ReportAlwaysCounts` | `DecisionBenchmarkProofs` | `ReportCountsAllTasks` |
| `WritersCorrect` | `DecisionBenchmarkProofs` | `WritersApart` |
| `RowsCorrect` | `DecisionBenchmarkProofs` | `RowsMatchTasks` |

### The cache

For all finite sets of requests and layers, every page size above zero and every
`max_pages` (`PagingAssumption`, `BoundsAssumption`).

The inductive invariant `IInv` is `Sound(kv)`, with the type of `tokens`.
`Sound` joins `CacheType`, `TablesIndexed`, `LruOrdered`, `CountersExact` and
the exclusive flags.  None of them is inductive alone.  The counters stay exact
only if the slots a removal subtracts are those of live pages; the size of a
batch of new pages, and that they are new at all, needs every live serial to be
at most its counter; and the order of the LRU list is kept by `MovedToEnd` only
when it ranges over exactly the live pages.

`KVPagesProofs` proves for each operator that it preserves each part: first
`Dropped`, `Grown`, the reordering and the flag operators, then the methods
made of them (`AllocationSound` and so on).  `NextSound` then has one step per
action.  `OverflowOnlyBySelfEviction` rests on `AllocationOverflow`: without a
self-eviction the tables of the request are those the count was made from, so
the pages created are the pages checked.  `CommitAlwaysCovers` follows the loop over the
layers: an eviction leaves each of them some of its pages (`KeptGapless`), and
where these hold the first positions, as many positions as pages times
`page_size`, the pages made for a layer go on from there to the last token
(`GrownGapless`, `AllocationGapless`); pages of other layers and of other
requests do not move.  `EvictionAlwaysInOrder` follows the two passes of
`Victims`: what a pass takes is a prefix, in LRU order, of what it may take, and
the second starts only when the first ran out; `AllocationBounded` bounds it by
the deficit.  `ImplementsLedger` maps each
action to `Take`, `Shed`, `GiveUp`, `Repin` or a stutter of the ledger.

### The runtime

For all finite sets of requests and layers, every page size, capacity, target
and set of configurations (`RuntimeAssumption`, `PagingAssumption`).  The
invariants build on one another:

* `TypeInv`: the types, a consistent cache (by the lemmas of `KVPagesProofs`),
  and snapshots of a request's own pages.
* `ControlInv`: the phase of a request says which queues and lists may hold it
  and how often.  `Custody` counts occurrences in sequences; the lemmas about
  `Occurrences` say what a pop, a push and a concatenation do to the count.
* `PagesInv`: who may own live pages.
* `PinnedInv`: under `pinReady`, a request in the decode queue has all its pages
  pinned, which no step of another request can change.
* `RoomInv`: the pages of a request are pinned whenever a commit meets them, so
  that no call evicts from its own request and `AllocationOverflow` applies.
* `CoverInv`: a resident snapshot is the whole sequence, layer by layer.
* `ProgressInv`: what is committed never passes the serial length.

Three theorems have a hypothesis, and for each a run shows what happens without
it.  `NothingRaised` (of `CustodyUnlessRaised`): no call of `run()` has raised;
`runtime_stranded` loses a request otherwise.  `CommitsPinned` (of
`PinnedCapacity` and `SnapshotAlwaysCovers`): reads are dense or ready requests
stay pinned; `runtime_sparse_overflow` and `runtime_sparse_loss` break both
otherwise.  `EosSeen` (of `ImplementsTokenStream`): an EOS lies where the worker
looks, beyond the output or past the last token, or blocks have one token;
`runtime_eos` delivers too much otherwise.

### The tiered cache

For any finite set of blocks of any sizes, any budgets and any bounds
(`TieredAssumption`, `PrefetchAssumption`).  The inductive invariant is
`TieredInv`, with the thread's types: usage is at least the weight of what is
stored, what is stored fits in the budget, and the LRU list of a memory holds
each block there once (`CacheInv`); a read in progress carries a copy that is
still the best one (`CallInv`); and a written block can be found, up to date
unless its last write forked it (`Served`).  The weights are sums over a set of
blocks, a fold in an order `CHOOSE` picks: `SetLemmas` proves by induction over
subsets that one element more adds one weight.  `CallInv` is what makes the
steps of a read compose: evictions between them may move every other block but
not the one being read.

### The block runtime

For any rows of the sweep, vocabulary and seed (`RowsAssumption`).
`TokensInStep` needs to know what was drafted when the verifier comes
(`Pending`) and that whole blocks are committed (`Progress`); the verifier then
recomputes the same hash from the same position, so it rejects nothing whatever
the hash.  `Window` says what a later request finds; `Summed` is the closed form
of metrics that are added up without a reset.

### The mega-kernel

For any number of blocks, budget, draft length and bound on iterations
(`LaunchesAssumption`, and `HostAssumption`: there is something to launch).
`FlagMeansAllDone` is not inductive by itself: the flag is raised from a count,
so `IInv` adds the shapes of the state and `Working`, that a block drafts and
verifies only for an unfinished request, without which a counted request could
come back to life.  `QuietStep` covers the three actions that neither count nor
poll; `CountIInv` adds one element to the counted blocks; and `PollIInv` uses
`FullCount`: a value at most the counter that reaches the number of requests
means that all blocks have counted.

`KInv` adds, for each block, what the other properties rest on.  `Adapted`: a
block that has committed once never drafts more than four tokens, since the
token after the prompt was rejected; so `DraftFits`, and with `RegionsApart`
no block writes in another's region (`OwnDrafts`).  `Drafted`: what `verify`
reads is what its block drafted.  `Yielding`: every iteration of an unfinished
request has yielded a token, hence `StrandedOnlyAtBound`.  `Paged`: only the
first page is committed.  `PoliciesAgree` shows that both averages are one number
before rounding (`SameRate`), and that two values within `Slack` of it on
different sides of a threshold have that threshold within `Slack`
(`BlocksWithinRounding`); `Adapted` gives the rate of a block that drafts eight.

`HInv` follows both paths: a request that ends has its whole budget, and the
baseline's requests keep in step with its launches.  `PathsAgree` assumes
`TokensFit`, that (n + 1)(max_new + 8) is at most the vocabulary.  It holds of
every size the launcher's defaults (8 requests of 128 tokens), its sweep and the
Makefile use.  Beyond it the two paths may differ: a token is a sum modulo
32,000, so on one path it may be 0, the end of the sequence, where the other
draws something else.

### The trace replay

For any number of requests and any `--draft-len` (`TracesAssumption`).
`ReplayInv` has one part per question:

* `RingInv`: the ring, one cell larger than the trace, holds the requests from
  its head to its tail at their own index, so it never wraps and never refuses a
  request; the tail is the number of requests that have arrived.
* `PlaceInv`: what is before the head is in one slot or completed once.
* `OrderInv`: of two requests served, the earlier has had more quanta, or as
  many in a lower slot.  `Ages` is what makes this inductive: a request admitted
  in this step is in a slot below every free one.  A later request therefore
  completes first only if it is shorter.
* `ManyInv`: with two slots or more, request r is admitted in step r at the
  latest.  Two slots cannot both be taken then: of the two requests before r,
  one whose service is three steps is followed by one of a single step.
* `OneInv`: with one slot, requests follow each other without a pause, and
  `Quanta` is the closed form of the steps the first k take.  Against the
  horizon of n + 8 steps it suffices for eight requests and for no more.

### The planning kernels

For any list and scan limit and any number of selected pages
(`PlanningAssumption`).  `ScheduleInv` says that what is scheduled is sorted by
`Outranks` and outranks every candidate left, and `RoomInSchedule` that the list
is never full, since its first request is finished.  `RebalanceInv` follows the
passes: promotion has raised the selected pages below the cursor, each demotion
has cleared its tier of unselected pages above the cursor, and it stops only at
the capacity (`DemotionStep`) or with no such page left.

### The benchmark

For any task lists, answers, concurrency and set of pipelines
(`BenchmarkAssumption`, `PipelinesAssumption`).  `WritersApart` needs to know
that a pipeline about to add the column, where there is one, has been overtaken
already: `WideningIsBeaten`.  `RowsMatchTasks` is inductive with it: a task
commits one row, which is that of its result as results do not change after the
answer, and the commits a cancellation lets through belong to tasks it cancels.
`ReportAlwaysCounts` adds what the rows contain (`RowsTyped`, `AnswersTyped`) and
that the printed numbers count them (`Counted`): the score sums over the rows and
the property over the tasks, and `SumMatched` carries one to the other along
the one-to-one match of `RowsMatchTasks`.

### Only model-checked

Liveness under fairness stays with TLC, since it rests on `ENABLED`:
`AllReturned`, `ReadsEnd`, `ConsumerAnswers`, `RunEnds`, `LauncherEnds`.  So does
what needs induction over a recursive definition or a fold over the history of a
trace.  Every invariant the passing runs check has a theorem, some of them under
the hypotheses named above.

## 5. Not modelled

* Latencies, virtual time, traces, worker names, handoff records and statistics
  of the simulator: no decision reads them.
* The hit, access and eviction counts of the cache, and its derived metrics.
* Statistics of the tiered cache, and usage and LRU list of its NVMe tier,
  which nothing reads.  Two caches on one directory, which overwrite each
  other's files: the model has one cache.
* `_run_single` of `bench.py`, the dataframe and the demos drive what is
  modelled and keep no state; so do the ablation and the suite of the unified
  pipeline and its reports.
* The fused verify-commit, compacted decode and resident pipeline kernels, and
  the gather, prefetch, movement planning, staging and pressure eviction
  kernels: one pass each over inputs the launcher writes, in one thread per
  request or page, with no interaction.  The fused kernels repeat the stages.
* The launcher's other modes, its sweep, allocation, timing and CSV output.
* `pick_next_request`, serial decode and prefill in the kernel: no launch
  reaches them.
* Scripts and tools are text processing; the CUDA sketches are built by no
  target.

## 6. Plan

What is left, in order of weight:

1. The pressure eviction and staging kernels as single passes against
   declarative definitions, in the modes of the launcher that run them.
2. Two tiered caches on one directory.
