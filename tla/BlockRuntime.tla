---------------------------- MODULE BlockRuntime ----------------------------
(* The block speculative simulator and the loop that benchmarks it:        *)
(* block_runtime.py, block_spec_decode.py, token_state.py, swa_state.py and *)
(* BenchmarkRunner._run_block_single.  Init picks one row of the sweep; the *)
(* rows are independent, each has a runtime of its own.  Within a row one   *)
(* runtime serves batch requests, one after the other.                      *)
EXTENDS Integers, Sequences, Functions

CONSTANTS
    Rows,        \* the rows of the sweep: records [mode, batch, block, window, maxNew]
    VocabSize,   \* vocab_size of the drafter
    Seed         \* deterministic_seed of the drafter

BlockModes == {"autoregressive_serial", "block_speculative",
               "block_speculative_persistent_sim",
               "block_speculative_host_orchestrated"}

ASSUME RowsAssumption ==
    /\ \A row \in Rows :
          /\ row.mode \in BlockModes
          /\ {row.batch, row.block, row.window} \subseteq Nat \ {0}
          /\ row.maxNew \in Nat
    /\ VocabSize \in Nat \ {0}
    /\ Seed \in Nat

VARIABLES
    row,        \* the row being measured
    pc,         \* "idle" between requests, "loop", "verify", "reported"
    served,     \* requests of the batch already run
    tokens,     \* the TokenState
    startPos,   \* start_pos of the pending draft
    pages,      \* kv_or_state_pages[0], empty before the first read
    metrics,    \* the BlockRuntimeMetrics, one for the runtime
    totals,     \* the sums of _run_block_single
    launches    \* host_kernel_launches of the record

vars == <<row, pc, served, tokens, startPos, pages, metrics, totals, launches>>

Zeros == [blocks |-> 0, drafted |-> 0, accepted |-> 0, rejected |-> 0,
          reads |-> 0, writes |-> 0, iterations |-> 0]
Plus(a, b) == [f \in DOMAIN a |-> a[f] + b[f]]

BlockSize == IF row.mode = "autoregressive_serial" THEN 1 ELSE row.block

-----------------------------------------------------------------------------
(* The drafter.                                                            *)

(* The last window tokens.  The position is passed but not looked at.      *)
SlidingWindowContext(committed, position) ==
    SubSeq(committed, IF Len(committed) > row.window
                      THEN Len(committed) - row.window + 1 ELSE 1, Len(committed))

ContextHash(context) == SumFunction(context) % VocabSize

DeterministicToken(hash, offset) == (Seed * 31 + hash * 7 + offset * 13) % VocabSize

DraftBlock(committed, position) ==
    LET hash == ContextHash(SlidingWindowContext(committed, position))
    IN  [i \in 1 .. BlockSize |-> DeterministicToken(hash, i - 1)]

(* accepted_prefix_len of verify_block: the first half of the block is     *)
(* accepted whatever it is, the rest up to the first mismatch.             *)
AcceptedPrefixLen(committed, draft, position) ==
    LET hash   == ContextHash(SlidingWindowContext(committed, position))
        fails  == {i \in 1 .. Len(draft) :
                     /\ i - 1 >= Len(draft) \div 2
                     /\ draft[i] # DeterministicToken(hash, i - 1)}
    IN  IF fails = {} THEN Len(draft) ELSE (CHOOSE i \in fails : \A j \in fails : i <= j) - 1

-----------------------------------------------------------------------------
(* The token lifecycle.                                                    *)

FreshTokens == [committed |-> <<>>, draft |-> <<>>, accepted |-> <<>>,
                rejected |-> <<>>, position |-> 0]

AppendDraft(ts, draft) == [ts EXCEPT !.draft = draft]

(* Mutant: the position is left to advance_position alone.                 *)
CommitPrefixInPlace(ts, n) ==
    IF n <= 0 \/ n > Len(ts.draft) THEN ts
    ELSE LET prefix == SubSeq(ts.draft, 1, n)
         IN  [ts EXCEPT !.accepted = @ \o prefix, !.committed = @ \o prefix]

CommitPrefix(ts, n) ==
    IF n <= 0 \/ n > Len(ts.draft) THEN ts
    ELSE LET prefix == SubSeq(ts.draft, 1, n)
         IN  [ts EXCEPT !.accepted = @ \o prefix, !.committed = @ \o prefix,
                        !.position = @ + n]

DiscardRejectedTail(ts) ==
    IF Len(ts.draft) <= Len(ts.accepted) THEN ts
    ELSE [ts EXCEPT !.rejected = @ \o SubSeq(ts.draft, Len(ts.accepted) + 1, Len(ts.draft))]

AdvancePosition(ts, n) == [ts EXCEPT !.position = @ + n]

(* Mutant: the accepted and rejected tokens stay.                          *)
ResetDraftOnly(ts) == [ts EXCEPT !.draft = <<>>]
ResetDraft(ts) == [ts EXCEPT !.draft = <<>>, !.accepted = <<>>, !.rejected = <<>>]

IsComplete(ts) == Len(ts.committed) >= row.maxNew

-----------------------------------------------------------------------------
Init ==
    /\ row \in Rows
    /\ pc = "idle"
    /\ served = 0
    /\ tokens = FreshTokens
    /\ startPos = 0
    /\ pages = <<>>
    /\ metrics = Zeros
    /\ totals = Zeros
    /\ launches = 0

(* Mutant: the metrics start afresh with each request.                     *)
StartRequestAfresh ==
    /\ pc = "idle"
    /\ served < row.batch
    /\ tokens' = [tokens EXCEPT !.committed = <<>>, !.position = 0]
    /\ metrics' = Zeros
    /\ pc' = "loop"
    /\ UNCHANGED <<row, served, startPos, pages, totals, launches>>

(* The next request of the batch: the tokens and the counters of the       *)
(* window are cleared, the metrics and the pages of the window are not.    *)
StartRequest ==
    /\ pc = "idle"
    /\ served < row.batch
    /\ tokens' = [tokens EXCEPT !.committed = <<>>, !.position = 0]
    /\ pc' = "loop"
    /\ UNCHANGED <<row, served, startPos, pages, metrics, totals, launches>>

(* The first half of an iteration: read the window, draft a block.         *)
Draft ==
    /\ pc = "loop"
    /\ ~IsComplete(tokens)
    /\ LET draft == DraftBlock(tokens.committed, tokens.position)
       IN  /\ tokens' = AppendDraft(tokens, draft)
           /\ metrics' = Plus(metrics, [Zeros EXCEPT !.reads = 1, !.blocks = 1,
                                                     !.drafted = Len(draft)])
    /\ startPos' = tokens.position
    /\ pages' = IF pages = <<>> THEN <<tokens.position>> ELSE pages
    /\ pc' = "verify"
    /\ UNCHANGED <<row, served, totals, launches>>

(* Mutant: the window is updated before the block is committed.            *)
VerifyWindowFirst ==
    /\ pc = "verify"
    /\ LET n == AcceptedPrefixLen(tokens.committed, tokens.draft, startPos)
       IN  /\ tokens' = ResetDraft(AdvancePosition(DiscardRejectedTail(CommitPrefix(tokens, n)), n))
           /\ pages' = tokens.committed
           /\ metrics' = Plus(metrics, [Zeros EXCEPT !.iterations = 1, !.writes = 1,
                                                     !.accepted = n])
    /\ pc' = "loop"
    /\ UNCHANGED <<row, served, startPos, totals, launches>>

(* The second half: verify the draft against the same context, commit the  *)
(* accepted prefix, advance, update the window.                            *)
Verify ==
    /\ pc = "verify"
    /\ LET n    == AcceptedPrefixLen(tokens.committed, tokens.draft, startPos)
           once == [Zeros EXCEPT !.iterations = 1, !.rejected = Len(tokens.draft) - n]
           next == AdvancePosition(DiscardRejectedTail(CommitPrefix(tokens, n)), n)
       IN  IF n > 0
           THEN /\ tokens' = ResetDraft(next)
                /\ pages' = next.committed
                /\ metrics' = Plus(metrics, [once EXCEPT !.writes = 1, !.accepted = n])
           ELSE /\ tokens' = ResetDraft(DiscardRejectedTail(tokens))
                /\ metrics' = Plus(metrics, once)
                /\ UNCHANGED pages
    /\ pc' = "loop"
    /\ UNCHANGED <<row, served, startPos, totals, launches>>

(* run() returns the metrics of the runtime; the benchmark adds them up.   *)
EndRequest ==
    /\ pc = "loop"
    /\ IsComplete(tokens)
    /\ totals' = Plus(totals, metrics)
    /\ served' = served + 1
    /\ pc' = "idle"
    /\ UNCHANGED <<row, tokens, startPos, pages, metrics, launches>>

(* The record of the row.                                                  *)
Report ==
    /\ pc = "idle"
    /\ served = row.batch
    /\ launches' = CASE row.mode = "block_speculative_persistent_sim" -> 1
                     [] row.mode = "block_speculative_host_orchestrated" -> totals.iterations * 4
                     [] OTHER -> totals.iterations
    /\ pc' = "reported"
    /\ UNCHANGED <<row, served, tokens, startPos, pages, metrics, totals>>

Next == StartRequest \/ Draft \/ Verify \/ EndRequest \/ Report
Spec == Init /\ [][Next]_vars

-----------------------------------------------------------------------------
Token == 0 .. VocabSize - 1
Counters == [DOMAIN Zeros -> Nat]

TypeOK ==
    /\ row \in Rows
    /\ pc \in {"idle", "loop", "verify", "reported"}
    /\ served \in 0 .. row.batch
    /\ DOMAIN tokens = DOMAIN FreshTokens
    /\ tokens.committed \in Seq(Token)
    /\ tokens.draft \in Seq(Token)
    /\ tokens.accepted = <<>> /\ tokens.rejected = <<>>
    /\ {tokens.position, startPos} \subseteq Nat
    /\ pages \in Seq(Nat)
    /\ metrics \in Counters /\ totals \in Counters
    /\ launches \in Nat

(* Blocks of one request: max_new_tokens rounded up to whole blocks.       *)
BlocksPerRequest == (row.maxNew + BlockSize - 1) \div BlockSize

(* A draft is verified against the context it was drawn from, so the       *)
(* runtime never rejects a token: the acceptance rate it reports is 1 by    *)
(* the verifier's arithmetic, not by the half it accepts unseen.  Each      *)
(* iteration advances the position twice, in commit_prefix and in run(): a  *)
(* draft starts at twice the number of tokens before it.  A request ends    *)
(* with max_new_tokens rounded up to whole blocks.                          *)
TokensInStep ==
    /\ metrics.rejected = 0
    /\ metrics.accepted + Len(tokens.draft) = metrics.drafted
    /\ tokens.position = 2 * Len(tokens.committed)
    /\ pc = "verify" => startPos = 2 * Len(tokens.committed)
    /\ Len(tokens.committed) <= BlocksPerRequest * BlockSize
    /\ pc \in {"idle", "reported"} /\ served > 0 =>
          Len(tokens.committed) = BlocksPerRequest * BlockSize

(* Once a block of the request is committed the window holds exactly the   *)
(* committed tokens.  Until then a later request of the batch reads the     *)
(* window its predecessor left, and only the first one its own position.    *)
WindowFollowsCommitted ==
    IF tokens.committed # <<>> THEN pages = tokens.committed
    ELSE pc = "verify" => IF served = 0 \/ row.maxNew = 0 THEN pages = <<0>>
                          ELSE Len(pages) = BlocksPerRequest * BlockSize

(* The metrics of a runtime are never reset, and run() returns them all:    *)
(* after k requests the totals count the first request k times, the second  *)
(* k - 1 times, and so on.  The rates of the record divide totals by totals *)
(* and are right all the same, tokens per iteration are the block size; but *)
(* the host launches of all but the persistent mode are inflated.           *)
TotalsRecount ==
    /\ pc \in {"idle", "reported"} =>
          /\ metrics.iterations = served * BlocksPerRequest
          /\ 2 * totals.iterations = served * (served + 1) * BlocksPerRequest
          /\ totals.accepted = BlockSize * totals.iterations
    /\ /\ pc = "reported" /\ row.batch > 1 /\ row.maxNew > 0
       /\ row.mode # "block_speculative_persistent_sim"
       => launches > row.batch * BlocksPerRequest
=============================================================================
