----------------------------- MODULE MegaKernel -----------------------------
(* The persistent mega-kernel: one resident block of one thread per request, *)
(* which drives its request through the stage functions until the shutdown    *)
(* flag is seen or the bound on iterations is reached.  Blocks share the      *)
(* draft token buffer, the counter of finished requests and the flag.         *)
(*                                                                            *)
(* One action per access to shared memory: the loop condition reads the flag, *)
(* decode writes the drafts, verify reads them and commits, count adds to the *)
(* counter, poll (block 0 only) reads it and may raise the flag.  The reads of *)
(* flag and counter are plain loads of what other blocks write, so they may   *)
(* return an older value (TRUE and FALSE of a raised flag, any count so far). *)
(*                                                                            *)
(* The launcher sets the speculative flag and no KV pressure on every request *)
(* and starts them DECODE_READY: the branches for the others are left out.    *)
(* Its EOS token is 0, which verify ignores and the fallback token of commit  *)
(* is compared with.  decode_pos equals output_token_count throughout.        *)
EXTENDS AdaptiveBlocks, FiniteSets

CONSTANT Launches    \* records [n, maxNew, draftLen, maxIterations]

ASSUME LaunchesAssumption ==
    Launches \subseteq [n : Nat \ {0}, maxNew : Nat, draftLen : Nat \ {0}, maxIterations : Nat]

VARIABLES
    launch,        \* the arguments of the launch
    at,            \* where in the loop body each block is
    iteration,     \* its loop counter
    request,       \* its RequestDescriptor
    page,          \* the states of the request's four KV pages
    selected,      \* its pages with the selected flag
    counted,       \* already_counted
    draftTokens,   \* the shared draft buffer
    doneCounter,   \* *done_counter
    shutdownFlag   \* *shutdown_flag

megaVars == <<launch, at, iteration, request, page, selected, counted,
              draftTokens, doneCounter, shutdownFlag>>

Blocks   == 0 .. launch.n - 1
Vocab    == 32000
PageSize == 4
Pages    == 0 .. 3
MaxBlock == 8
EosToken == 0

(* Mutant: the regions are as long as the first block.                      *)
DraftStrideTight(l) == l.draftLen
DraftStride(l) == l.draftLen * 4
DraftOffset(b) == b * DraftStride(launch)
Id(b) == b + 1

BudgetLeft(r) == launch.maxNew - r.output
Smaller(a, b) == IF a < b THEN a ELSE b
Larger(a, b)  == IF a > b THEN a ELSE b

IsDone(r) == r.state = "COMPLETE"

-----------------------------------------------------------------------------
(* Stage functions.                                                        *)

(* A page's score falls with the distance of its end from the decode step.  *)
Distance(p, step) == LET d == (p + 1) * PageSize - step IN IF d < 0 THEN -d ELSE d
Score(p, step) == PageSize * 10000 - Distance(p, step) * 100 - (p % 2)
Beats(p, q, step) ==
    \/ Score(p, step) > Score(q, step)
    \/ Score(p, step) = Score(q, step) /\ p < q

(* The top_k best resident pages of the request.  A page is resident once it *)
(* has been committed; none is ever a draft here.                            *)
SelectSparseKvBlocks(r, pages) ==
    LET resident == {p \in Pages : pages[p] = "COMMITTED"}
    IN  {p \in resident :
            Cardinality({q \in resident : Beats(q, p, r.output)}) < r.block}

DraftCount(r) == Smaller(r.block, Larger(BudgetLeft(r), 0))

DraftToken(b, r, i) == (r.lastToken + 1 + i + Id(b)) % Vocab

(* Length of the prefix verify accepts: up to the first multiple of four.   *)
AcceptedPrefix(b, r) ==
    LET limit == Smaller(r.draftLen, BudgetLeft(r))
        stops == {i \in 0 .. limit - 1 : draftTokens[DraftOffset(b) + i] % 4 = 0}
    IN  IF stops = {} THEN Larger(limit, 0)
        ELSE CHOOSE i \in stops : \A j \in stops : i <= j

FallbackToken(b, r) == (r.lastToken + 1 + Id(b)) % Vocab

(* Mutant: a request is complete one token late.                            *)
AfterCommitOver(b, r, accepted) ==
    LET fallback == accepted = 0
        out      == r.output + (IF fallback THEN 1 ELSE accepted)
        done     == \/ fallback /\ FallbackToken(b, r) = EosToken
                    \/ out > launch.maxNew
    IN  [r EXCEPT !.lastToken = IF fallback THEN FallbackToken(b, r) ELSE 0,
                  !.output = out,
                  !.state = IF done THEN "COMPLETE" ELSE "DECODE_READY"]

(* The descriptor after stage_commit: nothing accepted still yields the     *)
(* fallback token, whatever the budget.                                     *)
AfterCommit(b, r, accepted) ==
    LET fallback == accepted = 0
        out      == r.output + (IF fallback THEN 1 ELSE accepted)
        done     == \/ fallback /\ FallbackToken(b, r) = EosToken
                    \/ out >= launch.maxNew
    IN  [r EXCEPT !.lastToken = IF fallback THEN FallbackToken(b, r) ELSE 0,
                  !.output = out,
                  !.state = IF done THEN "COMPLETE" ELSE "DECODE_READY"]

(* Mutant: the pages follow the whole output.                               *)
HitPagesByOutput(r, accepted) ==
    Smaller((r.output + accepted + PageSize - 1) \div PageSize, 4)
HitPages(r, accepted) == Smaller((accepted + PageSize - 1) \div PageSize, 4)

(* The pages after stage_commit: a non-empty prefix commits the first       *)
(* hit_pages of the region and lets go of drafts among the rest.            *)
PagesAfterCommit(r, pages, accepted) ==
    IF accepted = 0 THEN pages
    ELSE [p \in Pages |-> IF p < HitPages(r, accepted) THEN "COMMITTED"
                          ELSE IF pages[p] = "DRAFT" THEN "EVICTABLE" ELSE pages[p]]

-----------------------------------------------------------------------------
InitialRequest(l, b) ==
    [state |-> "DECODE_READY", lastToken |-> (Id(b) * 7 + 3) % Vocab, output |-> 0,
     draftLen |-> 0, rate |-> 8000, block |-> Smaller(l.draftLen, MaxBlock)]

MegaInit(l) ==
    LET blocks == 0 .. l.n - 1
    IN  /\ launch = l
        /\ at = [b \in blocks |-> "loop"]
        /\ iteration = [b \in blocks |-> 0]
        /\ request = [b \in blocks |-> InitialRequest(l, b)]
        /\ page = [b \in blocks |-> [p \in Pages |-> "FREE"]]
        /\ selected = [b \in blocks |-> {}]
        /\ counted = [b \in blocks |-> FALSE]
        /\ draftTokens = [i \in 0 .. l.n * DraftStride(l) + MaxBlock |-> 0]
        /\ doneCounter = 0
        /\ shutdownFlag = FALSE

(* What a block may read of the flag; block 0 wrote it and knows it.        *)
FlagReads(b) == IF b = 0 THEN {shutdownFlag} ELSE {FALSE, shutdownFlag}

(* Mutant: the last iteration is not run.                                   *)
LeavesEarly(b, flag) == flag \/ iteration[b] + 1 >= launch.maxIterations
Leaves(b, flag) == flag \/ iteration[b] >= launch.maxIterations

(* The loop condition.  The first iteration also sets rate and block size.  *)
Loop(b) ==
    /\ at[b] = "loop"
    /\ \E flag \in FlagReads(b) :
          at' = [at EXCEPT ![b] =
                    IF Leaves(b, flag) THEN "exited"
                    ELSE IF IsDone(request[b]) THEN "count" ELSE "decode"]
    /\ request' = IF at'[b] # "exited" /\ iteration[b] = 0
                  THEN [request EXCEPT ![b].rate = 8000, ![b].block = launch.draftLen]
                  ELSE request
    /\ UNCHANGED <<launch, iteration, page, selected, counted,
                   draftTokens, doneCounter, shutdownFlag>>

(* select_sparse_kv_blocks, stage_decode                                    *)
Decode(b) ==
    /\ at[b] = "decode"
    /\ LET r == request[b]
           n == DraftCount(r)
       IN  /\ selected' = [selected EXCEPT ![b] = SelectSparseKvBlocks(r, page[b])]
           /\ request' = [request EXCEPT ![b].draftLen = n, ![b].state = "DRAFT_READY"]
           /\ draftTokens' = [k \in DOMAIN draftTokens |->
                                 IF k \in DraftOffset(b) .. DraftOffset(b) + n - 1
                                 THEN DraftToken(b, r, k - DraftOffset(b)) ELSE draftTokens[k]]
    /\ at' = [at EXCEPT ![b] = "verify"]
    /\ UNCHANGED <<launch, iteration, page, counted, doneCounter, shutdownFlag>>

(* stage_spec_verify, stage_commit                                          *)
VerifyAndCommit(b) ==
    /\ at[b] = "verify"
    /\ LET r    == request[b]
           n    == AcceptedPrefix(b, r)
           rate == DeviceRate(r.rate, n, Smaller(r.draftLen, BudgetLeft(r)))
       IN  \E block \in DeviceBlocks(rate, FALSE) :
              /\ request' = [request EXCEPT ![b] =
                                AfterCommit(b, [r EXCEPT !.rate = rate, !.block = block], n)]
              /\ page' = [page EXCEPT ![b] = PagesAfterCommit(r, @, n)]
    /\ at' = [at EXCEPT ![b] = "count"]
    /\ UNCHANGED <<launch, iteration, selected, counted, draftTokens, doneCounter, shutdownFlag>>

(* Mutant: the iterations are not counted.                                  *)
NextIterationUncounted(b) ==
    /\ at' = [at EXCEPT ![b] = "loop"]
    /\ UNCHANGED iteration
NextIteration(b) ==
    /\ iteration' = [iteration EXCEPT ![b] = @ + 1]
    /\ at' = [at EXCEPT ![b] = "loop"]

(* A finished request is counted once.                                      *)
Count(b) ==
    /\ at[b] = "count"
    /\ IF IsDone(request[b]) /\ ~counted[b]
       THEN doneCounter' = doneCounter + 1 /\ counted' = [counted EXCEPT ![b] = TRUE]
       ELSE UNCHANGED <<doneCounter, counted>>
    /\ IF b = 0 THEN at' = [at EXCEPT ![b] = "poll"] /\ UNCHANGED iteration
       ELSE NextIteration(b)
    /\ UNCHANGED <<launch, request, page, selected, draftTokens, shutdownFlag>>

(* Mutant: the flag goes up with one request to go.                         *)
PollEarly ==
    /\ at[0] = "poll"
    /\ \E seen \in 0 .. doneCounter :
          shutdownFlag' = (shutdownFlag \/ seen >= launch.n - 1)
    /\ NextIteration(0)
    /\ UNCHANGED <<launch, request, page, selected, counted, draftTokens, doneCounter>>

(* Block 0 compares what it reads of the counter with the number of         *)
(* requests, and raises the flag.                                           *)
Poll ==
    /\ at[0] = "poll"
    /\ \E seen \in 0 .. doneCounter :
          shutdownFlag' = (shutdownFlag \/ seen >= launch.n)
    /\ NextIteration(0)
    /\ UNCHANGED <<launch, request, page, selected, counted, draftTokens, doneCounter>>

Step(b) == Loop(b) \/ Decode(b) \/ VerifyAndCommit(b) \/ Count(b)
MegaNext == Poll \/ \E b \in Blocks : Step(b)

MegaEnded == \A b \in Blocks : at[b] = "exited"
=============================================================================
