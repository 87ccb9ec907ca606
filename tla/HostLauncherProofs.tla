------------------------- MODULE HostLauncherProofs -------------------------
(* Theorems about the launcher and its kernels: the mega-kernel for any number *)
(* of blocks, any budget, draft length and bound on iterations, and reads of  *)
(* the counter and the flag however stale; the trace replay for any trace and *)
(* number of slots; the planning kernels for any list and any selection.      *)
EXTENDS CudaProperties, SetLemmas, SequenceTheorems, TLAPS

Counted == {b \in Blocks : counted[b]}

(* The part of the state the counting rests on.  A block drafts and verifies *)
(* only while its request is unfinished, so a finished request stays so.      *)
Shapes ==
    /\ launch \in Launches
    /\ DOMAIN at = Blocks
    /\ DOMAIN request = Blocks
    /\ \A b \in Blocks : "state" \in DOMAIN request[b]
    /\ counted \in [Blocks -> BOOLEAN]

Working ==
    \A b \in Blocks : at[b] \in {"decode", "verify"} => ~IsDone(request[b])

IInv == Shapes /\ Working /\ FlagMeansAllDone

(* A kernel has finitely many blocks, and block 0 is one of them.            *)
LEMMA BlocksFinite ==
  ASSUME launch \in Launches
  PROVE  /\ launch.n \in Nat \ {0}
         /\ 0 \in Blocks
         /\ IsFiniteSet(Blocks)
         /\ Cardinality(Blocks) = launch.n
<1>1. launch.n \in Nat \ {0}
  BY LaunchesAssumption
<1>2. IsFiniteSet(Blocks) /\ Cardinality(Blocks) = launch.n
  <2>1. 0 \in Int /\ launch.n - 1 \in Int /\ ~(0 > launch.n - 1)
    BY <1>1
  <2>2. /\ IsFiniteSet(0 .. launch.n - 1)
        /\ Cardinality(0 .. launch.n - 1) = launch.n - 1 - 0 + 1
    BY <2>1, FS_Interval, Zenon
  <2> QED
    BY <1>1, <2>2 DEF Blocks
<1> QED
  BY <1>1, <1>2 DEF Blocks

(* All blocks count as many requests as there are only if each has counted.  *)
LEMMA FullCount ==
  ASSUME launch \in Launches, Cardinality(Counted) >= launch.n
  PROVE  \A b \in Blocks : counted[b]
<1>1. /\ IsFiniteSet(Counted)
      /\ Cardinality(Counted) <= Cardinality(Blocks)
      /\ Cardinality(Blocks) = Cardinality(Counted) => Blocks = Counted
  BY BlocksFinite, FS_Subset DEF Counted
<1>2. Cardinality(Counted) \in Nat
  BY <1>1, FS_CardinalityType
<1>3. Blocks = Counted
  BY <1>1, <1>2, BlocksFinite
<1> QED
  BY <1>3 DEF Counted

-----------------------------------------------------------------------------
LEMMA InitIInv ==
  Init => IInv
<1> SUFFICES ASSUME Init PROVE IInv
  OBVIOUS
<1>1. PICK l \in Launches : MegaInit(l)
  <2>1. AnyOf(Launches) \in Launches
    BY HostAssumption DEF AnyOf
  <2> QED
    BY <2>1 DEF Init
<1>2. launch = l /\ Blocks = 0 .. l.n - 1
  BY <1>1 DEF MegaInit, Blocks
<1>3. Shapes
  BY <1>1, <1>2 DEF Shapes, MegaInit, InitialRequest
<1>4. Working
  BY <1>1, <1>2 DEF Working, MegaInit
<1>5. Counted = {}
  BY <1>1, <1>2 DEF Counted, MegaInit
<1>6. CountedOnce
  BY <1>1, <1>2, <1>5, FS_EmptySet DEF CountedOnce, Counted, MegaInit
<1> QED
  BY <1>1, <1>3, <1>4, <1>6 DEF IInv, FlagMeansAllDone, MegaInit

(* A step that neither counts nor polls, and finishes no finished request    *)
(* anew, keeps the invariant.                                                *)
LEMMA QuietStep ==
  ASSUME IInv, NEW c \in Blocks,
         UNCHANGED <<launch, counted, doneCounter, shutdownFlag>>,
         DOMAIN at' = Blocks, DOMAIN request' = Blocks,
         "state" \in DOMAIN request'[c],
         \A b \in Blocks \ {c} : at'[b] = at[b] /\ request'[b] = request[b],
         IsDone(request[c]) => IsDone(request[c])',
         at'[c] \in {"decode", "verify"} => ~IsDone(request[c])'
  PROVE  IInv'
<1> USE DEF IInv
<1>1. Blocks' = Blocks
  BY DEF Blocks
<1>2. Shapes'
  BY <1>1 DEF Shapes
<1>3. \A b \in Blocks : IsDone(request[b]) => IsDone(request[b])'
  BY DEF IsDone
<1>4. Working'
  <2>1. ASSUME NEW b \in Blocks, b # c, at'[b] \in {"decode", "verify"}
        PROVE  ~IsDone(request[b])'
    BY <2>1 DEF Working, IsDone
  <2> QED
    BY <1>1, <2>1 DEF Working
<1>5. FlagMeansAllDone'
  BY <1>1, <1>3 DEF FlagMeansAllDone, CountedOnce
<1> QED
  BY <1>2, <1>4, <1>5

LEMMA LoopIInv ==
  ASSUME IInv, NEW b \in Blocks, Loop(b)
  PROVE  IInv'
<1> USE DEF IInv, Shapes
<1>1. UNCHANGED <<launch, counted, doneCounter, shutdownFlag>>
  BY DEF Loop
<1>2. /\ DOMAIN at' = Blocks
      /\ \A x \in Blocks \ {b} : at'[x] = at[x]
      /\ at'[b] = "decode" => ~IsDone(request[b])
      /\ at'[b] # "verify"
  BY DEF Loop
<1>3. /\ DOMAIN request' = Blocks
      /\ \A x \in Blocks \ {b} : request'[x] = request[x]
      /\ "state" \in DOMAIN request'[b]
      /\ request'[b].state = request[b].state
  BY DEF Loop
<1>4. IsDone(request[b])' <=> IsDone(request[b])
  BY <1>3 DEF IsDone
<1> QED
  BY <1>1, <1>2, <1>3, <1>4, QuietStep

LEMMA DecodeIInv ==
  ASSUME IInv, NEW b \in Blocks, Decode(b)
  PROVE  IInv'
<1> USE DEF IInv, Shapes
<1>1. UNCHANGED <<launch, counted, doneCounter, shutdownFlag>>
  BY DEF Decode
<1>2. /\ DOMAIN at' = Blocks
      /\ \A x \in Blocks \ {b} : at'[x] = at[x]
      /\ at[b] = "decode"
  BY DEF Decode
<1>3. /\ DOMAIN request' = Blocks
      /\ \A x \in Blocks \ {b} : request'[x] = request[x]
      /\ "state" \in DOMAIN request'[b]
      /\ request'[b].state = "DRAFT_READY"
  BY DEF Decode
<1>4. ~IsDone(request[b])' /\ ~IsDone(request[b])
  BY <1>2, <1>3 DEF IsDone, Working
<1> QED
  BY <1>1, <1>2, <1>3, <1>4, QuietStep

LEMMA VerifyAndCommitIInv ==
  ASSUME IInv, NEW b \in Blocks, VerifyAndCommit(b)
  PROVE  IInv'
<1> USE DEF IInv, Shapes
<1>1. UNCHANGED <<launch, counted, doneCounter, shutdownFlag>>
  BY DEF VerifyAndCommit
<1>2. /\ DOMAIN at' = Blocks
      /\ \A x \in Blocks \ {b} : at'[x] = at[x]
      /\ at[b] = "verify" /\ at'[b] = "count"
  BY DEF VerifyAndCommit
<1>3. PICK rate, block, n :
        request' = [request EXCEPT ![b] =
                      AfterCommit(b, [request[b] EXCEPT !.rate = rate, !.block = block], n)]
  BY DEF VerifyAndCommit
<1>4. "state" \in DOMAIN AfterCommit(b, [request[b] EXCEPT !.rate = rate, !.block = block], n)
  BY DEF AfterCommit
<1>5. /\ DOMAIN request' = Blocks
      /\ \A x \in Blocks \ {b} : request'[x] = request[x]
      /\ "state" \in DOMAIN request'[b]
  BY <1>3, <1>4
<1>6. ~IsDone(request[b])
  BY <1>2 DEF Working
<1> QED
  BY <1>1, <1>2, <1>5, <1>6, QuietStep

(* Counting adds the block to those that have counted, and one to the        *)
(* counter, if and only if it had not counted before.                        *)
LEMMA CountIInv ==
  ASSUME IInv, NEW b \in Blocks, Count(b)
  PROVE  IInv'
<1> USE DEF IInv, Shapes
<1>1. UNCHANGED <<launch, request, shutdownFlag>> /\ Blocks' = Blocks
  BY DEF Count, Blocks
<1>2. /\ DOMAIN at' = Blocks
      /\ \A x \in Blocks \ {b} : at'[x] = at[x]
      /\ at'[b] \notin {"decode", "verify"}
  BY DEF Count, NextIteration
<1>3. Working'
  BY <1>1, <1>2 DEF Working, IsDone
<1>4. CountedOnce' /\ counted' \in [Blocks -> BOOLEAN]
  <2>1. CASE IsDone(request[b]) /\ ~counted[b]
    <3>1. doneCounter' = doneCounter + 1 /\ counted' = [counted EXCEPT ![b] = TRUE]
      BY <2>1 DEF Count
    <3>2. Counted' = Counted \cup {b} /\ b \notin Counted
      BY <1>1, <2>1, <3>1, Zenon DEF Counted
    <3>3. IsFiniteSet(Counted)
      BY BlocksFinite, FS_Subset DEF Counted
    <3>4. Cardinality(Counted') = Cardinality(Counted) + 1
      BY <3>2, <3>3, FS_AddElement
    <3>5. \A x \in Blocks : counted'[x] => IsDone(request'[x])
      BY <1>1, <2>1, <3>1 DEF FlagMeansAllDone, CountedOnce, IsDone
    <3> QED
      BY <1>1, <3>1, <3>4, <3>5 DEF FlagMeansAllDone, CountedOnce, Counted, IsDone
  <2>2. CASE ~(IsDone(request[b]) /\ ~counted[b])
    <3>1. UNCHANGED <<doneCounter, counted>>
      BY <2>2 DEF Count
    <3> QED
      BY <1>1, <3>1 DEF FlagMeansAllDone, CountedOnce, IsDone
  <2> QED
    BY <2>1, <2>2
<1>5. FlagMeansAllDone'
  BY <1>1, <1>4 DEF FlagMeansAllDone, IsDone
<1> QED
  BY <1>1, <1>2, <1>3, <1>4, <1>5

(* However old the count block 0 reads, it is at most the counter: if it is  *)
(* that of all requests, all have been counted and are done.                 *)
LEMMA PollIInv ==
  ASSUME IInv, Poll
  PROVE  IInv'
<1> USE DEF IInv, Shapes
<1>1. UNCHANGED <<launch, request, counted, doneCounter>> /\ Blocks' = Blocks
  BY DEF Poll, Blocks
<1>2. 0 \in Blocks /\ launch.n \in Nat
  BY BlocksFinite
<1>3. /\ DOMAIN at' = Blocks
      /\ \A x \in Blocks \ {0} : at'[x] = at[x]
      /\ at'[0] = "loop"
  BY <1>2 DEF Poll, NextIteration
<1>4. Working'
  BY <1>1, <1>3 DEF Working, IsDone
<1>5. CountedOnce'
  BY <1>1 DEF FlagMeansAllDone, CountedOnce, IsDone
<1>6. ASSUME shutdownFlag', ~shutdownFlag
      PROVE  \A b \in Blocks : IsDone(request[b])
  <2>1. doneCounter = Cardinality(Counted)
    BY DEF FlagMeansAllDone, CountedOnce, Counted
  <2>2. Cardinality(Counted) \in Nat
    BY BlocksFinite, FS_Subset, FS_CardinalityType DEF Counted
  <2>3. PICK seen \in 0 .. doneCounter : shutdownFlag' = (shutdownFlag \/ seen >= launch.n)
    BY DEF Poll
  <2>4. seen >= launch.n
    BY <1>6, <2>3, Zenon
  <2>5. doneCounter >= launch.n
    BY <1>2, <2>1, <2>2, <2>3, <2>4
  <2> QED
    BY <2>1, <2>5, FullCount DEF FlagMeansAllDone, CountedOnce
<1>7. FlagMeansAllDone'
  BY <1>1, <1>5, <1>6 DEF FlagMeansAllDone, IsDone
<1> QED
  BY <1>1, <1>3, <1>4, <1>7

-----------------------------------------------------------------------------
LEMMA NextIInv ==
  IInv /\ [Next]_vars => IInv'
<1> SUFFICES ASSUME IInv, [Next]_vars PROVE IInv'
  OBVIOUS
<1>1. CASE UNCHANGED megaVars
  <2>1. UNCHANGED <<launch, at, request, counted, doneCounter, shutdownFlag>>
    BY <1>1 DEF megaVars
  <2> QED
    BY <2>1 DEF IInv, Shapes, Working, FlagMeansAllDone, CountedOnce, IsDone, Blocks
<1>2. CASE MegaNext
  BY <1>2, PollIInv, LoopIInv, DecodeIInv, VerifyAndCommitIInv, CountIInv
     DEF MegaNext, Step
<1>3. [Next]_vars => MegaNext \/ UNCHANGED megaVars
  BY DEF Next, vars, BaselineLaunch, LaunchMegaKernel, RunMegaKernel, RunTraceReplay,
         RunScheduler, RunTierResidency, Synchronize
<1> QED
  BY <1>1, <1>2, <1>3

(* The shutdown flag of xl_persistent_megakernel is raised only when every   *)
(* request is complete, and done_counter counts each of them once.           *)
THEOREM FlagCorrect ==
  Spec => []FlagMeansAllDone
<1>1. IInv => FlagMeansAllDone
  BY DEF IInv
<1> QED
  BY <1>1, InitIInv, NextIInv, PTL DEF Spec

(* done_counter counts every finished request once.                          *)
THEOREM CountCorrect ==
  Spec => []CountedOnce
<1>1. FlagMeansAllDone => CountedOnce
  BY DEF FlagMeansAllDone
<1> QED
  BY <1>1, FlagCorrect, PTL

-----------------------------------------------------------------------------
(* The blocks, one by one.                                                   *)

Places == {"loop", "decode", "verify", "count", "poll", "exited"}

KernelTypes ==
    /\ at \in [Blocks -> Places]
    /\ iteration \in [Blocks -> Nat]
    /\ request \in [Blocks -> Descriptor]
    /\ page \in [Blocks -> [Pages -> {"FREE", "DRAFT", "COMMITTED", "EVICTABLE"}]]
    /\ selected \in [Blocks -> SUBSET Pages]
    /\ DOMAIN draftTokens = 0 .. launch.n * DraftStride(launch) + MaxBlock

(* A block that has verified nothing yet.                                    *)
Fresh(b) == iteration[b] = 0 /\ at[b] \in {"loop", "decode", "verify"}

(* The first draft is rejected, and after that the rate never gets where the *)
(* policy picks eight: one of one accepted lifts it from below 5,000, four   *)
(* of four are never accepted, and what the budget cuts short ends the       *)
(* request.                                                                  *)
Adapted(b) ==
    ~IsDone(request[b]) /\ at[b] # "exited" =>
        IF Fresh(b)
        THEN /\ request[b].output = 0 /\ request[b].rate = 8000
             /\ request[b].lastToken = (Id(b) * 7 + 3) % Vocab
             /\ at[b] \in {"decode", "verify"} => request[b].block = launch.draftLen
        ELSE /\ request[b].block \in {1, 4} /\ request[b].rate <= 7500
             /\ request[b].block = 1 => request[b].rate < 5000 + Slack

(* What a block is about to verify is its draft, in its own region.          *)
Drafted(b) ==
    at[b] = "verify" =>
        /\ request[b].draftLen = DraftCount(request[b])
        /\ \A i \in 0 .. request[b].draftLen - 1 :
              draftTokens[DraftOffset(b) + i] = DraftToken(b, request[b], i)

(* Every iteration of an unfinished request has yielded a token.             *)
Yielding(b) ==
    /\ iteration[b] <= launch.maxIterations
    /\ at[b] \in {"decode", "verify", "count", "poll"} => iteration[b] < launch.maxIterations
    /\ ~IsDone(request[b]) =>
          /\ request[b].output < Larger(launch.maxNew, 1)
          /\ at[b] \in {"loop", "decode", "verify", "exited"} => request[b].output >= iteration[b]
          /\ at[b] \in {"count", "poll"} => request[b].output >= iteration[b] + 1
          /\ at[b] = "exited" => iteration[b] = launch.maxIterations

Paged(b) ==
    /\ \A p \in Pages : page[b][p] = IF p = 0 /\ page[b][0] # "FREE" THEN "COMMITTED" ELSE "FREE"
    /\ selected[b] \subseteq {p \in Pages : page[b][p] = "COMMITTED"}

BlockInv(b) == Adapted(b) /\ Drafted(b) /\ Yielding(b) /\ Paged(b)

KInv == IInv /\ KernelTypes /\ \A b \in Blocks : BlockInv(b)

LEMMA LaunchFacts ==
  ASSUME launch \in Launches
  PROVE  /\ launch.n \in Nat \ {0} /\ launch.maxNew \in Nat
         /\ launch.draftLen \in Nat \ {0} /\ launch.maxIterations \in Nat
         /\ DraftStride(launch) \in Nat /\ 4 <= DraftStride(launch)
         /\ launch.draftLen <= DraftStride(launch)
         /\ Blocks \subseteq Nat
<1>1. /\ launch.n \in Nat \ {0} /\ launch.maxNew \in Nat
      /\ launch.draftLen \in Nat \ {0} /\ launch.maxIterations \in Nat
  BY LaunchesAssumption
<1> QED
  BY <1>1 DEF DraftStride, Blocks

-----------------------------------------------------------------------------
(* The arithmetic of a block.                                               *)

(* The regions of the draft buffer do not overlap.                           *)
LEMMA RegionsApart ==
  ASSUME NEW b \in Nat, NEW c \in Nat, b # c, NEW s \in Nat,
         NEW i \in 0 .. s - 1, NEW j \in 0 .. s - 1
  PROVE  b * s + i # c * s + j
<1>1. ASSUME NEW x \in Nat, NEW y \in Nat, x < y PROVE (x + 1) * s <= y * s
  BY <1>1
<1>2. CASE b < c
  <2>1. b * s + s <= c * s /\ b * s \in Nat /\ c * s \in Nat
    BY <1>1, <1>2
  <2> QED
    BY <2>1
<1>3. CASE c < b
  <2>1. c * s + s <= b * s /\ b * s \in Nat /\ c * s \in Nat
    BY <1>1, <1>3
  <2> QED
    BY <2>1
<1> QED
  BY <1>2, <1>3

(* They lie in the buffer.                                                   *)
LEMMA RegionInBuffer ==
  ASSUME NEW n \in Nat \ {0}, NEW b \in 0 .. n - 1, NEW s \in Nat, NEW i \in 0 .. s - 1
  PROVE  b * s + i \in 0 .. n * s + MaxBlock
<1>1. (b + 1) * s <= n * s
  OBVIOUS
<1>2. b * s + s <= n * s /\ b * s \in Nat /\ n * s \in Nat
  BY <1>1
<1> QED
  BY <1>2 DEF MaxBlock

LEMMA DraftCountBounds ==
  ASSUME NEW r \in Descriptor, launch.maxNew \in Nat
  PROVE  /\ DraftCount(r) \in Nat /\ DraftCount(r) <= r.block
         /\ BudgetLeft(r) \in Int
         /\ DraftCount(r) <= Larger(BudgetLeft(r), 0)
         /\ DraftCount(r) < r.block => DraftCount(r) = Larger(BudgetLeft(r), 0)
<1>1. r.block \in Nat \ {0} /\ r.output \in Nat
  BY DEF Descriptor
<1> QED
  BY <1>1 DEF DraftCount, BudgetLeft, Smaller, Larger

(* Vocab is a multiple of four: wrapping a token keeps its remainder.        *)
LEMMA WrapModFour ==
  ASSUME NEW x \in Nat
  PROVE  x % Vocab \in 0 .. Vocab - 1 /\ (x % Vocab) % 4 = x % 4
BY DEF Vocab

LEMMA LastTokenNat ==
  ASSUME NEW r \in Descriptor
  PROVE  r.lastToken \in Nat
<1>1. r.lastToken \in 0 .. Vocab - 1
  BY DEF Descriptor
<1>2. ASSUME NEW t \in 0 .. Vocab - 1 PROVE t \in Nat
  BY DEF Vocab
<1> QED
  BY <1>1, <1>2

(* A token modulo four, the base of the verifier's test.                     *)
LEMMA TokenModFour ==
  ASSUME NEW b \in Nat, NEW r \in Descriptor, NEW i \in Nat
  PROVE  /\ DraftToken(b, r, i) \in 0 .. Vocab - 1
         /\ DraftToken(b, r, i) % 4 = (r.lastToken + 1 + i + Id(b)) % 4
<1>1. r.lastToken + 1 + i + Id(b) \in Nat
  BY LastTokenNat DEF Id
<1> QED
  BY <1>1, WrapModFour, Zenon DEF DraftToken

LEMMA FourInARow ==
  ASSUME NEW x \in Nat
  PROVE  \/ x % 4 = 0 \/ (x + 1) % 4 = 0
         \/ (x + 2) % 4 = 0 \/ (x + 3) % 4 = 0
OBVIOUS

(* Of four tokens in a row one is a multiple of four.                        *)
LEMMA OneOfFour ==
  ASSUME NEW b \in Nat, NEW r \in Descriptor
  PROVE  \E i \in 0 .. 3 : DraftToken(b, r, i) % 4 = 0
<1>1. PICK x \in Nat : x = r.lastToken + 1 + Id(b)
  BY LastTokenNat DEF Id
<1>2. ASSUME NEW i \in Nat PROVE r.lastToken + 1 + i + Id(b) = x + i
  BY <1>1, LastTokenNat DEF Id
<1>3. ASSUME NEW i \in Nat PROVE DraftToken(b, r, i) % 4 = (x + i) % 4
  BY <1>2, TokenModFour
<1>4. /\ DraftToken(b, r, 0) % 4 = x % 4 /\ DraftToken(b, r, 1) % 4 = (x + 1) % 4
      /\ DraftToken(b, r, 2) % 4 = (x + 2) % 4 /\ DraftToken(b, r, 3) % 4 = (x + 3) % 4
  BY <1>3
<1> QED
  BY <1>4, FourInARow

LEMMA SevenAndOne ==
  ASSUME NEW k \in Nat, NEW y \in Nat, y % 4 = (k * 7 + 3) % 4
  PROVE  (y + 1 + 0 + k) % 4 = 0
OBVIOUS

(* The first token of every request is a multiple of four: it is rejected.   *)
LEMMA FirstRejected ==
  ASSUME NEW b \in Nat, NEW r \in Descriptor, r.lastToken = (Id(b) * 7 + 3) % Vocab
  PROVE  DraftToken(b, r, 0) % 4 = 0
<1>1. Id(b) \in Nat /\ Id(b) * 7 + 3 \in Nat
  BY DEF Id
<1>2. r.lastToken % 4 = (Id(b) * 7 + 3) % 4
  BY <1>1, WrapModFour
<1>3. (r.lastToken + 1 + 0 + Id(b)) % 4 = 0
  BY <1>1, <1>2, LastTokenNat, SevenAndOne
<1> QED
  BY <1>3, TokenModFour

(* The accepted prefix ends before every multiple of four in the draft.      *)
LEMMA PrefixBounds ==
  ASSUME NEW b, NEW r \in Descriptor, launch.maxNew \in Nat
  PROVE  /\ AcceptedPrefix(b, r) \in 0 .. Larger(Smaller(r.draftLen, BudgetLeft(r)), 0)
         /\ \A i \in 0 .. Smaller(r.draftLen, BudgetLeft(r)) - 1 :
               draftTokens[DraftOffset(b) + i] % 4 = 0 => AcceptedPrefix(b, r) <= i
<1> DEFINE limit == Smaller(r.draftLen, BudgetLeft(r))
           stops == {i \in 0 .. limit - 1 : draftTokens[DraftOffset(b) + i] % 4 = 0}
<1>1. limit \in Int
  BY DEF Descriptor, BudgetLeft, Smaller
<1>2. AcceptedPrefix(b, r) = IF stops = {} THEN Larger(limit, 0)
                             ELSE CHOOSE i \in stops : \A j \in stops : i <= j
  BY DEF AcceptedPrefix
<1>3. \A i \in stops : i \in 0 .. limit - 1
  OBVIOUS
<1>4. \A i \in 0 .. limit - 1 : draftTokens[DraftOffset(b) + i] % 4 = 0 => i \in stops
  OBVIOUS
<1> HIDE DEF limit, stops
<1>5. CASE stops = {}
  BY <1>1, <1>2, <1>4, <1>5 DEF Larger, limit
<1>6. CASE stops # {}
  <2>1. stops \in SUBSET Nat
    BY <1>1, <1>3
  <2>2. \E i \in stops : \A j \in stops : i <= j
    BY <1>6, <2>1, LeastExists
  <2>3. AcceptedPrefix(b, r) \in stops /\ \A j \in stops : AcceptedPrefix(b, r) <= j
    BY <1>2, <1>6, <2>2
  <2>4. AcceptedPrefix(b, r) \in 0 .. Larger(limit, 0)
    BY <1>1, <1>3, <2>3 DEF Larger
  <2> QED
    BY <1>4, <2>3, <2>4 DEF limit
<1> QED
  BY <1>5, <1>6

(* The accepted share of a proposal: at most all of it, at most three        *)
(* quarters if one of up to four is rejected.                                *)
LEMMA Observation ==
  ASSUME NEW n \in Nat, NEW m \in Nat \ {0}, n <= m
  PROVE  /\ (n * Unit) \div m \in Rate
         /\ n = 0 => (n * Unit) \div m = 0
         /\ n < m /\ m <= 4 => (n * Unit) \div m <= 7500
<1>1. ASSUME NEW q \in Nat PROVE q \div m \in Nat /\ m * (q \div m) <= q
  OBVIOUS
<1>2. PICK o \in Nat : o = (n * 10000) \div m
  BY <1>1
<1>3. m * o <= n * 10000
  BY <1>1, <1>2
<1>4. o <= 10000
  <2>1. ASSUME o >= 10001 PROVE m * o >= m * 10001
    BY <2>1
  <2> QED
    BY <1>3, <2>1
<1>5. n = 0 => o = 0
  BY <1>2
<1>6. ASSUME n < m, m <= 4 PROVE o <= 7500
  <2>1. m \in {1, 2, 3, 4}
    BY <1>6
  <2> QED
    BY <1>3, <1>6, <2>1
<1> QED
  BY <1>2, <1>4, <1>5, <1>6 DEF Unit, Rate

Averaged(e, o) == (2 * o + 8 * e) \div 10

LEMMA AverageBounds ==
  ASSUME NEW e \in Rate, NEW o \in Rate
  PROVE  /\ Averaged(e, o) \in Rate
         /\ 10 * Averaged(e, o) <= 8 * e + 2 * o
         /\ 10 * Averaged(e, o) + 9 >= 8 * e + 2 * o
BY DEF Averaged, Rate, Unit

(* What verify observes, and the rate that follows.                          *)
LEMMA RateBounds ==
  ASSUME NEW rate \in Rate, NEW n \in Nat, NEW m \in Int, n <= m \/ n = 0
  PROVE  /\ DeviceRate(rate, n, m) \in Rate
         /\ 10 * DeviceRate(rate, n, m) <= 8 * rate + 20000
         /\ 10 * DeviceRate(rate, n, m) + 9 >= 8 * rate
         /\ n = 0 => 10 * DeviceRate(rate, n, m) <= 8 * rate
         /\ n < m /\ m <= 4 => 10 * DeviceRate(rate, n, m) <= 8 * rate + 15000
<1>1. PICK o \in Rate : /\ DeviceRate(rate, n, m) = Averaged(rate, o)
                        /\ n = 0 => o = 0
                        /\ n < m /\ m <= 4 => o <= 7500
  <2>1. CASE m > 0
    <3>1. m \in Nat \ {0} /\ n <= m
      BY <2>1
    <3>2. DeviceRate(rate, n, m) = Averaged(rate, (n * Unit) \div m)
      BY <2>1 DEF DeviceRate, Averaged
    <3>3. PICK o \in Rate : o = (n * Unit) \div m
      BY <3>1, Observation
    <3>4. (n = 0 => o = 0) /\ (n < m /\ m <= 4 => o <= 7500)
      BY <3>1, <3>3, Observation
    <3> QED
      BY <3>2, <3>3, <3>4
  <2>2. CASE ~(m > 0)
    <3>1. DeviceRate(rate, n, m) = Averaged(rate, 0)
      BY <2>2 DEF DeviceRate, Averaged
    <3>2. 0 \in Rate /\ 0 <= 7500
      BY DEF Rate, Unit
    <3> QED
      BY <3>1, <3>2
  <2> QED
    BY <2>1, <2>2
<1>2. DeviceRate(rate, n, m) \in Rate
  BY <1>1, AverageBounds
<1>3. /\ 10 * DeviceRate(rate, n, m) <= 8 * rate + 2 * o
      /\ 10 * DeviceRate(rate, n, m) + 9 >= 8 * rate + 2 * o
  BY <1>1, AverageBounds
<1>4. ASSUME NEW x \in Rate PROVE x \in Int /\ 0 <= x /\ x <= 10000
  BY DEF Rate, Unit
<1>5. DeviceRate(rate, n, m) \in Int
  BY <1>2, <1>4
<1>6. rate \in Int /\ o \in Int /\ 0 <= o /\ o <= 10000
  BY <1>4
<1>7. /\ 10 * DeviceRate(rate, n, m) <= 8 * rate + 20000
      /\ 10 * DeviceRate(rate, n, m) + 9 >= 8 * rate
  BY <1>3, <1>5, <1>6
<1>8. ASSUME n = 0 PROVE 10 * DeviceRate(rate, n, m) <= 8 * rate
  BY <1>1, <1>3, <1>5, <1>6, <1>8
<1>9. ASSUME n < m, m <= 4 PROVE 10 * DeviceRate(rate, n, m) <= 8 * rate + 15000
  <2>1. o <= 7500
    BY <1>1, <1>9
  <2> QED
    BY <2>1, <1>3, <1>5, <1>6
<1> QED
  BY <1>2, <1>7, <1>8, <1>9

-----------------------------------------------------------------------------
(* The initial state.                                                        *)

LEMMA InitKInv ==
  Init => KInv
<1> SUFFICES ASSUME Init PROVE KInv
  OBVIOUS
<1>1. PICK l \in Launches : MegaInit(l)
  <2>1. AnyOf(Launches) \in Launches
    BY HostAssumption DEF AnyOf
  <2> QED
    BY <2>1 DEF Init
<1>2. launch = l /\ Blocks = 0 .. l.n - 1 /\ launch \in Launches
  BY <1>1 DEF MegaInit, Blocks
<1>3. /\ launch.maxIterations \in Nat /\ launch.draftLen \in Nat \ {0} /\ launch.maxNew \in Nat
      /\ Blocks \subseteq Nat
  BY <1>2, LaunchFacts
<1>4. ASSUME NEW b \in Blocks PROVE InitialRequest(l, b) \in Descriptor
  <2>1. (Id(b) * 7 + 3) % Vocab \in 0 .. Vocab - 1
    BY <1>3, WrapModFour DEF Id
  <2>2. Smaller(l.draftLen, MaxBlock) \in Nat \ {0}
    BY <1>2, <1>3 DEF Smaller, MaxBlock
  <2> QED
    BY <2>1, <2>2 DEF InitialRequest, Descriptor, Rate, Unit
<1>5. KernelTypes
  BY <1>1, <1>2, <1>4 DEF KernelTypes, MegaInit, Places
<1>6. ASSUME NEW b \in Blocks PROVE BlockInv(b)
  <2>1. /\ at[b] = "loop" /\ iteration[b] = 0 /\ request[b] = InitialRequest(l, b)
        /\ page[b] = [p \in Pages |-> "FREE"] /\ selected[b] = {}
    BY <1>1, <1>2, <1>6 DEF MegaInit
  <2>2. Adapted(b)
    BY <2>1 DEF Adapted, Fresh, InitialRequest
  <2>3. Yielding(b)
    BY <1>3, <2>1 DEF Yielding, InitialRequest, Larger
  <2> QED
    BY <2>1, <2>2, <2>3 DEF BlockInv, Drafted, Paged, Pages
<1> QED
  BY <1>5, <1>6, InitIInv DEF KInv

-----------------------------------------------------------------------------
(* A step of one block leaves the others as they are.                        *)

(* Block c and its region of the buffer.                                     *)
Kept(c) ==
    /\ launch' = launch /\ at'[c] = at[c] /\ iteration'[c] = iteration[c]
    /\ request'[c] = request[c] /\ page'[c] = page[c] /\ selected'[c] = selected[c]
    /\ at[c] = "verify" =>
          \A i \in 0 .. request[c].draftLen - 1 :
              draftTokens'[DraftOffset(c) + i] = draftTokens[DraftOffset(c) + i]

LEMMA KeptInv ==
  ASSUME NEW c \in Blocks, BlockInv(c), Kept(c)
  PROVE  BlockInv(c)'
<1>1. Adapted(c)'
  BY DEF BlockInv, Kept, Adapted, Fresh, IsDone
<1>2. Drafted(c)'
  BY DEF BlockInv, Kept, Drafted, DraftOffset, DraftToken, DraftCount, BudgetLeft
<1>3. Yielding(c)'
  BY DEF BlockInv, Kept, Yielding, IsDone
<1>4. Paged(c)'
  BY DEF BlockInv, Kept, Paged
<1> QED
  BY <1>1, <1>2, <1>3, <1>4 DEF BlockInv

LEMMA OneBlockStep ==
  ASSUME KInv, IInv', KernelTypes', NEW b \in Blocks, launch' = launch,
         \A c \in Blocks \ {b} : Kept(c), BlockInv(b)'
  PROVE  KInv'
<1>1. Blocks' = Blocks
  BY DEF Blocks
<1>2. \A c \in Blocks : BlockInv(c)'
  BY KeptInv DEF KInv
<1> QED
  BY <1>1, <1>2 DEF KInv

(* A draft fits in the region of its block.                                  *)
LEMMA DraftFits ==
  ASSUME KInv, NEW b \in Blocks, at[b] \in {"decode", "verify"}
  PROVE  /\ DraftCount(request[b]) \in Nat
         /\ DraftCount(request[b]) <= DraftStride(launch)
         /\ request[b] \in Descriptor
         /\ ~IsDone(request[b])
<1>1. launch \in Launches /\ ~IsDone(request[b]) /\ request[b] \in Descriptor
  BY DEF KInv, IInv, Shapes, Working, KernelTypes
<1>2. request[b].block <= DraftStride(launch)
  <2>1. request[b].block \in {1, 4, launch.draftLen}
    BY <1>1 DEF KInv, BlockInv, Adapted
  <2> QED
    BY <1>1, <2>1, LaunchFacts
<1>3. request[b].block \in Nat
  BY <1>1 DEF Descriptor
<1> QED
  BY <1>1, <1>2, <1>3, LaunchFacts, DraftCountBounds

-----------------------------------------------------------------------------
(* The steps.                                                                *)

(* The loop condition of a first iteration resets rate and block.            *)
StartRate == 8000

LEMMA LoopKInv ==
  ASSUME KInv, NEW b \in Blocks, Loop(b)
  PROVE  KInv'
<1>1. IInv' /\ IInv /\ KernelTypes /\ BlockInv(b)
  BY LoopIInv DEF KInv
<1>2. launch' = launch /\ launch \in Launches /\ Blocks' = Blocks
  BY <1>1 DEF Loop, IInv, Shapes, Blocks
<1>3. PICK flag \in FlagReads(b) :
        /\ at'[b] \in {"exited", "count", "decode"}
        /\ at'[b] = "exited" <=> Leaves(b, flag)
        /\ at'[b] = "count" => IsDone(request[b])
  BY <1>1 DEF Loop, KernelTypes
<1>4. /\ at[b] = "loop"
      /\ \A c \in Blocks \ {b} : at'[c] = at[c]
      /\ at' \in [Blocks -> Places]
  BY <1>1 DEF Loop, KernelTypes, Places
<1>5. UNCHANGED <<iteration, page, selected, draftTokens>>
  BY DEF Loop
<1>6. request' = IF at'[b] # "exited" /\ iteration[b] = 0
                 THEN [request EXCEPT ![b].rate = StartRate, ![b].block = launch.draftLen]
                 ELSE request
  BY DEF Loop, StartRate
<1>7. launch.draftLen \in Nat \ {0} /\ launch.maxIterations \in Nat
  BY <1>2, LaunchFacts
<1>8. request[b] \in Descriptor /\ iteration[b] \in Nat
  BY <1>1 DEF KernelTypes
<1>9. /\ request' \in [Blocks -> Descriptor]
      /\ \A c \in Blocks \ {b} : request'[c] = request[c]
      /\ request'[b].state = request[b].state /\ request'[b].output = request[b].output
      /\ request'[b].lastToken = request[b].lastToken
      /\ at'[b] # "exited" /\ iteration[b] = 0
            => request'[b].rate = 8000 /\ request'[b].block = launch.draftLen
      /\ iteration[b] # 0 => request'[b] = request[b]
  <2>1. CASE at'[b] # "exited" /\ iteration[b] = 0
    <3>1. request \in [Blocks -> Descriptor]
      BY <1>1 DEF KernelTypes
    <3>2. StartRate \in Rate
      BY DEF StartRate, Rate, Unit
    <3>3. request' = [request EXCEPT ![b].rate = StartRate, ![b].block = launch.draftLen]
      BY <1>6, <2>1
    <3>4. /\ request' \in [Blocks -> Descriptor]
          /\ request'[b].rate = StartRate /\ request'[b].block = launch.draftLen
          /\ request'[b].state = request[b].state /\ request'[b].output = request[b].output
          /\ request'[b].lastToken = request[b].lastToken
          /\ \A c \in Blocks \ {b} : request'[c] = request[c]
      <4>1. PICK r \in Descriptor : r = request[b]
        BY <3>1
      <4>2. PICK s : s = [r EXCEPT !.rate = StartRate, !.block = launch.draftLen]
        OBVIOUS
      <4>3. /\ s \in Descriptor /\ s.rate = StartRate /\ s.block = launch.draftLen
            /\ s.state = r.state /\ s.output = r.output /\ s.lastToken = r.lastToken
        BY <1>7, <3>2, <4>2 DEF Descriptor
      <4>4. request' = [request EXCEPT ![b] = s]
        BY <3>1, <3>3, <4>1, <4>2
      <4> QED
        BY <3>1, <4>1, <4>3, <4>4
    <3> QED
      BY <2>1, <3>4 DEF StartRate
  <2>2. CASE ~(at'[b] # "exited" /\ iteration[b] = 0)
    BY <1>1, <1>6, <2>2 DEF KernelTypes
  <2> QED
    BY <2>1, <2>2
<1>10. KernelTypes'
  BY <1>1, <1>2, <1>4, <1>5, <1>9 DEF KernelTypes
<1>11. \A c \in Blocks \ {b} : Kept(c)
  BY <1>2, <1>4, <1>5, <1>9 DEF Kept
<1>12. IsDone(request[b])' <=> IsDone(request[b])
  BY <1>9 DEF IsDone
<1>13. Adapted(b)'
  <2>1. CASE iteration[b] = 0
    BY <1>1, <1>2, <1>3, <1>4, <1>5, <1>9, <1>12, <2>1 DEF BlockInv, Adapted, Fresh
  <2>2. CASE iteration[b] # 0
    BY <1>1, <1>2, <1>3, <1>4, <1>5, <1>9, <1>12, <2>2 DEF BlockInv, Adapted, Fresh
  <2> QED
    BY <2>1, <2>2
<1>14. Drafted(b)'
  BY <1>3 DEF Drafted
<1>15. Yielding(b)'
  <2>1. flag => IsDone(request[b])
    BY <1>1 DEF FlagReads, IInv, FlagMeansAllDone
  <2>2. ~IsDone(request[b]) => (at'[b] = "exited" <=> iteration[b] >= launch.maxIterations)
    BY <1>3, <2>1 DEF Leaves
  <2>3. at'[b] \in {"decode", "count"} => ~(iteration[b] >= launch.maxIterations)
    BY <1>3 DEF Leaves
  <2>4. at'[b] \in {"decode", "count"} => iteration[b] < launch.maxIterations
    BY <1>7, <1>8, <2>3
  <2> QED
    BY <1>1, <1>2, <1>3, <1>4, <1>5, <1>7, <1>8, <1>9, <1>12, <2>2, <2>4 DEF BlockInv, Yielding
<1>16. Paged(b)'
  BY <1>1, <1>5 DEF BlockInv, Paged
<1>17. BlockInv(b)'
  BY <1>13, <1>14, <1>15, <1>16 DEF BlockInv
<1> QED
  BY <1>1, <1>2, <1>10, <1>11, <1>17, OneBlockStep

LEMMA DecodeKInv ==
  ASSUME KInv, NEW b \in Blocks, Decode(b)
  PROVE  KInv'
<1> DEFINE r == request[b]
           n == DraftCount(request[b])
<1>1. IInv' /\ IInv /\ KernelTypes /\ BlockInv(b) /\ at[b] = "decode"
  BY DecodeIInv DEF KInv, Decode
<1>2. launch' = launch /\ launch \in Launches /\ Blocks' = Blocks /\ Blocks \subseteq Nat
  BY <1>1, LaunchFacts DEF Decode, IInv, Shapes, Blocks
<1>3. /\ n \in Nat /\ n <= DraftStride(launch) /\ DraftStride(launch) \in Nat
      /\ r \in Descriptor /\ ~IsDone(r)
  BY <1>1, <1>2, DraftFits, LaunchFacts
<1>4. /\ at' = [at EXCEPT ![b] = "verify"]
      /\ request' = [request EXCEPT ![b].draftLen = n, ![b].state = "DRAFT_READY"]
      /\ selected' = [selected EXCEPT ![b] = SelectSparseKvBlocks(r, page[b])]
      /\ draftTokens' = [k \in DOMAIN draftTokens |->
                            IF k \in DraftOffset(b) .. DraftOffset(b) + n - 1
                            THEN DraftToken(b, r, k - DraftOffset(b)) ELSE draftTokens[k]]
      /\ UNCHANGED <<iteration, page>>
  BY DEF Decode
<1>5. /\ at' \in [Blocks -> Places] /\ at'[b] = "verify"
      /\ \A c \in Blocks \ {b} : at'[c] = at[c]
  BY <1>1, <1>4 DEF KernelTypes, Places
<1>6. /\ request' \in [Blocks -> Descriptor]
      /\ \A c \in Blocks \ {b} : request'[c] = request[c]
      /\ request'[b].state = "DRAFT_READY" /\ request'[b].draftLen = n
      /\ request'[b].output = r.output /\ request'[b].lastToken = r.lastToken
      /\ request'[b].rate = r.rate /\ request'[b].block = r.block
  <2>1. [r EXCEPT !.draftLen = n, !.state = "DRAFT_READY"] \in Descriptor
    BY <1>3 DEF Descriptor
  <2>2. request' = [request EXCEPT ![b] = [r EXCEPT !.draftLen = n, !.state = "DRAFT_READY"]]
    BY <1>4
  <2> QED
    BY <1>1, <1>3, <2>1, <2>2 DEF KernelTypes, Descriptor
<1>7. SelectSparseKvBlocks(r, page[b]) \subseteq {p \in Pages : page[b][p] = "COMMITTED"}
  BY DEF SelectSparseKvBlocks
<1>8. /\ selected' \in [Blocks -> SUBSET Pages]
      /\ selected'[b] \subseteq {p \in Pages : page[b][p] = "COMMITTED"}
      /\ \A c \in Blocks \ {b} : selected'[c] = selected[c]
  BY <1>1, <1>4, <1>7 DEF KernelTypes
<1>9. KernelTypes'
  BY <1>1, <1>2, <1>4, <1>5, <1>6, <1>8 DEF KernelTypes
<1>10. ASSUME NEW c \in Blocks, NEW i \in 0 .. DraftStride(launch) - 1
       PROVE  /\ DraftOffset(c) + i \in DOMAIN draftTokens
              /\ DraftOffset(c) \in Nat
              /\ c # b => ~(DraftOffset(c) + i \in DraftOffset(b) .. DraftOffset(b) + n - 1)
  <2>1. c * DraftStride(launch) + i \in 0 .. launch.n * DraftStride(launch) + MaxBlock
    BY <1>2, <1>3, LaunchFacts, RegionInBuffer DEF Blocks
  <2>2. c * DraftStride(launch) \in Nat /\ b * DraftStride(launch) \in Nat
    BY <1>2, <1>3
  <2>3. ASSUME c # b, c * DraftStride(launch) + i
                        \in b * DraftStride(launch) .. b * DraftStride(launch) + n - 1
        PROVE  FALSE
    <3>1. PICK j \in 0 .. DraftStride(launch) - 1 :
            c * DraftStride(launch) + i = b * DraftStride(launch) + j
      <4>1. c * DraftStride(launch) + i - b * DraftStride(launch) \in 0 .. DraftStride(launch) - 1
        BY <1>3, <2>2, <2>3
      <4> QED
        BY <2>2, <4>1
    <3> QED
      BY <1>2, <1>3, <2>3, <3>1, RegionsApart
  <2> QED
    BY <1>1, <2>1, <2>2, <2>3 DEF DraftOffset, KernelTypes
<1>11. ASSUME NEW c \in Blocks \ {b} PROVE Kept(c)
  <2>1. ASSUME at[c] = "verify", NEW i \in 0 .. request[c].draftLen - 1
        PROVE  draftTokens'[DraftOffset(c) + i] = draftTokens[DraftOffset(c) + i]
    <3>1. request[c].draftLen \in Nat /\ request[c].draftLen <= DraftStride(launch)
      <4>1. request[c].draftLen = DraftCount(request[c])
        BY <2>1 DEF KInv, BlockInv, Drafted
      <4> QED
        BY <2>1, <4>1, DraftFits
    <3>2. i \in 0 .. DraftStride(launch) - 1
      BY <1>3, <3>1
    <3> QED
      BY <1>4, <1>10, <3>2
  <2> QED
    BY <1>2, <1>4, <1>5, <1>6, <1>8, <2>1 DEF Kept
<1>12. ~IsDone(request[b]) /\ ~IsDone(request[b])'
  BY <1>3, <1>6 DEF IsDone
<1>13. Adapted(b)'
  BY <1>1, <1>2, <1>4, <1>5, <1>6, <1>12 DEF BlockInv, Adapted, Fresh
<1>14. Drafted(b)'
  <2>1. request'[b].draftLen = DraftCount(request[b])'
    BY <1>2, <1>6 DEF DraftCount, BudgetLeft
  <2>2. ASSUME NEW i \in 0 .. n - 1
        PROVE  draftTokens'[DraftOffset(b) + i] = DraftToken(b, r, i)
    <3>1. i \in 0 .. DraftStride(launch) - 1
      BY <1>3
    <3>2. DraftOffset(b) + i \in DOMAIN draftTokens /\ DraftOffset(b) \in Nat
      BY <1>10, <3>1
    <3>3. /\ DraftOffset(b) + i \in DraftOffset(b) .. DraftOffset(b) + n - 1
          /\ DraftOffset(b) + i - DraftOffset(b) = i
      BY <1>3, <3>2
    <3> QED
      BY <1>4, <3>2, <3>3
  <2>3. \A i \in 0 .. n - 1 : DraftToken(b, r, i) = DraftToken(b, request'[b], i)
    BY <1>6 DEF DraftToken
  <2>4. DraftOffset(b)' = DraftOffset(b)
    BY <1>2 DEF DraftOffset
  <2> QED
    BY <1>6, <2>1, <2>2, <2>3, <2>4 DEF Drafted, DraftToken
<1>15. Yielding(b)'
  BY <1>1, <1>2, <1>4, <1>5, <1>6, <1>12 DEF BlockInv, Yielding
<1>16. Paged(b)'
  BY <1>1, <1>4, <1>8 DEF BlockInv, Paged
<1>17. BlockInv(b)'
  BY <1>13, <1>14, <1>15, <1>16 DEF BlockInv
<1> QED
  BY <1>1, <1>2, <1>9, <1>11, <1>17, OneBlockStep

(* What stage_commit leaves in the descriptor.                               *)
LEMMA CommitFields ==
  ASSUME NEW b \in Nat, NEW q \in Descriptor, NEW n \in Nat, launch.maxNew \in Nat
  PROVE  /\ AfterCommit(b, q, n) \in Descriptor
         /\ AfterCommit(b, q, n).output = q.output + (IF n = 0 THEN 1 ELSE n)
         /\ AfterCommit(b, q, n).rate = q.rate /\ AfterCommit(b, q, n).block = q.block
         /\ AfterCommit(b, q, n).state # "COMPLETE" => AfterCommit(b, q, n).output < launch.maxNew
<1>1. PICK out \in Nat : out = q.output + (IF n = 0 THEN 1 ELSE n)
  BY DEF Descriptor
<1>2. FallbackToken(b, q) \in 0 .. Vocab - 1
  <2>1. q.lastToken + 1 + Id(b) \in Nat
    BY LastTokenNat DEF Id
  <2> QED
    BY <2>1, WrapModFour DEF FallbackToken
<1>3. PICK last \in 0 .. Vocab - 1 : last = IF n = 0 THEN FallbackToken(b, q) ELSE 0
  <2>1. 0 \in 0 .. Vocab - 1
    BY DEF Vocab
  <2> QED
    BY <1>2, <2>1
<1>4. PICK new \in {"COMPLETE", "DECODE_READY"} :
        /\ new = IF \/ n = 0 /\ FallbackToken(b, q) = EosToken
                    \/ out >= launch.maxNew
                 THEN "COMPLETE" ELSE "DECODE_READY"
  OBVIOUS
<1>5. AfterCommit(b, q, n) = [q EXCEPT !.lastToken = last, !.output = out, !.state = new]
  BY <1>1, <1>3, <1>4 DEF AfterCommit
<1>6. PICK s : s = [q EXCEPT !.lastToken = last, !.output = out, !.state = new]
  OBVIOUS
<1>7. /\ s \in Descriptor /\ s.output = out /\ s.rate = q.rate /\ s.block = q.block
      /\ s.state = new
  BY <1>6 DEF Descriptor
<1>8. new = "DECODE_READY" => out < launch.maxNew
  BY <1>4
<1> QED
  BY <1>1, <1>5, <1>6, <1>7, <1>8

(* The prefix of the draft that verify accepts: none of the first, less than *)
(* four of four, and if all of a shorter one, then the budget is used up.    *)
LEMMA VerifyBounds ==
  ASSUME KInv, NEW b \in Blocks, at[b] = "verify",
         NEW n, n = AcceptedPrefix(b, request[b]),
         NEW m, m = Smaller(request[b].draftLen, BudgetLeft(request[b]))
  PROVE  /\ n \in 0 .. 3 /\ m \in Int
         /\ n <= m \/ n = 0
         /\ Fresh(b) => n = 0
         /\ ~Fresh(b) => m <= 4
         /\ ~Fresh(b) /\ request[b].block = 4 /\ n # 0 /\ n = m
               => request[b].output + n >= launch.maxNew
<1>1. PICK r \in Descriptor : r = request[b]
  BY DEF KInv, KernelTypes
<1>2. /\ launch \in Launches /\ launch.maxNew \in Nat /\ ~IsDone(r) /\ b \in Nat
      /\ Adapted(b) /\ Drafted(b)
  BY <1>1, LaunchFacts DEF KInv, IInv, Shapes, Working, BlockInv
<1>3. /\ m \in Int /\ n \in 0 .. Larger(m, 0)
      /\ \A i \in 0 .. m - 1 : draftTokens[DraftOffset(b) + i] % 4 = 0 => n <= i
  <2>1. m \in Int
    BY <1>1, <1>2 DEF Descriptor, BudgetLeft, Smaller
  <2> QED
    BY <1>1, <1>2, <2>1, PrefixBounds
<1>4. n \in Nat /\ (n <= m \/ n = 0)
  BY <1>3 DEF Larger
<1>5. /\ r.draftLen = DraftCount(r) /\ m <= r.draftLen /\ r.draftLen <= r.block
      /\ r.draftLen \in Nat /\ r.block \in Nat /\ r.output \in Nat /\ BudgetLeft(r) \in Int
  BY <1>1, <1>2, DraftCountBounds DEF Drafted, Descriptor, Smaller
<1>6. ASSUME NEW i \in 0 .. m - 1, DraftToken(b, r, i) % 4 = 0
      PROVE  n <= i
  <2>1. i \in 0 .. r.draftLen - 1
    BY <1>3, <1>5
  <2>2. draftTokens[DraftOffset(b) + i] = DraftToken(b, r, i)
    BY <1>1, <1>2, <2>1 DEF Drafted
  <2> QED
    BY <1>3, <1>6, <2>2
<1>7. Fresh(b) => n = 0
  <2>1. SUFFICES ASSUME Fresh(b), n # 0 PROVE FALSE
    OBVIOUS
  <2>2. r.lastToken = (Id(b) * 7 + 3) % Vocab
    BY <1>1, <1>2, <2>1 DEF Adapted
  <2>3. DraftToken(b, r, 0) % 4 = 0
    BY <1>2, <2>2, FirstRejected
  <2>4. 0 \in 0 .. m - 1
    BY <1>3, <1>4, <2>1
  <2> QED
    BY <1>4, <1>6, <2>1, <2>3, <2>4
<1>8. ~Fresh(b) => r.block \in {1, 4}
  BY <1>1, <1>2 DEF Adapted
<1>9. ~Fresh(b) => m <= 4
  BY <1>3, <1>5, <1>8
<1>10. ~Fresh(b) => n <= 3
  <2>1. SUFFICES ASSUME ~Fresh(b), n > 3 PROVE FALSE
    BY <1>4
  <2>2. m = 4
    BY <1>3, <1>4, <1>9, <2>1
  <2>3. PICK i \in 0 .. 3 : DraftToken(b, r, i) % 4 = 0
    BY <1>2, OneOfFour
  <2>4. n <= i
    BY <1>6, <2>2, <2>3
  <2> QED
    BY <1>4, <2>1, <2>4
<1>11. ASSUME ~Fresh(b), r.block = 4, n # 0, n = m PROVE r.output + n >= launch.maxNew
  <2>1. n <= 3
    BY <1>10, <1>11
  <2>2. m = BudgetLeft(r)
    BY <1>1, <1>4, <1>5, <1>11, <2>1 DEF DraftCount, Smaller, Larger
  <2> QED
    BY <1>2, <1>5, <1>11, <2>2 DEF BudgetLeft
<1> QED
  BY <1>1, <1>3, <1>4, <1>7, <1>9, <1>10, <1>11

(* At most the first page is committed, and no other is touched.             *)
FirstOnly(pages) ==
    /\ pages \in [Pages -> {"FREE", "COMMITTED"}]
    /\ \A p \in Pages : p # 0 => pages[p] = "FREE"

StaysCommitted(old, pages) ==
    \A p \in Pages : old[p] = "COMMITTED" => pages[p] = "COMMITTED"

(* A prefix of less than four tokens commits the first page at most.         *)
LEMMA CommittedPages ==
  ASSUME NEW r, NEW n \in 0 .. 3, NEW old, FirstOnly(old)
  PROVE  /\ FirstOnly(PagesAfterCommit(r, old, n))
         /\ StaysCommitted(old, PagesAfterCommit(r, old, n))
<1> USE DEF FirstOnly, StaysCommitted
<1>1. CASE n = 0
  BY <1>1 DEF PagesAfterCommit
<1>2. CASE n # 0
  <2>1. HitPages(r, n) = 1
    BY <1>2 DEF HitPages, PageSize, Smaller
  <2>2. \A p \in Pages : p < HitPages(r, n) <=> p = 0
    BY <2>1 DEF Pages
  <2>3. PagesAfterCommit(r, old, n)
          = [p \in Pages |-> IF p < HitPages(r, n) THEN "COMMITTED"
                             ELSE IF old[p] = "DRAFT" THEN "EVICTABLE" ELSE old[p]]
    BY <1>2 DEF PagesAfterCommit
  <2> QED
    BY <2>2, <2>3
<1> QED
  BY <1>1, <1>2

LEMMA VerifyAndCommitKInv ==
  ASSUME KInv, NEW b \in Blocks, VerifyAndCommit(b)
  PROVE  KInv'
<1>1. IInv' /\ IInv /\ KernelTypes /\ BlockInv(b) /\ at[b] = "verify"
  BY VerifyAndCommitIInv DEF KInv, VerifyAndCommit
<1>2. /\ launch' = launch /\ launch \in Launches /\ Blocks' = Blocks /\ b \in Nat
      /\ launch.maxNew \in Nat /\ launch.maxIterations \in Nat
  BY <1>1, LaunchFacts DEF VerifyAndCommit, IInv, Shapes, Blocks
<1>3. PICK r \in Descriptor : r = request[b] /\ ~IsDone(r)
  BY <1>1 DEF KernelTypes, IInv, Working
<1>4. PICK n, m : n = AcceptedPrefix(b, r) /\ m = Smaller(r.draftLen, BudgetLeft(r))
  OBVIOUS
<1>5. /\ n \in 0 .. 3 /\ m \in Int
      /\ n <= m \/ n = 0
      /\ Fresh(b) => n = 0
      /\ ~Fresh(b) => m <= 4
      /\ ~Fresh(b) /\ r.block = 4 /\ n # 0 /\ n = m => r.output + n >= launch.maxNew
  BY <1>1, <1>3, <1>4, VerifyBounds
<1>6. r.rate \in Rate /\ r.output \in Nat /\ n \in Nat
  BY <1>3, <1>5 DEF Descriptor
<1>7. PICK rate \in Rate : rate = DeviceRate(r.rate, n, m)
  BY <1>5, <1>6, RateBounds
<1>8. PICK e \in Int, d \in Int :
        /\ e = r.rate /\ d = rate
        /\ n = 0 => 10 * d <= 8 * e
        /\ n < m /\ m <= 4 => 10 * d <= 8 * e + 15000
        /\ 10 * d <= 8 * e + 20000
        /\ 10 * d + 9 >= 8 * e
  <2>1. PICK e \in Rate : e = r.rate
    BY <1>6
  <2>2. /\ DeviceRate(e, n, m) \in Rate
        /\ n = 0 => 10 * DeviceRate(e, n, m) <= 8 * e
        /\ n < m /\ m <= 4 => 10 * DeviceRate(e, n, m) <= 8 * e + 15000
        /\ 10 * DeviceRate(e, n, m) <= 8 * e + 20000
        /\ 10 * DeviceRate(e, n, m) + 9 >= 8 * e
    <3>1. n \in Nat /\ m \in Int /\ (n <= m \/ n = 0)
      BY <1>5, <1>6
    <3> QED
      BY <3>1, RateBounds
  <2>3. rate = DeviceRate(e, n, m)
    BY <1>7, <2>1
  <2>4. ASSUME NEW x \in Rate PROVE x \in Int
    BY DEF Rate, Unit
  <2> QED
    BY <2>1, <2>2, <2>3, <2>4
<1>9. PICK block \in DeviceBlocks(rate, FALSE) :
        /\ request' = [request EXCEPT ![b] =
                          AfterCommit(b, [r EXCEPT !.rate = rate, !.block = block], n)]
        /\ page' = [page EXCEPT ![b] = PagesAfterCommit(r, page[b], n)]
  BY <1>3, <1>4, <1>7 DEF VerifyAndCommit
<1>10. /\ at' = [at EXCEPT ![b] = "count"]
       /\ UNCHANGED <<iteration, selected, draftTokens>>
  BY DEF VerifyAndCommit
<1>11. /\ block \in {1, 4, 8}
       /\ block = 8 => rate >= 8000 - Slack
       /\ block = 1 => rate < 5000 + Slack
       /\ block \in Nat \ {0}
  <2>1. /\ block \in {1, 4, 8}
        /\ block = 8 => rate >= 8000 - Slack
        /\ block = 1 => rate < 5000 + Slack
    <3>1. PICK x \in Near(rate) : block = DeviceBlock(x, FALSE)
      BY DEF DeviceBlocks
    <3>2. x \in Int /\ rate - Slack <= x /\ x <= rate + Slack
      BY <3>1 DEF Near, Slack, Rate, Unit
    <3> QED
      BY <3>1, <3>2 DEF DeviceBlock, Slack, Rate, Unit
  <2> QED
    BY <2>1
<1>12. PICK q : q = [r EXCEPT !.rate = rate, !.block = block]
  OBVIOUS
<1>13. /\ q \in Descriptor /\ q.rate = rate /\ q.block = block /\ q.output = r.output
  <2>1. block \in Nat \ {0}
    BY <1>11
  <2> QED
    BY <1>12, <2>1 DEF Descriptor
<1>14. PICK s \in Descriptor :
         /\ s = AfterCommit(b, q, n)
         /\ s.output = r.output + (IF n = 0 THEN 1 ELSE n)
         /\ s.rate = rate /\ s.block = block
         /\ ~IsDone(s) => s.output < launch.maxNew
  <2>1. PICK s : s = AfterCommit(b, q, n)
    OBVIOUS
  <2>2. /\ s \in Descriptor /\ s.output = q.output + (IF n = 0 THEN 1 ELSE n)
        /\ s.rate = q.rate /\ s.block = q.block
        /\ s.state # "COMPLETE" => s.output < launch.maxNew
    <3>1. b \in Nat /\ n \in Nat /\ launch.maxNew \in Nat /\ q \in Descriptor
      BY <1>2, <1>6, <1>13
    <3> QED
      BY <2>1, <3>1, CommitFields, ZenonT(40)
  <2> QED
    BY <1>13, <2>1, <2>2 DEF IsDone
<1>15. request' = [request EXCEPT ![b] = s]
  BY <1>9, <1>12, <1>14
<1>16. /\ request' \in [Blocks -> Descriptor] /\ request'[b] = s
       /\ \A c \in Blocks \ {b} : request'[c] = request[c]
  BY <1>1, <1>15 DEF KernelTypes
<1>17. /\ at' \in [Blocks -> Places] /\ at'[b] = "count"
       /\ \A c \in Blocks \ {b} : at'[c] = at[c]
  BY <1>1, <1>10 DEF KernelTypes, Places
<1>18. /\ FirstOnly(page[b])
       /\ selected[b] \subseteq {p \in Pages : page[b][p] = "COMMITTED"}
  BY <1>1 DEF KernelTypes, BlockInv, Paged, FirstOnly
<1>19. PICK new : /\ new = PagesAfterCommit(r, page[b], n)
                 /\ FirstOnly(new) /\ StaysCommitted(page[b], new)
  BY <1>5, <1>18, CommittedPages
<1>20. /\ page' \in [Blocks -> [Pages -> {"FREE", "DRAFT", "COMMITTED", "EVICTABLE"}]]
       /\ page'[b] = new
       /\ \A c \in Blocks \ {b} : page'[c] = page[c]
  BY <1>1, <1>9, <1>19 DEF KernelTypes, FirstOnly
<1>21. KernelTypes'
  BY <1>1, <1>2, <1>10, <1>16, <1>17, <1>20 DEF KernelTypes
<1>22. \A c \in Blocks \ {b} : Kept(c)
  BY <1>2, <1>10, <1>16, <1>17, <1>20 DEF Kept
<1>23. Adapted(b)'
  <2>1. SUFFICES ASSUME ~IsDone(s)
                 PROVE  /\ block \in {1, 4} /\ rate <= 7500
                        /\ block = 1 => rate < 5000 + Slack
    BY <1>16, <1>17, <1>14 DEF Adapted, Fresh, IsDone
  <2>2. d <= 7500
    <3>1. CASE Fresh(b)
      <4>1. e = 8000 /\ n = 0
        BY <1>1, <1>3, <1>5, <1>8, <3>1 DEF BlockInv, Adapted
      <4> QED
        BY <1>8, <4>1
    <3>2. CASE ~Fresh(b)
      <4>1. /\ r.block \in {1, 4} /\ e <= 7500
            /\ r.block = 1 => e < 5006
        BY <1>1, <1>3, <1>8, <3>2 DEF BlockInv, Adapted, Slack
      <4>2. CASE r.block = 1
        <5>1. 10 * d <= 8 * e + 20000
          BY <1>8
        <5> QED
          BY <4>1, <4>2, <5>1
      <4>3. CASE r.block = 4
        <5>1. n = 0 \/ (n < m /\ m <= 4)
          <6>1. ASSUME n # 0, n = m PROVE FALSE
            <7>1. s.output = r.output + n /\ s.output < launch.maxNew
              BY <1>14, <2>1, <6>1
            <7> QED
              BY <1>2, <1>5, <1>6, <3>2, <4>3, <6>1, <7>1
          <6> QED
            BY <1>5, <3>2, <6>1
        <5>2. 10 * d <= 8 * e \/ 10 * d <= 8 * e + 15000
          BY <1>8, <5>1
        <5> QED
          BY <4>1, <5>2
      <4> QED
        BY <4>1, <4>2, <4>3
    <3> QED
      BY <3>1, <3>2
  <2> QED
    BY <1>8, <1>11, <2>2 DEF Slack
<1>24. Drafted(b)'
  BY <1>17 DEF Drafted
<1>25. Yielding(b)'
  <2>1. /\ iteration[b] \in Nat /\ iteration[b] < launch.maxIterations
        /\ r.output >= iteration[b]
    BY <1>1, <1>3 DEF KernelTypes, BlockInv, Yielding
  <2>2. s.output >= r.output + 1
    BY <1>5, <1>6, <1>14
  <2>3. s.output \in Nat /\ s.output >= iteration[b] + 1
    BY <1>6, <2>1, <2>2 DEF Descriptor
  <2>4. ~IsDone(s) => s.output < Larger(launch.maxNew, 1)
    BY <1>2, <1>14, <2>3 DEF Larger
  <2>5. iteration' = iteration /\ launch' = launch
    BY <1>2, <1>10
  <2>6. iteration[b] <= launch.maxIterations
    BY <1>2, <2>1
  <2> QED
    BY <1>16, <1>17, <2>1, <2>3, <2>4, <2>5, <2>6 DEF Yielding, IsDone
<1>26. Paged(b)'
  BY <1>10, <1>18, <1>19, <1>20 DEF Paged, FirstOnly, StaysCommitted, Pages
<1>27. BlockInv(b)'
  BY <1>23, <1>24, <1>25, <1>26 DEF BlockInv
<1> QED
  BY <1>1, <1>2, <1>21, <1>22, <1>27, OneBlockStep

(* Count and Poll end an iteration, or go on to Poll.                        *)
LEMMA EndOfIteration ==
  ASSUME KInv, IInv', NEW b \in Blocks, at[b] \in {"count", "poll"},
         UNCHANGED <<launch, request, page, selected, draftTokens>>,
         NextIteration(b) \/ (at' = [at EXCEPT ![b] = "poll"] /\ UNCHANGED iteration)
  PROVE  KInv'
<1>1. /\ KernelTypes /\ BlockInv(b) /\ launch \in Launches /\ Blocks' = Blocks
  BY DEF KInv, IInv, Shapes, Blocks
<1>2. launch.maxIterations \in Nat /\ iteration[b] \in Nat
  BY <1>1, LaunchFacts DEF KernelTypes
<1>3. /\ at' \in [Blocks -> Places] /\ iteration' \in [Blocks -> Nat]
      /\ \A c \in Blocks \ {b} : at'[c] = at[c] /\ iteration'[c] = iteration[c]
      /\ \/ at'[b] = "loop" /\ iteration'[b] = iteration[b] + 1
         \/ at'[b] = "poll" /\ iteration'[b] = iteration[b]
  <2>1. at \in [Blocks -> Places] /\ iteration \in [Blocks -> Nat]
    BY <1>1 DEF KernelTypes
  <2>2. CASE NextIteration(b)
    <3>1. /\ iteration' = [iteration EXCEPT ![b] = iteration[b] + 1]
          /\ at' = [at EXCEPT ![b] = "loop"]
      BY <2>2 DEF NextIteration
    <3> QED
      BY <1>2, <2>1, <3>1 DEF Places
  <2>3. CASE at' = [at EXCEPT ![b] = "poll"] /\ UNCHANGED iteration
    BY <2>1, <2>3 DEF Places
  <2> QED
    BY <2>2, <2>3
<1>4. KernelTypes'
  BY <1>1, <1>3 DEF KernelTypes
<1>5. \A c \in Blocks \ {b} : Kept(c)
  BY <1>3 DEF Kept
<1>6. Adapted(b)'
  <2>1. ~Fresh(b) /\ at[b] # "exited"
    BY DEF Fresh
  <2>2. ~Fresh(b)'
    BY <1>2, <1>3 DEF Fresh
  <2> QED
    BY <1>1, <2>1, <2>2 DEF BlockInv, Adapted, IsDone
<1>7. Drafted(b)'
  BY <1>3 DEF Drafted
<1>8. Yielding(b)'
  <2>1. /\ iteration[b] < launch.maxIterations
        /\ ~IsDone(request[b]) => /\ request[b].output < Larger(launch.maxNew, 1)
                                  /\ request[b].output >= iteration[b] + 1
    BY <1>1 DEF BlockInv, Yielding
  <2>2. iteration'[b] <= launch.maxIterations
    BY <1>2, <1>3, <2>1
  <2>3. at'[b] = "poll" => iteration'[b] < launch.maxIterations
    BY <1>3, <2>1
  <2> QED
    BY <1>2, <1>3, <2>1, <2>2, <2>3 DEF Yielding, IsDone
<1>9. Paged(b)'
  BY <1>1 DEF BlockInv, Paged
<1>10. BlockInv(b)'
  BY <1>6, <1>7, <1>8, <1>9 DEF BlockInv
<1> QED
  BY <1>1, <1>4, <1>5, <1>10, OneBlockStep

LEMMA CountKInv ==
  ASSUME KInv, NEW b \in Blocks, Count(b)
  PROVE  KInv'
<1>1. IInv'
  BY CountIInv DEF KInv
<1>2. /\ at[b] = "count" /\ UNCHANGED <<launch, request, page, selected, draftTokens>>
      /\ NextIteration(b) \/ (at' = [at EXCEPT ![b] = "poll"] /\ UNCHANGED iteration)
  BY DEF Count
<1> QED
  BY <1>1, <1>2, EndOfIteration

LEMMA PollKInv ==
  ASSUME KInv, Poll
  PROVE  KInv'
<1>1. IInv' /\ 0 \in Blocks
  BY PollIInv, BlocksFinite DEF KInv, IInv, Shapes
<1>2. /\ at[0] = "poll" /\ UNCHANGED <<launch, request, page, selected, draftTokens>>
      /\ NextIteration(0)
  BY DEF Poll
<1> QED
  BY <1>1, <1>2, EndOfIteration

LEMMA NextKInv ==
  KInv /\ [Next]_vars => KInv'
<1> SUFFICES ASSUME KInv, [Next]_vars PROVE KInv'
  OBVIOUS
<1>1. CASE UNCHANGED megaVars
  <2>1. UNCHANGED <<launch, at, iteration, request, page, selected, draftTokens>>
    BY <1>1 DEF megaVars
  <2>2. IInv' /\ Blocks' = Blocks
    BY <2>1, NextIInv DEF KInv, Blocks
  <2>3. KernelTypes'
    BY <2>1, <2>2 DEF KInv, KernelTypes
  <2>4. \A c \in Blocks : Kept(c)
    BY <2>1 DEF Kept
  <2> QED
    BY <2>2, <2>3, <2>4, KeptInv DEF KInv
<1>2. CASE MegaNext
  BY <1>2, PollKInv, LoopKInv, DecodeKInv, VerifyAndCommitKInv, CountKInv
     DEF MegaNext, Step
<1>3. [Next]_vars => MegaNext \/ UNCHANGED megaVars
  BY DEF Next, vars, BaselineLaunch, LaunchMegaKernel, RunMegaKernel, RunTraceReplay,
         RunScheduler, RunTierResidency, Synchronize
<1> QED
  BY <1>1, <1>2, <1>3

-----------------------------------------------------------------------------
(* What the invariant says of the kernel.                                    *)

LEMMA AlwaysKInv ==
  Spec => []KInv
BY InitKInv, NextKInv, PTL DEF Spec

(* xl_persistent_megakernel leaves a request unfinished only when its block  *)
(* has run max_iterations, and then max_iterations is below the number of    *)
(* tokens asked for: every iteration yields at least one token.              *)
THEOREM StrandedAtBound ==
  Spec => []StrandedOnlyAtBound
<1>1. KInv => StrandedOnlyAtBound
  <2> SUFFICES ASSUME KInv, NEW b \in Blocks, at[b] = "exited", ~IsDone(request[b])
               PROVE  /\ iteration[b] = launch.maxIterations
                      /\ launch.maxIterations < Larger(launch.maxNew, 1)
    BY DEF StrandedOnlyAtBound
  <2>1. /\ request[b].output < Larger(launch.maxNew, 1)
        /\ request[b].output >= iteration[b]
        /\ iteration[b] = launch.maxIterations
    BY DEF KInv, BlockInv, Yielding
  <2>2. launch.maxIterations \in Nat /\ launch.maxNew \in Nat
    BY LaunchFacts DEF KInv, IInv, Shapes
  <2>3. request[b].output \in Nat
    BY DEF KInv, KernelTypes, Descriptor
  <2> QED
    BY <2>1, <2>2, <2>3 DEF Larger
<1> QED
  BY <1>1, AlwaysKInv, PTL

(* stage_spec_verify reads in d_draft_tokens what stage_decode of the same   *)
(* block wrote, and nothing past the block's region, whatever the draft      *)
(* length and the number of blocks.                                          *)
THEOREM DraftsAlwaysOwn ==
  Spec => []OwnDrafts
<1>1. KInv => OwnDrafts
  <2> SUFFICES ASSUME KInv, NEW b \in Blocks, at[b] = "verify"
               PROVE  /\ request[b].draftLen <= DraftStride(launch)
                      /\ \A i \in 0 .. request[b].draftLen - 1 :
                            draftTokens[DraftOffset(b) + i] = DraftToken(b, request[b], i)
    BY DEF OwnDrafts
  <2>1. Drafted(b)
    BY DEF KInv, BlockInv
  <2>2. DraftCount(request[b]) <= DraftStride(launch)
    BY DraftFits
  <2> QED
    BY <2>1, <2>2 DEF Drafted
<1> QED
  BY <1>1, AlwaysKInv, PTL

(* stage_commit never commits a page but the request's first, and            *)
(* select_sparse_kv_blocks selects no other.                                 *)
THEOREM FirstPageAlone ==
  Spec => []FirstPageOnly
<1>1. KInv => FirstPageOnly
  BY DEF KInv, BlockInv, Paged, FirstPageOnly
<1> QED
  BY <1>1, AlwaysKInv, PTL

(* What the rounding may make of a rate.                                     *)
LEMMA NearBounds ==
  ASSUME NEW rate \in Rate, NEW x, x \in Near(rate)
  PROVE  rate \in Int /\ x \in Int /\ x >= rate - Slack /\ x <= rate + Slack
BY DEF Near, Slack, Rate, Unit

(* The two averages are the same number before they are rounded ...          *)
LEMMA SameRate ==
  ASSUME NEW rate \in Rate, NEW proposed \in Nat, NEW accepted \in 0 .. proposed
  PROVE  DeviceRate(rate, accepted, proposed) = SimulatorRate(rate, accepted, proposed)
<1>1. Policy.alpha = 2 /\ 10 - Policy.alpha = 8
  BY DEF Policy
<1>2. CASE proposed = 0
  <2>1. accepted = 0 /\ (accepted * Unit) \div 1 = 0
    BY <1>2 DEF Unit
  <2> QED
    BY <1>1, <1>2, <2>1 DEF DeviceRate, SimulatorRate
<1>3. CASE proposed # 0
  <2>1. proposed > 0 /\ (IF proposed > 1 THEN proposed ELSE 1) = proposed
    BY <1>3
  <2> QED
    BY <1>1, <2>1 DEF DeviceRate, SimulatorRate
<1> QED
  BY <1>2, <1>3

(* ... so where the two roundings pick different blocks, a threshold is      *)
(* between them.                                                             *)
LEMMA BlocksWithinRounding ==
  ASSUME NEW d \in Rate, NEW x, x \in Near(d), NEW y, y \in Near(d), NEW pressure \in BOOLEAN
  PROVE  ChosenAlike(DeviceBlock(x, pressure), SimulatorBlock(y, pressure), d, pressure)
<1>1. /\ d \in Int /\ x \in Int /\ x >= d - 6 /\ x <= d + 6
      /\ y \in Int /\ y >= d - 6 /\ y <= d + 6
  BY NearBounds DEF Slack
<1>2. Policy.low = 5000 /\ Policy.high = 8000 /\ Policy.cap = 2
  BY DEF Policy
<1>3. DeviceBlock(x, pressure) = IF x >= 8000 THEN IF pressure THEN 2 ELSE 8
                                 ELSE IF x >= 5000 THEN IF pressure THEN 2 ELSE 4
                                 ELSE 1
  BY <1>1 DEF DeviceBlock
<1>4. SimulatorBlock(y, pressure) = IF y >= 8000 THEN IF pressure THEN 2 ELSE 8
                                    ELSE IF y >= 5000 THEN IF pressure THEN 2 ELSE 4
                                    ELSE 1
  BY <1>1 DEF SimulatorBlock, Policy
<1>5. /\ x < 5000 /\ y >= 5000 => Undecided(d, Policy.low) /\ y < 8000
      /\ y < 5000 /\ x >= 5000 => Undecided(d, Policy.low) /\ x < 8000
      /\ x < 8000 /\ y >= 8000 => Undecided(d, Policy.high) /\ x >= 5000
      /\ y < 8000 /\ x >= 8000 => Undecided(d, Policy.high) /\ y >= 5000
  BY <1>1, <1>2 DEF Undecided, Slack
<1> QED
  BY <1>1, <1>2, <1>3, <1>4, <1>5 DEF ChosenAlike

(* update_block_size_device and update_block_size of the simulator pick the  *)
(* same block from every state the kernel reaches, but next to a threshold,  *)
(* and one rejected block does not take the device from eight to one.        *)
THEOREM PoliciesAgree ==
  Spec => []DeviceFollowsSimulator
<1>1. KInv => DeviceFollowsSimulator
  <2> SUFFICES ASSUME KInv, NEW b \in Blocks, at[b] = "verify",
                      NEW accepted \in 0 .. Proposed(request[b]), NEW pressure \in BOOLEAN,
                      NEW d, d = DeviceRate(request[b].rate, accepted, Proposed(request[b])),
                      NEW s, s = SimulatorRate(request[b].rate, accepted, Proposed(request[b]))
               PROVE  /\ \A x \in Near(d), y \in Near(s) :
                             ChosenAlike(DeviceBlock(x, pressure), SimulatorBlock(y, pressure),
                                         d, pressure)
                      /\ request[b].block = 8 /\ ~pressure
                            => \A x \in DeviceBlocks(d, FALSE) : x >= 4
    BY ZenonT(40) DEF DeviceFollowsSimulator
  <2>1. PICK r \in Descriptor : r = request[b]
    BY DEF KInv, KernelTypes
  <2>2. PICK m : m = Proposed(request[b])
    OBVIOUS
  <2>3. /\ m \in Nat /\ r.rate \in Rate /\ accepted \in 0 .. m
        /\ accepted \in Nat /\ accepted <= m
    <3>1. r.draftLen \in Nat /\ r.rate \in Rate /\ r.output \in Nat
      BY <2>1 DEF Descriptor
    <3>2. launch.maxNew \in Nat
      BY LaunchFacts DEF KInv, IInv, Shapes
    <3>3. m \in Int /\ accepted \in 0 .. m
      BY <2>1, <2>2, <3>1, <3>2 DEF Proposed, Smaller, BudgetLeft
    <3> QED
      BY <3>1, <3>3
  <2>4. d = s
    BY <2>1, <2>2, <2>3, SameRate
  <2>5. d \in Rate /\ 10 * d + 9 >= 8 * r.rate
    <3>1. m \in Int
      BY <2>3
    <3>2. /\ DeviceRate(r.rate, accepted, m) \in Rate
          /\ 10 * DeviceRate(r.rate, accepted, m) + 9 >= 8 * r.rate
      BY <2>3, <3>1, RateBounds
    <3>3. d = DeviceRate(r.rate, accepted, m)
      BY <2>1, <2>2
    <3> QED
      BY <3>2, <3>3
  <2>6. \A x \in Near(d), y \in Near(s) :
           ChosenAlike(DeviceBlock(x, pressure), SimulatorBlock(y, pressure), d, pressure)
    BY <2>4, <2>5, BlocksWithinRounding
  <2>7. ASSUME r.block = 8, NEW x \in DeviceBlocks(d, FALSE) PROVE x >= 4
    <3>1. Fresh(b) /\ ~IsDone(r)
      BY <2>1, <2>7 DEF KInv, IInv, Working, BlockInv, Adapted
    <3>2. r.rate = 8000
      BY <2>1, <3>1 DEF KInv, BlockInv, Adapted
    <3>3. PICK y \in Near(d) : x = DeviceBlock(y, FALSE)
      BY <2>7 DEF DeviceBlocks
    <3>4. y \in Int /\ y >= 5000
      <4>1. d \in Int /\ y \in Int /\ y >= d - 6
        BY <2>5, NearBounds DEF Slack
      <4>2. 10 * d + 9 >= 64000
        BY <2>5, <3>2
      <4> QED
        BY <4>1, <4>2
    <3> QED
      BY <3>3, <3>4 DEF DeviceBlock
  <2> QED
    BY <2>1, <2>6, <2>7
<1> QED
  BY <1>1, AlwaysKInv, PTL

-----------------------------------------------------------------------------
(* The two paths.  They end a request at the same length unless one of them  *)
(* draws the EOS token, 0: a token that adds up to the size of the            *)
(* vocabulary.  Where that cannot happen, they agree.                         *)

(* No sum of tokens reaches the vocabulary: true of the defaults (8 requests *)
(* of 128 tokens), of the sweep (16 of 128) and of the Makefile's large one   *)
(* (32 of 512), false of 4,000 requests.                                      *)
TokensFit == \A l \in Launches : (l.n + 1) * (l.maxNew + 8) <= Vocab

Budget == Larger(launch.maxNew, 1)

(* What the last token of a request is at most after out tokens.             *)
Ceiling(b, out) == Id(b) * 7 + 3 + out * (Id(b) + 1)

Budgeted(b) ==
    /\ request[b].lastToken <= Ceiling(b, request[b].output)
    /\ request[b].output <= Budget
    /\ IsDone(request[b]) => request[b].output = Budget

BaseRequest == [state : {"DECODE_READY", "COMPLETE"}, lastToken : Nat, output : Nat]

(* The baseline decodes the requests of its threads one token a launch, and  *)
(* the others never.                                                          *)
Based(i) ==
    IF i >= ThreadsPerBlock THEN base[i].output = 0 /\ ~IsDone(base[i])
    ELSE /\ base[i].lastToken <= Ceiling(i, base[i].output)
         /\ IsDone(base[i]) => base[i].output = Budget
         /\ ~IsDone(base[i]) => base[i].output = baseLaunches /\ base[i].output < Budget

BaselineInv ==
    /\ base \in [Blocks -> BaseRequest]
    /\ \A i \in Blocks : Based(i)
    /\ baseLaunches \in Nat /\ baseLaunches <= launch.maxIterations

Course ==
    /\ phase \in {"baseline", "mega"} => mode = "both"
    /\ phase = "kernel" => mode # "both"
    /\ mode = "both" /\ phase \in {"mega", "reported"} => ~BaselineGoesOn
    /\ mode = "both" /\ phase = "reported" => MegaEnded

HInv == KInv /\ (\A b \in Blocks : Budgeted(b)) /\ BaselineInv /\ Course

LEMMA ProductBound ==
  ASSUME NEW x \in Nat, NEW y \in Nat, NEW X \in Nat, NEW Y \in Nat, x <= X, y <= Y
  PROVE  x * y <= X * Y
<1>1. x * y <= X * y
  OBVIOUS
<1>2. X * y <= X * Y
  OBVIOUS
<1> QED
  BY <1>1, <1>2

(* The next token of a request with budget left: no wrap, so no EOS.         *)
LEMMA NextTokenFits ==
  ASSUME TokensFit, launch \in Launches, NEW b \in Blocks, NEW last \in Nat, NEW out \in Nat,
         last <= Ceiling(b, out), out < Budget
  PROVE  /\ (last + 1 + Id(b)) % Vocab = last + 1 + Id(b)
         /\ last + 1 + Id(b) <= Ceiling(b, out + 1)
         /\ last + 1 + Id(b) # EosToken
<1>1. PICK n \in Nat, k \in Nat, i \in Nat : /\ n = launch.n /\ k = launch.maxNew /\ i = Id(b)
                                             /\ i <= n
  BY LaunchFacts DEF Blocks, Id
<1>2. (n + 1) * (k + 8) <= 32000
  BY <1>1 DEF TokensFit, Vocab
<1>3. out + 1 <= k + 1
  BY <1>1 DEF Budget, Larger
<1>4. (out + 1) * (i + 1) <= (k + 1) * (n + 1)
  BY <1>1, <1>3, ProductBound
<1>5. PICK y \in Nat, z \in Nat : y = out * (i + 1) /\ z = (k + 1) * (n + 1)
  OBVIOUS
<1>6. (out + 1) * (i + 1) = y + i + 1 /\ (n + 1) * (k + 8) = z + 7 * n + 7
  BY <1>5
<1>7. last <= i * 7 + 3 + y
  BY <1>1, <1>5 DEF Ceiling
<1>8. last + 1 + i <= i * 7 + 3 + y + i + 1 /\ last + 1 + i < 32000 /\ last + 1 + i > 0
  BY <1>1, <1>2, <1>4, <1>5, <1>6, <1>7
<1>9. (last + 1 + i) % 32000 = last + 1 + i
  BY <1>8
<1>10. Ceiling(b, out + 1) = i * 7 + 3 + y + i + 1
  BY <1>1, <1>5, <1>6 DEF Ceiling
<1> QED
  BY <1>1, <1>8, <1>9, <1>10 DEF Vocab, EosToken

(* Commit keeps to the budget.                                               *)
LEMMA CommitBudget ==
  ASSUME TokensFit, launch \in Launches, NEW b \in Blocks, NEW q \in Descriptor, NEW n \in Nat,
         q.lastToken <= Ceiling(b, q.output), q.output < Budget,
         n # 0 => n <= launch.maxNew - q.output,
         NEW s, s = AfterCommit(b, q, n)
  PROVE  /\ s.lastToken <= Ceiling(b, s.output)
         /\ s.output <= Budget
         /\ s.state = "COMPLETE" => s.output = Budget
<1>1. launch.maxNew \in Nat /\ b \in Nat
  BY LaunchFacts
<1>2. q.lastToken \in Nat /\ q.output \in Nat
  BY LastTokenNat DEF Descriptor
<1>3. /\ FallbackToken(b, q) <= Ceiling(b, q.output + 1)
      /\ FallbackToken(b, q) # EosToken
  BY <1>2, NextTokenFits DEF FallbackToken
<1>4. s.output = q.output + (IF n = 0 THEN 1 ELSE n)
  BY <1>1, CommitFields
<1>5. /\ s.lastToken = IF n = 0 THEN FallbackToken(b, q) ELSE 0
      /\ s.state = "COMPLETE" => s.output >= launch.maxNew
  BY <1>3, <1>4 DEF AfterCommit, Descriptor
<1>6. s.output \in Nat /\ s.output >= 1 /\ s.output <= Budget
  BY <1>1, <1>2, <1>4 DEF Budget, Larger
<1>7. s.state = "COMPLETE" => s.output = Budget
  BY <1>1, <1>5, <1>6 DEF Budget, Larger
<1>8. s.lastToken <= Ceiling(b, s.output)
  <2>1. CASE n = 0
    BY <1>3, <1>4, <1>5, <2>1
  <2>2. CASE n # 0
    <3>1. s.output * (Id(b) + 1) \in Nat /\ Id(b) \in Nat
      BY <1>1, <1>6 DEF Id
    <3> QED
      BY <1>5, <2>2, <3>1 DEF Ceiling
  <2> QED
    BY <2>1, <2>2
<1> QED
  BY <1>6, <1>7, <1>8

LEMMA InitHInv ==
  Init => HInv
<1> SUFFICES ASSUME Init PROVE HInv
  OBVIOUS
<1>1. KInv
  BY InitKInv
<1>2. PICK l \in Launches :
        /\ MegaInit(l)
        /\ base = [i \in 0 .. l.n - 1 |-> [state |-> "DECODE_READY", output |-> 0,
                                           lastToken |-> ((i + 1) * 7 + 3) % Vocab]]
  <2>1. AnyOf(Launches) \in Launches
    BY HostAssumption DEF AnyOf
  <2> QED
    BY <2>1 DEF Init
<1>3. /\ launch = l /\ Blocks = 0 .. l.n - 1
      /\ \A b \in Blocks : request[b] = InitialRequest(l, b)
  BY <1>2 DEF MegaInit, Blocks
<1>4. launch.maxNew \in Nat /\ launch.maxIterations \in Nat /\ Blocks \subseteq Nat
  BY <1>3, LaunchFacts
<1>5. ASSUME NEW b \in Blocks
      PROVE  /\ (Id(b) * 7 + 3) % Vocab \in Nat
             /\ (Id(b) * 7 + 3) % Vocab <= Ceiling(b, 0)
  <2>1. PICK k \in Nat : k = Id(b)
    BY <1>4 DEF Id
  <2>2. (k * 7 + 3) % 32000 \in Nat /\ (k * 7 + 3) % 32000 <= k * 7 + 3
    OBVIOUS
  <2> QED
    BY <2>1, <2>2 DEF Ceiling, Vocab
<1>6. Budget \in Nat /\ Budget > 0
  BY <1>4 DEF Budget, Larger
<1>7. ASSUME NEW b \in Blocks PROVE Budgeted(b)
  <2>1. /\ request[b].lastToken = (Id(b) * 7 + 3) % Vocab /\ request[b].output = 0
        /\ ~IsDone(request[b])
    <3>1. /\ InitialRequest(l, b).lastToken = (Id(b) * 7 + 3) % Vocab
          /\ InitialRequest(l, b).output = 0
          /\ InitialRequest(l, b).state = "DECODE_READY"
      BY DEF InitialRequest
    <3> QED
      BY <1>3, <3>1 DEF IsDone
  <2> QED
    BY <1>5, <1>6, <2>1 DEF Budgeted
<1>8. ASSUME NEW b \in Blocks
      PROVE  /\ base[b] \in BaseRequest /\ base[b].output = 0 /\ ~IsDone(base[b])
             /\ base[b].lastToken = (Id(b) * 7 + 3) % Vocab
  <2>1. base[b] = [state |-> "DECODE_READY", output |-> 0, lastToken |-> (Id(b) * 7 + 3) % Vocab]
    BY <1>2, <1>3 DEF Id
  <2> QED
    BY <1>5, <2>1 DEF BaseRequest, IsDone
<1>9. BaselineInv
  <2>1. baseLaunches = 0
    BY DEF Init
  <2>2. base \in [Blocks -> BaseRequest]
    BY <1>2, <1>3, <1>8
  <2>3. ASSUME NEW b \in Blocks PROVE Based(b)
    BY <1>5, <1>6, <1>8, <2>1 DEF Based
  <2> QED
    BY <1>4, <2>1, <2>2, <2>3 DEF BaselineInv
<1>10. Course
  BY DEF Init, Course
<1> QED
  BY <1>1, <1>7, <1>9, <1>10 DEF HInv

LEMMA LaunchKept ==
  ASSUME MegaNext
  PROVE  launch' = launch
<1>1. ASSUME NEW b \in Blocks, Step(b) PROVE launch' = launch
  <2>1. Loop(b) => launch' = launch
    BY DEF Loop
  <2>2. Decode(b) => launch' = launch
    BY DEF Decode
  <2>3. VerifyAndCommit(b) => launch' = launch
    BY DEF VerifyAndCommit
  <2>4. Count(b) => launch' = launch
    BY DEF Count
  <2> QED
    BY <1>1, <2>1, <2>2, <2>3, <2>4 DEF Step
<1>2. Poll => launch' = launch
  BY DEF Poll
<1> QED
  BY <1>1, <1>2 DEF MegaNext

LEMMA BudgetStep ==
  ASSUME TokensFit, KInv, \A c \in Blocks : Budgeted(c), MegaNext
  PROVE  \A c \in Blocks : Budgeted(c)'
<1>1. /\ launch' = launch /\ launch \in Launches
      /\ request \in [Blocks -> Descriptor]
  BY LaunchKept DEF KInv, IInv, Shapes, KernelTypes
<1>2. Budget' = Budget
  BY <1>1 DEF Budget
<1>3. ASSUME NEW c \in Blocks,
             /\ request'[c].lastToken = request[c].lastToken
             /\ request'[c].output = request[c].output
             /\ IsDone(request'[c]) => IsDone(request[c])
      PROVE  Budgeted(c)'
  BY <1>2, <1>3 DEF Budgeted, Ceiling, IsDone, Id
<1>4. ASSUME NEW c \in Blocks, request'[c] = request[c] PROVE Budgeted(c)'
  BY <1>3, <1>4
<1>5. ASSUME NEW b \in Blocks, Loop(b), NEW c \in Blocks PROVE Budgeted(c)'
  <2>1. /\ request'[c].lastToken = request[c].lastToken
        /\ request'[c].output = request[c].output
        /\ request'[c].state = request[c].state
    BY <1>1, <1>5 DEF Loop, Descriptor
  <2> QED
    BY <1>3, <2>1 DEF IsDone
<1>6. ASSUME NEW b \in Blocks, Decode(b), NEW c \in Blocks PROVE Budgeted(c)'
  <2>1. CASE c = b
    <3>1. /\ request'[b].lastToken = request[b].lastToken
          /\ request'[b].output = request[b].output
          /\ request'[b].state = "DRAFT_READY"
      BY <1>1, <1>6 DEF Decode, Descriptor
    <3> QED
      BY <1>3, <2>1, <3>1 DEF IsDone
  <2>2. CASE c # b
    BY <1>1, <1>4, <1>6, <2>2 DEF Decode
  <2> QED
    BY <2>1, <2>2
<1>7. ASSUME NEW b \in Blocks, VerifyAndCommit(b), NEW c \in Blocks PROVE Budgeted(c)'
  <2>1. PICK n, m, rate, block :
          /\ n = AcceptedPrefix(b, request[b])
          /\ m = Smaller(request[b].draftLen, BudgetLeft(request[b]))
          /\ rate = DeviceRate(request[b].rate, n, m)
          /\ block \in DeviceBlocks(rate, FALSE)
          /\ request' = [request EXCEPT ![b] =
                            AfterCommit(b, [request[b] EXCEPT !.rate = rate, !.block = block], n)]
    BY <1>7 DEF VerifyAndCommit
  <2>2. CASE c # b
    BY <1>1, <1>4, <2>1, <2>2
  <2>3. CASE c = b
    <3>1. at[b] = "verify" /\ ~IsDone(request[b]) /\ request'[b] \in Descriptor
      BY <1>7, VerifyAndCommitKInv DEF KInv, IInv, Working, KernelTypes, VerifyAndCommit, Blocks
    <3>2. /\ n \in Nat /\ m \in Int
          /\ n <= m \/ n = 0
      <4>1. /\ n \in 0 .. 3 /\ m \in Int
            /\ n <= m \/ n = 0
        BY <2>1, <3>1, VerifyBounds
      <4> QED
        BY <4>1
    <3>3. PICK r \in Descriptor : r = request[b]
      BY <1>1
    <3>4. r.rate \in Rate /\ r.output \in Nat /\ launch.maxNew \in Nat
      BY <1>1, <3>3, LaunchFacts DEF Descriptor
    <3>5. rate \in Rate
      BY <2>1, <3>2, <3>3, <3>4, RateBounds
    <3>6. block \in Nat \ {0}
      <4>1. PICK x : block = DeviceBlock(x, FALSE)
        BY <2>1 DEF DeviceBlocks
      <4> QED
        BY <4>1 DEF DeviceBlock
    <3>7. PICK q : q = [r EXCEPT !.rate = rate, !.block = block]
      OBVIOUS
    <3>8. /\ q \in Descriptor /\ q.output = r.output /\ q.lastToken = r.lastToken
      BY <3>5, <3>6, <3>7 DEF Descriptor
    <3>9. request'[b] = AfterCommit(b, q, n)
      BY <1>1, <2>1, <3>3, <3>7
    <3>10. n # 0 => n <= launch.maxNew - q.output
      BY <2>1, <3>2, <3>3, <3>4, <3>8 DEF BudgetLeft, Smaller, Descriptor
    <3>11. q.lastToken <= Ceiling(b, q.output) /\ q.output < Budget
      BY <3>1, <3>3, <3>8 DEF Budgeted, KInv, BlockInv, Yielding, Budget
    <3>12. PICK s : s = request'[b]
      OBVIOUS
    <3>13. /\ s.lastToken <= Ceiling(b, s.output)
           /\ s.output <= Budget
           /\ s.state = "COMPLETE" => s.output = Budget
      BY <1>1, <3>2, <3>8, <3>9, <3>10, <3>11, <3>12, CommitBudget
    <3> QED
      BY <1>2, <2>3, <3>12, <3>13 DEF Budgeted, Ceiling, IsDone, Id
  <2> QED
    BY <2>2, <2>3
<1>8. ASSUME UNCHANGED request, NEW c \in Blocks PROVE Budgeted(c)'
  BY <1>4, <1>8
<1> QED
  BY <1>5, <1>6, <1>7, <1>8 DEF MegaNext, Step, Poll, Count

LEMMA BaselineKept ==
  ASSUME BaselineInv, UNCHANGED <<launch, base, baseLaunches>>
  PROVE  BaselineInv'
BY DEF BaselineInv, Based, Blocks, Budget, Ceiling, Id, IsDone

(* One launch of baseline_host_decode_step_kernel.                           *)
LEMMA BaselineLaunchInv ==
  ASSUME TokensFit, launch \in Launches, BaselineInv, BaselineLaunch, launch' = launch
  PROVE  BaselineInv'
<1>1. /\ baseLaunches' = baseLaunches + 1 /\ base' = [i \in Blocks |-> BaselineStep(i)]
      /\ baseLaunches < launch.maxIterations /\ Blocks' = Blocks
  BY DEF BaselineLaunch, BaselineGoesOn, Blocks
<1>2. /\ launch.maxNew \in Nat /\ launch.maxIterations \in Nat /\ baseLaunches \in Nat
      /\ ThreadsPerBlock \in Nat /\ Blocks \subseteq Nat
  BY LaunchFacts, HostAssumption DEF BaselineInv
<1>3. Budget' = Budget /\ Budget \in Nat
  BY <1>2 DEF Budget, Larger
<1>4. ASSUME NEW i \in Blocks PROVE BaselineStep(i) \in BaseRequest /\ Based(i)'
  <2>1. PICK r \in BaseRequest : r = base[i]
    BY DEF BaselineInv
  <2>2. base'[i] = BaselineStep(i) /\ Based(i)
    BY <1>1 DEF BaselineInv
  <2>3. CASE i >= ThreadsPerBlock
    BY <2>1, <2>2, <2>3 DEF BaselineStep, Based, IsDone
  <2>4. CASE ~(i >= ThreadsPerBlock) /\ IsDone(r)
    BY <1>3, <2>1, <2>2, <2>4 DEF BaselineStep, Based, IsDone, Ceiling, Id
  <2>5. CASE ~(i >= ThreadsPerBlock) /\ ~IsDone(r)
    <3>1. /\ r.lastToken \in Nat /\ r.output \in Nat
          /\ r.lastToken <= Ceiling(i, r.output) /\ r.output = baseLaunches /\ r.output < Budget
      BY <2>1, <2>2, <2>5 DEF Based, BaseRequest
    <3>2. PICK token : token = (r.lastToken + 1 + (i + 1)) % Vocab
      OBVIOUS
    <3>3. token \in Nat /\ token <= Ceiling(i, r.output + 1) /\ token # EosToken
      <4>1. token = (r.lastToken + 1 + Id(i)) % Vocab /\ Id(i) \in Nat
        BY <1>2, <3>2 DEF Id
      <4>2. token = r.lastToken + 1 + Id(i)
        BY <3>1, <4>1, NextTokenFits
      <4> QED
        BY <3>1, <4>1, <4>2, NextTokenFits
    <3>4. PICK s : s = BaselineStep(i)
      OBVIOUS
    <3>5. s = [lastToken |-> token, output |-> r.output + 1,
               state |-> IF token = EosToken \/ r.output + 1 >= launch.maxNew
                         THEN "COMPLETE" ELSE r.state]
      BY <2>1, <2>5, <3>2, <3>4 DEF BaselineStep
    <3>6. /\ s.lastToken = token /\ s.output = r.output + 1
          /\ s.state \in {"DECODE_READY", "COMPLETE"}
          /\ s.state = "COMPLETE" <=> r.output + 1 >= launch.maxNew
      BY <2>5, <3>3, <3>5 DEF BaseRequest, IsDone
    <3>7. s \in BaseRequest
      BY <3>1, <3>3, <3>5, <3>6 DEF BaseRequest
    <3>8. s.state = "COMPLETE" => s.output = Budget
      BY <1>2, <3>1, <3>6 DEF Budget, Larger
    <3>9. s.state # "COMPLETE" => s.output = baseLaunches + 1 /\ s.output < Budget
      BY <1>2, <3>1, <3>6 DEF Budget, Larger
    <3> QED
      BY <1>1, <1>3, <2>2, <2>5, <3>3, <3>4, <3>6, <3>7, <3>8, <3>9 DEF Based, IsDone, Ceiling, Id
  <2> QED
    BY <2>3, <2>4, <2>5
<1>5. base' \in [Blocks -> BaseRequest]
  BY <1>1, <1>4
<1>6. baseLaunches' \in Nat /\ baseLaunches' <= launch.maxIterations
  BY <1>1, <1>2
<1> QED
  BY <1>1, <1>4, <1>5, <1>6 DEF BaselineInv

LEMMA NextHInv ==
  ASSUME TokensFit
  PROVE  HInv /\ [Next]_vars => HInv'
<1> SUFFICES ASSUME HInv, [Next]_vars PROVE HInv'
  OBVIOUS
<1>1. KInv' /\ launch \in Launches
  BY NextKInv DEF HInv, KInv, IInv, Shapes
<1>2. ASSUME UNCHANGED megaVars
      PROVE  /\ launch' = launch /\ Blocks' = Blocks
             /\ \A b \in Blocks' : Budgeted(b)'
             /\ MegaEnded' <=> MegaEnded
  <2>1. UNCHANGED <<launch, at, request>>
    BY <1>2 DEF megaVars
  <2> QED
    BY <2>1 DEF HInv, Budgeted, Budget, Ceiling, Id, IsDone, Blocks, MegaEnded
<1>3. CASE BaselineLaunch
  <2>1. UNCHANGED <<megaVars, mode, phase>> /\ phase = "baseline"
    BY <1>3 DEF BaselineLaunch
  <2>2. BaselineInv'
    BY <1>1, <1>2, <1>3, <2>1, BaselineLaunchInv DEF HInv
  <2>3. Course'
    BY <2>1 DEF HInv, Course
  <2> QED
    BY <1>1, <1>2, <2>1, <2>2, <2>3 DEF HInv
<1>4. CASE LaunchMegaKernel
  <2>1. /\ UNCHANGED <<megaVars, mode, base, baseLaunches>> /\ phase = "baseline"
        /\ phase' = "mega" /\ ~BaselineGoesOn
    BY <1>4 DEF LaunchMegaKernel
  <2>2. ~BaselineGoesOn' /\ BaselineInv'
    BY <1>2, <2>1, BaselineKept DEF HInv, BaselineGoesOn, IsDone
  <2>3. Course'
    BY <2>1, <2>2 DEF HInv, Course
  <2> QED
    BY <1>1, <1>2, <2>1, <2>2, <2>3 DEF HInv
<1>5. CASE RunMegaKernel
  <2>1. MegaNext /\ phase = "mega" /\ UNCHANGED <<mode, phase, base, baseLaunches>>
    BY <1>5 DEF RunMegaKernel, hostVars
  <2>2. \A b \in Blocks : Budgeted(b)'
    BY <2>1, BudgetStep DEF HInv
  <2>3. launch' = launch /\ Blocks' = Blocks
    BY <2>1, LaunchKept DEF Blocks
  <2>4. BaselineInv' /\ (BaselineGoesOn' <=> BaselineGoesOn)
    BY <2>1, <2>3, BaselineKept DEF HInv, BaselineGoesOn, IsDone
  <2>5. Course'
    BY <2>1, <2>4 DEF HInv, Course
  <2> QED
    BY <1>1, <2>2, <2>3, <2>4, <2>5 DEF HInv
<1>6. CASE Synchronize
  <2>1. /\ UNCHANGED <<megaVars, mode, base, baseLaunches>> /\ phase \in {"mega", "kernel"}
        /\ phase' = "reported"
    BY <1>6 DEF Synchronize
  <2>2. mode = "both" => MegaEnded /\ phase = "mega"
    BY <1>6, <2>1 DEF Synchronize, KernelEnded, HInv, Course
  <2>3. BaselineInv' /\ (BaselineGoesOn' <=> BaselineGoesOn)
    BY <1>2, <2>1, BaselineKept DEF HInv, BaselineGoesOn, IsDone
  <2>4. Course'
    BY <1>2, <2>1, <2>2, <2>3 DEF HInv, Course
  <2> QED
    BY <1>1, <1>2, <2>1, <2>3, <2>4 DEF HInv
<1>7. CASE UNCHANGED <<megaVars, hostVars>>
  <2>1. UNCHANGED <<mode, phase, base, baseLaunches>>
    BY <1>7 DEF hostVars
  <2>2. BaselineInv' /\ (BaselineGoesOn' <=> BaselineGoesOn)
    BY <1>2, <1>7, <2>1, BaselineKept DEF HInv, BaselineGoesOn, IsDone
  <2>3. Course'
    BY <1>2, <1>7, <2>1, <2>2 DEF HInv, Course
  <2> QED
    BY <1>1, <1>2, <1>7, <2>2, <2>3 DEF HInv
<1>8. [Next]_vars => \/ BaselineLaunch \/ LaunchMegaKernel \/ RunMegaKernel \/ Synchronize
                     \/ UNCHANGED <<megaVars, hostVars>>
  BY DEF Next, vars, RunTraceReplay, RunScheduler, RunTierResidency
<1> QED
  BY <1>3, <1>4, <1>5, <1>6, <1>7, <1>8

(* The host-driven baseline and the mega-kernel end every request with the   *)
(* same number of tokens where max_iterations suffices, and a request beyond *)
(* the baseline's block of threads is never decoded there.                    *)
THEOREM PathsAgree ==
  ASSUME TokensFit
  PROVE  Spec => []BothPathsAgree
<1>1. HInv => BothPathsAgree
  <2> SUFFICES ASSUME HInv PROVE BothPathsAgree
    OBVIOUS
  <2>1. OutputWithinBudget
    BY DEF HInv, Budgeted, Budget, OutputWithinBudget
  <2>2. SUFFICES ASSUME mode = "both", phase = "reported", NEW b \in Blocks
                 PROVE  IF b >= ThreadsPerBlock
                        THEN base[b].output = 0 /\ baseLaunches = launch.maxIterations
                        ELSE 0 < launch.maxIterations /\ launch.maxNew <= launch.maxIterations =>
                                base[b].output = request[b].output
    BY <2>1 DEF BothPathsAgree
  <2>3. ~BaselineGoesOn /\ MegaEnded
    BY <2>2 DEF HInv, Course
  <2>4. /\ launch.maxNew \in Nat /\ launch.maxIterations \in Nat /\ baseLaunches \in Nat
        /\ baseLaunches <= launch.maxIterations
    BY LaunchFacts DEF HInv, KInv, IInv, Shapes, BaselineInv
  <2>5. ~IsDone(base[b]) => baseLaunches = launch.maxIterations
    BY <2>3, <2>4 DEF BaselineGoesOn
  <2>6. Based(b)
    BY DEF HInv, BaselineInv
  <2>7. CASE b >= ThreadsPerBlock
    BY <2>5, <2>6, <2>7 DEF Based
  <2>8. CASE ~(b >= ThreadsPerBlock)
    <3>1. SUFFICES ASSUME 0 < launch.maxIterations, launch.maxNew <= launch.maxIterations
                   PROVE  base[b].output = request[b].output
      BY <2>8
    <3>2. ~(launch.maxIterations < Budget)
      BY <2>4, <3>1 DEF Budget, Larger
    <3>3. base[b].output = Budget
      BY <2>5, <2>6, <2>8, <3>2 DEF Based
    <3>4. IsDone(request[b])
      <4>1. SUFFICES ASSUME ~IsDone(request[b]) PROVE FALSE
        OBVIOUS
      <4>2. at[b] = "exited" /\ launch.maxIterations \in Nat /\ request[b].output \in Nat
        BY <2>3, <2>4 DEF MegaEnded, HInv, KInv, KernelTypes, Descriptor
      <4>3. /\ request[b].output < Budget /\ request[b].output >= iteration[b]
            /\ iteration[b] = launch.maxIterations
        BY <4>1, <4>2 DEF HInv, KInv, BlockInv, Yielding, Budget
      <4>4. Budget \in Nat
        BY <2>4 DEF Budget, Larger
      <4> QED
        BY <3>2, <4>2, <4>3, <4>4
    <3>5. request[b].output = Budget
      BY <3>4 DEF HInv, Budgeted
    <3> QED
      BY <3>3, <3>5
  <2> QED
    BY <2>7, <2>8
<1> QED
  BY <1>1, InitHInv, NextHInv, PTL DEF Spec

-----------------------------------------------------------------------------
(* The trace replay.                                                         *)

Turns == {"arrive", "offer", "admit", "serve", "ended"}
Busy  == Slots \ Free

Positions ==
    /\ trace \in Traces
    /\ turn \in Turns
    /\ step \in 0 .. Horizon
    /\ scan \in Nat
    /\ turn = "arrive" => scan = 0
    /\ turn = "offer" => scan <= trace.n
    /\ turn = "serve" => scan <= MaxActive(trace)
    /\ turn \in {"offer", "admit", "serve"} => step < Horizon
    /\ turn \in {"offer", "admit"} => Len(completed) < trace.n

States    == {"EMPTY", "PREFILL_READY", "DECODE_READY", "COMPLETE"}
SlotState == [request : Requests \cup {NoRequest}, left : 0 .. 3]

Holders ==
    /\ ring \in [entries : Seq(Int), head : Nat, tail : Nat]
    /\ Len(ring.entries) = trace.n + 1
    /\ active \in [Slots -> SlotState]
    /\ status \in [Requests -> States]
    /\ admitted \in Seq(Requests)
    /\ completed \in Seq(Requests)

TraceTypes == Positions /\ Holders

(* Requests enter and leave the ring in their order, and it never wraps.     *)
RingInv ==
    /\ ring.head = Len(admitted)
    /\ ring.head <= ring.tail /\ ring.tail <= trace.n
    /\ \A i \in 1 .. ring.tail : ring.entries[i] = i - 1
    /\ \A i \in DOMAIN admitted : admitted[i] = i - 1
    /\ \A r \in Requests : r < ring.tail <=> Arrived(r)

(* Where a request is that has been admitted.                                *)
Held(s)  == active[s].request
Ended(r) == \E i \in DOMAIN completed : completed[i] = r

Taken(r) ==
    \/ status[r] = "DECODE_READY" /\ \E s \in Slots : Held(s) = r
    \/ status[r] = "COMPLETE" /\ Ended(r)

PlaceInv ==
    /\ \A r \in Requests : r >= ring.tail => status[r] = "EMPTY"
    /\ \A r \in Requests : r < ring.tail /\ r >= ring.head => status[r] = "PREFILL_READY"
    /\ \A r \in Requests : r < ring.head => Taken(r)
    /\ \A s \in Busy : Held(s) < ring.head /\ status[Held(s)] = "DECODE_READY"
    /\ \A i \in DOMAIN completed : completed[i] < ring.head /\ status[completed[i]] = "COMPLETE"
    /\ \A s, t \in Busy : Held(s) = Held(t) => s = t
    /\ \A i, j \in DOMAIN completed : completed[i] = completed[j] => i = j

(* How many quanta a request had when the step began.                        *)
Served(s) == turn = "serve" /\ s < scan
Age(s) == Service(Held(s)) - active[s].left - (IF Served(s) THEN 1 ELSE 0)

Ages ==
    /\ \A s \in Busy : 1 <= active[s].left /\ 0 <= Age(s)
    /\ turn \in {"arrive", "offer"} => \A s \in Busy : 1 <= Age(s)
    /\ turn = "admit" => \A s \in Busy : Age(s) = 0 => \A f \in Free : s < f

(* An earlier request is older, or in a lower slot.                          *)
Ahead(s, t) == Age(s) > Age(t) \/ (Age(s) = Age(t) /\ s < t)

Overtakes(q, r) == q > r => Service(q) < Service(r)

OrderInv ==
    /\ Ages
    /\ \A s, t \in Busy : Held(s) < Held(t) => Ahead(s, t)
    /\ \A i \in DOMAIN completed : \A s \in Busy : Overtakes(completed[i], Held(s))
    /\ \A i, j \in DOMAIN completed : i < j => Overtakes(completed[i], completed[j])

(* With two slots or more, request r is admitted in step r at the latest.    *)
ManyInv ==
    MaxActive(trace) > 1 =>
        /\ \A s \in Busy : step - Age(s) <= Held(s)
        /\ turn # "serve" => ring.head = trace.n \/ ring.head >= step
        /\ turn = "serve" => ring.head = trace.n \/ ring.head > step

(* The quanta of the first k requests.                                       *)
Quanta(k) == 2 * k - (IF k % 3 = 0 THEN 0 ELSE 1)

(* With one slot, requests are served one after the other without a pause.   *)
OneInv ==
    MaxActive(trace) = 1 =>
        /\ 0 \in Busy => Held(0) = ring.head - 1 /\ step - Age(0) = Quanta(Held(0))
        /\ 0 \in Free /\ turn # "serve" => step = Quanta(ring.head)
        /\ 0 \in Free /\ turn = "serve" => scan = 1 /\ step + 1 = Quanta(ring.head)

EndInv ==
    turn = "ended" => step = Horizon \/ Len(completed) >= trace.n

ReplayInv == TraceTypes /\ RingInv /\ PlaceInv /\ OrderInv /\ ManyInv /\ OneInv /\ EndInv

LEMMA ServiceBounds ==
  ASSUME NEW r \in Nat
  PROVE  /\ Service(r) \in 1 .. 3 /\ Arrival(r) \in Nat /\ Arrival(r) <= r
         /\ \A q \in Nat : q <= r => Arrival(q) <= Arrival(r)
BY DEF Service, Arrival

LEMMA TraceFacts ==
  ASSUME trace \in Traces
  PROVE  /\ trace.n \in Nat \ {0} /\ Horizon = trace.n + 8
         /\ Requests = 0 .. trace.n - 1 /\ RingCapacity(trace) = trace.n + 1
         /\ MaxActive(trace) \in 1 .. trace.n /\ Slots = 0 .. MaxActive(trace) - 1
<1>1. trace.n \in Nat \ {0} /\ trace.draftLen \in Nat
  BY TracesAssumption
<1> QED
  BY <1>1 DEF Horizon, Requests, RingCapacity, MaxActive, Slots

(* A number below the divisor is its own remainder.                          *)
LEMMA NoWrap ==
  ASSUME NEW a \in Nat, NEW b \in Nat, a < b
  PROVE  a % b = a
OBVIOUS

LEMMA OnceAround ==
  ASSUME NEW a \in Nat, NEW b \in Nat, a < b
  PROVE  (a + b) % b = a
OBVIOUS

(* The ring has room for what arrives, which is the request it is next for.  *)
LEMMA OfferEffect ==
  ASSUME TraceTypes, RingInv, Offer
  PROVE  \/ /\ Arrival(scan) = step /\ ring.tail = scan /\ scan < trace.n
            /\ ring' = [entries |-> [ring.entries EXCEPT ![scan + 1] = scan],
                        head |-> ring.head, tail |-> scan + 1]
            /\ status' = [status EXCEPT ![scan] = "PREFILL_READY"]
         \/ Arrival(scan) # step /\ ring' = ring /\ status' = status
<1>1. CASE Arrival(scan) # step
  BY <1>1 DEF Offer
<1>2. CASE Arrival(scan) = step
  <2>1. /\ trace.n \in Nat /\ scan \in Nat /\ scan < trace.n /\ Requests = 0 .. trace.n - 1
        /\ ring.tail \in Nat /\ ring.head \in Nat /\ ring.head <= ring.tail
        /\ ring.tail <= trace.n /\ Len(ring.entries) = trace.n + 1
        /\ ring \in [entries : Seq(Int), head : Nat, tail : Nat]
    BY TraceFacts DEF TraceTypes, Positions, Holders, RingInv, Offer
  <2>2. ~(scan < ring.tail)
    <3>1. scan \in Requests /\ turn = "offer"
      BY <2>1 DEF Offer
    <3>2. ~Arrived(scan)
      BY <1>2, <2>1, <3>1, ServiceBounds DEF Arrived
    <3> QED
      BY <3>1, <3>2 DEF RingInv
  <2>3. ring.tail = scan
    <3>1. SUFFICES ASSUME ring.tail < scan PROVE FALSE
      BY <2>1, <2>2
    <3>2. ring.tail \in Requests /\ turn = "offer" /\ step \in Nat
      <4>1. ring.tail \in Requests
        BY <2>1, <3>1
      <4>2. turn = "offer" /\ step \in 0 .. Horizon /\ Horizon = trace.n + 8
        BY TraceFacts DEF Offer, TraceTypes, Positions
      <4> QED
        BY <4>1, <4>2
    <3>3. Arrival(ring.tail) <= Arrival(scan) /\ Arrival(ring.tail) \in Nat
      BY <2>1, <3>1, ServiceBounds
    <3>4. Arrived(ring.tail)
      BY <1>2, <3>1, <3>2, <3>3 DEF Arrived
    <3> QED
      BY <2>1, <3>2, <3>4 DEF RingInv
  <2>4. Succ(ring, ring.tail) = scan + 1
    BY <2>1, <2>3, NoWrap DEF Succ
  <2>5. ~IsFull(ring)
    BY <2>1, <2>3, <2>4 DEF IsFull
  <2>6. ring' = Push(ring, scan) /\ status' = [status EXCEPT ![scan] = "PREFILL_READY"]
    BY <1>2, <2>5 DEF Offer
  <2>7. Push(ring, scan) = [entries |-> [ring.entries EXCEPT ![scan + 1] = scan],
                            head |-> ring.head, tail |-> scan + 1]
    <3>1. ring = [entries |-> ring.entries, head |-> ring.head, tail |-> ring.tail]
      BY <2>1
    <3> DEFINE e == ring.entries
               h == ring.head
    <3>2. Push(ring, scan) = [ring EXCEPT !.entries[scan + 1] = scan, !.tail = scan + 1]
      BY <2>3, <2>4 DEF Push
    <3> QED
      BY <3>1, <3>2
  <2> QED
    BY <1>2, <2>1, <2>3, <2>6, <2>7
<1> QED
  BY <1>1, <1>2

(* The request at the front is the next in order; the lowest free slot.      *)
LEMMA AdmitEffect ==
  ASSUME TraceTypes, RingInv, Admit
  PROVE  /\ ring.head \in Requests /\ ring.head < ring.tail
         /\ ring' = [ring EXCEPT !.head = ring.head + 1]
         /\ status' = [status EXCEPT ![ring.head] = "DECODE_READY"]
         /\ admitted' = Append(admitted, ring.head)
         /\ \E s \in Free :
               /\ \A y \in Free : s <= y
               /\ active' = [active EXCEPT ![s] = [request |-> ring.head,
                                                  left |-> Service(ring.head)]]
<1>1. /\ trace.n \in Nat /\ Requests = 0 .. trace.n - 1
      /\ ring.tail \in Nat /\ ring.head \in Nat /\ ring.head <= ring.tail
      /\ ring.tail <= trace.n /\ Len(ring.entries) = trace.n + 1
  BY TraceFacts DEF TraceTypes, Positions, Holders, RingInv
<1>2. ring.head < ring.tail /\ ring.head \in Requests
  BY <1>1 DEF Admit, IsEmpty
<1>3. Oldest(ring) = ring.head
  <2>1. ring.head + 1 \in 1 .. ring.tail /\ ring.head = (ring.head + 1) - 1
    BY <1>1, <1>2
  <2>2. ring.entries[ring.head + 1] = (ring.head + 1) - 1
    BY <2>1 DEF RingInv
  <2> QED
    BY <2>1, <2>2 DEF Oldest
<1>4. Pop(ring) = [ring EXCEPT !.head = ring.head + 1]
  <2>1. ring.head + 1 \in Nat /\ trace.n + 1 \in Nat /\ ring.head + 1 < trace.n + 1
    BY <1>1, <1>2
  <2>2. (ring.head + 1) % (trace.n + 1) = ring.head + 1
    BY <2>1, NoWrap
  <2> QED
    BY <1>1, <2>2 DEF Pop, Succ
<1> DEFINE s == CHOOSE x \in Free : \A y \in Free : x <= y
<1>5. s \in Free /\ \A y \in Free : s <= y
  <2>1. Free \in SUBSET Nat /\ Free # {}
    <3>1. Slots \subseteq Nat
      BY TraceFacts DEF TraceTypes, Positions
    <3> QED
      BY <3>1 DEF Admit, Free
  <2>2. \E x \in Free : \A y \in Free : x <= y
    BY <2>1, LeastExists
  <2> QED
    BY <2>2
<1>6. /\ active' = [active EXCEPT ![s] = [request |-> Oldest(ring), left |-> Service(Oldest(ring))]]
      /\ status' = [status EXCEPT ![Oldest(ring)] = "DECODE_READY"]
      /\ admitted' = Append(admitted, Oldest(ring))
      /\ ring' = Pop(ring)
  BY DEF Admit
<1> QED
  BY <1>2, <1>3, <1>4, <1>5, <1>6

LEMMA PositionsStep ==
  ASSUME TraceTypes, TraceNext
  PROVE  /\ Positions'
         /\ trace' = trace /\ Requests' = Requests /\ Slots' = Slots /\ Horizon' = Horizon
<1>1. /\ trace.n \in Nat \ {0} /\ Horizon = trace.n + 8 /\ MaxActive(trace) \in 1 .. trace.n
      /\ Slots = 0 .. MaxActive(trace) - 1
  BY TraceFacts DEF TraceTypes, Positions
<1>2. /\ trace' = trace /\ Requests' = Requests /\ Slots' = Slots /\ Horizon' = Horizon
      /\ MaxActive(trace)' = MaxActive(trace)
  BY DEF TraceNext, Arrive, Offer, ArrivalsOver, Admit, AdmissionOver, SkipIdle, Serve,
         Complete, ServiceOver, Requests, Slots, Horizon
<1>3. /\ trace \in Traces /\ turn \in Turns /\ step \in 0 .. Horizon /\ scan \in Nat
      /\ turn = "arrive" => scan = 0
      /\ turn = "offer" => scan <= trace.n
      /\ turn = "serve" => scan <= MaxActive(trace)
      /\ turn \in {"offer", "admit", "serve"} => step < Horizon
      /\ turn \in {"offer", "admit"} => Len(completed) < trace.n
  BY DEF TraceTypes, Positions
<1>4. CASE Arrive
  BY <1>1, <1>2, <1>3, <1>4 DEF Arrive, Turns, Positions
<1>5. CASE Offer
  <2>1. scan' \in Nat /\ scan' <= trace.n /\ turn' = turn /\ turn = "offer"
        /\ step' = step /\ completed' = completed
    BY <1>1, <1>3, <1>5 DEF Offer
  <2> QED
    BY <1>2, <1>3, <2>1 DEF Positions
<1>6. CASE ArrivalsOver
  BY <1>1, <1>2, <1>3, <1>6 DEF ArrivalsOver, Turns, Positions
<1>7. CASE Admit
  BY <1>2, <1>3, <1>7 DEF Admit, Positions
<1>8. CASE AdmissionOver
  <2>1. /\ scan' = 0 /\ turn' = "serve" /\ turn = "admit" /\ step' = step /\ completed' = completed
    BY <1>8 DEF AdmissionOver
  <2> QED
    BY <1>1, <1>2, <1>3, <2>1 DEF Turns, Positions
<1>9. CASE SkipIdle \/ Serve \/ Complete
  <2>1. scan \in Slots /\ scan' = scan + 1 /\ turn' = turn /\ turn = "serve" /\ step' = step
    BY <1>9 DEF SkipIdle, Serve, Complete, Free
  <2>2. scan' \in Nat /\ scan' <= MaxActive(trace)
    BY <1>1, <1>3, <2>1
  <2> QED
    BY <1>2, <1>3, <2>1, <2>2 DEF Positions
<1>10. CASE ServiceOver
  <2>1. step' \in 0 .. Horizon /\ scan' = 0 /\ turn' = "arrive"
    BY <1>1, <1>3, <1>10 DEF ServiceOver
  <2> QED
    BY <1>2, <1>3, <2>1 DEF Turns, Positions
<1> QED
  BY <1>2, <1>4, <1>5, <1>6, <1>7, <1>8, <1>9, <1>10 DEF TraceNext

LEMMA HoldersStep ==
  ASSUME TraceTypes, RingInv, TraceNext
  PROVE  Holders'
<1>1. /\ trace.n \in Nat \ {0} /\ Requests = 0 .. trace.n - 1
  BY TraceFacts DEF TraceTypes, Positions
<1>2. trace' = trace /\ Requests' = Requests /\ Slots' = Slots /\ SlotState' = SlotState
  BY PositionsStep DEF SlotState
<1>3. /\ ring \in [entries : Seq(Int), head : Nat, tail : Nat] /\ Len(ring.entries) = trace.n + 1
      /\ active \in [Slots -> SlotState] /\ status \in [Requests -> States]
      /\ admitted \in Seq(Requests) /\ completed \in Seq(Requests)
  BY DEF TraceTypes, Holders
<1>4. SUFFICES /\ ring' \in [entries : Seq(Int), head : Nat, tail : Nat]
               /\ Len(ring'.entries) = trace.n + 1
               /\ active' \in [Slots -> SlotState] /\ status' \in [Requests -> States]
               /\ admitted' \in Seq(Requests) /\ completed' \in Seq(Requests)
  BY <1>2 DEF Holders
<1>5. CASE Arrive \/ ArrivalsOver \/ AdmissionOver \/ SkipIdle \/ ServiceOver
  BY <1>3, <1>5 DEF Arrive, ArrivalsOver, AdmissionOver, SkipIdle, ServiceOver
<1>6. CASE Offer
  <2>1. active' = active /\ admitted' = admitted /\ completed' = completed
    BY <1>6 DEF Offer
  <2>2. CASE ring' = ring /\ status' = status
    BY <1>3, <2>1, <2>2
  <2>3. CASE ~(ring' = ring /\ status' = status)
    <3>1. /\ scan < trace.n /\ scan \in Nat
          /\ ring' = [entries |-> [ring.entries EXCEPT ![scan + 1] = scan],
                      head |-> ring.head, tail |-> scan + 1]
          /\ status' = [status EXCEPT ![scan] = "PREFILL_READY"]
      BY <1>6, <2>3, OfferEffect DEF TraceTypes, Positions
    <3>2. /\ [ring.entries EXCEPT ![scan + 1] = scan] \in Seq(Int)
          /\ Len([ring.entries EXCEPT ![scan + 1] = scan]) = trace.n + 1
      <4>1. ring.entries \in Seq(Int) /\ scan + 1 \in 1 .. Len(ring.entries) /\ scan \in Int
        BY <1>1, <1>3, <3>1
      <4> QED
        BY <1>3, <4>1, ExceptSeq
    <3>3. status' \in [Requests -> States]
      BY <1>3, <3>1 DEF States
    <3> QED
      BY <1>3, <2>1, <3>1, <3>2, <3>3
  <2> QED
    BY <2>2, <2>3
<1>7. CASE Admit
  <2> DEFINE r == ring.head
  <2>1. /\ r \in Requests /\ ring' = [ring EXCEPT !.head = r + 1]
        /\ status' = [status EXCEPT ![r] = "DECODE_READY"] /\ admitted' = Append(admitted, r)
        /\ completed' = completed
    BY <1>7, AdmitEffect DEF Admit
  <2>2. PICK s \in Free : active' = [active EXCEPT ![s] = [request |-> r, left |-> Service(r)]]
    BY <1>7, AdmitEffect
  <2>3. r \in Nat /\ [request |-> r, left |-> Service(r)] \in SlotState
    BY <1>1, <2>1, ServiceBounds DEF SlotState
  <2>4. active' \in [Slots -> SlotState]
    BY <1>3, <2>2, <2>3
  <2>5. /\ ring' \in [entries : Seq(Int), head : Nat, tail : Nat] /\ ring'.entries = ring.entries
    <3>1. ring.entries \in Seq(Int) /\ ring.tail \in Nat
      BY <1>3
    <3>2. ring' = [entries |-> ring.entries, head |-> r + 1, tail |-> ring.tail]
      BY <1>3, <2>1
    <3>3. r + 1 \in Nat
      BY <2>3
    <3> QED
      BY <3>1, <3>2, <3>3
  <2>6. status' \in [Requests -> States] /\ admitted' \in Seq(Requests)
    BY <1>3, <2>1 DEF States
  <2> QED
    BY <1>3, <2>1, <2>4, <2>5, <2>6
<1>8. CASE Serve
  <2>1. /\ scan \in Slots /\ active' = [active EXCEPT ![scan].left = @ - 1]
        /\ active[scan].left > 1
        /\ ring' = ring /\ status' = status /\ admitted' = admitted /\ completed' = completed
    BY <1>8 DEF Serve
  <2>2. active[scan] \in SlotState
    BY <1>3, <2>1
  <2>3. active[scan].left - 1 \in 0 .. 3
    BY <2>1, <2>2 DEF SlotState
  <2>4. [active[scan] EXCEPT !.left = @ - 1] \in SlotState
    BY <2>2, <2>3 DEF SlotState
  <2>5. active' = [active EXCEPT ![scan] = [active[scan] EXCEPT !.left = @ - 1]]
    BY <2>1
  <2> QED
    BY <1>3, <2>1, <2>4, <2>5
<1>9. CASE Complete
  <2>1. /\ scan \in Slots /\ active[scan].request # NoRequest
        /\ status' = [status EXCEPT ![active[scan].request] = "COMPLETE"]
        /\ completed' = Append(completed, active[scan].request)
        /\ active' = [active EXCEPT ![scan] = [request |-> NoRequest, left |-> 0]]
        /\ ring' = ring /\ admitted' = admitted
    BY <1>9 DEF Complete, Free
  <2>2. active[scan].request \in Requests
    BY <1>3, <2>1 DEF SlotState
  <2>3. [request |-> NoRequest, left |-> 0] \in SlotState
    BY DEF SlotState
  <2>4. active' \in [Slots -> SlotState]
    BY <1>3, <2>1, <2>3
  <2>5. status' \in [Requests -> States]
    BY <1>3, <2>1 DEF States
  <2> QED
    BY <1>3, <2>1, <2>2, <2>4, <2>5
<1> QED
  BY <1>5, <1>6, <1>7, <1>8, <1>9 DEF TraceNext

(* Only an offer makes a request arrive.                                     *)
LEMMA ArrivedStep ==
  ASSUME TraceTypes, TraceNext, ~Offer, NEW r \in Requests
  PROVE  Arrived(r)' <=> Arrived(r)
<1>1. /\ r \in Nat /\ r < trace.n /\ trace.n \in Nat /\ Arrival(r) \in Nat
      /\ step \in Nat /\ scan \in Nat
  <2>1. /\ trace.n \in Nat /\ Requests = 0 .. trace.n - 1 /\ Horizon = trace.n + 8
        /\ step \in 0 .. Horizon /\ scan \in Nat
    BY TraceFacts DEF TraceTypes, Positions
  <2>2. r \in Nat /\ r < trace.n
    BY <2>1
  <2> QED
    BY <2>1, <2>2, ServiceBounds
<1>2. CASE Arrive
  <2>1. scan' = 0 /\ step' = step /\ turn = "arrive" /\ turn' \in {"offer", "ended"}
    BY <1>2 DEF Arrive, TraceTypes, Positions
  <2> QED
    BY <1>1, <2>1 DEF Arrived
<1>3. CASE ArrivalsOver
  BY <1>1, <1>3 DEF ArrivalsOver, Arrived
<1>4. CASE Admit \/ AdmissionOver \/ SkipIdle \/ Serve \/ Complete
  <2>1. turn \in {"admit", "serve"} /\ turn' \in {"admit", "serve"} /\ step' = step
    BY <1>4 DEF Admit, AdmissionOver, SkipIdle, Serve, Complete
  <2> QED
    BY <2>1 DEF Arrived
<1>5. CASE ServiceOver
  <2>1. turn = "serve" /\ turn' = "arrive" /\ step' = step + 1
    BY <1>5 DEF ServiceOver
  <2>2. Arrival(r) < step + 1 <=> Arrival(r) < step \/ Arrival(r) = step
    BY <1>1
  <2> QED
    BY <2>1, <2>2 DEF Arrived
<1> QED
  BY <1>2, <1>3, <1>4, <1>5 DEF TraceNext

LEMMA RingStep ==
  ASSUME TraceTypes, RingInv, TraceNext
  PROVE  RingInv'
<1>1. /\ trace.n \in Nat \ {0} /\ Requests = 0 .. trace.n - 1 /\ scan \in Nat /\ step \in Nat
      /\ ring.head \in Nat /\ ring.tail \in Nat /\ admitted \in Seq(Requests)
      /\ ring.entries \in Seq(Int) /\ Len(ring.entries) = trace.n + 1
  BY TraceFacts DEF TraceTypes, Positions, Holders
<1>2. trace' = trace /\ Requests' = Requests
  BY PositionsStep
<1>3. /\ ring.head = Len(admitted) /\ ring.head <= ring.tail /\ ring.tail <= trace.n
      /\ \A i \in 1 .. ring.tail : ring.entries[i] = i - 1
      /\ \A i \in DOMAIN admitted : admitted[i] = i - 1
      /\ \A r \in Requests : r < ring.tail <=> Arrived(r)
  BY DEF RingInv
<1>4. CASE Offer
  <2>1. /\ admitted' = admitted /\ step' = step /\ turn = "offer" /\ turn' = "offer"
        /\ scan' = scan + 1
    BY <1>4 DEF Offer
  <2>2. CASE Arrival(scan) # step /\ ring' = ring
    <3>1. ASSUME NEW r \in Requests PROVE Arrived(r)' <=> Arrived(r)
      <4>1. r < scan + 1 <=> r < scan \/ r = scan
        BY <1>1
      <4> QED
        BY <2>1, <2>2, <4>1 DEF Arrived
    <3> QED
      BY <1>2, <1>3, <2>1, <2>2, <3>1 DEF RingInv
  <2>3. CASE ~(Arrival(scan) # step /\ ring' = ring)
    <3>1. /\ Arrival(scan) = step /\ ring.tail = scan /\ scan < trace.n
          /\ ring' = [entries |-> [ring.entries EXCEPT ![scan + 1] = scan],
                      head |-> ring.head, tail |-> scan + 1]
      BY <1>4, <2>3, OfferEffect
    <3>2. ring'.head = ring.head /\ ring'.tail = scan + 1
      BY <3>1
    <3>3. ASSUME NEW i \in 1 .. scan + 1 PROVE ring'.entries[i] = i - 1
      <4>1. scan + 1 \in 1 .. Len(ring.entries) /\ scan \in Int /\ i \in 1 .. Len(ring.entries)
        <5>1. scan \in Nat /\ trace.n \in Nat /\ scan < trace.n /\ Len(ring.entries) = trace.n + 1
          BY <1>1, <3>1
        <5> QED
          BY <5>1
      <4>2. ring'.entries[i] = IF i = scan + 1 THEN scan ELSE ring.entries[i]
        <5>1. ring'.entries = [ring.entries EXCEPT ![scan + 1] = scan]
          BY <3>1
        <5> QED
          BY <1>1, <4>1, <5>1, ExceptSeq
      <4>3. i # scan + 1 => i \in 1 .. ring.tail
        BY <1>1, <3>1
      <4> QED
        BY <1>1, <1>3, <4>2, <4>3
    <3>4. ASSUME NEW r \in Requests PROVE r < scan + 1 <=> Arrived(r)'
      <4>1. r < scan + 1 <=> r < scan \/ r = scan
        BY <1>1
      <4>2. r = scan => Arrived(r)'
        BY <1>1, <2>1, <3>1 DEF Arrived
      <4>3. r # scan => (Arrived(r)' <=> Arrived(r))
        BY <1>1, <2>1, <4>1 DEF Arrived
      <4> QED
        BY <1>3, <3>1, <4>1, <4>2, <4>3
    <3>5. ring.head <= scan + 1 /\ scan + 1 <= trace.n
      BY <1>1, <1>3, <3>1
    <3>6. trace'.n = trace.n /\ Requests' = Requests /\ ring'.head = Len(admitted')
      BY <1>2, <1>3, <2>1, <3>2
    <3> QED
      BY <1>3, <2>1, <3>2, <3>3, <3>4, <3>5, <3>6 DEF RingInv
  <2> QED
    BY <2>2, <2>3
<1>5. CASE Admit
  <2>1. /\ ring.head \in Requests /\ ring.head < ring.tail
        /\ ring' = [ring EXCEPT !.head = ring.head + 1]
        /\ admitted' = Append(admitted, ring.head)
    BY <1>5, AdmitEffect
  <2>2. ring'.head = ring.head + 1 /\ ring'.tail = ring.tail /\ ring'.entries = ring.entries
    BY <2>1 DEF TraceTypes, Holders
  <2>3. \A r \in Requests : Arrived(r)' <=> Arrived(r)
    <3>1. ~Offer
      BY <1>5 DEF Admit, Offer
    <3> QED
      BY <3>1, ArrivedStep
  <2>4. Len(admitted') = ring.head + 1 /\ \A i \in DOMAIN admitted' : admitted'[i] = i - 1
    <3>1. admitted \in Seq(Requests) /\ Len(admitted) = ring.head /\ ring.head \in Nat
      BY <1>1, <1>3
    <3>2. /\ Len(admitted') = ring.head + 1 /\ DOMAIN admitted' = 1 .. ring.head + 1
          /\ admitted'[ring.head + 1] = ring.head
          /\ \A i \in 1 .. ring.head : admitted'[i] = admitted[i]
      BY <2>1, <3>1
    <3>3. ASSUME NEW i \in DOMAIN admitted' PROVE admitted'[i] = i - 1
      <4>1. i \in 1 .. ring.head \/ i = ring.head + 1
        BY <3>1, <3>2
      <4>2. i \in 1 .. ring.head => admitted'[i] = i - 1
        BY <1>3, <3>1, <3>2
      <4>3. i = ring.head + 1 => admitted'[i] = i - 1
        BY <3>1, <3>2
      <4> QED
        BY <4>1, <4>2, <4>3
    <3> QED
      BY <3>2, <3>3
  <2>5. ring.head + 1 <= ring.tail
    <3>1. ring.head \in Nat /\ ring.tail \in Nat /\ ring.head < ring.tail
      BY <1>1, <2>1
    <3> QED
      BY <3>1
  <2> QED
    BY <1>2, <1>3, <2>2, <2>3, <2>4, <2>5 DEF RingInv
<1>6. CASE ~Offer /\ ~Admit
  <2>1. ring' = ring /\ admitted' = admitted
    BY <1>6 DEF TraceNext, Arrive, ArrivalsOver, AdmissionOver, SkipIdle, Serve, Complete,
                ServiceOver
  <2>2. \A r \in Requests : Arrived(r)' <=> Arrived(r)
    BY <1>6, ArrivedStep
  <2> QED
    BY <1>2, <1>3, <2>1, <2>2 DEF RingInv
<1> QED
  BY <1>4, <1>5, <1>6

-----------------------------------------------------------------------------
(* The slots.                                                                *)

LEMMA SlotTypes ==
  ASSUME TraceTypes
  PROVE  /\ Slots \subseteq Nat /\ Requests \subseteq Nat
         /\ \A s \in Slots : /\ active[s].left \in 0 .. 3
                             /\ Held(s) \in Requests \cup {NoRequest}
                             /\ s \in Busy <=> Held(s) \in Requests
         /\ ring.head \in Nat /\ ring.tail \in Nat
         /\ DOMAIN status = Requests /\ DOMAIN active = Slots
         /\ completed \in Seq(Requests)
         /\ NoRequest \notin Requests
<1>1. /\ active \in [Slots -> SlotState] /\ ring.head \in Nat /\ ring.tail \in Nat
      /\ DOMAIN status = Requests /\ completed \in Seq(Requests)
      /\ Slots \subseteq Nat /\ Requests \subseteq Nat /\ NoRequest \notin Requests
  <2>1. trace \in Traces
    BY DEF TraceTypes, Positions
  <2>2. /\ Slots \subseteq Nat /\ Requests \subseteq Nat /\ NoRequest \notin Requests
    BY <2>1, TraceFacts DEF NoRequest
  <2> QED
    BY <2>2 DEF TraceTypes, Holders
<1> QED
  BY <1>1 DEF SlotState, Held, Busy, Free

LEMMA PlaceOffer ==
  ASSUME TraceTypes, RingInv, PlaceInv, Offer
  PROVE  PlaceInv'
<1>1. active' = active /\ completed' = completed /\ trace' = trace
  BY DEF Offer
<1>2. Slots' = Slots /\ Requests' = Requests /\ Free' = Free /\ Busy' = Busy
  BY <1>1 DEF Slots, Requests, Free, Busy
<1>3. CASE ring' = ring /\ status' = status
  BY <1>1, <1>2, <1>3 DEF PlaceInv, Taken, Held, Ended
<1>4. CASE ~(ring' = ring /\ status' = status)
  <2>1. /\ ring.tail = scan /\ ring'.head = ring.head /\ ring'.tail = scan + 1
        /\ status' = [status EXCEPT ![scan] = "PREFILL_READY"]
        /\ ring.head <= scan
    BY <1>4, OfferEffect DEF RingInv
  <2>2. \A r \in Requests : r # scan => status'[r] = status[r]
    BY <2>1, SlotTypes
  <2>3. \A r \in Requests : r < ring.head => r # scan
    BY <2>1, SlotTypes
  <2>4. \A r \in Requests : r = scan => status'[r] = "PREFILL_READY"
    BY <2>1, SlotTypes
  <2>5. ASSUME NEW r \in Requests
        PROVE  /\ r >= scan + 1 => status'[r] = "EMPTY"
               /\ r < scan + 1 /\ r >= ring.head => status'[r] = "PREFILL_READY"
    <3>1. r \in Nat /\ scan \in Nat
      BY <2>1, SlotTypes
    <3>2. r = scan \/ (r >= scan + 1 /\ r >= scan) \/ (~(r >= scan + 1) /\ r < scan)
      BY <3>1
    <3> QED
      BY <2>1, <2>2, <2>4, <3>1, <3>2 DEF PlaceInv
  <2>6. ASSUME NEW r \in Requests, r < ring.head PROVE Taken(r)'
    BY <1>1, <1>2, <2>2, <2>3, <2>6 DEF PlaceInv, Taken, Held, Ended
  <2>7. \A s \in Busy : Held(s) < ring.head /\ status'[Held(s)] = "DECODE_READY"
    BY <2>2, <2>3, SlotTypes DEF PlaceInv, Busy
  <2>8. \A i \in DOMAIN completed :
          completed[i] < ring.head /\ status'[completed[i]] = "COMPLETE"
    BY <2>2, <2>3, SlotTypes DEF PlaceInv
  <2>9. \A s \in Slots : Held(s)' = Held(s)
    BY <1>1 DEF Held
  <2> QED
    BY <1>1, <1>2, <2>1, <2>5, <2>6, <2>7, <2>8, <2>9 DEF PlaceInv, Busy
<1> QED
  BY <1>3, <1>4

(* The front of the ring takes the lowest free slot.                         *)
LEMMA AdmitSlot ==
  ASSUME TraceTypes, RingInv, Admit
  PROVE  \E s \in Free :
           /\ \A f \in Free : s <= f
           /\ s \in Slots /\ s \notin Busy /\ Busy' = Busy \cup {s} /\ Free' = Free \ {s}
           /\ Held(s)' = ring.head /\ active'[s].left = Service(ring.head)
           /\ \A t \in Slots : t # s => Held(t)' = Held(t) /\ active'[t] = active[t]
<1> DEFINE r == ring.head
<1>1. Slots' = Slots
  BY DEF Admit, Slots
<1>2. PICK s \in Free :
        /\ \A f \in Free : s <= f
        /\ active' = [active EXCEPT ![s] = [request |-> r, left |-> Service(r)]]
  BY AdmitEffect
<1>3. r \in Requests
  BY AdmitEffect
<1>4. /\ s \in Slots /\ Held(s)' = r /\ active'[s].left = Service(r)
      /\ \A t \in Slots : t # s => Held(t)' = Held(t) /\ active'[t] = active[t]
  BY <1>2, SlotTypes DEF Free, Held
<1>5. s \notin Busy /\ Busy' = Busy \cup {s} /\ Free' = Free \ {s}
  BY <1>1, <1>2, <1>3, <1>4, SlotTypes DEF Busy, Free, Held
<1> QED
  BY <1>2, <1>4, <1>5

LEMMA PlaceAdmit ==
  ASSUME TraceTypes, RingInv, PlaceInv, Admit
  PROVE  PlaceInv'
<1> DEFINE r == ring.head
<1>1. completed' = completed /\ trace' = trace
  BY DEF Admit
<1>2. Slots' = Slots /\ Requests' = Requests
  BY <1>1 DEF Slots, Requests
<1>3. /\ r \in Requests /\ r < ring.tail
      /\ ring'.head = r + 1 /\ ring'.tail = ring.tail
      /\ status' = [status EXCEPT ![r] = "DECODE_READY"]
  BY AdmitEffect DEF TraceTypes, Holders
<1>4. PICK s \in Free : /\ s \in Slots /\ s \notin Busy /\ Busy' = Busy \cup {s}
                        /\ Held(s)' = r /\ \A t \in Slots : t # s => Held(t)' = Held(t)
  BY AdmitSlot
<1>5. s \in Slots /\ Held(s)' = r /\ \A t \in Slots : t # s => Held(t)' = Held(t)
  BY <1>4
<1>6. Busy' = Busy \cup {s} /\ s \notin Busy
  BY <1>4
<1>7. /\ \A q \in Requests : q # r => status'[q] = status[q]
      /\ status'[r] = "DECODE_READY"
  BY <1>3, SlotTypes
<1>8. \A t \in Busy : Held(t) # r /\ Held(t) \in Requests /\ Held(t) < r
  BY SlotTypes DEF PlaceInv, Busy
<1>9. \A i \in DOMAIN completed : completed[i] # r /\ completed[i] \in Requests /\ completed[i] < r
  BY SlotTypes DEF PlaceInv
<1>10. \A q \in Requests : /\ q \in Nat
                           /\ q < r + 1 <=> q < r \/ q = r
                           /\ q >= r + 1 => q >= r /\ q # r
  BY <1>3, SlotTypes
<1>11. ASSUME NEW q \in Requests
       PROVE  /\ q >= ring.tail => status'[q] = "EMPTY"
              /\ q < ring.tail /\ q >= r + 1 => status'[q] = "PREFILL_READY"
  <2>1. q >= ring.tail => q # r
    BY <1>3, <1>10, SlotTypes
  <2> QED
    BY <1>7, <1>10, <2>1 DEF PlaceInv
<1>12. ASSUME NEW q \in Requests, q < r + 1 PROVE Taken(q)'
  <2>1. CASE q = r
    BY <1>2, <1>5, <1>7, <2>1 DEF Taken
  <2>2. CASE q # r
    <3>1. Taken(q) /\ status'[q] = status[q]
      BY <1>7, <1>10, <1>12, <2>2 DEF PlaceInv
    <3>2. ASSUME NEW t \in Slots, Held(t) = q PROVE t # s /\ Held(t)' = q
      BY <1>4, <1>5, <3>2, SlotTypes DEF Free, Held
    <3> QED
      BY <1>1, <1>2, <3>1, <3>2 DEF Taken, Ended
  <2> QED
    BY <2>1, <2>2
<1>13. ASSUME NEW t \in Busy'
       PROVE  Held(t)' < r + 1 /\ status'[Held(t)'] = "DECODE_READY"
  <2>1. CASE t = s
    BY <1>3, <1>5, <1>7, <1>10, <2>1
  <2>2. CASE t \in Busy
    <3>1. Held(t)' = Held(t)
      BY <1>5, <1>6, <2>2 DEF Busy
    <3> QED
      BY <1>7, <1>8, <1>10, <2>2, <3>1 DEF PlaceInv
  <2> QED
    BY <1>6, <2>1, <2>2
<1>14. ASSUME NEW i \in DOMAIN completed
       PROVE  completed[i] < r + 1 /\ status'[completed[i]] = "COMPLETE"
  BY <1>7, <1>9, <1>10 DEF PlaceInv
<1>15. ASSUME NEW t \in Busy', NEW u \in Busy', Held(t)' = Held(u)' PROVE t = u
  <2>1. \A x \in Busy : Held(x)' = Held(x) /\ x # s
    BY <1>5, <1>6 DEF Busy
  <2> QED
    BY <1>5, <1>6, <1>8, <1>15, <2>1 DEF PlaceInv
<1> QED
  BY <1>1, <1>2, <1>3, <1>11, <1>12, <1>13, <1>14, <1>15 DEF PlaceInv

(* The last quantum of a request.                                            *)
LEMMA CompleteEffect ==
  ASSUME TraceTypes, PlaceInv, OrderInv, Complete
  PROVE  /\ scan \in Busy /\ scan \in Nat /\ Held(scan) \in Requests /\ active[scan].left = 1
         /\ Busy' = Busy \ {scan} /\ Free' = Free \cup {scan}
         /\ \A t \in Busy' : t # scan /\ Held(t)' = Held(t) /\ active'[t] = active[t]
         /\ completed' = Append(completed, Held(scan))
         /\ status' = [status EXCEPT ![Held(scan)] = "COMPLETE"]
         /\ \A t \in Slots : t # scan => Held(t)' = Held(t)
<1>1. /\ scan \in Busy /\ active[scan].left <= 1
      /\ status' = [status EXCEPT ![Held(scan)] = "COMPLETE"]
      /\ completed' = Append(completed, Held(scan))
      /\ active' = [active EXCEPT ![scan] = [request |-> NoRequest, left |-> 0]]
      /\ Slots' = Slots
  BY DEF Complete, Busy, Held, Slots
<1>2. scan \in Slots /\ scan \in Nat /\ Held(scan) \in Requests /\ active[scan].left \in 0 .. 3
  BY <1>1, SlotTypes DEF Busy
<1>3. active[scan].left = 1
  BY <1>1, <1>2 DEF OrderInv, Ages
<1>4. active'[scan].request = NoRequest /\ \A t \in Slots : t # scan => active'[t] = active[t]
  BY <1>1, <1>2, SlotTypes
<1>5. Free' = Free \cup {scan} /\ Busy' = Busy \ {scan}
  BY <1>1, <1>2, <1>4 DEF Free, Busy
<1> QED
  BY <1>1, <1>2, <1>3, <1>4, <1>5 DEF Busy, Held

LEMMA PlaceComplete ==
  ASSUME TraceTypes, RingInv, PlaceInv, OrderInv, Complete
  PROVE  PlaceInv'
<1> DEFINE r == Held(scan)
<1>1. /\ scan \in Busy /\ scan \in Slots /\ r \in Requests
      /\ Busy' = Busy \ {scan} /\ completed' = Append(completed, r)
      /\ status' = [status EXCEPT ![r] = "COMPLETE"]
      /\ \A t \in Slots : t # scan => Held(t)' = Held(t)
  BY CompleteEffect DEF Busy
<1>2. trace' = trace /\ ring' = ring /\ Slots' = Slots /\ Requests' = Requests
  BY DEF Complete, Slots, Requests
<1>3. /\ r < ring.head /\ status[r] = "DECODE_READY"
      /\ r \in Nat /\ ring.head \in Nat /\ ring.tail \in Nat
  BY <1>1, SlotTypes DEF PlaceInv
<1>4. /\ \A q \in Requests : q # r => status'[q] = status[q]
      /\ status'[r] = "COMPLETE"
  BY <1>1, SlotTypes
<1>5. /\ \A t \in Busy' : t \in Busy /\ t # scan /\ Held(t)' = Held(t) /\ Held(t) # r
      /\ \A t \in Busy' : Held(t) \in Requests
  BY <1>1, SlotTypes DEF PlaceInv, Busy
<1>6. /\ DOMAIN completed' = 1 .. Len(completed) + 1 /\ Len(completed) \in Nat
      /\ DOMAIN completed = 1 .. Len(completed)
      /\ completed'[Len(completed) + 1] = r
      /\ \A i \in DOMAIN completed : completed'[i] = completed[i]
      /\ \A i \in DOMAIN completed : completed[i] \in Requests /\ completed[i] # r
  <2>1. \A i \in DOMAIN completed : completed[i] \in Requests /\ status[completed[i]] = "COMPLETE"
    BY SlotTypes DEF PlaceInv
  <2> QED
    BY <1>1, <1>3, <2>1, SlotTypes
<1>9. ASSUME NEW q \in Requests
      PROVE  /\ q >= ring.tail => status'[q] = "EMPTY"
             /\ q < ring.tail /\ q >= ring.head => status'[q] = "PREFILL_READY"
  <2>1. q >= ring.tail => q # r
    BY <1>3 DEF RingInv
  <2>2. q >= ring.head => q # r
    BY <1>3
  <2> QED
    BY <1>4, <2>1, <2>2 DEF PlaceInv
<1>10. ASSUME NEW q \in Requests, q < ring.head PROVE Taken(q)'
  <2>1. CASE q = r
    <3>1. Ended(q)'
      <4>1. Len(completed) + 1 \in DOMAIN completed'
        BY <1>6
      <4> QED
        BY <1>6, <2>1, <4>1 DEF Ended
    <3> QED
      BY <1>4, <2>1, <3>1 DEF Taken
  <2>2. CASE q # r
    <3>1. Taken(q) /\ status'[q] = status[q]
      BY <1>4, <1>10, <2>2 DEF PlaceInv
    <3>2. ASSUME NEW t \in Slots, Held(t) = q PROVE Held(t)' = q
      BY <1>1, <2>2, <3>2
    <3>3. Ended(q) => Ended(q)'
      BY <1>6 DEF Ended
    <3> QED
      BY <1>2, <3>1, <3>2, <3>3 DEF Taken
  <2> QED
    BY <2>1, <2>2
<1>11. ASSUME NEW i \in DOMAIN completed'
       PROVE  completed'[i] < ring.head /\ status'[completed'[i]] = "COMPLETE"
  BY <1>3, <1>4, <1>6 DEF PlaceInv
<1>12. ASSUME NEW i \in DOMAIN completed', NEW j \in DOMAIN completed', completed'[i] = completed'[j]
       PROVE  i = j
  <2>1. i \in DOMAIN completed \/ i = Len(completed) + 1
    BY <1>6
  <2>2. j \in DOMAIN completed \/ j = Len(completed) + 1
    BY <1>6
  <2> QED
    BY <1>6, <1>12, <2>1, <2>2 DEF PlaceInv
<1> QED
  BY <1>2, <1>4, <1>5, <1>9, <1>10, <1>11, <1>12 DEF PlaceInv

LEMMA PlaceStep ==
  ASSUME TraceTypes, RingInv, PlaceInv, OrderInv, TraceNext
  PROVE  PlaceInv'
<1>1. CASE Serve
  <2>1. /\ ring' = ring /\ status' = status /\ completed' = completed
        /\ Requests' = Requests /\ Slots' = Slots
        /\ active' = [active EXCEPT ![scan].left = @ - 1]
    BY <1>1 DEF Serve, Requests, Slots
  <2>2. \A s \in Slots : active'[s].request = active[s].request
    <3>1. \A s \in Slots : active[s] \in SlotState
      BY DEF TraceTypes, Holders
    <3> QED
      BY <2>1, <3>1, SlotTypes DEF SlotState
  <2>3. Busy' = Busy /\ \A s \in Slots : Held(s)' = Held(s)
    BY <2>1, <2>2 DEF Busy, Free, Held
  <2>4. \A s \in Busy : Held(s)' = Held(s)
    BY <2>3 DEF Busy
  <2> QED
    BY <2>1, <2>3, <2>4 DEF PlaceInv, Taken, Ended
<1>2. CASE Arrive \/ ArrivalsOver \/ AdmissionOver \/ SkipIdle \/ ServiceOver
  <2>1. /\ ring' = ring /\ status' = status /\ active' = active /\ completed' = completed
        /\ trace' = trace
    BY <1>2 DEF Arrive, ArrivalsOver, AdmissionOver, SkipIdle, ServiceOver
  <2> QED
    BY <2>1 DEF PlaceInv, Taken, Held, Ended, Busy, Free, Slots, Requests
<1> QED
  BY <1>1, <1>2, PlaceOffer, PlaceAdmit, PlaceComplete DEF TraceNext

-----------------------------------------------------------------------------
(* Ages.                                                                     *)

LEMMA AgeType ==
  ASSUME TraceTypes, NEW s \in Busy
  PROVE  /\ s \in Nat /\ Held(s) \in Nat /\ active[s].left \in 0 .. 3
         /\ Service(Held(s)) \in 1 .. 3 /\ Age(s) \in Int
         /\ Age(s) = IF Served(s) THEN Service(Held(s)) - active[s].left - 1
                                  ELSE Service(Held(s)) - active[s].left
<1>1. s \in Slots /\ Held(s) \in Nat /\ active[s].left \in 0 .. 3 /\ s \in Nat
  BY SlotTypes DEF Busy
<1>2. Service(Held(s)) \in 1 .. 3
  BY <1>1, ServiceBounds
<1> QED
  BY <1>1, <1>2 DEF Age

(* A request ages by one a step, when the slots have all been served.        *)
LEMMA AgeStep ==
  ASSUME TraceTypes, RingInv, PlaceInv, OrderInv, TraceNext, NEW s \in Busy, s \in Busy'
  PROVE  /\ Held(s)' = Held(s)
         /\ ~ServiceOver => Age(s)' = Age(s)
         /\ ServiceOver => Age(s)' = Age(s) + 1
         /\ active[s].left > 1 \/ active'[s].left = active[s].left
         /\ active[s].left > 1 => active'[s].left >= 1
<1>1. /\ s \in Nat /\ s \in Slots /\ scan \in Nat /\ active[s].left \in 0 .. 3
      /\ Service(Held(s)) \in 1 .. 3
  BY AgeType DEF Busy, TraceTypes, Positions
<1>2. CASE Arrive \/ Offer \/ ArrivalsOver \/ AdmissionOver
  <2>1. /\ active' = active /\ ~ServiceOver
        /\ turn # "serve" /\ (turn' = "serve" => scan' = 0)
    BY <1>2 DEF Arrive, Offer, ArrivalsOver, AdmissionOver, ServiceOver, TraceTypes, Positions
  <2>2. Served(s)' <=> Served(s)
    BY <1>1, <2>1 DEF Served
  <2> QED
    BY <1>1, <2>1, <2>2 DEF Age, Held
<1>3. CASE Admit
  <2>1. active'[s] = active[s]
    BY <1>1, <1>3, AdmitSlot
  <2>2. turn # "serve" /\ turn' # "serve" /\ ~ServiceOver
    BY <1>3 DEF Admit, ServiceOver
  <2> QED
    BY <1>1, <2>1, <2>2 DEF Age, Held, Served
<1>4. CASE SkipIdle \/ Complete
  <2>1. turn = "serve" /\ turn' = "serve" /\ scan' = scan + 1 /\ s # scan /\ active'[s] = active[s]
    <3>1. CASE SkipIdle
      BY <3>1 DEF SkipIdle, Busy
    <3>2. CASE Complete
      BY <3>2, CompleteEffect DEF Complete
    <3> QED
      BY <1>4, <3>1, <3>2
  <2>2. ~ServiceOver
    BY <1>1, <2>1 DEF ServiceOver
  <2>3. s < scan + 1 <=> s < scan
    BY <1>1, <2>1
  <2>4. Served(s)' <=> Served(s)
    BY <2>1, <2>3 DEF Served
  <2> QED
    BY <1>1, <2>1, <2>2, <2>4 DEF Age, Held
<1>5. CASE Serve
  <2>1. /\ turn = "serve" /\ turn' = "serve" /\ scan' = scan + 1 /\ active[scan].left > 1
        /\ scan \in Slots /\ active' = [active EXCEPT ![scan].left = @ - 1]
    BY <1>5 DEF Serve
  <2>2. ~ServiceOver
    BY <1>1, <2>1 DEF ServiceOver
  <2>3. CASE s # scan
    <3>1. s < scan + 1 <=> s < scan
      BY <1>1, <2>3
    <3>2. active'[s] = active[s] /\ (Served(s)' <=> Served(s))
      BY <1>1, <2>1, <2>3, <3>1, SlotTypes DEF Served
    <3> QED
      BY <1>1, <2>2, <3>2 DEF Age, Held
  <2>4. CASE s = scan
    <3>1. active[s] \in SlotState
      BY <1>1 DEF TraceTypes, Holders
    <3>2. active'[s].left = active[s].left - 1 /\ active'[s].request = active[s].request
      BY <1>1, <2>1, <2>4, <3>1, SlotTypes DEF SlotState
    <3>3. Served(s)' /\ ~Served(s)
      BY <1>1, <2>1, <2>4 DEF Served
    <3> QED
      BY <1>1, <2>1, <2>2, <2>4, <3>2, <3>3 DEF Age, Held
  <2> QED
    BY <2>3, <2>4
<1>6. CASE ServiceOver
  <2>1. turn = "serve" /\ turn' = "arrive" /\ scan = MaxActive(trace) /\ active' = active
    BY <1>6 DEF ServiceOver
  <2>2. s < scan
    BY <1>1, <2>1, TraceFacts DEF TraceTypes, Positions
  <2>3. Served(s) /\ ~Served(s)'
    BY <2>1, <2>2 DEF Served
  <2> QED
    BY <1>1, <1>6, <2>1, <2>3 DEF Age, Held
<1> QED
  BY <1>2, <1>3, <1>4, <1>5, <1>6 DEF TraceNext

(* The slots change hands only where a request is admitted or completed.     *)
LEMMA BusyStep ==
  ASSUME TraceTypes, RingInv, PlaceInv, OrderInv, TraceNext, ~Admit, ~Complete
  PROVE  Busy' = Busy /\ Free' = Free /\ completed' = completed /\ ring'.head = ring.head
<1>1. CASE Serve
  <2>1. /\ Slots' = Slots /\ active' = [active EXCEPT ![scan].left = @ - 1]
        /\ completed' = completed /\ ring' = ring
    BY <1>1 DEF Serve, Slots
  <2>2. \A s \in Slots : active'[s].request = active[s].request
    <3>1. \A s \in Slots : active[s] \in SlotState
      BY DEF TraceTypes, Holders
    <3> QED
      BY <2>1, <3>1, SlotTypes DEF SlotState
  <2> QED
    BY <2>1, <2>2 DEF Busy, Free
<1>2. CASE Offer
  <2>1. active' = active /\ completed' = completed /\ Slots' = Slots
    BY <1>2 DEF Offer, Slots
  <2>2. ring'.head = ring.head
    BY <1>2, OfferEffect
  <2> QED
    BY <2>1, <2>2 DEF Busy, Free
<1>3. CASE Arrive \/ ArrivalsOver \/ AdmissionOver \/ SkipIdle \/ ServiceOver
  BY <1>3 DEF Arrive, ArrivalsOver, AdmissionOver, SkipIdle, ServiceOver, Busy, Free, Slots
<1> QED
  BY <1>1, <1>2, <1>3 DEF TraceNext

LEMMA OrderAdmit ==
  ASSUME TraceTypes, RingInv, PlaceInv, OrderInv, Admit
  PROVE  OrderInv'
<1> DEFINE r == ring.head
<1>1. completed' = completed /\ turn = "admit" /\ turn' = "admit" /\ r \in Nat
  BY SlotTypes DEF Admit
<1>2. PICK s \in Free : /\ \A f \in Free : s <= f
                        /\ s \in Slots /\ s \notin Busy /\ Busy' = Busy \cup {s}
                        /\ Free' = Free \ {s}
                        /\ Held(s)' = r /\ active'[s].left = Service(r)
  BY AdmitSlot
<1>3. s \in Nat /\ Service(r) \in 1 .. 3 /\ Free \subseteq Nat
  BY <1>1, <1>2, SlotTypes, ServiceBounds DEF Free
<1>4. Age(s)' = 0
  BY <1>1, <1>2, <1>3 DEF Age, Served
<1>5. ~ServiceOver
  BY <1>1 DEF ServiceOver
<1>6. ASSUME NEW t \in Busy
      PROVE  /\ Held(t)' = Held(t) /\ Age(t)' = Age(t) /\ 1 <= active'[t].left
             /\ t \in Nat /\ Age(t) \in Int /\ 0 <= Age(t) /\ Held(t) \in Nat /\ Held(t) < r
  <2>1. t \in Busy' /\ TraceNext
    BY <1>2 DEF TraceNext
  <2>2. /\ Held(t)' = Held(t) /\ Age(t)' = Age(t)
        /\ active[t].left > 1 \/ active'[t].left = active[t].left
        /\ active[t].left > 1 => active'[t].left >= 1
    BY <1>5, <2>1, AgeStep
  <2>3. /\ t \in Nat /\ Age(t) \in Int /\ 0 <= Age(t) /\ Held(t) \in Nat
        /\ active[t].left \in 0 .. 3 /\ 1 <= active[t].left
    BY AgeType DEF OrderInv, Ages
  <2>4. 1 <= active'[t].left
    <3>1. CASE active[t].left > 1
      <4>1. active'[t] = active[t]
        BY <1>2, AdmitSlot DEF Busy
      <4> QED
        BY <2>3, <4>1
    <3>2. CASE ~(active[t].left > 1)
      BY <2>2, <2>3, <3>2
    <3> QED
      BY <3>1, <3>2
  <2> QED
    BY <2>2, <2>3, <2>4 DEF PlaceInv
<1>7. Ages'
  <2>1. ASSUME NEW t \in Busy' PROVE 1 <= active'[t].left /\ 0 <= Age(t)'
    BY <1>2, <1>3, <1>4, <1>6
  <2>2. ASSUME NEW t \in Busy', Age(t)' = 0, NEW f \in Free' PROVE t < f
    <3>1. f \in Free /\ f # s /\ s <= f /\ f \in Nat
      BY <1>2, <1>3
    <3>2. CASE t = s
      BY <1>3, <3>1, <3>2
    <3>3. CASE t \in Busy
      BY <1>1, <1>6, <2>2, <3>1, <3>3 DEF OrderInv, Ages
    <3> QED
      BY <1>2, <3>2, <3>3
  <2> QED
    BY <1>1, <2>1, <2>2 DEF Ages
<1>8. ASSUME NEW t \in Busy', NEW u \in Busy', Held(t)' < Held(u)' PROVE Ahead(t, u)'
  <2>1. CASE t = s
    <3>1. u = s \/ Held(u)' < r
      BY <1>2, <1>6
    <3> QED
      BY <1>1, <1>2, <1>6, <1>8, <2>1, <3>1
  <2>2. CASE t \in Busy /\ u = s
    <3>1. Age(t)' > 0 \/ (Age(t) = 0 /\ t < s)
      <4>1. Age(t) \in Int /\ 0 <= Age(t) /\ Age(t)' = Age(t)
        BY <1>6, <2>2
      <4>2. Age(t) = 0 => t < s
        BY <1>1, <1>2, <2>2 DEF OrderInv, Ages
      <4> QED
        BY <4>1, <4>2
    <3> QED
      BY <1>4, <1>6, <2>2, <3>1 DEF Ahead
  <2>3. CASE t \in Busy /\ u \in Busy
    BY <1>6, <1>8, <2>3 DEF OrderInv, Ahead
  <2> QED
    BY <1>2, <2>1, <2>2, <2>3
<1>9. ASSUME NEW i \in DOMAIN completed, NEW t \in Busy' PROVE Overtakes(completed[i], Held(t)')
  <2>1. CASE t = s
    <3>1. completed[i] \in Nat /\ completed[i] < r
      BY SlotTypes DEF PlaceInv
    <3> QED
      BY <1>1, <1>2, <2>1, <3>1 DEF Overtakes
  <2>2. CASE t \in Busy
    BY <1>6, <2>2 DEF OrderInv
  <2> QED
    BY <1>2, <2>1, <2>2
<1> QED
  BY <1>1, <1>7, <1>8, <1>9 DEF OrderInv, Overtakes

LEMMA OrderComplete ==
  ASSUME TraceTypes, RingInv, PlaceInv, OrderInv, Complete
  PROVE  OrderInv'
<1> DEFINE r == Held(scan)
<1>1. /\ scan \in Busy /\ scan \in Nat /\ r \in Requests /\ active[scan].left = 1
      /\ Busy' = Busy \ {scan}
      /\ \A t \in Busy' : t # scan /\ Held(t)' = Held(t) /\ active'[t] = active[t]
      /\ completed' = Append(completed, r)
  BY CompleteEffect
<1>2. turn = "serve" /\ turn' = "serve" /\ ~ServiceOver /\ TraceNext
  BY <1>1, TraceFacts DEF Complete, ServiceOver, TraceNext, TraceTypes, Positions, Busy
<1>3. Age(scan) \in Int /\ Service(r) = Age(scan) + 1 /\ r \in Nat
  BY <1>1, <1>2, AgeType DEF Served
<1>4. ASSUME NEW t \in Busy'
      PROVE  /\ t \in Busy /\ t # scan /\ Held(t)' = Held(t) /\ Age(t)' = Age(t)
             /\ active'[t].left = active[t].left
             /\ Held(t) \in Nat /\ Held(t) # r
  BY <1>1, <1>2, AgeStep, AgeType DEF PlaceInv
<1>5. ASSUME NEW t \in Busy' PROVE Overtakes(r, Held(t)')
  <2>1. SUFFICES ASSUME Held(t) < r PROVE Service(r) < Service(Held(t))
    BY <1>3, <1>4 DEF Overtakes
  <2>2. Ahead(t, scan)
    BY <1>1, <1>4, <2>1 DEF OrderInv
  <2>3. /\ Age(t) \in Int /\ active[t].left \in 0 .. 3 /\ 1 <= active[t].left
        /\ Service(Held(t)) \in 1 .. 3 /\ t \in Nat
        /\ Age(t) = IF Served(t) THEN Service(Held(t)) - active[t].left - 1
                                 ELSE Service(Held(t)) - active[t].left
    BY <1>4, AgeType DEF OrderInv, Ages
  <2>4. CASE Age(t) > Age(scan)
    BY <1>3, <2>3, <2>4
  <2>5. CASE Age(t) = Age(scan) /\ t < scan
    <3>1. Served(t)
      BY <1>2, <2>5 DEF Served
    <3> QED
      BY <1>3, <2>3, <2>5, <3>1
  <2> QED
    BY <2>2, <2>4, <2>5 DEF Ahead
<1>6. /\ DOMAIN completed' = 1 .. Len(completed) + 1 /\ Len(completed) \in Nat
      /\ DOMAIN completed = 1 .. Len(completed)
      /\ completed'[Len(completed) + 1] = r
      /\ \A i \in DOMAIN completed : completed'[i] = completed[i]
  BY <1>1, SlotTypes
<1>7. \A i \in DOMAIN completed' : i \in DOMAIN completed \/ i = Len(completed) + 1
  BY <1>6
<1>8. ASSUME NEW i \in DOMAIN completed', NEW t \in Busy' PROVE Overtakes(completed'[i], Held(t)')
  BY <1>4, <1>5, <1>6, <1>7 DEF OrderInv
<1>9. ASSUME NEW i \in DOMAIN completed', NEW j \in DOMAIN completed', i < j
      PROVE  Overtakes(completed'[i], completed'[j])
  <2>1. i \in DOMAIN completed
    <3>1. i \in Nat /\ j \in Nat /\ j <= Len(completed) + 1
      BY <1>6
    <3> QED
      BY <1>6, <1>7, <1>9, <3>1
  <2>2. CASE j = Len(completed) + 1
    BY <1>1, <1>6, <2>1, <2>2 DEF OrderInv
  <2>3. CASE j \in DOMAIN completed
    BY <1>6, <1>9, <2>1, <2>3 DEF OrderInv
  <2> QED
    BY <1>7, <2>2, <2>3
<1>10. Ages'
  BY <1>2, <1>4 DEF OrderInv, Ages
<1>11. ASSUME NEW t \in Busy', NEW u \in Busy', Held(t)' < Held(u)' PROVE Ahead(t, u)'
  BY <1>4, <1>11 DEF OrderInv, Ahead
<1> QED
  BY <1>8, <1>9, <1>10, <1>11 DEF OrderInv

LEMMA OrderStep ==
  ASSUME TraceTypes, RingInv, PlaceInv, OrderInv, TraceNext
  PROVE  OrderInv'
<1>1. CASE ~Admit /\ ~Complete
  <2>1. Busy' = Busy /\ Free' = Free /\ completed' = completed
    BY <1>1, BusyStep
  <2>2. ASSUME NEW s \in Busy
        PROVE  /\ Held(s)' = Held(s) /\ 1 <= active'[s].left
               /\ Age(s) \in Int /\ 0 <= Age(s)
               /\ ~ServiceOver => Age(s)' = Age(s)
               /\ ServiceOver => Age(s)' = Age(s) + 1
    <3>1. /\ Held(s)' = Held(s)
          /\ ~ServiceOver => Age(s)' = Age(s)
          /\ ServiceOver => Age(s)' = Age(s) + 1
          /\ active[s].left > 1 \/ active'[s].left = active[s].left
          /\ active[s].left > 1 => active'[s].left >= 1
      BY <2>1, AgeStep
    <3>2. Age(s) \in Int /\ 0 <= Age(s) /\ active[s].left \in 0 .. 3 /\ 1 <= active[s].left
      BY AgeType DEF OrderInv, Ages
    <3>3. active'[s].left \in 0 .. 3
      BY <2>1, HoldersStep, PositionsStep DEF Holders, SlotState, Busy
    <3> QED
      BY <3>1, <3>2, <3>3
  <2>3. Ages'
    <3>1. ASSUME turn' \in {"arrive", "offer"}, NEW s \in Busy PROVE 1 <= Age(s)'
      <4>1. CASE ServiceOver
        BY <2>2, <4>1
      <4>2. CASE ~ServiceOver
        <5>1. turn \in {"arrive", "offer"}
          BY <3>1, <4>2, <1>1 DEF TraceNext, Arrive, Offer, ArrivalsOver, AdmissionOver, SkipIdle, Serve
        <5> QED
          BY <2>2, <4>2, <5>1 DEF OrderInv, Ages
      <4> QED
        BY <4>1, <4>2
    <3>2. ASSUME turn' = "admit", NEW s \in Busy, Age(s)' = 0 PROVE FALSE
      <4>1. turn = "offer" /\ ~ServiceOver
        BY <3>2, <1>1 DEF TraceNext, Arrive, Offer, ArrivalsOver, AdmissionOver, SkipIdle,
                          Serve, ServiceOver, TraceTypes, Positions
      <4> QED
        BY <2>2, <3>2, <4>1 DEF OrderInv, Ages
    <3>3. ASSUME NEW s \in Busy PROVE 1 <= active'[s].left /\ 0 <= Age(s)'
      BY <2>2
    <3> QED
      BY <2>1, <3>1, <3>2, <3>3 DEF Ages
  <2>4. ASSUME NEW s \in Busy, NEW t \in Busy, Held(s)' < Held(t)' PROVE Ahead(s, t)'
    <3>1. Ahead(s, t)
      BY <2>2, <2>4 DEF OrderInv
    <3>2. CASE ServiceOver
      BY <2>2, <3>1, <3>2 DEF Ahead
    <3>3. CASE ~ServiceOver
      BY <2>2, <3>1, <3>3 DEF Ahead
    <3> QED
      BY <3>2, <3>3
  <2> QED
    BY <2>1, <2>2, <2>3, <2>4 DEF OrderInv, Overtakes
<1> QED
  BY <1>1, OrderAdmit, OrderComplete

-----------------------------------------------------------------------------
(* Progress.                                                                 *)

(* A request admitted in time that is still served in step p is one of the   *)
(* two before p.                                                             *)
LEMMA StillServed ==
  ASSUME NEW p \in Nat, NEW q \in Nat, q < p, p <= q + Service(q) - 1
  PROVE  (q = p - 1 /\ Service(q) # 1) \/ (q = p - 2 /\ Service(q) = 3)
<1>1. Service(q) \in 1 .. 3
  BY ServiceBounds
<1> QED
  BY <1>1

LEMMA AfterThreeOne ==
  ASSUME NEW p \in Nat, p >= 2, Service(p - 2) = 3
  PROVE  Service(p - 1) = 1
BY DEF Service

(* Two slots are not both taken when the request of a step is next.          *)
LEMMA SlotInTime ==
  ASSUME TraceTypes, RingInv, PlaceInv, OrderInv, ManyInv, MaxActive(trace) > 1,
         turn = "admit", ring.head = step
  PROVE  Free # {}
<1> SUFFICES ASSUME Free = {} PROVE FALSE
  OBVIOUS
<1>1. 0 \in Busy /\ 1 \in Busy
  <2>1. 0 \in Slots /\ 1 \in Slots
    BY TraceFacts DEF TraceTypes, Positions
  <2> QED
    BY <2>1 DEF Busy
<1>2. step \in Nat
  BY SlotTypes
<1>3. ASSUME NEW s \in Busy
      PROVE  \/ Held(s) = step - 1 /\ Service(Held(s)) # 1
             \/ Held(s) = step - 2 /\ Service(Held(s)) = 3
  <2>1. /\ Held(s) \in Nat /\ Held(s) < step /\ step - Age(s) <= Held(s)
        /\ active[s].left \in 0 .. 3 /\ 1 <= active[s].left /\ Service(Held(s)) \in 1 .. 3
        /\ Age(s) \in Int
    BY AgeType DEF PlaceInv, OrderInv, Ages, ManyInv
  <2>2. Age(s) = Service(Held(s)) - active[s].left
    BY AgeType DEF Served
  <2>3. step <= Held(s) + Service(Held(s)) - 1
    BY <1>2, <2>1, <2>2
  <2> QED
    BY <1>2, <2>1, <2>3, StillServed
<1>4. Held(0) # Held(1)
  BY <1>1 DEF PlaceInv
<1>5. PICK s \in Busy, t \in Busy : /\ Held(s) = step - 1 /\ Service(Held(s)) # 1
                                  /\ Held(t) = step - 2 /\ Service(Held(t)) = 3
  BY <1>1, <1>3, <1>4
<1>6. step >= 2
  <2>1. Held(t) \in Nat
    BY AgeType
  <2> QED
    BY <1>2, <1>5, <2>1
<1> QED
  BY <1>2, <1>5, <1>6, AfterThreeOne

(* A request whose time has come has arrived when admission begins.          *)
LEMMA HeadArrived ==
  ASSUME TraceTypes, RingInv, turn = "admit", ring.head < trace.n, Arrival(ring.head) <= step
  PROVE  ~IsEmpty(ring)
<1>1. /\ ring.head \in Requests /\ step \in Nat /\ Arrival(ring.head) \in Nat
  <2>1. /\ trace.n \in Nat /\ Requests = 0 .. trace.n - 1 /\ Horizon = trace.n + 8
        /\ step \in 0 .. Horizon /\ ring.head \in Nat
    BY TraceFacts DEF TraceTypes, Positions, Holders
  <2>2. Arrival(ring.head) \in Nat
    BY <2>1, ServiceBounds
  <2> QED
    BY <2>1, <2>2
<1>2. Arrived(ring.head)
  BY <1>1 DEF Arrived
<1>3. ring.head < ring.tail
  BY <1>1, <1>2 DEF RingInv
<1> QED
  BY <1>3, SlotTypes DEF IsEmpty

LEMMA ManyStep ==
  ASSUME TraceTypes, RingInv, PlaceInv, OrderInv, ManyInv, TraceNext
  PROVE  ManyInv'
<1> SUFFICES ASSUME MaxActive(trace) > 1 PROVE ManyInv'
  BY PositionsStep DEF ManyInv
<1>1. trace' = trace /\ step \in Nat /\ ring.head \in Nat
  BY PositionsStep, SlotTypes, TraceFacts DEF TraceTypes, Positions
<1>2. /\ \A s \in Busy : step - Age(s) <= Held(s)
      /\ turn # "serve" => ring.head = trace.n \/ ring.head >= step
      /\ turn = "serve" => ring.head = trace.n \/ ring.head > step
  BY DEF ManyInv
<1>3. ASSUME NEW s \in Busy, s \in Busy'
      PROVE  step' - Age(s)' <= Held(s)'
  <2>1. Age(s) \in Int /\ Held(s) \in Nat
    BY AgeType
  <2>2. CASE ServiceOver
    <3>1. step' = step + 1 /\ Age(s)' = Age(s) + 1 /\ Held(s)' = Held(s)
      BY <1>3, <2>2, AgeStep DEF ServiceOver
    <3> QED
      BY <1>1, <1>2, <2>1, <3>1
  <2>3. CASE ~ServiceOver
    <3>1. step' = step
      BY <2>3 DEF TraceNext, Arrive, Offer, ArrivalsOver, Admit, AdmissionOver, SkipIdle,
                  Serve, Complete
    <3>2. Age(s)' = Age(s) /\ Held(s)' = Held(s)
      BY <1>3, <2>3, AgeStep
    <3> QED
      BY <1>2, <3>1, <3>2
  <2> QED
    BY <2>2, <2>3
<1>4. CASE Admit
  <2>1. /\ turn = "admit" /\ turn' = "admit" /\ step' = step
        /\ ring.head < ring.tail /\ ring'.head = ring.head + 1 /\ ring.tail <= trace.n
    BY <1>4, AdmitEffect DEF Admit, RingInv, TraceTypes, Holders
  <2>2. ring.head >= step
    BY <1>1, <1>2, <2>1, SlotTypes, TraceFacts DEF TraceTypes, Positions
  <2>3. PICK s \in Free : /\ s \notin Busy /\ Busy' = Busy \cup {s} /\ Held(s)' = ring.head
                          /\ active'[s].left = Service(ring.head)
    BY <1>4, AdmitSlot
  <2>4. Age(s)' = 0
    BY <1>1, <2>1, <2>3, ServiceBounds DEF Age, Served
  <2>5. \A t \in Busy' : step' - Age(t)' <= Held(t)'
    BY <1>1, <1>3, <2>1, <2>2, <2>3, <2>4
  <2> QED
    BY <1>1, <2>1, <2>2, <2>5 DEF ManyInv
<1>5. CASE ~Admit
  <2>1. ring'.head = ring.head /\ Busy' \subseteq Busy
    <3>1. CASE Complete
      BY <3>1, CompleteEffect DEF Complete
    <3>2. CASE ~Complete
      BY <1>5, <3>2, BusyStep
    <3> QED
      BY <3>1, <3>2
  <2>2. \A s \in Busy' : step' - Age(s)' <= Held(s)'
    BY <1>3, <2>1
  <2>3. CASE AdmissionOver
    <3>1. turn = "admit" /\ turn' = "serve" /\ step' = step /\ (Free = {} \/ IsEmpty(ring))
      BY <2>3 DEF AdmissionOver
    <3>2. ring.head = trace.n \/ ring.head > step
      <4>1. SUFFICES ASSUME ring.head # trace.n, ring.head = step PROVE FALSE
        BY <1>1, <1>2, <3>1
      <4>2. ring.head < trace.n
        BY <4>1, SlotTypes, TraceFacts DEF RingInv, TraceTypes, Positions
      <4>3. ~IsEmpty(ring)
        BY <1>1, <3>1, <4>1, <4>2, HeadArrived, ServiceBounds
      <4> QED
        BY <3>1, <4>1, <4>3, SlotInTime
    <3> QED
      BY <1>1, <2>1, <2>2, <3>1, <3>2 DEF ManyInv
  <2>4. CASE ServiceOver
    <3>1. turn = "serve" /\ turn' = "arrive" /\ step' = step + 1
      BY <2>4 DEF ServiceOver
    <3>2. ring.head = trace.n \/ ring.head >= step + 1
      BY <1>1, <1>2, <3>1
    <3> QED
      BY <1>1, <2>1, <2>2, <3>1, <3>2 DEF ManyInv
  <2>5. CASE ~AdmissionOver /\ ~ServiceOver
    <3>1. /\ step' = step
          /\ turn' = "serve" <=> turn = "serve"
      BY <1>5, <2>5 DEF TraceNext, Arrive, Offer, ArrivalsOver, SkipIdle, Serve, Complete
    <3> QED
      BY <1>1, <1>2, <2>1, <2>2, <3>1 DEF ManyInv
  <2> QED
    BY <2>3, <2>4, <2>5
<1> QED
  BY <1>4, <1>5

LEMMA QuantaNext ==
  ASSUME NEW k \in Nat
  PROVE  /\ Quanta(k) \in Nat /\ Quanta(k + 1) = Quanta(k) + Service(k)
         /\ k <= Quanta(k) /\ Quanta(k) <= 2 * k /\ 2 * k <= Quanta(k) + 1
         /\ k % 3 = 0 => Quanta(k) = 2 * k
BY DEF Quanta, Service

LEMMA IntervalSize ==
  ASSUME NEW k \in Nat
  PROVE  /\ IsFiniteSet(0 .. k - 1) /\ Cardinality(0 .. k - 1) = k
         /\ Cardinality(1 .. k) = k
<1>1. /\ 0 \in Int /\ 1 \in Int /\ k \in Int /\ k - 1 \in Int
      /\ (0 > k - 1) => k = 0
      /\ (1 > k) => k = 0
      /\ k - 1 - 0 + 1 = k /\ k - 1 + 1 = k
  OBVIOUS
<1>2. /\ IsFiniteSet(0 .. k - 1)
      /\ Cardinality(0 .. k - 1) = IF 0 > k - 1 THEN 0 ELSE k - 1 - 0 + 1
  BY <1>1, FS_Interval, Zenon
<1>3. Cardinality(1 .. k) = IF 1 > k THEN 0 ELSE k - 1 + 1
  BY <1>1, FS_Interval, Zenon
<1> QED
  BY <1>1, <1>2, <1>3

(* A sequence that holds every request is as long as the trace.              *)
LEMMA AllEnded ==
  ASSUME TraceTypes, \A r \in Requests : Ended(r)
  PROVE  Len(completed) >= trace.n
<1>1. /\ completed \in Seq(Requests) /\ trace.n \in Nat \ {0} /\ Requests = 0 .. trace.n - 1
  BY TraceFacts DEF TraceTypes, Positions, Holders
<1>2. /\ completed \in [1 .. Len(completed) -> Requests] /\ Len(completed) \in Nat
      /\ DOMAIN completed = 1 .. Len(completed)
  BY <1>1
<1>3. completed \in Surjection(1 .. Len(completed), Requests)
  BY <1>2 DEF Surjection, Ended
<1>4. ExistsSurjection(1 .. Len(completed), Requests)
  BY <1>3 DEF ExistsSurjection
<1>5. Cardinality(Requests) <= Len(completed)
  BY <1>2, <1>4, FS_SurjCardinalityBound
<1>6. Cardinality(Requests) = trace.n
  BY <1>1, IntervalSize
<1> QED
  BY <1>1, <1>2, <1>5, <1>6

(* With all admitted and no slot taken, all are completed.                   *)
LEMMA NoneLeft ==
  ASSUME TraceTypes, PlaceInv, ring.head = trace.n, Busy = {}
  PROVE  Len(completed) >= trace.n
<1>1. ASSUME NEW r \in Requests PROVE Ended(r)
  <2>1. r < ring.head
    BY TraceFacts DEF TraceTypes, Positions
  <2>2. Taken(r)
    BY <2>1 DEF PlaceInv
  <2>3. \A s \in Slots : Held(s) # r
    BY SlotTypes
  <2> QED
    BY <2>2, <2>3 DEF Taken
<1> QED
  BY <1>1, AllEnded

LEMMA OneStep ==
  ASSUME TraceTypes, RingInv, PlaceInv, OrderInv, OneInv, TraceNext
  PROVE  OneInv'
<1> SUFFICES ASSUME MaxActive(trace) = 1 PROVE OneInv'
  BY PositionsStep DEF OneInv
<1>1. trace' = trace /\ step \in Nat /\ ring.head \in Nat /\ Slots = {0} /\ scan \in Nat
  BY PositionsStep, SlotTypes, TraceFacts DEF TraceTypes, Positions
<1>2. /\ 0 \in Busy => Held(0) = ring.head - 1 /\ step - Age(0) = Quanta(Held(0))
      /\ 0 \in Free /\ turn # "serve" => step = Quanta(ring.head)
      /\ 0 \in Free /\ turn = "serve" => scan = 1 /\ step + 1 = Quanta(ring.head)
      /\ 0 \in Busy <=> 0 \notin Free
  BY <1>1 DEF OneInv, Busy
<1>3. CASE Admit
  <2>1. /\ turn = "admit" /\ turn' = "admit" /\ step' = step
        /\ ring'.head = ring.head + 1
    BY <1>3, AdmitEffect DEF Admit, TraceTypes, Holders
  <2>2. PICK s \in Free : /\ Busy' = Busy \cup {s} /\ Held(s)' = ring.head
                          /\ active'[s].left = Service(ring.head) /\ Free' = Free \ {s}
    BY <1>3, AdmitSlot
  <2>3. s = 0
    BY <1>1 DEF Free
  <2>4. Age(0)' = 0
    BY <1>1, <2>1, <2>2, <2>3, ServiceBounds DEF Age, Served
  <2>5. step = Quanta(ring.head)
    BY <1>2, <2>1, <2>3
  <2>6. Held(0)' = ring'.head - 1 /\ step' - Age(0)' = Quanta(Held(0)') /\ 0 \notin Free'
    BY <1>1, <2>1, <2>2, <2>3, <2>4, <2>5
  <2> QED
    BY <2>6 DEF OneInv
<1>4. CASE Complete
  <2>1. /\ scan = 0 /\ scan \in Busy /\ Busy' = {} /\ active[scan].left = 1
    BY <1>1, <1>4, CompleteEffect DEF Busy
  <2>2. turn = "serve" /\ turn' = "serve" /\ scan' = 1 /\ step' = step /\ ring' = ring
    BY <1>4, <2>1 DEF Complete
  <2>3. Age(0) = Service(Held(0)) - 1 /\ Held(0) \in Nat /\ Service(Held(0)) \in 1 .. 3
    BY <2>1, <2>2, AgeType DEF Served
  <2>4. Held(0) = ring.head - 1 /\ step - Age(0) = Quanta(Held(0))
    BY <1>2, <2>1
  <2>5. step + 1 = Quanta(Held(0)) + Service(Held(0)) /\ Held(0) + 1 = ring.head
    <3>1. Quanta(Held(0)) \in Nat
      BY <2>3, QuantaNext
    <3> HIDE DEF Quanta, Age, Service, Held
    <3> QED
      BY <1>1, <2>3, <2>4, <3>1
  <2>6. step + 1 = Quanta(ring.head)
    <3>1. Quanta(Held(0) + 1) = Quanta(Held(0)) + Service(Held(0))
      BY <2>3, QuantaNext
    <3> QED
      BY <2>5, <3>1
  <2> QED
    BY <2>1, <2>2, <2>6 DEF OneInv
<1>5. CASE AdmissionOver
  <2>1. /\ turn = "admit" /\ turn' = "serve" /\ step' = step /\ ring' = ring
        /\ Free = {} \/ IsEmpty(ring)
    BY <1>5 DEF AdmissionOver
  <2>2. Busy' = Busy /\ Free' = Free
    BY <1>5, BusyStep DEF AdmissionOver, Admit, Complete
  <2>3. 0 \notin Free
    <3>1. SUFFICES ASSUME 0 \in Free PROVE FALSE
      OBVIOUS
    <3>2. step = Quanta(ring.head) /\ IsEmpty(ring) /\ ~(0 \in Busy)
      BY <1>2, <2>1, <3>1
    <3>3. Arrival(ring.head) <= step
      <4>1. Arrival(ring.head) \in Nat /\ Arrival(ring.head) <= ring.head /\ ring.head <= Quanta(ring.head)
        BY <1>1, ServiceBounds, QuantaNext
      <4> QED
        BY <1>1, <3>2, <4>1
    <3>4. ring.head = trace.n
      BY <2>1, <3>2, <3>3, HeadArrived, SlotTypes, TraceFacts DEF RingInv, TraceTypes, Positions
    <3>5. Busy = {}
      BY <1>1, <3>2 DEF Busy
    <3>6. Len(completed) >= trace.n
      BY <3>4, <3>5, NoneLeft
    <3>7. Len(completed) < trace.n /\ Len(completed) \in Nat /\ trace.n \in Nat
      BY <2>1, SlotTypes, TraceFacts DEF TraceTypes, Positions
    <3> QED
      BY <3>6, <3>7
  <2>4. 0 \in Busy => Held(0)' = Held(0) /\ Age(0)' = Age(0)
    <3>1. ~ServiceOver
      BY <2>1 DEF ServiceOver
    <3> QED
      BY <2>2, <3>1, AgeStep
  <2> QED
    BY <1>2, <2>1, <2>2, <2>3, <2>4 DEF OneInv
<1>6. CASE ServiceOver
  <2>1. /\ turn = "serve" /\ turn' = "arrive" /\ step' = step + 1 /\ ring' = ring
    BY <1>6 DEF ServiceOver
  <2>2. Busy' = Busy /\ Free' = Free
    BY <1>6, <2>1, BusyStep DEF ServiceOver, Admit, Complete
  <2>3. 0 \in Busy => Held(0)' = Held(0) /\ Age(0)' = Age(0) + 1 /\ Age(0) \in Int
    BY <1>6, <2>2, AgeStep, AgeType
  <2>4. 0 \in Busy => step' - Age(0)' = Quanta(Held(0))
    BY <1>1, <1>2, <2>1, <2>3
  <2> QED
    BY <1>2, <2>1, <2>2, <2>3, <2>4 DEF OneInv
<1>7. CASE ~Admit /\ ~Complete /\ ~AdmissionOver /\ ~ServiceOver
  <2>1. Busy' = Busy /\ Free' = Free /\ ring'.head = ring.head
    BY <1>7, BusyStep
  <2>2. /\ step' = step
        /\ turn' = "serve" <=> turn = "serve"
    BY <1>7 DEF TraceNext, Arrive, Offer, ArrivalsOver, SkipIdle, Serve
  <2>3. 0 \in Busy => Held(0)' = Held(0) /\ Age(0)' = Age(0)
    BY <1>7, <2>1, AgeStep
  <2>4. turn = "serve" /\ 0 \in Free => FALSE
    <3>1. SUFFICES ASSUME turn = "serve", 0 \in Free PROVE FALSE
      OBVIOUS
    <3>2. scan = 1
      BY <1>2, <3>1
    <3>3. scan \in Slots
      BY <1>7, <3>1 DEF TraceNext, Arrive, Offer, ArrivalsOver, SkipIdle, Serve, Free
    <3> QED
      BY <1>1, <3>2, <3>3
  <2> QED
    BY <1>2, <2>1, <2>2, <2>3, <2>4 DEF OneInv
<1> QED
  BY <1>3, <1>4, <1>5, <1>6, <1>7

LEMMA EndStep ==
  ASSUME TraceTypes, EndInv, TraceNext
  PROVE  EndInv'
<1>1. CASE Arrive
  <2>1. /\ turn' = "ended" => ~(step < Horizon /\ Len(completed) < trace.n)
        /\ trace' = trace /\ step' = step /\ completed' = completed /\ Horizon' = Horizon
    BY <1>1 DEF Arrive, Horizon
  <2>2. step \in 0 .. Horizon /\ Horizon \in Nat /\ Len(completed) \in Nat /\ trace.n \in Nat
    <3>1. trace \in Traces /\ step \in 0 .. Horizon /\ completed \in Seq(Requests)
      BY DEF TraceTypes, Positions, Holders
    <3>2. trace.n \in Nat /\ Horizon = trace.n + 8
      BY <3>1, TraceFacts
    <3> QED
      BY <3>1, <3>2
  <2> QED
    BY <2>1, <2>2 DEF EndInv
<1>2. CASE ~Arrive
  <2>1. turn' # "ended"
    BY <1>2 DEF TraceNext, Offer, ArrivalsOver, Admit, AdmissionOver, SkipIdle, Serve, Complete,
                ServiceOver
  <2> QED
    BY <2>1 DEF EndInv
<1> QED
  BY <1>1, <1>2

-----------------------------------------------------------------------------
(* The invariant as a whole.                                                 *)

LEMMA InitReplayInv ==
  Init => ReplayInv
<1> SUFFICES ASSUME Init PROVE ReplayInv
  OBVIOUS
<1>1. PICK t \in Traces : TraceInit(t)
  <2>1. AnyOf(Traces) \in Traces
    BY HostAssumption DEF AnyOf
  <2> QED
    BY <2>1 DEF Init
<1>2. /\ trace = t /\ turn = "arrive" /\ step = 0 /\ scan = 0
      /\ ring = [entries |-> [i \in 1 .. RingCapacity(t) |-> NoRequest], head |-> 0, tail |-> 0]
      /\ active = [s \in Slots |-> [request |-> NoRequest, left |-> 0]]
      /\ status = [r \in Requests |-> "EMPTY"]
      /\ admitted = <<>> /\ completed = <<>>
  BY <1>1 DEF TraceInit, Slots, Requests
<1>3. /\ trace \in Traces /\ trace.n \in Nat \ {0} /\ Horizon = trace.n + 8
      /\ Requests = 0 .. trace.n - 1 /\ RingCapacity(trace) = trace.n + 1
      /\ Requests \subseteq Nat
  BY <1>2, TraceFacts
<1>4. Positions
  BY <1>2, <1>3 DEF Positions, Turns
<1>5. Holders
  <2>1. [i \in 1 .. trace.n + 1 |-> NoRequest] \in Seq(Int)
    BY <1>3 DEF NoRequest
  <2>2. ring = [entries |-> [i \in 1 .. trace.n + 1 |-> NoRequest], head |-> 0, tail |-> 0]
    BY <1>2, <1>3
  <2>3. Len([i \in 1 .. trace.n + 1 |-> NoRequest]) = trace.n + 1
    BY <1>3
  <2>4. /\ ring \in [entries : Seq(Int), head : Nat, tail : Nat]
        /\ Len(ring.entries) = trace.n + 1
    BY <2>1, <2>2, <2>3
  <2>5. active \in [Slots -> SlotState] /\ status \in [Requests -> States]
    BY <1>2 DEF SlotState, States
  <2>6. admitted \in Seq(Requests) /\ completed \in Seq(Requests)
    BY <1>2
  <2> QED
    BY <2>4, <2>5, <2>6 DEF Holders
<1>6. Busy = {}
  BY <1>2 DEF Busy, Free
<1>7. ring.head = 0 /\ ring.tail = 0 /\ DOMAIN admitted = {} /\ DOMAIN completed = {}
      /\ Len(admitted) = 0
  BY <1>2
<1>8. RingInv
  <2>1. ASSUME NEW r \in Requests PROVE ~(r < 0) /\ ~Arrived(r)
    BY <1>2, <1>3, ServiceBounds DEF Arrived
  <2> QED
    BY <1>3, <1>7, <2>1 DEF RingInv
<1>9. PlaceInv
  <2>1. \A r \in Requests : ~(r < 0) /\ status[r] = "EMPTY"
    BY <1>2, <1>3
  <2> QED
    BY <1>6, <1>7, <2>1 DEF PlaceInv
<1>10. OrderInv /\ EndInv
  BY <1>2, <1>6, <1>7 DEF OrderInv, Ages, EndInv
<1>11. ManyInv
  BY <1>2, <1>6, <1>7 DEF ManyInv
<1>12. OneInv
  <2>1. Quanta(0) = 0
    BY DEF Quanta
  <2> QED
    BY <1>2, <1>6, <1>7, <2>1 DEF OneInv
<1> QED
  BY <1>4, <1>5, <1>8, <1>9, <1>10, <1>11, <1>12 DEF ReplayInv, TraceTypes

LEMMA NextReplayInv ==
  ReplayInv /\ [Next]_vars => ReplayInv'
<1>1. [Next]_vars => TraceNext \/ UNCHANGED traceVars
  BY DEF Next, vars, BaselineLaunch, LaunchMegaKernel, RunMegaKernel, RunTraceReplay,
         RunScheduler, RunTierResidency, Synchronize
<1>2. ASSUME ReplayInv, TraceNext PROVE ReplayInv'
  <2>1. TraceTypes /\ RingInv /\ PlaceInv /\ OrderInv /\ ManyInv /\ OneInv /\ EndInv
    BY <1>2 DEF ReplayInv
  <2>2. TraceTypes'
    BY <1>2, <2>1, PositionsStep, HoldersStep DEF TraceTypes
  <2> QED
    BY <1>2, <2>1, <2>2, RingStep, PlaceStep, OrderStep, ManyStep, OneStep, EndStep
       DEF ReplayInv
<1>3. ASSUME ReplayInv, UNCHANGED traceVars PROVE ReplayInv'
  <2>1. UNCHANGED <<trace, turn, step, scan, ring, active, status, admitted, completed>>
    BY <1>3 DEF traceVars
  <2>2. TraceTypes'
    BY <1>3, <2>1 DEF ReplayInv, TraceTypes, Positions, Holders, Horizon, SlotState, Slots,
                      Requests
  <2>3. RingInv' /\ PlaceInv'
    BY <1>3, <2>1 DEF ReplayInv, RingInv, PlaceInv, Arrived, Taken, Held, Ended, Busy, Free,
                      Slots, Requests
  <2>4. OrderInv' /\ ManyInv'
    BY <1>3, <2>1 DEF ReplayInv, OrderInv, ManyInv, Ages, Ahead, Overtakes, Age, Served, Held,
                      Busy, Free, Slots
  <2>5. OneInv' /\ EndInv'
    BY <1>3, <2>1 DEF ReplayInv, OneInv, EndInv, Age, Served, Held, Busy, Free, Slots, Horizon
  <2> QED
    BY <2>2, <2>3, <2>4, <2>5 DEF ReplayInv
<1> QED
  BY <1>1, <1>2, <1>3

LEMMA AlwaysReplayInv ==
  Spec => []ReplayInv
BY InitReplayInv, NextReplayInv, PTL DEF Spec

(* The queue of the ring holds the requests from head to tail.               *)
LEMMA QueuedFacts ==
  ASSUME TraceTypes, RingInv
  PROVE  /\ Depth(ring) = ring.tail - ring.head
         /\ \A i \in 1 .. Depth(ring) : Queued(ring)[i] = ring.head + i - 1
<1> DEFINE h == ring.head
           u == ring.tail
           m == trace.n + 1
<1>1. /\ h \in Nat /\ u \in Nat /\ trace.n \in Nat /\ h <= u /\ u <= trace.n
      /\ Len(ring.entries) = m
      /\ \A i \in 1 .. u : ring.entries[i] = i - 1
  BY TraceFacts DEF TraceTypes, Positions, Holders, RingInv
<1> HIDE DEF h, u, m
<1>2. u - h \in Nat /\ u - h < m /\ m \in Nat \ {0}
  BY <1>1 DEF m
<1>3. ((u - h) + m) % m = u - h
  BY <1>2, OnceAround
<1>4. Depth(ring) = u - h
  BY <1>1, <1>3 DEF Depth, h, u
<1>5. ASSUME NEW i \in 1 .. u - h PROVE Queued(ring)[i] = h + i - 1
  <2>1. i \in Nat /\ h + i - 1 \in Nat /\ h + i - 1 < m /\ h + i \in 1 .. u
    BY <1>1 DEF m
  <2>2. (h + i - 1) % m = h + i - 1
    BY <1>2, <2>1, NoWrap
  <2>3. Queued(ring)[i] = ring.entries[((h + i - 1) % m) + 1]
    BY <1>1, <1>4 DEF Queued, h
  <2>4. (h + i - 1) + 1 = h + i
    BY <2>1, <1>1
  <2>5. Queued(ring)[i] = ring.entries[h + i]
    BY <2>2, <2>3, <2>4
  <2>6. ring.entries[h + i] = (h + i) - 1
    BY <1>1, <2>1
  <2>7. (h + i) - 1 = h + i - 1
    BY <1>1, <2>1
  <2> QED
    BY <2>5, <2>6, <2>7, Zenon
<1> QED
  BY <1>4, <1>5 DEF h, u

LEMMA Conserves ==
  ASSUME TraceTypes, RingInv, PlaceInv
  PROVE  ReplayConserves
<1> SUFFICES ASSUME NEW r \in Requests
    PROVE  LET places ==
                 (IF \E i \in 1 .. Depth(ring) : Queued(ring)[i] = r THEN {"PREFILL_READY"} ELSE {})
                 \cup (IF \E s \in Slots : active[s].request = r THEN {"DECODE_READY"} ELSE {})
                 \cup (IF \E i \in DOMAIN completed : completed[i] = r THEN {"COMPLETE"} ELSE {})
           IN  IF Arrived(r) THEN places = {status[r]} ELSE places = {} /\ status[r] = "EMPTY"
  BY DEF ReplayConserves
<1>1. r \in Nat /\ ring.head \in Nat /\ ring.tail \in Nat /\ ring.head <= ring.tail
  BY SlotTypes DEF RingInv
<1>2. (\E i \in 1 .. Depth(ring) : Queued(ring)[i] = r) <=> ring.head <= r /\ r < ring.tail
  <2>1. ASSUME NEW i \in 1 .. Depth(ring), Queued(ring)[i] = r
        PROVE  ring.head <= r /\ r < ring.tail
    <3>1. i \in 1 .. ring.tail - ring.head /\ r = ring.head + i - 1
      BY <2>1, QueuedFacts
    <3> QED
      BY <1>1, <3>1
  <2>2. ASSUME ring.head <= r, r < ring.tail
        PROVE  \E i \in 1 .. Depth(ring) : Queued(ring)[i] = r
    <3> DEFINE i == r - ring.head + 1
    <3>1. i \in 1 .. ring.tail - ring.head /\ ring.head + i - 1 = r
      BY <1>1, <2>2
    <3> HIDE DEF i
    <3>2. i \in 1 .. Depth(ring) /\ Queued(ring)[i] = r
      BY <3>1, QueuedFacts
    <3> QED
      BY <3>2
  <2> QED
    BY <2>1, <2>2
<1>3. (\E s \in Slots : Held(s) = r) <=> r < ring.head /\ status[r] = "DECODE_READY"
  <2>1. ASSUME NEW s \in Slots, Held(s) = r PROVE r < ring.head /\ status[r] = "DECODE_READY"
    BY <2>1, SlotTypes DEF PlaceInv
  <2>2. r < ring.head => Taken(r)
    BY DEF PlaceInv
  <2> QED
    BY <2>1, <2>2 DEF Taken
<1>4. Ended(r) <=> r < ring.head /\ status[r] = "COMPLETE"
  <2>1. r < ring.head => Taken(r)
    BY DEF PlaceInv
  <2> QED
    BY <2>1 DEF Ended, Taken, PlaceInv
<1>5. Arrived(r) <=> r < ring.tail
  BY DEF RingInv
<1>6. /\ r >= ring.tail => status[r] = "EMPTY"
      /\ r < ring.tail /\ r >= ring.head => status[r] = "PREFILL_READY"
      /\ r < ring.head => status[r] \in {"DECODE_READY", "COMPLETE"}
  BY DEF PlaceInv, Taken
<1>7. CASE r >= ring.tail
  BY <1>1, <1>2, <1>3, <1>4, <1>5, <1>6, <1>7 DEF Held, Ended
<1>8. CASE r < ring.tail /\ r >= ring.head
  BY <1>1, <1>2, <1>3, <1>4, <1>5, <1>6, <1>8 DEF Held, Ended
<1>9. CASE r < ring.head
  BY <1>1, <1>2, <1>3, <1>4, <1>5, <1>6, <1>9 DEF Held, Ended
<1> QED
  BY <1>1, <1>7, <1>8, <1>9

(* No more requests complete than were admitted, and fewer while some are    *)
(* served.                                                                   *)
LEMMA CompletedBound ==
  ASSUME TraceTypes, PlaceInv
  PROVE  /\ Len(completed) \in Nat /\ Len(completed) <= ring.head
         /\ Busy # {} => Len(completed) < ring.head
<1>1. /\ completed \in Seq(Requests) /\ Requests \subseteq Nat /\ ring.head \in Nat
      /\ Len(completed) \in Nat
  BY SlotTypes
<1>0. PICK m \in Nat : m = ring.head
  BY <1>1
<1>2. \A i \in DOMAIN completed : completed[i] \in 0 .. m - 1
  <2>1. ASSUME NEW i \in DOMAIN completed PROVE completed[i] \in 0 .. m - 1
    <3>1. completed[i] < m
      BY <1>0 DEF PlaceInv
    <3>2. completed[i] \in Nat
      <4>1. completed[i] \in Requests
        BY <1>1
      <4> QED
        BY <1>1, <4>1
    <3> QED
      BY <3>1, <3>2
  <2> QED
    BY <2>1
<1>3. ASSUME NEW S \in SUBSET (0 .. m - 1), \A i \in DOMAIN completed : completed[i] \in S
      PROVE  Len(completed) <= Cardinality(S)
  <2>1. IsFiniteSet(S)
    <3>1. IsFiniteSet(0 .. m - 1)
      BY IntervalSize
    <3> QED
      BY <3>1, FS_Subset
  <2>2. completed \in [1 .. Len(completed) -> S]
    BY <1>1, <1>3
  <2>3. completed \in Injection(1 .. Len(completed), S)
    BY <1>1, <2>2 DEF Injection, IsInjective, PlaceInv
  <2>4. Cardinality(1 .. Len(completed)) <= Cardinality(S)
    BY <2>1, <2>3, FS_Injection, Zenon
  <2>5. Cardinality(1 .. Len(completed)) = Len(completed)
    <3>1. \A k \in Nat : Cardinality(1 .. k) = k
      BY IntervalSize
    <3> QED
      BY <1>1, <3>1
  <2> QED
    BY <2>4, <2>5
<1>4. IsFiniteSet(0 .. m - 1) /\ Cardinality(0 .. m - 1) = m
  BY IntervalSize
<1>5. Len(completed) <= ring.head
  BY <1>0, <1>2, <1>3, <1>4
<1>6. ASSUME NEW s \in Busy PROVE Len(completed) < ring.head
  <2> DEFINE r == Held(s)
             S == (0 .. m - 1) \ {r}
  <2>1. r \in 0 .. m - 1 /\ status[r] = "DECODE_READY"
    <3>1. r \in Nat /\ r < m /\ status[r] = "DECODE_READY"
      BY <1>0, SlotTypes DEF PlaceInv, Busy
    <3> HIDE DEF r
    <3> QED
      BY <3>1
  <2>2. \A i \in DOMAIN completed : completed[i] \in S
    BY <1>2, <2>1 DEF PlaceInv
  <2>3. Cardinality(S) = m - 1
    <3>1. Cardinality(S) = Cardinality(0 .. m - 1) - 1
      BY <1>4, <2>1, FS_RemoveElement, Zenon
    <3> QED
      BY <1>4, <3>1
  <2>4. Len(completed) <= Cardinality(S)
    BY <1>3, <2>2
  <2> QED
    BY <1>0, <1>1, <2>3, <2>4
<1> QED
  BY <1>1, <1>5, <1>6

LEMMA ServesAll ==
  ASSUME ReplayInv
  PROVE  ReplayServesAll
<1> SUFFICES ASSUME turn = "ended"
             PROVE  Len(completed) = trace.n <=> MaxActive(trace) > 1 \/ trace.n <= 8
  BY DEF ReplayServesAll
<1>1. TraceTypes /\ RingInv /\ PlaceInv /\ OrderInv /\ ManyInv /\ OneInv /\ EndInv
  BY DEF ReplayInv
<1>2. /\ trace.n \in Nat \ {0} /\ Horizon = trace.n + 8 /\ MaxActive(trace) \in 1 .. trace.n
      /\ Slots = 0 .. MaxActive(trace) - 1 /\ ring.head \in Nat /\ ring.tail \in Nat
      /\ step \in 0 .. Horizon
  BY <1>1, TraceFacts, SlotTypes DEF TraceTypes, Positions
<1>3. /\ ring.head <= trace.n /\ Len(completed) \in Nat /\ Len(completed) <= ring.head
      /\ Busy # {} => Len(completed) < ring.head
  BY <1>1, <1>2, CompletedBound DEF RingInv
<1>4. ASSUME NEW s \in Busy
      PROVE  /\ Held(s) \in Nat /\ Held(s) < ring.head
             /\ Age(s) \in Int /\ Age(s) <= Service(Held(s)) - 1
             /\ Service(Held(s)) \in 1 .. 3
  <2>1. /\ Held(s) \in Nat /\ active[s].left \in 0 .. 3 /\ 1 <= active[s].left
        /\ Service(Held(s)) \in 1 .. 3 /\ Held(s) < ring.head
        /\ Age(s) = Service(Held(s)) - active[s].left
    BY <1>1, AgeType DEF OrderInv, Ages, PlaceInv, Served
  <2> QED
    BY <2>1
<1>5. step = Horizon \/ Len(completed) >= trace.n
  BY <1>1 DEF EndInv
<1>6. CASE MaxActive(trace) > 1
  <2>1. SUFFICES ASSUME Len(completed) # trace.n PROVE FALSE
    BY <1>6
  <2>2. step = trace.n + 8
    BY <1>2, <1>3, <1>5, <2>1
  <2>3. ring.head = trace.n
    BY <1>1, <1>2, <1>3, <1>6, <2>2 DEF ManyInv
  <2>4. Busy = {}
    <3>1. SUFFICES ASSUME NEW s \in Busy PROVE FALSE
      OBVIOUS
    <3>2. step - Age(s) <= Held(s)
      BY <1>1, <1>6 DEF ManyInv
    <3>3. /\ Held(s) \in Nat /\ Held(s) < trace.n /\ Age(s) \in Int /\ Age(s) <= 2
          /\ trace.n \in Nat
      BY <1>2, <1>4, <2>3
    <3> QED
      BY <2>2, <3>2, <3>3
  <2> QED
    BY <1>1, <1>2, <1>3, <2>1, <2>3, <2>4, NoneLeft
<1>7. CASE MaxActive(trace) = 1
  <2>1. /\ Slots = {0}
        /\ 0 \in Busy => step - Age(0) = Quanta(Held(0)) /\ Held(0) = ring.head - 1
        /\ 0 \notin Busy => step = Quanta(ring.head) /\ Busy = {}
    BY <1>1, <1>2, <1>7 DEF OneInv, Busy
  <2>2. ASSUME Len(completed) = trace.n PROVE trace.n <= 8
    <3>1. ring.head = trace.n /\ step = Quanta(trace.n)
      BY <1>2, <1>3, <2>1, <2>2
    <3>2. Quanta(trace.n) <= trace.n + 8 /\ 2 * trace.n <= Quanta(trace.n) + 1
          /\ Quanta(trace.n) \in Nat
      <4>1. step <= trace.n + 8 /\ trace.n \in Nat
        BY <1>2
      <4> QED
        BY <3>1, <4>1, QuantaNext
    <3>3. trace.n <= 9
      BY <1>2, <3>2
    <3>4. Quanta(9) = 18
      BY DEF Quanta
    <3>5. trace.n # 9
      BY <3>2, <3>4
    <3> QED
      BY <1>2, <3>3, <3>5
  <2>3. ASSUME trace.n <= 8 PROVE Len(completed) = trace.n
    <3>1. SUFFICES ASSUME Len(completed) # trace.n PROVE FALSE
      OBVIOUS
    <3>2. step = trace.n + 8
      BY <1>2, <1>3, <1>5, <3>1
    <3>3. CASE 0 \in Busy
      <4>1. PICK q \in Nat :
              /\ q = Held(0) /\ q < ring.head
              /\ Age(0) \in Int /\ Age(0) <= Service(q) - 1 /\ Service(q) \in 1 .. 3
        BY <1>4, <3>3
      <4>2. /\ Quanta(q) \in Nat /\ Quanta(q + 1) = Quanta(q) + Service(q)
            /\ Quanta(q + 1) <= 2 * (q + 1)
        <5>1. q + 1 \in Nat
          OBVIOUS
        <5> QED
          BY <5>1, QuantaNext
      <4>3. (trace.n + 8) - Age(0) = Quanta(q) /\ q + 1 <= trace.n
        <5>1. (trace.n + 8) - Age(0) = Quanta(q)
          BY <2>1, <3>2, <3>3, <4>1
        <5>2. q + 1 <= trace.n
          BY <1>2, <1>3, <4>1
        <5> QED
          BY <5>1, <5>2
      <4>4. trace.n + 8 <= 2 * trace.n - 1
        <5>1. ASSUME NEW a \in Int, NEW w \in 1 .. 3, NEW x \in Nat,
                     a <= w - 1, (trace.n + 8) - a = x, x + w <= 2 * (q + 1)
              PROVE  trace.n + 8 <= 2 * trace.n - 1
          <6>1. PICK n \in Nat : n = trace.n
            BY <1>2
          <6>2. q + 1 <= n
            BY <4>3, <6>1
          <6>3. x + w <= 2 * n
            BY <5>1, <6>2
          <6>4. n + 8 <= 2 * n - 1
            BY <5>1, <6>1, <6>3
          <6> QED
            BY <6>1, <6>4
        <5> QED
          BY <4>1, <4>2, <4>3, <5>1
      <4> QED
        BY <1>2, <2>3, <4>4
    <3>4. CASE 0 \notin Busy
      <4>1. trace.n + 8 = Quanta(ring.head) /\ Quanta(ring.head) <= 2 * ring.head
        BY <1>2, <2>1, <3>2, <3>4, QuantaNext
      <4>2. ring.head = 8 /\ trace.n = 8
        BY <1>2, <1>3, <2>3, <4>1
      <4>3. Quanta(8) = 15
        BY DEF Quanta
      <4> QED
        BY <4>1, <4>2, <4>3
    <3> QED
      BY <3>3, <3>4
  <2> QED
    BY <1>7, <2>2, <2>3
<1> QED
  BY <1>2, <1>6, <1>7

(* trace_replay_admission_kernel loses no request and puts none in two       *)
(* places, admits them in the order of their arrival, and completes them all *)
(* before its horizon but for one slot and more than eight requests.          *)
THEOREM ReplayAlwaysServes ==
  Spec => []ReplayServesInOrder
<1>1. ReplayInv => ReplayServesInOrder
  <2> SUFFICES ASSUME ReplayInv PROVE ReplayServesInOrder
    OBVIOUS
  <2>1. ReplayConserves
    BY Conserves DEF ReplayInv
  <2>2. ASSUME NEW i \in DOMAIN completed, NEW j \in DOMAIN completed, i < j,
               completed[i] > completed[j]
        PROVE  Service(completed[i]) < Service(completed[j])
    BY <2>2 DEF ReplayInv, OrderInv, Overtakes
  <2>3. AdmittedInOrder
    BY <2>2 DEF ReplayInv, RingInv, AdmittedInOrder
  <2> QED
    BY <2>1, <2>3, ServesAll DEF ReplayServesInOrder
<1> QED
  BY <1>1, AlwaysReplayInv, PTL

-----------------------------------------------------------------------------
(* The planning kernels.                                                     *)

(* i is scheduled before j.                                                  *)
Outranks(i, j) ==
    \/ Priority(listed, i) > Priority(listed, j)
    \/ Priority(listed, i) = Priority(listed, j) /\ i < j

Schedulable == {i \in 0 .. listed - 1 : i < ScanLimit /\ ~Finished(i)}

(* What is scheduled is in order and outranks all that is left; the kernel   *)
(* returns only with nothing left.                                           *)
ScheduleInv ==
    /\ listed \in Nat \ {0}
    /\ planned \in BOOLEAN
    /\ scheduled \in Seq(Schedulable)
    /\ \A i, j \in DOMAIN scheduled : i < j => Outranks(scheduled[i], scheduled[j])
    /\ \A i \in DOMAIN scheduled : \A j \in Candidates : Outranks(scheduled[i], j)
    /\ planned => Candidates = {}

LEMMA PriorityType ==
  ASSUME listed \in Nat \ {0}, NEW i \in Nat
  PROVE  Priority(listed, i) \in 0 .. listed + 6
<1>1. (i * 17) + 3 \in Int /\ listed + 7 \in Nat \ {0}
  OBVIOUS
<1> QED
  BY <1>1 DEF Priority

(* A request is before all others of a set.                                  *)
LEMMA BestExists ==
  ASSUME listed \in Nat \ {0}, NEW S \in SUBSET Nat, S # {}
  PROVE  Best(S) \in S /\ \A j \in S : j # Best(S) => Outranks(Best(S), j)
<1> DEFINE Lack(i) == listed + 7 - Priority(listed, i)
           Lacks == {Lack(i) : i \in S}
<1>1. \A i \in S : i \in Nat /\ Priority(listed, i) \in Nat /\ Lack(i) \in Nat
  BY PriorityType
<1>2. Lacks \in SUBSET Nat /\ Lacks # {}
  BY <1>1
<1>3. PICK m \in Lacks : \A n \in Lacks : m <= n
  <2> HIDE DEF Lacks
  <2> QED
    BY <1>2, LeastExists
<1> DEFINE First == {i \in S : Lack(i) = m}
<1>4. PICK f \in First : \A n \in First : f <= n
  <2>1. First \in SUBSET Nat /\ First # {}
    BY <1>1
  <2> HIDE DEF First
  <2> QED
    BY <2>1, LeastExists
<1>5. ASSUME NEW j \in S
      PROVE  \/ Priority(listed, f) > Priority(listed, j)
             \/ Priority(listed, f) = Priority(listed, j) /\ f <= j
  <2>1. f \in S /\ Lack(f) = m /\ Lack(j) >= m
    BY <1>1, <1>3
  <2>2. Priority(listed, f) >= Priority(listed, j)
    BY <1>1, <2>1
  <2>3. Priority(listed, f) = Priority(listed, j) => f <= j
    BY <1>4, <2>1
  <2> QED
    BY <1>1, <2>1, <2>2, <2>3
<1> DEFINE Foremost(i) == \A j \in S :
              \/ Priority(listed, i) > Priority(listed, j)
              \/ Priority(listed, i) = Priority(listed, j) /\ i <= j
<1>6. f \in S /\ Foremost(f)
  BY <1>5
<1>7. Best(S) = CHOOSE i \in S : Foremost(i)
  BY Zenon DEF Best
<1>8. Best(S) \in S /\ Foremost(Best(S))
  <2> HIDE DEF Foremost
  <2> QED
    BY <1>6, <1>7, Zenon
<1>9. ASSUME NEW j \in S, j # Best(S) PROVE Outranks(Best(S), j)
  <2>1. \/ Priority(listed, Best(S)) > Priority(listed, j)
        \/ Priority(listed, Best(S)) = Priority(listed, j) /\ Best(S) <= j
    BY <1>8
  <2>2. Best(S) \in Nat /\ j \in Nat
    BY <1>8
  <2> HIDE DEF Foremost
  <2>3. Best(S) <= j => Best(S) < j
    BY <1>9, <2>2
  <2> QED
    BY <2>1, <2>3 DEF Outranks
<1> QED
  BY <1>8, <1>9

(* Request 0 is finished, so there are fewer to schedule than listed.        *)
LEMMA RoomInSchedule ==
  ASSUME ScheduleInv
  PROVE  Len(scheduled) < listed
<1> USE DEF ScheduleInv
<1>1. Schedulable \subseteq 1 .. listed - 1
  <2>1. Finished(0)
    BY DEF Finished
  <2> QED
    BY <2>1 DEF Schedulable
<1>2. \A i \in DOMAIN scheduled : scheduled[i] \in 1 .. listed - 1
  <2>1. \A i \in DOMAIN scheduled : scheduled[i] \in Schedulable
    OBVIOUS
  <2> QED
    BY <1>1, <2>1
<1>3. ASSUME NEW i \in DOMAIN scheduled, NEW j \in DOMAIN scheduled, i # j
      PROVE  scheduled[i] # scheduled[j]
  <2>1. i \in Nat /\ j \in Nat /\ scheduled[i] \in Nat /\ scheduled[j] \in Nat
    BY <1>2
  <2>2. ~Outranks(scheduled[i], scheduled[i])
    <3>1. Priority(listed, scheduled[i]) \in Int
      BY <2>1, PriorityType
    <3> QED
      BY <2>1, <3>1 DEF Outranks
  <2>3. i < j \/ j < i
    BY <1>3, <2>1
  <2> QED
    BY <2>2, <2>3
<1>4. scheduled \in Injection(1 .. Len(scheduled), 1 .. listed - 1)
  <2>1. scheduled \in [1 .. Len(scheduled) -> 1 .. listed - 1]
    BY <1>2
  <2> QED
    BY <1>3, <2>1 DEF Injection, IsInjective
<1>5. /\ IsFiniteSet(1 .. listed - 1) /\ Cardinality(1 .. listed - 1) = listed - 1
      /\ Cardinality(1 .. Len(scheduled)) = Len(scheduled)
      /\ Len(scheduled) \in Nat
  <2>1. listed - 1 \in Nat /\ Len(scheduled) \in Nat
    OBVIOUS
  <2>2. /\ Cardinality(1 .. listed - 1) = listed - 1
        /\ Cardinality(1 .. Len(scheduled)) = Len(scheduled)
    BY <2>1, IntervalSize
  <2>3. IsFiniteSet(1 .. listed - 1)
    <3>1. 1 .. listed - 1 \subseteq 0 .. listed - 1 /\ listed \in Nat
      OBVIOUS
    <3> QED
      BY <3>1, IntervalSize, FS_Subset
  <2> QED
    BY <2>1, <2>2, <2>3
<1>6. Cardinality(1 .. Len(scheduled)) <= Cardinality(1 .. listed - 1)
  BY <1>4, <1>5, FS_Injection, Zenon
<1> QED
  BY <1>5, <1>6

LEMMA ScheduleStep ==
  ScheduleInv /\ Schedule => ScheduleInv'
<1> SUFFICES ASSUME ScheduleInv, Schedule PROVE ScheduleInv'
  OBVIOUS
<1> USE DEF ScheduleInv
<1>1. listed' = listed /\ Schedulable' = Schedulable /\ Len(scheduled) < listed
  BY RoomInSchedule DEF Schedule, Schedulable
<1>2. Candidates = {i \in Schedulable : \A k \in DOMAIN scheduled : scheduled[k] # i}
  BY DEF Candidates, Schedulable
<1>3. Candidates' = {i \in Schedulable : \A k \in DOMAIN scheduled' : scheduled'[k] # i}
  BY <1>1 DEF Candidates, Schedulable
<1>4. CASE Candidates # {}
  <2> DEFINE b == Best(Candidates)
  <2>1. scheduled' = Append(scheduled, b) /\ planned' = FALSE
    BY <1>1, <1>4 DEF Schedule
  <2>2. b \in Candidates /\ \A j \in Candidates : j # b => Outranks(b, j)
    <3>1. Candidates \in SUBSET Nat
      BY DEF Candidates
    <3> QED
      BY <1>4, <3>1, BestExists
  <2> HIDE DEF b
  <2>3. /\ DOMAIN scheduled' = 1 .. Len(scheduled) + 1
        /\ DOMAIN scheduled = 1 .. Len(scheduled) /\ Len(scheduled) \in Nat
        /\ \A i \in DOMAIN scheduled : scheduled'[i] = scheduled[i]
        /\ scheduled'[Len(scheduled) + 1] = b
    BY <2>1
  <2>4. scheduled' \in Seq(Schedulable')
    BY <1>1, <1>2, <2>1, <2>2
  <2>5. Candidates' \subseteq Candidates \ {b}
    BY <1>2, <1>3, <2>3
  <2>6. \A i, j : Outranks(i, j)' <=> Outranks(i, j)
    BY <1>1 DEF Outranks
  <2>7. ASSUME NEW i \in DOMAIN scheduled', NEW j \in DOMAIN scheduled', i < j
        PROVE  Outranks(scheduled'[i], scheduled'[j])
    <3>1. i \in DOMAIN scheduled /\ i \in Nat /\ j \in Nat
      BY <2>3, <2>7
    <3>2. CASE j \in DOMAIN scheduled
      BY <2>3, <2>7, <3>1, <3>2
    <3>3. CASE j = Len(scheduled) + 1
      BY <2>2, <2>3, <3>1, <3>3
    <3> QED
      BY <2>3, <3>2, <3>3
  <2>8. ASSUME NEW i \in DOMAIN scheduled', NEW j \in Candidates'
        PROVE  Outranks(scheduled'[i], j)
    <3>1. CASE i \in DOMAIN scheduled
      BY <2>3, <2>5, <3>1
    <3>2. CASE i = Len(scheduled) + 1
      BY <2>2, <2>3, <2>5, <3>2
    <3> QED
      BY <2>3, <3>1, <3>2
  <2> QED
    BY <1>1, <2>1, <2>4, <2>6, <2>7, <2>8
<1>5. CASE Candidates = {}
  <2>1. scheduled' = scheduled /\ planned' = TRUE
    BY <1>5 DEF Schedule
  <2>2. Candidates' = {}
    BY <1>2, <1>3, <1>5, <2>1
  <2> QED
    BY <1>1, <2>1, <2>2 DEF Outranks
<1> QED
  BY <1>4, <1>5

LEMMA InitScheduleInv ==
  Init => ScheduleInv
<1> SUFFICES ASSUME Init PROVE ScheduleInv
  OBVIOUS
<1>1. PICK n \in Lists : SchedulerInit(n)
  <2>1. AnyOf(Lists) \in Lists
    BY HostAssumption DEF AnyOf
  <2> QED
    BY <2>1 DEF Init
<1>2. listed \in Nat \ {0} /\ scheduled = <<>> /\ planned = FALSE
  BY <1>1, PlanningAssumption DEF SchedulerInit
<1>3. scheduled \in Seq(Schedulable) /\ DOMAIN scheduled = {}
  BY <1>2
<1> QED
  BY <1>2, <1>3 DEF ScheduleInv

LEMMA NextScheduleInv ==
  ScheduleInv /\ [Next]_vars => ScheduleInv'
<1>1. [Next]_vars => Schedule \/ UNCHANGED schedulerVars
  BY DEF Next, vars, BaselineLaunch, LaunchMegaKernel, RunMegaKernel, RunTraceReplay,
         RunScheduler, RunTierResidency, Synchronize
<1>2. ScheduleInv /\ UNCHANGED schedulerVars => ScheduleInv'
  BY DEF ScheduleInv, schedulerVars, Schedulable, Candidates, Outranks
<1> QED
  BY <1>1, <1>2, ScheduleStep

(* Where a selected page starts and where it is after its promotion.         *)
Start(p)  == IF p < 2 THEN "HBM" ELSE IF p < 4 THEN "DRAM" ELSE "SSD"
Raised(p) == IF p < 4 THEN "HBM" ELSE "DRAM"

(* No page past the cursor is one a demotion from tier t looks for.          *)
Cleared(t) == \A p \in TierPages : p > cursor /\ ~IsSelected(p) => tier[p] # t

Relieved(t, capacity) == Cardinality(In(t)) > capacity => \A p \in In(t) : IsSelected(p)

RebalanceInv ==
    /\ topK \in Nat
    /\ tier \in [TierPages -> {"HBM", "DRAM", "SSD"}]
    /\ pass \in {"promote", "demote HBM", "demote DRAM", "ended"}
    /\ IF pass = "promote"
       THEN /\ cursor \in 0 .. topK
            /\ \A p \in TierPages : tier[p] = IF p < cursor THEN Raised(p) ELSE Start(p)
       ELSE /\ cursor \in -1 .. 5
            /\ \A p \in TierPages : IsSelected(p) => tier[p] = Raised(p)
    /\ pass = "demote HBM" => Cleared("HBM")
    /\ pass = "demote DRAM" => Cleared("DRAM")
    /\ pass \in {"demote DRAM", "ended"} => Relieved("HBM", HbmCapacity)
    /\ pass = "ended" => Relieved("DRAM", DramCapacity)

LEMMA PageBounds ==
  /\ 5 \in -1 .. 5
  /\ \A p \in TierPages : p \in Nat /\ ~(p < 0) /\ ~(p > 5)
BY DEF TierPages

LEMMA PromoteStep ==
  RebalanceInv /\ Promote => RebalanceInv'
<1> SUFFICES ASSUME RebalanceInv, Promote PROVE RebalanceInv'
  OBVIOUS
<1>0. ~(cursor < topK) => cursor = topK
  <2>1. topK \in Nat /\ cursor \in 0 .. topK
    BY DEF RebalanceInv, Promote
  <2> QED
    BY <2>1
<1> USE DEF RebalanceInv, Promote, TierPages, IsSelected
<1>1. CASE cursor < topK
  <2>1. /\ cursor' = cursor + 1 /\ pass' = "promote" /\ topK' = topK
        /\ tier' = IF cursor \notin TierPages THEN tier
                   ELSE [tier EXCEPT ![cursor] = CASE @ = "DRAM" -> "HBM"
                                                   [] @ = "SSD"  -> "DRAM"
                                                   [] OTHER      -> @]
    BY <1>1
  <2>2. ASSUME NEW p \in TierPages
        PROVE  tier'[p] = IF p < cursor' THEN Raised(p) ELSE Start(p)
    <3>1. p \in Nat /\ p # cursor => (p < cursor' <=> p < cursor)
      BY <2>1
    <3>2. CASE p # cursor
      BY <2>1, <3>1, <3>2
    <3>3. CASE p = cursor
      BY <2>1, <3>3 DEF Start, Raised
    <3> QED
      BY <3>2, <3>3
  <2>3. tier' \in [TierPages -> {"HBM", "DRAM", "SSD"}]
    BY <2>1
  <2> QED
    BY <1>1, <2>1, <2>2, <2>3
<1>2. CASE ~(cursor < topK)
  <2>1. cursor' = 5 /\ pass' = "demote HBM" /\ topK' = topK /\ tier' = tier
    BY <1>2
  <2>2. cursor = topK
    BY <1>0, <1>2
  <2>3. \A p \in TierPages : IsSelected(p)' => tier'[p] = Raised(p)
    BY <2>1, <2>2
  <2>4. Cleared("HBM")'
    <3>1. \A p \in TierPages : ~(p > 5)
      BY PageBounds
    <3> QED
      BY <2>1, <3>1 DEF Cleared
  <2>5. cursor' \in -1 .. 5
    BY <2>1, PageBounds
  <2> QED
    BY <2>1, <2>3, <2>4, <2>5
<1> QED
  BY <1>1, <1>2

(* A demotion moves one page that is not selected, or leaves its tier        *)
(* relieved.                                                                 *)
LEMMA DemotionStep ==
  ASSUME RebalanceInv, NEW from \in {"HBM", "DRAM"}, NEW to \in {"DRAM", "SSD"}, from # to,
         NEW capacity, NEW next, pass # "promote", Cleared(from),
         Demotion(from, to, capacity, next)
  PROVE  /\ topK' = topK
         /\ tier' \in [TierPages -> {"HBM", "DRAM", "SSD"}]
         /\ cursor' \in -1 .. 5
         /\ \A p \in TierPages : IsSelected(p)' => tier'[p] = Raised(p)
         /\ \/ pass' = pass /\ Cleared(from)'
            \/ pass' = next /\ cursor' = 5 /\ tier' = tier /\ Relieved(from, capacity)
         /\ \A t : t \notin {from, to} => In(t)' = In(t)
<1>0. /\ cursor \in -1 .. 5 /\ tier \in [TierPages -> {"HBM", "DRAM", "SSD"}]
      /\ topK \in Nat /\ \A p \in TierPages : IsSelected(p) => tier[p] = Raised(p)
  BY DEF RebalanceInv
<1> USE DEF TierPages, IsSelected
<1>1. CASE cursor >= 0 /\ Cardinality(In(from)) > capacity
  <2>1. /\ tier' = IF tier[cursor] = from /\ ~IsSelected(cursor)
                   THEN [tier EXCEPT ![cursor] = to] ELSE tier
        /\ cursor' = cursor - 1 /\ pass' = pass /\ topK' = topK
    BY <1>1 DEF Demotion
  <2>2. cursor \in TierPages /\ cursor' \in -1 .. 5
    BY <1>0, <1>1, <2>1
  <2>3. tier' \in [TierPages -> {"HBM", "DRAM", "SSD"}]
    BY <1>0, <2>1
  <2>4. \A p \in TierPages : p # cursor => tier'[p] = tier[p]
    BY <1>0, <2>1
  <2>5. IsSelected(cursor) => tier' = tier
    BY <2>1
  <2>6. ~IsSelected(cursor) => tier'[cursor] # from
    BY <1>0, <2>1, <2>2
  <2>7. \A p \in TierPages : IsSelected(p)' => tier'[p] = Raised(p)
    BY <1>0, <2>1, <2>4, <2>5
  <2>8. Cleared(from)'
    <3> SUFFICES ASSUME NEW p \in TierPages, p > cursor', ~IsSelected(p)
                 PROVE  tier'[p] # from
      BY <2>1 DEF Cleared
    <3>1. p = cursor \/ p > cursor
      BY <1>0, <2>1, p \in Int, p > cursor'
    <3> QED
      BY <2>4, <2>6, <3>1 DEF Cleared
  <2>9. ASSUME NEW t, t \notin {from, to} PROVE In(t)' = In(t)
    <3>1. \A p \in TierPages : tier'[p] = t <=> tier[p] = t
      BY <1>0, <2>1, <2>9
    <3> QED
      BY <3>1 DEF In
  <2> QED
    BY <2>1, <2>2, <2>3, <2>7, <2>8, <2>9
<1>2. CASE ~(cursor >= 0 /\ Cardinality(In(from)) > capacity)
  <2>1. cursor' = 5 /\ pass' = next /\ tier' = tier /\ topK' = topK
    BY <1>2 DEF Demotion
  <2>2. Relieved(from, capacity)
    <3> SUFFICES ASSUME Cardinality(In(from)) > capacity, NEW p \in In(from)
                 PROVE  IsSelected(p)
      BY DEF Relieved
    <3>1. p \in TierPages /\ tier[p] = from
      BY DEF In
    <3>3. cursor = -1
      BY <1>0, <1>2
    <3>2. p > cursor
      BY <3>1, <3>3
    <3> QED
      BY <3>1, <3>2 DEF Cleared
  <2>3. \A t : In(t)' = In(t)
    BY <2>1 DEF In
  <2>4. cursor' \in -1 .. 5
    BY <2>1
  <2> QED
    BY <1>0, <2>1, <2>2, <2>3, <2>4
<1> QED
  BY <1>1, <1>2

LEMMA RelievedKept ==
  ASSUME NEW t, NEW capacity, Relieved(t, capacity), In(t)' = In(t), topK' = topK
  PROVE  Relieved(t, capacity)'
BY DEF Relieved, IsSelected

LEMMA RebalanceStep ==
  RebalanceInv /\ Rebalance => RebalanceInv'
<1> SUFFICES ASSUME RebalanceInv, Rebalance PROVE RebalanceInv'
  OBVIOUS
<1>1. CASE Promote
  BY <1>1, PromoteStep
<1>2. CASE DemoteHbm
  <2>1. /\ topK' = topK
        /\ tier' \in [TierPages -> {"HBM", "DRAM", "SSD"}]
        /\ cursor' \in -1 .. 5
        /\ \A p \in TierPages : IsSelected(p)' => tier'[p] = Raised(p)
        /\ \/ pass' = pass /\ Cleared("HBM")'
           \/ pass' = "demote DRAM" /\ cursor' = 5 /\ tier' = tier /\ Relieved("HBM", HbmCapacity)
        /\ pass = "demote HBM"
    BY <1>2, DemotionStep DEF DemoteHbm, RebalanceInv
  <2>2. CASE pass' = pass
    BY <2>1, <2>2 DEF RebalanceInv
  <2>3. CASE pass' # pass
    <3>1. Relieved("HBM", HbmCapacity)'
      BY <2>1, <2>3, RelievedKept DEF In
    <3>2. Cleared("DRAM")'
      <4>1. cursor' = 5 /\ \A p \in TierPages : ~(p > 5)
        BY <2>1, <2>3, PageBounds
      <4> QED
        BY <4>1 DEF Cleared
    <3> QED
      BY <2>1, <2>3, <3>1, <3>2 DEF RebalanceInv
  <2> QED
    BY <2>2, <2>3
<1>3. CASE DemoteDram
  <2>1. /\ topK' = topK
        /\ tier' \in [TierPages -> {"HBM", "DRAM", "SSD"}]
        /\ cursor' \in -1 .. 5
        /\ \A p \in TierPages : IsSelected(p)' => tier'[p] = Raised(p)
        /\ \/ pass' = pass /\ Cleared("DRAM")'
           \/ pass' = "ended" /\ cursor' = 5 /\ tier' = tier /\ Relieved("DRAM", DramCapacity)
        /\ In("HBM")' = In("HBM")
        /\ pass = "demote DRAM"
        /\ Relieved("HBM", HbmCapacity)
    BY <1>3, DemotionStep DEF DemoteDram, RebalanceInv
  <2>2. Relieved("HBM", HbmCapacity)'
    BY <2>1, RelievedKept
  <2>3. CASE pass' = pass
    BY <2>1, <2>2, <2>3 DEF RebalanceInv
  <2>4. CASE pass' # pass
    <3>1. Relieved("DRAM", DramCapacity)'
      BY <2>1, <2>4, RelievedKept DEF In
    <3> QED
      BY <2>1, <2>2, <2>4, <3>1 DEF RebalanceInv
  <2> QED
    BY <2>3, <2>4
<1> QED
  BY <1>1, <1>2, <1>3 DEF Rebalance

LEMMA InitRebalanceInv ==
  Init => RebalanceInv
<1> SUFFICES ASSUME Init PROVE RebalanceInv
  OBVIOUS
<1>1. PICK k \in TopKs : TierInit(k)
  <2>1. AnyOf(TopKs) \in TopKs
    BY HostAssumption DEF AnyOf
  <2> QED
    BY <2>1 DEF Init
<1>2. k \in Nat
  BY PlanningAssumption
<1>3. /\ topK \in Nat /\ cursor = 0 /\ pass = "promote" /\ 0 \in 0 .. topK
      /\ tier = [p \in TierPages |-> CASE p < 2 -> "HBM" [] p \in 2 .. 3 -> "DRAM" [] p > 3 -> "SSD"]
  BY <1>1, <1>2 DEF TierInit
<1>4. ASSUME NEW p \in TierPages PROVE ~(p < 0) /\ tier[p] = Start(p)
  <2>1. tier[p] = CASE p < 2 -> "HBM" [] p \in 2 .. 3 -> "DRAM" [] p > 3 -> "SSD"
    BY <1>3
  <2>2. p \in Nat /\ ~(p < 0)
    BY PageBounds
  <2>3. p < 2 => tier[p] = "HBM"
    BY <2>1, <2>2
  <2>4. p \in 2 .. 3 => tier[p] = "DRAM"
    BY <2>1, <2>2
  <2>5. p > 3 => tier[p] = "SSD"
    BY <2>1, <2>2
  <2> QED
    BY <2>2, <2>3, <2>4, <2>5 DEF Start
<1>5. tier \in [TierPages -> {"HBM", "DRAM", "SSD"}]
  BY <1>3, <1>4 DEF Start
<1> QED
  BY <1>3, <1>4, <1>5 DEF RebalanceInv

LEMMA NextRebalanceInv ==
  RebalanceInv /\ [Next]_vars => RebalanceInv'
<1>1. [Next]_vars => Rebalance \/ UNCHANGED tierVars
  BY DEF Next, vars, BaselineLaunch, LaunchMegaKernel, RunMegaKernel, RunTraceReplay,
         RunScheduler, RunTierResidency, Synchronize
<1>2. RebalanceInv /\ UNCHANGED tierVars => RebalanceInv'
  BY DEF RebalanceInv, tierVars, IsSelected, Cleared, Relieved, In
<1> QED
  BY <1>1, <1>2, RebalanceStep

(* resident_scheduler_kernel orders the live requests among the first 256 by *)
(* priority, and the rebalancing leaves a tier above its capacity only with   *)
(* selected pages, each where its promotion put it.                          *)
THEOREM PlansAlwaysSound ==
  Spec => []PlansAreSound
<1>1. ScheduleInv => ScheduleByPriority
  <2> SUFFICES ASSUME ScheduleInv PROVE ScheduleByPriority
    OBVIOUS
  <2>1. \A i, j \in DOMAIN scheduled : i < j =>
          \/ Priority(listed, scheduled[i]) > Priority(listed, scheduled[j])
          \/ /\ Priority(listed, scheduled[i]) = Priority(listed, scheduled[j])
             /\ scheduled[i] < scheduled[j]
    BY DEF ScheduleInv, Outranks
  <2>2. ASSUME planned
        PROVE  {scheduled[i] : i \in DOMAIN scheduled} =
               {i \in 0 .. listed - 1 : i < ScanLimit /\ ~Finished(i)}
    <3>1. \A i \in DOMAIN scheduled : scheduled[i] \in Schedulable
      BY DEF ScheduleInv
    <3>2. \A x \in Schedulable : \E i \in DOMAIN scheduled : scheduled[i] = x
      BY <2>2 DEF ScheduleInv, Candidates, Schedulable
    <3> QED
      BY <3>1, <3>2 DEF Schedulable
  <2> QED
    BY <2>1, <2>2 DEF ScheduleByPriority
<1>2. RebalanceInv => OverCapacityIsSelected
  BY DEF RebalanceInv, OverCapacityIsSelected, Relieved, Raised
<1> QED
  BY <1>1, <1>2, InitScheduleInv, NextScheduleInv, InitRebalanceInv, NextRebalanceInv, PTL
     DEF Spec, PlansAreSound

-----------------------------------------------------------------------------
(* Types.                                                                    *)

HostTypes ==
    /\ mode \in Modes
    /\ phase \in {"baseline", "mega", "kernel", "reported"}
    /\ DOMAIN base = Blocks
    /\ shutdownFlag \in BOOLEAN

LEMMA InitHostTypes ==
  Init => HostTypes
<1> SUFFICES ASSUME Init PROVE HostTypes
  OBVIOUS
<1>1. PICK l \in Launches :
        /\ MegaInit(l)
        /\ base = [i \in 0 .. l.n - 1 |->
                      [state |-> "DECODE_READY", output |-> 0,
                       lastToken |-> ((i + 1) * 7 + 3) % Vocab]]
  <2>1. AnyOf(Launches) \in Launches
    BY HostAssumption DEF AnyOf
  <2> QED
    BY <2>1 DEF Init
<1>2. shutdownFlag = FALSE /\ Blocks = 0 .. l.n - 1
  BY <1>1 DEF MegaInit, Blocks
<1>3. mode \in Modes /\ phase \in {"baseline", "kernel"}
  BY DEF Init
<1> QED
  BY <1>1, <1>2, <1>3 DEF HostTypes

LEMMA NextHostTypes ==
  HostTypes /\ [Next]_vars => HostTypes'
<1> SUFFICES ASSUME HostTypes, [Next]_vars PROVE HostTypes'
  OBVIOUS
<1>1. CASE RunMegaKernel
  <2>1. MegaNext /\ mode' = mode /\ phase' = phase /\ base' = base
    BY <1>1 DEF RunMegaKernel, hostVars
  <2>2. Blocks' = Blocks
    BY <2>1, LaunchKept DEF Blocks
  <2>3. shutdownFlag' \in BOOLEAN
    <3>1. Poll => shutdownFlag' \in BOOLEAN
      BY DEF Poll
    <3>2. ASSUME NEW b \in Blocks, Step(b) PROVE shutdownFlag' = shutdownFlag
      <4>1. Loop(b) => shutdownFlag' = shutdownFlag
        BY DEF Loop
      <4>2. Decode(b) => shutdownFlag' = shutdownFlag
        BY DEF Decode
      <4>3. VerifyAndCommit(b) => shutdownFlag' = shutdownFlag
        BY DEF VerifyAndCommit
      <4>4. Count(b) => shutdownFlag' = shutdownFlag
        BY DEF Count
      <4> QED
        BY <3>2, <4>1, <4>2, <4>3, <4>4 DEF Step
    <3> QED
      BY <2>1, <3>1, <3>2 DEF MegaNext, HostTypes
  <2> QED
    BY <2>1, <2>2, <2>3 DEF HostTypes
<1>2. CASE BaselineLaunch \/ LaunchMegaKernel \/ Synchronize
  <2>1. /\ mode' = mode /\ phase' \in {"baseline", "mega", "reported"} \cup {phase}
        /\ launch' = launch /\ shutdownFlag' = shutdownFlag
        /\ DOMAIN base' = DOMAIN base \/ DOMAIN base' = Blocks
    BY <1>2 DEF BaselineLaunch, LaunchMegaKernel, Synchronize, megaVars
  <2>2. Blocks' = Blocks
    BY <2>1 DEF Blocks
  <2> QED
    BY <2>1, <2>2 DEF HostTypes
<1>3. CASE UNCHANGED <<hostVars, megaVars>>
  BY <1>3 DEF HostTypes, hostVars, megaVars, Blocks
<1>4. [Next]_vars => \/ RunMegaKernel \/ BaselineLaunch \/ LaunchMegaKernel \/ Synchronize
                     \/ UNCHANGED <<hostVars, megaVars>>
  BY DEF Next, vars, RunTraceReplay, RunScheduler, RunTierResidency
<1> QED
  BY <1>1, <1>2, <1>3, <1>4

(* The launcher, its kernels' descriptors, counters and flags, the ring and  *)
(* slots of the replay and the tiers of the rebalancing have their types.    *)
THEOREM TypeCorrect ==
  Spec => []TypeOK
<1>1. ASSUME HostTypes, KInv, ReplayInv, RebalanceInv PROVE TypeOK
  <2>1. /\ launch \in Launches /\ counted \in [Blocks -> BOOLEAN]
        /\ at \in [Blocks -> Places] /\ iteration \in [Blocks -> Nat]
        /\ request \in [Blocks -> Descriptor]
        /\ page \in [Blocks -> [Pages -> {"FREE", "DRAFT", "COMMITTED", "EVICTABLE"}]]
        /\ selected \in [Blocks -> SUBSET Pages]
    BY <1>1 DEF KInv, IInv, Shapes, KernelTypes
  <2>2. doneCounter \in Nat
    <3>1. IsFiniteSet({b \in Blocks : counted[b]})
      BY <2>1, BlocksFinite, FS_Subset
    <3>2. doneCounter = Cardinality({b \in Blocks : counted[b]})
      BY <1>1 DEF KInv, IInv, FlagMeansAllDone, CountedOnce
    <3> QED
      BY <3>1, <3>2, FS_CardinalityType
  <2>3. /\ scan \in Nat /\ active \in [Slots -> SlotState] /\ status \in [Requests -> States]
    BY <1>1 DEF ReplayInv, TraceTypes, Positions, Holders
  <2>4. {ring.head, ring.tail} \subseteq 0 .. Len(ring.entries) - 1
    <3>1. /\ trace.n \in Nat /\ ring.head \in Nat /\ ring.tail \in Nat
          /\ ring.head <= ring.tail /\ ring.tail <= trace.n /\ Len(ring.entries) = trace.n + 1
      BY <1>1, TraceFacts DEF ReplayInv, TraceTypes, Positions, Holders, RingInv
    <3> QED
      BY <3>1
  <2>5. tier \in [TierPages -> {"HBM", "DRAM", "SSD"}]
    BY <1>1 DEF RebalanceInv
  <2> QED
    BY <1>1, <2>1, <2>2, <2>3, <2>4, <2>5 DEF TypeOK, HostTypes, Places, SlotState, States
<1> QED
  BY <1>1, InitHostTypes, NextHostTypes, AlwaysKInv, AlwaysReplayInv, InitRebalanceInv,
     NextRebalanceInv, PTL DEF Spec
=============================================================================
