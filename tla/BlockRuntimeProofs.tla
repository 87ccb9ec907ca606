-------------------------- MODULE BlockRuntimeProofs --------------------------
(* Theorems about the block speculative runtime and the loop that benchmarks *)
(* it, for any rows of the sweep, vocabulary and seed.                       *)
EXTENDS BlockRuntime, SetLemmas, SequenceTheorems

-----------------------------------------------------------------------------
(* Whole blocks.                                                            *)

LEMMA Quotient ==
  ASSUME NEW a \in Nat, NEW b \in Nat \ {0}
  PROVE  (a \div b) \in Nat /\ (a \div b) * b <= a /\ a < (a \div b) * b + b
OBVIOUS

LEMMA OneMore ==
  ASSUME NEW a \in Nat, NEW b \in Nat, NEW c \in Nat, a < b
  PROVE  (a + 1) * c <= b * c
OBVIOUS

LEMMA FewerBlocks ==
  ASSUME NEW a \in Nat, NEW b \in Nat, NEW c \in Nat, a * c < b * c
  PROVE  a < b
<1> SUFFICES ASSUME b <= a PROVE FALSE
  OBVIOUS
<1>1. b * c <= a * c
  OBVIOUS
<1> QED
  BY <1>1

(* The sums of 1, ..., s times a number of blocks.                          *)
LEMMA OneMoreRequest ==
  ASSUME NEW q \in Nat, NEW s \in Nat, NEW t \in Nat, 2 * t = s * (s + 1) * q
  PROVE  2 * (t + (s + 1) * q) = (s + 1) * (s + 2) * q
OBVIOUS

LEMMA MoreThanOnce ==
  ASSUME NEW q \in Nat \ {0}, NEW s \in Nat, s > 1,
         NEW t \in Nat, 2 * t = s * (s + 1) * q
  PROVE  t > s * q
OBVIOUS

(* The blocks of a request are the least whose tokens are enough.           *)
LEMMA RowFacts ==
  ASSUME row \in Rows
  PROVE  /\ row.batch \in Nat \ {0} /\ row.window \in Nat \ {0} /\ row.maxNew \in Nat
         /\ BlockSize \in Nat \ {0}
         /\ BlocksPerRequest \in Nat
         /\ row.maxNew <= BlocksPerRequest * BlockSize
         /\ BlocksPerRequest * BlockSize < row.maxNew + BlockSize
         /\ row.maxNew = 0 <=> BlocksPerRequest = 0
<1>1. /\ row.batch \in Nat \ {0} /\ row.window \in Nat \ {0} /\ row.maxNew \in Nat
      /\ BlockSize \in Nat \ {0}
  BY RowsAssumption DEF BlockSize
<1>2. PICK a \in Nat : a = row.maxNew + BlockSize - 1
  BY <1>1
<1>3. BlocksPerRequest = a \div BlockSize
  BY <1>2 DEF BlocksPerRequest
<1>4. /\ BlocksPerRequest \in Nat /\ BlocksPerRequest * BlockSize <= a
      /\ a < BlocksPerRequest * BlockSize + BlockSize
  BY <1>1, <1>3, Quotient
<1>5. /\ row.maxNew <= BlocksPerRequest * BlockSize
      /\ BlocksPerRequest * BlockSize < row.maxNew + BlockSize
  <2> DEFINE whole == BlocksPerRequest * BlockSize
  <2>1. whole \in Nat
    BY <1>1, <1>4
  <2> HIDE DEF whole
  <2>2. whole <= a /\ a < whole + BlockSize
    BY <1>4 DEF whole
  <2>3. row.maxNew <= whole /\ whole < row.maxNew + BlockSize
    BY <1>1, <1>2, <2>1, <2>2
  <2> QED
    BY <2>3 DEF whole
<1>6. row.maxNew = 0 <=> BlocksPerRequest = 0
  <2>1. CASE BlocksPerRequest = 0
    BY <1>1, <1>5, <2>1
  <2>2. CASE row.maxNew = 0
    <3>1. BlocksPerRequest * BlockSize < 1 * BlockSize
      BY <1>1, <1>5, <2>2
    <3>2. BlocksPerRequest < 1
      BY <1>1, <1>4, <3>1, FewerBlocks
    <3> QED
      BY <1>4, <2>2, <3>2
  <2> QED
    BY <2>1, <2>2
<1> QED
  BY <1>1, <1>4, <1>5, <1>6

-----------------------------------------------------------------------------
(* The drafter.                                                             *)

LEMMA ContextTyped ==
  ASSUME row \in Rows, NEW s \in Seq(Nat), NEW p
  PROVE  SlidingWindowContext(s, p) \in Seq(Nat)
<1> DEFINE first == IF Len(s) > row.window THEN Len(s) - row.window + 1 ELSE 1
<1>1. Len(s) \in Nat /\ first \in Int /\ first >= 1
  BY RowFacts, LenProperties
<1>2. \A i \in first .. Len(s) : s[i] \in Nat
  BY <1>1, ElementOfSeq
<1>3. SlidingWindowContext(s, p) = SubSeq(s, first, Len(s))
  BY DEF SlidingWindowContext
<1> HIDE DEF first
<1>4. Len(s) \in Int
  BY <1>1
<1> QED
  BY <1>1, <1>2, <1>3, <1>4, SubSeqProperties

LEMMA HashTyped ==
  ASSUME NEW s \in Seq(Nat)
  PROVE  ContextHash(s) \in Nat
<1>1. /\ Len(s) \in Nat /\ DOMAIN s = 1 .. Len(s)
      /\ \A i \in DOMAIN s : s[i] \in Nat
  BY LenProperties, ElementOfSeq
<1>2. IsFiniteSet(DOMAIN s)
  <2>1. 1 \in Int /\ Len(s) \in Int
    BY <1>1
  <2>2. IsFiniteSet(1 .. Len(s))
    BY <2>1, FS_Interval
  <2> QED
    BY <1>1, <2>2
<1>3. SumFunctionOnSet(s, DOMAIN s) \in Nat
  BY <1>1, <1>2, SumProperties
<1> QED
  BY <1>3, RowsAssumption DEF ContextHash, SumFunction

LEMMA TokenTyped ==
  ASSUME NEW h \in Nat, NEW i \in Nat
  PROVE  DeterministicToken(h, i) \in Token
<1>1. Seed * 31 + h * 7 + i * 13 \in Nat /\ VocabSize \in Nat \ {0}
  BY RowsAssumption
<1> QED
  BY <1>1 DEF DeterministicToken, Token

(* A draft is a whole block, and all of it is accepted.                     *)
LEMMA Drafted ==
  ASSUME row \in Rows, NEW s \in Seq(Token), NEW p, NEW q
  PROVE  /\ DraftBlock(s, p) \in Seq(Token)
         /\ Len(DraftBlock(s, p)) = BlockSize
         /\ AcceptedPrefixLen(s, DraftBlock(s, p), q) = BlockSize
<1>1. BlockSize \in Nat \ {0}
  BY RowFacts
<1>2. s \in Seq(Nat)
  BY RowsAssumption, SeqMonotonic DEF Token
<1> DEFINE h == ContextHash(SlidingWindowContext(s, p))
<1>3. h \in Nat /\ ContextHash(SlidingWindowContext(s, q)) = h
  BY <1>2, ContextTyped, HashTyped DEF SlidingWindowContext
<1>4. DraftBlock(s, p) = [i \in 1 .. BlockSize |-> DeterministicToken(h, i - 1)]
  BY DEF DraftBlock
<1>5. AcceptedPrefixLen(s, DraftBlock(s, p), q) =
        LET draft == DraftBlock(s, p)
            fails == {i \in 1 .. Len(draft) :
                        /\ i - 1 >= Len(draft) \div 2
                        /\ draft[i] # DeterministicToken(h, i - 1)}
        IN  IF fails = {} THEN Len(draft)
            ELSE (CHOOSE i \in fails : \A j \in fails : i <= j) - 1
  BY <1>3 DEF AcceptedPrefixLen
<1> HIDE DEF h
<1>6. \A i \in 1 .. BlockSize : DeterministicToken(h, i - 1) \in Token
  BY <1>1, <1>3, TokenTyped
<1>7. DraftBlock(s, p) \in Seq(Token) /\ Len(DraftBlock(s, p)) = BlockSize
  BY <1>1, <1>4, <1>6
<1>8. \A i \in 1 .. Len(DraftBlock(s, p)) :
         DraftBlock(s, p)[i] = DeterministicToken(h, i - 1)
  BY <1>4, <1>7
<1> QED
  BY <1>5, <1>7, <1>8

-----------------------------------------------------------------------------
TokenState == [committed : Seq(Token), draft : Seq(Token), accepted : {<<>>},
               rejected : {<<>>}, position : Nat]

Typed ==
    /\ row \in Rows
    /\ pc \in {"idle", "loop", "verify", "reported"}
    /\ served \in 0 .. row.batch
    /\ tokens \in TokenState
    /\ startPos \in Nat
    /\ pages \in Seq(Nat)
    /\ metrics \in Counters /\ totals \in Counters
    /\ launches \in Nat

(* Between draft and verification there is a draft of the tokens so far.    *)
Pending ==
    IF pc = "verify"
    THEN /\ tokens.draft = DraftBlock(tokens.committed, startPos)
         /\ startPos = tokens.position
         /\ ~IsComplete(tokens)
    ELSE tokens.draft = <<>>

(* The runtime has drafted whole blocks: all those of the requests served,  *)
(* and some of the present one.                                             *)
Done(j) ==
    /\ metrics.iterations = served * BlocksPerRequest + j
    /\ Len(tokens.committed) = j * BlockSize

Progress ==
    /\ metrics.rejected = 0
    /\ metrics.accepted = BlockSize * metrics.iterations
    /\ metrics.drafted = metrics.accepted + Len(tokens.draft)
    /\ tokens.position = 2 * Len(tokens.committed)
    /\ pc \in {"loop", "verify"} =>
          served < row.batch /\ \E j \in 0 .. BlocksPerRequest : Done(j)
    /\ pc \in {"idle", "reported"} =>
          /\ metrics.iterations = served * BlocksPerRequest
          /\ Len(tokens.committed) = IF served = 0 THEN 0 ELSE BlocksPerRequest * BlockSize
    /\ pc = "reported" => served = row.batch

(* The window has the tokens so far, or what the last request left.         *)
Window ==
    IF tokens.committed # <<>> THEN pages = tokens.committed
    ELSE IF served = 0 THEN pages = IF pc = "verify" THEN <<0>> ELSE <<>>
    ELSE Len(pages) = BlocksPerRequest * BlockSize

Summed ==
    /\ 2 * totals.iterations = served * (served + 1) * BlocksPerRequest
    /\ totals.accepted = BlockSize * totals.iterations

Launched ==
    pc = "reported" =>
        /\ row.mode = "block_speculative_host_orchestrated" => launches = totals.iterations * 4
        /\ row.mode \notin {"block_speculative_persistent_sim",
                            "block_speculative_host_orchestrated"}
              => launches = totals.iterations

IInv == Typed /\ Pending /\ Progress /\ Window /\ Summed /\ Launched

LEMMA CounterFields ==
  ASSUME NEW m \in Counters
  PROVE  /\ m.iterations \in Nat /\ m.accepted \in Nat /\ m.rejected \in Nat
         /\ m.drafted \in Nat
BY DEF Counters, Zeros

LEMMA PlusFields ==
  ASSUME NEW m \in Counters, NEW d \in Counters
  PROVE  /\ Plus(m, d) \in Counters
         /\ Plus(m, d).iterations = m.iterations + d.iterations
         /\ Plus(m, d).accepted = m.accepted + d.accepted
         /\ Plus(m, d).rejected = m.rejected + d.rejected
         /\ Plus(m, d).drafted = m.drafted + d.drafted
BY DEF Counters, Zeros, Plus

LEMMA ZeroFields ==
  /\ Zeros \in Counters
  /\ \A f \in DOMAIN Zeros : Zeros[f] = 0
  /\ DOMAIN Zeros = {"blocks", "drafted", "accepted", "rejected", "reads", "writes", "iterations"}
BY DEF Counters, Zeros

(* What a draft and a verification add to the metrics.                      *)
LEMMA DraftCounts ==
  ASSUME NEW n \in Nat, NEW step,
         step = [Zeros EXCEPT !.reads = 1, !.blocks = 1, !.drafted = n]
  PROVE  /\ step \in Counters /\ step.drafted = n
         /\ step.iterations = 0 /\ step.accepted = 0 /\ step.rejected = 0
BY ZeroFields DEF Counters

LEMMA VerifyCounts ==
  ASSUME NEW n \in Nat, NEW step,
         step = [[Zeros EXCEPT !.iterations = 1, !.rejected = 0]
                    EXCEPT !.writes = 1, !.accepted = n]
  PROVE  /\ step \in Counters /\ step.accepted = n
         /\ step.iterations = 1 /\ step.drafted = 0 /\ step.rejected = 0
BY ZeroFields DEF Counters

LEMMA InitIInv ==
  Init => IInv
<1> SUFFICES ASSUME Init PROVE IInv
  OBVIOUS
<1>1. row \in Rows /\ pc = "idle" /\ served = 0 /\ tokens = FreshTokens
      /\ startPos = 0 /\ pages = <<>> /\ metrics = Zeros /\ totals = Zeros /\ launches = 0
  BY DEF Init
<1>2. FreshTokens \in TokenState
  BY EmptySeq DEF FreshTokens, TokenState
<1>3. row.batch \in Nat \ {0} /\ BlocksPerRequest \in Nat /\ BlockSize \in Nat \ {0}
  BY <1>1, RowFacts
<1>4. Typed
  BY <1>1, <1>2, <1>3, ZeroFields, EmptySeq DEF Typed
<1>5. Pending /\ Window
  BY <1>1 DEF Pending, Window, FreshTokens
<1>6. Zeros.rejected = 0 /\ Zeros.accepted = 0 /\ Zeros.drafted = 0 /\ Zeros.iterations = 0
  BY DEF Zeros
<1>7. Progress
  BY <1>1, <1>3, <1>6, EmptySeq DEF Progress, FreshTokens
<1>8. Summed /\ Launched
  BY <1>1, <1>3, <1>6 DEF Summed, Launched
<1> QED
  BY <1>4, <1>5, <1>7, <1>8 DEF IInv

(* The terms of the invariant that a step of a row does not change.         *)
LEMMA SameRow ==
  ASSUME row' = row
  PROVE  /\ BlockSize' = BlockSize /\ BlocksPerRequest' = BlocksPerRequest
         /\ \A s, p : DraftBlock(s, p)' = DraftBlock(s, p)
         /\ \A ts : IsComplete(ts)' <=> IsComplete(ts)
BY DEF BlockSize, BlocksPerRequest, DraftBlock, SlidingWindowContext, IsComplete

LEMMA StartIInv ==
  ASSUME IInv, StartRequest
  PROVE  IInv'
<1> USE DEF IInv
<1>1. /\ pc = "idle" /\ pc' = "loop" /\ served < row.batch
      /\ tokens' = [tokens EXCEPT !.committed = <<>>, !.position = 0]
      /\ UNCHANGED <<row, served, startPos, pages, metrics, totals, launches>>
  BY DEF StartRequest
<1>2. /\ BlockSize' = BlockSize /\ BlocksPerRequest' = BlocksPerRequest
      /\ BlockSize \in Nat \ {0} /\ BlocksPerRequest \in Nat
  BY <1>1, SameRow, RowFacts DEF Typed
<1>3. /\ tokens' \in TokenState /\ tokens'.committed = <<>> /\ tokens'.position = 0
      /\ tokens'.draft = tokens.draft
  BY <1>1, EmptySeq DEF Typed, TokenState
<1>4. Typed'
  BY <1>1, <1>3 DEF Typed, Counters
<1>5. Pending'
  BY <1>1, <1>3 DEF Pending
<1>6. Progress'
  <2>1. metrics.iterations = served * BlocksPerRequest + 0 /\ 0 * BlockSize = 0
    <3> DEFINE before == served * BlocksPerRequest
    <3>1. before \in Nat /\ metrics.iterations = before
      BY <1>1, <1>2, RowFacts, SMTT(20) DEF Typed, Progress
    <3> HIDE DEF before
    <3>2. metrics.iterations = before + 0
      BY <3>1
    <3> QED
      BY <1>2, <3>2 DEF before
  <2>2. Done(0)'
    BY <1>1, <1>2, <1>3, <2>1, EmptySeq DEF Done
  <2>3. 0 \in 0 .. BlocksPerRequest
    BY <1>2
  <2> QED
    BY <1>1, <1>2, <1>3, <2>2, <2>3, EmptySeq DEF Progress
<1>7. Window'
  <2>1. CASE served = 0
    <3>1. Len(tokens.committed) = 0
      BY <1>1, <2>1 DEF Progress
    <3>2. tokens.committed = <<>>
      BY <3>1, EmptySeq DEF Typed, TokenState
    <3> QED
      BY <1>1, <1>3, <2>1, <3>2 DEF Window
  <2>2. CASE served # 0
    <3>1. Len(tokens.committed) = BlocksPerRequest * BlockSize
      BY <1>1, <2>2 DEF Progress
    <3>2. Len(pages) = BlocksPerRequest * BlockSize
      BY <2>2, <3>1 DEF Window
    <3> QED
      BY <1>1, <1>2, <1>3, <2>2, <3>2 DEF Window
  <2> QED
    BY <2>1, <2>2
<1>8. Summed' /\ Launched'
  BY <1>1, <1>2 DEF Summed, Launched
<1> QED
  BY <1>4, <1>5, <1>6, <1>7, <1>8

LEMMA DraftIInv ==
  ASSUME IInv, Draft
  PROVE  IInv'
<1> USE DEF IInv
<1> DEFINE draft == DraftBlock(tokens.committed, tokens.position)
           step == [Zeros EXCEPT !.reads = 1, !.blocks = 1, !.drafted = Len(draft)]
<1>1. /\ pc = "loop" /\ pc' = "verify" /\ ~IsComplete(tokens)
      /\ tokens' = [tokens EXCEPT !.draft = draft]
      /\ metrics' = Plus(metrics, step)
      /\ startPos' = tokens.position
      /\ pages' = IF pages = <<>> THEN <<tokens.position>> ELSE pages
      /\ UNCHANGED <<row, served, totals, launches>>
  BY DEF Draft, AppendDraft
<1>2. /\ BlockSize' = BlockSize /\ BlocksPerRequest' = BlocksPerRequest
      /\ BlockSize \in Nat \ {0} /\ BlocksPerRequest \in Nat /\ row.maxNew \in Nat
      /\ row.maxNew = 0 <=> BlocksPerRequest = 0
  BY <1>1, SameRow, RowFacts DEF Typed
<1>3. draft \in Seq(Token) /\ Len(draft) = BlockSize
  BY Drafted DEF Typed, TokenState
<1>4. /\ tokens' \in TokenState /\ tokens'.committed = tokens.committed
      /\ tokens'.draft = draft /\ tokens'.position = tokens.position
  BY <1>1, <1>3 DEF Typed, TokenState
<1>5. step \in Counters /\ step.drafted = Len(draft) /\ step.iterations = 0
      /\ step.accepted = 0 /\ step.rejected = 0
  BY <1>2, <1>3, DraftCounts
<1>6. Pending'
  <2>1. DraftBlock(tokens.committed, startPos)' = draft
    BY <1>1, <1>2, <1>4 DEF DraftBlock, SlidingWindowContext
  <2>2. ~IsComplete(tokens)'
    BY <1>1, <1>4 DEF IsComplete
  <2> QED
    BY <1>1, <1>4, <2>1, <2>2 DEF Pending
<1> HIDE DEF draft, step
<1>7. /\ metrics' \in Counters
      /\ metrics'.iterations = metrics.iterations /\ metrics'.accepted = metrics.accepted
      /\ metrics'.rejected = metrics.rejected
      /\ metrics'.drafted = metrics.drafted + BlockSize
  <2>1. metrics \in Counters
    BY DEF Typed
  <2> QED
    BY <1>1, <1>3, <1>5, <2>1, CounterFields, PlusFields
<1>8. pages' \in Seq(Nat)
  BY <1>1 DEF Typed, TokenState
<1>9. Typed'
  BY <1>1, <1>4, <1>7, <1>8 DEF Typed, TokenState
<1>10. Len(tokens.draft) = 0
  BY <1>1, EmptySeq DEF Pending
<1>11. Progress'
  <2>1. PICK j \in 0 .. BlocksPerRequest : Done(j)
    BY <1>1 DEF Progress
  <2>2. Done(j)'
    BY <1>1, <1>2, <1>4, <1>7, <2>1 DEF Done
  <2>3. metrics'.drafted = metrics'.accepted + Len(tokens'.draft)
    <3>1. metrics.drafted = metrics.accepted /\ metrics.accepted \in Nat
      BY <1>10, CounterFields DEF Progress, Typed
    <3> QED
      BY <1>2, <1>3, <1>4, <1>7, <3>1
  <2> QED
    BY <1>1, <1>2, <1>4, <1>7, <2>1, <2>2, <2>3 DEF Progress
<1>12. Window'
  <2>1. CASE tokens.committed # <<>>
    BY <1>1, <1>4, <2>1 DEF Window
  <2>2. CASE tokens.committed = <<>> /\ served = 0
    <3>1. tokens.position = 0
      BY <2>2, EmptySeq DEF Progress
    <3> QED
      BY <1>1, <1>4, <2>2, <3>1 DEF Window
  <2>3. CASE tokens.committed = <<>> /\ served # 0
    <3>1. row.maxNew # 0
      BY <1>1, <1>2, <2>3, EmptySeq DEF IsComplete
    <3>2. Len(pages) = BlocksPerRequest * BlockSize /\ Len(pages) # 0
      BY <1>2, <2>3, <3>1 DEF Window
    <3>3. pages # <<>>
      BY <3>2, EmptySeq
    <3> QED
      BY <1>1, <1>2, <1>4, <2>3, <3>2, <3>3 DEF Window
  <2> QED
    BY <2>1, <2>2, <2>3
<1>13. Summed' /\ Launched'
  BY <1>1, <1>2 DEF Summed, Launched
<1> QED
  BY <1>6, <1>9, <1>11, <1>12, <1>13

(* A whole block is committed, and the position advances by it twice.       *)
LEMMA VerifyIInv ==
  ASSUME IInv, Verify
  PROVE  IInv'
<1> USE DEF IInv
<1> DEFINE n == AcceptedPrefixLen(tokens.committed, tokens.draft, startPos)
           once == [Zeros EXCEPT !.iterations = 1, !.rejected = Len(tokens.draft) - n]
           step == [once EXCEPT !.writes = 1, !.accepted = n]
           next == AdvancePosition(DiscardRejectedTail(CommitPrefix(tokens, n)), n)
           longer == tokens.committed \o tokens.draft
<1>1. /\ pc = "verify"
      /\ tokens.draft = DraftBlock(tokens.committed, startPos)
      /\ ~IsComplete(tokens)
  BY DEF Verify, Pending
<1>2. tokens \in TokenState /\ row \in Rows /\ metrics \in Counters
  BY DEF Typed
<1>3. /\ BlockSize \in Nat \ {0} /\ BlocksPerRequest \in Nat /\ row.maxNew \in Nat
      /\ row.maxNew <= BlocksPerRequest * BlockSize
  BY <1>2, RowFacts
<1>4. n = BlockSize /\ Len(tokens.draft) = BlockSize
  BY <1>1, <1>2, Drafted DEF TokenState
<1>5. /\ longer \in Seq(Token)
      /\ Len(longer) = Len(tokens.committed) + BlockSize
  BY <1>2, <1>4, ConcatProperties, SMTT(20) DEF TokenState
<1>6. next = [tokens EXCEPT !.accepted = tokens.draft, !.committed = longer,
                            !.position = @ + BlockSize + BlockSize]
  <2>1. SubSeq(tokens.draft, 1, n) = tokens.draft
    BY <1>2, <1>4, SubSeqFull DEF TokenState
  <2>2. <<>> \o tokens.draft = tokens.draft
    BY <1>2, ConcatEmptySeq DEF TokenState
  <2> DEFINE kept == [tokens EXCEPT !.accepted = tokens.draft, !.committed = longer,
                                    !.position = @ + BlockSize]
  <2>3. CommitPrefix(tokens, n) = kept
    <3>1. tokens.accepted = <<>>
      BY <1>2 DEF TokenState
    <3>2. ~(n <= 0 \/ n > Len(tokens.draft))
      BY <1>3, <1>4
    <3>3. CommitPrefix(tokens, n) =
            [tokens EXCEPT !.accepted = @ \o SubSeq(tokens.draft, 1, n),
                           !.committed = @ \o SubSeq(tokens.draft, 1, n), !.position = @ + n]
      BY <3>2 DEF CommitPrefix
    <3> HIDE DEF n
    <3> QED
      BY <1>2, <1>4, <2>1, <2>2, <3>1, <3>3 DEF TokenState
  <2>4. kept.draft = tokens.draft /\ kept.accepted = tokens.draft
    BY <1>2 DEF TokenState
  <2>5. DiscardRejectedTail(kept) = kept
    <3> HIDE DEF kept
    <3> QED
      BY <1>3, <1>4, <2>4 DEF DiscardRejectedTail
  <2>6. AdvancePosition(kept, n) =
           [tokens EXCEPT !.accepted = tokens.draft, !.committed = longer,
                          !.position = @ + BlockSize + BlockSize]
    <3> HIDE DEF n, longer
    <3> QED
      BY <1>2, <1>4 DEF AdvancePosition, TokenState
  <2> QED
    BY <2>3, <2>5, <2>6
<1>7. /\ tokens' = ResetDraft(next) /\ pages' = next.committed
      /\ metrics' = Plus(metrics, step)
      /\ pc' = "loop"
      /\ UNCHANGED <<row, served, startPos, totals, launches>>
  <2>1. n > 0
    BY <1>3, <1>4
  <2> QED
    BY <2>1 DEF Verify
<1>8. step \in Counters /\ step.iterations = 1 /\ step.rejected = 0
      /\ step.accepted = BlockSize /\ step.drafted = 0
  <2>1. Len(tokens.draft) - n = 0
    BY <1>3, <1>4
  <2>2. step = [[Zeros EXCEPT !.iterations = 1, !.rejected = 0]
                    EXCEPT !.writes = 1, !.accepted = BlockSize]
    BY <1>4, <2>1
  <2> HIDE DEF step
  <2> QED
    BY <1>3, <2>2, VerifyCounts
<1> HIDE DEF n, once, step, next
<1>9. /\ tokens' \in TokenState
      /\ tokens'.committed = longer /\ tokens'.draft = <<>>
      /\ tokens'.position = tokens.position + BlockSize + BlockSize
      /\ pages' = longer
  <2> DEFINE further == tokens.position + BlockSize + BlockSize
  <2>1. further \in Nat
    BY <1>2, <1>3 DEF TokenState
  <2> HIDE DEF longer, further
  <2>2. next = [tokens EXCEPT !.accepted = tokens.draft, !.committed = longer,
                              !.position = further]
    BY <1>6 DEF further
  <2>3. next.committed = longer
    BY <1>2, <2>2 DEF TokenState
  <2>4. ResetDraft(next) = [tokens EXCEPT !.draft = <<>>, !.accepted = <<>>, !.rejected = <<>>,
                                          !.committed = longer, !.position = further]
    BY <1>2, <2>2 DEF ResetDraft, TokenState
  <2>5. /\ ResetDraft(next) \in TokenState
        /\ ResetDraft(next).committed = longer /\ ResetDraft(next).draft = <<>>
        /\ ResetDraft(next).position = further
    BY <1>2, <1>5, <2>1, <2>4, EmptySeq DEF TokenState
  <2> QED
    BY <1>7, <2>3, <2>5 DEF further
<1> HIDE DEF longer
<1>10. /\ BlockSize' = BlockSize /\ BlocksPerRequest' = BlocksPerRequest
  BY <1>7, SameRow
<1>11. /\ metrics' \in Counters
       /\ metrics'.iterations = metrics.iterations + 1
       /\ metrics'.accepted = metrics.accepted + BlockSize
       /\ metrics'.rejected = metrics.rejected
       /\ metrics'.drafted = metrics.drafted
       /\ metrics.iterations \in Nat /\ metrics.accepted \in Nat /\ metrics.drafted \in Nat
       /\ metrics.rejected \in Nat
  BY <1>2, <1>7, <1>8, CounterFields, PlusFields
<1>12. Typed'
  <2>1. pages' \in Seq(Nat)
    BY <1>5, <1>9, RowsAssumption, SeqMonotonic DEF Token
  <2> QED
    BY <1>7, <1>9, <1>11, <2>1 DEF Typed
<1>13. Pending'
  BY <1>7, <1>9 DEF Pending
<1>14. PICK j \in 0 .. BlocksPerRequest : Done(j)
  BY <1>1 DEF Progress
<1>15. j < BlocksPerRequest
  <2>1. j * BlockSize < row.maxNew
    BY <1>1, <1>3, <1>14 DEF Done, IsComplete
  <2>2. j * BlockSize < BlocksPerRequest * BlockSize
    BY <1>3, <1>14, <2>1
  <2> QED
    BY <1>3, <1>14, <2>2, FewerBlocks
<1>16. Progress'
  <2>1. j + 1 \in 0 .. BlocksPerRequest
    BY <1>3, <1>14, <1>15
  <2>2. Len(longer) = (j + 1) * BlockSize
    BY <1>3, <1>5, <1>14 DEF Done
  <2>3. metrics'.iterations = served * BlocksPerRequest + (j + 1)
    <3>1. served * BlocksPerRequest \in Nat
      BY <1>3, RowFacts DEF Typed
    <3> QED
      BY <1>11, <1>14, <3>1 DEF Done
  <2>4. Done(j + 1)'
    BY <1>7, <1>9, <1>10, <2>2, <2>3 DEF Done
  <2>5. metrics'.accepted = BlockSize * metrics'.iterations
    <3>1. metrics.accepted = BlockSize * metrics.iterations
      BY DEF Progress
    <3> QED
      BY <1>3, <1>11, <3>1
  <2>6. metrics'.drafted = metrics'.accepted + Len(tokens'.draft)
    <3>1. metrics.drafted = metrics.accepted + BlockSize
      BY <1>4 DEF Progress
    <3> QED
      BY <1>3, <1>9, <1>11, <3>1, EmptySeq
  <2>7. tokens'.position = 2 * Len(tokens'.committed)
    <3>1. tokens.position = 2 * Len(tokens.committed) /\ Len(tokens.committed) \in Nat
      BY <1>2, LenProperties DEF Progress, TokenState
    <3> QED
      BY <1>3, <1>5, <1>9, <3>1
  <2>8. served < row.batch
    BY <1>1 DEF Progress
  <2>9. metrics'.rejected = 0
    BY <1>11 DEF Progress
  <2> QED
    BY <1>7, <1>10, <2>1, <2>4, <2>5, <2>6, <2>7, <2>8, <2>9 DEF Progress
<1>17. Window'
  <2>1. Len(longer) # 0
    <3>1. Len(tokens.committed) \in Nat
      BY <1>2, LenProperties DEF TokenState
    <3> QED
      BY <1>3, <1>5, <3>1
  <2>2. longer # <<>>
    BY <2>1, EmptySeq
  <2> QED
    BY <1>9, <2>2 DEF Window
<1>18. Summed' /\ Launched'
  BY <1>7, <1>10 DEF Summed, Launched
<1> QED
  BY <1>12, <1>13, <1>16, <1>17, <1>18

(* The last block made the request complete: it has all its blocks.         *)
LEMMA EndIInv ==
  ASSUME IInv, EndRequest
  PROVE  IInv'
<1> USE DEF IInv
<1>1. /\ pc = "loop" /\ pc' = "idle" /\ IsComplete(tokens)
      /\ totals' = Plus(totals, metrics)
      /\ served' = served + 1
      /\ UNCHANGED <<row, tokens, startPos, pages, metrics, launches>>
  BY DEF EndRequest
<1>2. /\ BlockSize' = BlockSize /\ BlocksPerRequest' = BlocksPerRequest
      /\ BlockSize \in Nat \ {0} /\ BlocksPerRequest \in Nat
      /\ row.maxNew \in Nat /\ row.batch \in Nat
      /\ BlocksPerRequest * BlockSize < row.maxNew + BlockSize
  BY <1>1, SameRow, RowFacts DEF Typed
<1>3. served \in Nat /\ served < row.batch
  BY <1>1, <1>2 DEF Progress, Typed
<1>4. PICK j \in 0 .. BlocksPerRequest : Done(j)
  BY <1>1 DEF Progress
<1>5. j = BlocksPerRequest
  <2>1. j * BlockSize >= row.maxNew
    BY <1>1, <1>4 DEF Done, IsComplete
  <2>2. (j + 1) * BlockSize = j * BlockSize + BlockSize /\ j * BlockSize \in Nat
    BY <1>2, <1>4
  <2>3. BlocksPerRequest * BlockSize < (j + 1) * BlockSize
    <3> DEFINE whole == BlocksPerRequest * BlockSize
               part == j * BlockSize
    <3>1. whole \in Nat /\ part \in Nat
      BY <1>2, <1>4
    <3>2. whole < row.maxNew + BlockSize /\ part >= row.maxNew
      BY <1>2, <2>1
    <3> HIDE DEF whole, part
    <3>3. whole < part + BlockSize
      BY <1>2, <3>1, <3>2
    <3> QED
      BY <2>2, <3>3 DEF whole, part
  <2>4. BlocksPerRequest < j + 1
    <3>1. j + 1 \in Nat
      BY <1>4
    <3> QED
      BY <1>2, <2>3, <3>1, FewerBlocks
  <2> QED
    BY <1>2, <1>4, <2>4
<1>6. /\ metrics.iterations = (served + 1) * BlocksPerRequest
      /\ Len(tokens.committed) = BlocksPerRequest * BlockSize
  BY <1>2, <1>3, <1>4, <1>5 DEF Done
<1>7. /\ totals' \in Counters
      /\ totals'.iterations = totals.iterations + metrics.iterations
      /\ totals'.accepted = totals.accepted + metrics.accepted
      /\ totals.iterations \in Nat /\ totals.accepted \in Nat
      /\ metrics.iterations \in Nat /\ metrics.accepted \in Nat
  BY <1>1, CounterFields, PlusFields DEF Typed
<1>8. Typed'
  BY <1>1, <1>2, <1>3, <1>7 DEF Typed, TokenState
<1>9. Pending'
  BY <1>1 DEF Pending
<1>10. Progress'
  <2>1. served' # 0
    BY <1>1, <1>3
  <2> QED
    BY <1>1, <1>2, <1>3, <1>6, <2>1 DEF Progress
<1>11. Window'
  <2>1. CASE tokens.committed # <<>>
    BY <1>1, <2>1 DEF Window
  <2>2. CASE tokens.committed = <<>>
    <3>1. BlocksPerRequest * BlockSize = 0
      BY <1>6, <2>2, EmptySeq
    <3>2. Len(pages) = 0
      BY <1>1, <2>2, <3>1, EmptySeq DEF Window
    <3> QED
      BY <1>1, <1>2, <1>3, <2>2, <3>1, <3>2 DEF Window
  <2> QED
    BY <2>1, <2>2
<1>12. Summed'
  <2>1. 2 * (totals.iterations + (served + 1) * BlocksPerRequest)
           = (served + 1) * (served + 2) * BlocksPerRequest
    BY <1>2, <1>3, <1>7, OneMoreRequest DEF Summed
  <2>2. served + 1 + 1 = served + 2
    BY <1>3
  <2>3. totals'.accepted = BlockSize * totals'.iterations
    <3>1. totals.accepted = BlockSize * totals.iterations
          /\ metrics.accepted = BlockSize * metrics.iterations
      BY DEF Summed, Progress
    <3> QED
      BY <1>2, <1>7, <3>1
  <2> QED
    BY <1>1, <1>2, <1>6, <1>7, <2>1, <2>2, <2>3 DEF Summed
<1>13. Launched'
  BY <1>1 DEF Launched
<1> QED
  BY <1>8, <1>9, <1>10, <1>11, <1>12, <1>13

LEMMA ReportIInv ==
  ASSUME IInv, Report
  PROVE  IInv'
<1> USE DEF IInv
<1>1. /\ pc = "idle" /\ pc' = "reported" /\ served = row.batch
      /\ launches' = CASE row.mode = "block_speculative_persistent_sim" -> 1
                       [] row.mode = "block_speculative_host_orchestrated"
                            -> totals.iterations * 4
                       [] OTHER -> totals.iterations
      /\ UNCHANGED <<row, served, tokens, startPos, pages, metrics, totals>>
  BY DEF Report
<1>2. BlockSize' = BlockSize /\ BlocksPerRequest' = BlocksPerRequest
  BY <1>1, SameRow
<1>3. totals.iterations \in Nat
  BY CounterFields DEF Typed
<1>4. Typed' /\ Launched'
  <2>1. CASE row.mode = "block_speculative_persistent_sim"
    BY <1>1, <1>3, <2>1 DEF Typed, Launched, TokenState, Counters
  <2>2. CASE row.mode = "block_speculative_host_orchestrated"
    BY <1>1, <1>3, <2>2 DEF Typed, Launched, TokenState, Counters
  <2>3. CASE row.mode \notin {"block_speculative_persistent_sim",
                              "block_speculative_host_orchestrated"}
    BY <1>1, <1>3, <2>3 DEF Typed, Launched, TokenState, Counters
  <2> QED
    BY <2>1, <2>2, <2>3
<1>5. Pending' /\ Window'
  BY <1>1, <1>2 DEF Pending, Window
<1>6. Progress' /\ Summed'
  BY <1>1, <1>2 DEF Progress, Summed
<1> QED
  BY <1>4, <1>5, <1>6

LEMMA NextIInv ==
  IInv /\ [Next]_vars => IInv'
<1> SUFFICES ASSUME IInv, [Next]_vars PROVE IInv'
  OBVIOUS
<1>1. CASE UNCHANGED vars
  <2>1. /\ BlockSize' = BlockSize /\ BlocksPerRequest' = BlocksPerRequest
        /\ DraftBlock(tokens.committed, startPos)' = DraftBlock(tokens.committed, startPos)
        /\ IsComplete(tokens)' <=> IsComplete(tokens)
    BY <1>1 DEF vars, BlockSize, BlocksPerRequest, DraftBlock, SlidingWindowContext, IsComplete
  <2> QED
    BY <1>1, <2>1 DEF vars, IInv, Typed, Pending, Progress, Done, Window, Summed, Launched
<1> QED
  BY <1>1, StartIInv, DraftIInv, VerifyIInv, EndIInv, ReportIInv DEF Next

LEMMA Invariant ==
  Spec => []IInv
BY InitIInv, NextIInv, PTL DEF Spec

-----------------------------------------------------------------------------
(* Every variable of the block runtime and of the loop that benchmarks it   *)
(* keeps its type, for any row, vocabulary and seed.                        *)
THEOREM TypeCorrect ==
  Spec => []TypeOK
<1>1. IInv => TypeOK
  <2> SUFFICES ASSUME Typed PROVE TypeOK
    BY DEF IInv
  <2>1. DOMAIN tokens = DOMAIN FreshTokens
    BY DEF Typed, TokenState, FreshTokens
  <2> QED
    BY <2>1 DEF Typed, TokenState, TypeOK
<1> QED
  BY <1>1, Invariant, PTL

(* Whatever the block size, the window and the hash, verification rejects   *)
(* nothing, the position runs twice as fast as the tokens, and a request    *)
(* ends with max_new_tokens rounded up to whole blocks.                     *)
THEOREM TokensAlwaysInStep ==
  Spec => []TokensInStep
<1>1. IInv => TokensInStep
  <2> SUFFICES ASSUME IInv PROVE TokensInStep
    OBVIOUS
  <2> USE DEF IInv
  <2>1. BlocksPerRequest \in Nat /\ BlockSize \in Nat \ {0}
    BY RowFacts DEF Typed
  <2>2. Len(tokens.committed) <= BlocksPerRequest * BlockSize
    <3>1. ASSUME NEW j \in 0 .. BlocksPerRequest, Len(tokens.committed) = j * BlockSize
          PROVE  Len(tokens.committed) <= BlocksPerRequest * BlockSize
      BY <2>1, <3>1
    <3>2. CASE pc \in {"loop", "verify"}
      BY <3>1, <3>2 DEF Progress, Done
    <3>3. CASE pc \in {"idle", "reported"}
      BY <2>1, <3>3 DEF Progress
    <3> QED
      BY <3>2, <3>3 DEF Typed
  <2>3. metrics.accepted + Len(tokens.draft) = metrics.drafted
    BY DEF Progress
  <2>4. pc = "verify" => startPos = 2 * Len(tokens.committed)
    BY DEF Pending, Progress
  <2>5. pc \in {"idle", "reported"} /\ served > 0 =>
           Len(tokens.committed) = BlocksPerRequest * BlockSize
    BY DEF Progress
  <2> QED
    BY <2>2, <2>3, <2>4, <2>5 DEF Progress, TokensInStep
<1> QED
  BY <1>1, Invariant, PTL

(* Once a block of a request is committed the window holds the committed    *)
(* tokens; before that a later request reads what its predecessor left.     *)
THEOREM WindowAlwaysFollows ==
  Spec => []WindowFollowsCommitted
<1>1. IInv => WindowFollowsCommitted
  <2> SUFFICES ASSUME IInv, tokens.committed = <<>>, pc = "verify"
               PROVE  IF served = 0 \/ row.maxNew = 0 THEN pages = <<0>>
                      ELSE Len(pages) = BlocksPerRequest * BlockSize
    BY DEF IInv, Window, WindowFollowsCommitted
  <2>1. ~(0 >= row.maxNew)
    BY EmptySeq DEF IInv, Pending, IsComplete
  <2>2. row.maxNew # 0
    BY <2>1
  <2> QED
    BY <2>2 DEF IInv, Window
<1> QED
  BY <1>1, Invariant, PTL

(* The metrics of a runtime are never reset, and the benchmark adds up all   *)
(* it returns: the first of k requests is counted k times in the totals, and  *)
(* the host launches of all but the persistent mode are inflated.           *)
THEOREM TotalsAlwaysRecount ==
  Spec => []TotalsRecount
<1>1. IInv => TotalsRecount
  <2> SUFFICES ASSUME IInv PROVE TotalsRecount
    OBVIOUS
  <2> USE DEF IInv
  <2>1. /\ BlocksPerRequest \in Nat /\ row.batch \in Nat
        /\ row.maxNew = 0 <=> BlocksPerRequest = 0
        /\ totals.iterations \in Nat /\ row.mode \in BlockModes
    BY RowFacts, RowsAssumption, CounterFields DEF Typed
  <2>2. ASSUME pc = "reported", row.batch > 1, row.maxNew > 0,
               row.mode # "block_speculative_persistent_sim"
        PROVE  launches > row.batch * BlocksPerRequest
    <3>1. served = row.batch /\ 2 * totals.iterations = row.batch * (row.batch + 1) * BlocksPerRequest
      BY <2>2 DEF Progress, Summed
    <3>2. totals.iterations > row.batch * BlocksPerRequest
      BY <2>1, <2>2, <3>1, MoreThanOnce
    <3>3. launches = totals.iterations * 4 \/ launches = totals.iterations
      BY <2>2 DEF Launched
    <3>4. row.batch * BlocksPerRequest \in Nat
      BY <2>1
    <3> QED
      BY <2>1, <3>2, <3>3, <3>4
  <2>3. pc \in {"idle", "reported"} => metrics.iterations = served * BlocksPerRequest
    BY DEF Progress
  <2> QED
    BY <2>2, <2>3 DEF Summed, TotalsRecount
<1> QED
  BY <1>1, Invariant, PTL
=============================================================================
