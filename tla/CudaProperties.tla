--------------------------- MODULE CudaProperties ---------------------------
(* What the CUDA side promises, and what it does not.                       *)
EXTENDS HostLauncher

Descriptor == [state : {"DECODE_READY", "DRAFT_READY", "COMPLETE"},
               lastToken : 0 .. Vocab - 1, output : Nat, draftLen : Nat,
               rate : Rate, block : Nat \ {0}]

TypeOK ==
    /\ mode \in Modes
    /\ phase \in {"baseline", "mega", "kernel", "reported"}
    /\ launch \in Launches
    /\ DOMAIN base = Blocks
    /\ at \in [Blocks -> {"loop", "decode", "verify", "count", "poll", "exited"}]
    /\ iteration \in [Blocks -> Nat]
    /\ request \in [Blocks -> Descriptor]
    /\ page \in [Blocks -> [Pages -> {"FREE", "DRAFT", "COMMITTED", "EVICTABLE"}]]
    /\ selected \in [Blocks -> SUBSET Pages]
    /\ counted \in [Blocks -> BOOLEAN]
    /\ doneCounter \in Nat
    /\ shutdownFlag \in BOOLEAN
    /\ scan \in Nat
    /\ {ring.head, ring.tail} \subseteq 0 .. Len(ring.entries) - 1
    /\ active \in [Slots -> [request : Requests \cup {NoRequest}, left : 0 .. 3]]
    /\ status \in [Requests -> {"EMPTY", "PREFILL_READY", "DECODE_READY", "COMPLETE"}]
    /\ tier \in [TierPages -> {"HBM", "DRAM", "SSD"}]

-----------------------------------------------------------------------------
(* The mega-kernel.                                                        *)

(* What a block verifies is what it drafted, inside its own region of the   *)
(* shared buffer.  With --draft-len 1 the regions hold four tokens and the   *)
(* adaptive block may be eight: it never is, because the launcher's first    *)
(* token of every request is rejected and four of four is never accepted.    *)
OwnDrafts ==
    \A b \in Blocks : at[b] = "verify" =>
        /\ request[b].draftLen <= DraftStride(launch)
        /\ \A i \in 0 .. request[b].draftLen - 1 :
              draftTokens[DraftOffset(b) + i] = DraftToken(b, request[b], i)

(* Every finished request is counted once, by its own block.                *)
CountedOnce ==
    /\ doneCounter = Cardinality({b \in Blocks : counted[b]})
    /\ \A b \in Blocks : counted[b] => IsDone(request[b])

(* The flag tells all blocks to leave only when there is nothing left to do, *)
(* however old the values block 0 read of the counter.                       *)
FlagMeansAllDone ==
    /\ CountedOnce
    /\ shutdownFlag => \A b \in Blocks : IsDone(request[b])

(* A request left unfinished has used up all its iterations, and one        *)
(* iteration per token is enough: each yields at least one.                 *)
StrandedOnlyAtBound ==
    \A b \in Blocks : at[b] = "exited" /\ ~IsDone(request[b]) =>
        /\ iteration[b] = launch.maxIterations
        /\ launch.maxIterations < Larger(launch.maxNew, 1)

(* However long the output, only the pages of one accepted prefix are ever  *)
(* committed: the first of the four, for the prefixes the launcher's tokens  *)
(* allow.  The selection for the next block sees nothing else.              *)
FirstPageOnly ==
    \A b \in Blocks :
        /\ \A p \in Pages : page[b][p] = IF p = 0 /\ page[b][0] # "FREE"
                                         THEN "COMMITTED" ELSE "FREE"
        /\ selected[b] \subseteq {p \in Pages : page[b][p] = "COMMITTED"}

(* The tokens verify looks at.                                              *)
Proposed(r) == Smaller(r.draftLen, BudgetLeft(r))

(* Two blocks chosen at a rate: the same, or, where a threshold is within   *)
(* the rounding, those on its two sides; and never beyond the cap.           *)
ChosenAlike(one, other, rate, pressure) ==
    /\ \/ one = other
       \/ Undecided(rate, Policy.low) /\ {one, other} = {1, IF pressure THEN 2 ELSE 4}
       \/ Undecided(rate, Policy.high) /\ ~pressure /\ {one, other} = {4, 8}
    /\ pressure => one <= Policy.cap /\ other <= Policy.cap

(* Whatever verify reports next, with or without pressure, the device, in    *)
(* single precision, picks the block the simulator picks in double from the  *)
(* same rate and the same acceptance.  Only where a threshold is within the  *)
(* rounding may they differ, and then by one size, never eight against one.  *)
(* And one rejected block does not take the device from the largest size to  *)
(* the smallest (tests/test_asbs.py, test_asbs_ema_smoothing).               *)
DeviceFollowsSimulator ==
    \A b \in Blocks : at[b] = "verify" =>
        \A accepted \in 0 .. Proposed(request[b]), pressure \in BOOLEAN :
            LET r == request[b]
                d == DeviceRate(r.rate, accepted, Proposed(r))
                s == SimulatorRate(r.rate, accepted, Proposed(r))
            IN  /\ \A x \in Near(d), y \in Near(s) :
                       ChosenAlike(DeviceBlock(x, pressure), SimulatorBlock(y, pressure),
                                   d, pressure)
                /\ r.block = 8 /\ ~pressure => \A x \in DeviceBlocks(d, FALSE) : x >= 4

-----------------------------------------------------------------------------
(* The launcher.                                                            *)

(* No request yields more than its budget, but a budget of zero yields one.  *)
OutputWithinBudget ==
    \A b \in Blocks :
        /\ request[b].output <= Larger(launch.maxNew, 1)
        /\ IsDone(request[b]) => request[b].output = Larger(launch.maxNew, 1)

(* The two paths draw different tokens but the same number of them, if the   *)
(* bound is large enough; a request beyond the baseline's one block of       *)
(* threads is never decoded there, and the comparison is between unequals.   *)
BothPathsAgree ==
    /\ OutputWithinBudget
    /\ mode = "both" /\ phase = "reported" =>
          \A b \in Blocks :
              IF b >= ThreadsPerBlock
              THEN base[b].output = 0 /\ baseLaunches = launch.maxIterations
              ELSE 0 < launch.maxIterations /\ launch.maxNew <= launch.maxIterations =>
                      base[b].output = request[b].output

(* Every launch comes back.                                                 *)
LauncherEnds == <>(phase = "reported")

-----------------------------------------------------------------------------
(* Trace replay.                                                            *)

(* The loop over the requests has reached r in the step of its arrival.     *)
Arrived(r) ==
    \/ Arrival(r) < step
    \/ Arrival(r) = step /\ turn \in {"admit", "serve"}
    \/ Arrival(r) = step /\ turn = "offer" /\ r < scan

(* A request that has arrived is in exactly one place: queued, in one slot,  *)
(* or completed once.  None is lost, the ring has room for all.              *)
ReplayConserves ==
    \A r \in Requests :
        LET places == (IF \E i \in 1 .. Depth(ring) : Queued(ring)[i] = r THEN {"PREFILL_READY"} ELSE {})
                      \cup (IF \E s \in Slots : active[s].request = r THEN {"DECODE_READY"} ELSE {})
                      \cup (IF \E i \in DOMAIN completed : completed[i] = r THEN {"COMPLETE"} ELSE {})
        IN  IF Arrived(r) THEN places = {status[r]} ELSE places = {} /\ status[r] = "EMPTY"

(* Requests are admitted in the order of their arrival, and a later one      *)
(* overtakes only by being shorter.                                          *)
AdmittedInOrder ==
    /\ \A i \in DOMAIN admitted : admitted[i] = i - 1
    /\ \A i, j \in DOMAIN completed : i < j /\ completed[i] > completed[j] =>
          Service(completed[i]) < Service(completed[j])

(* The replay serves every request within its horizon, but for a single slot *)
(* and more than eight requests.                                             *)
ReplayServesAll ==
    turn = "ended" =>
        (Len(completed) = trace.n <=> MaxActive(trace) > 1 \/ trace.n <= 8)

(* What the replay promises to its requests.                                *)
ReplayServesInOrder == ReplayConserves /\ AdmittedInOrder /\ ReplayServesAll

-----------------------------------------------------------------------------
(* Planning kernels.                                                        *)

(* The schedule is by priority, first come first among equals, and holds     *)
(* every live request among the first ScanLimit, and no other.               *)
ScheduleByPriority ==
    /\ \A i, j \in DOMAIN scheduled : i < j =>
          \/ Priority(listed, scheduled[i]) > Priority(listed, scheduled[j])
          \/ /\ Priority(listed, scheduled[i]) = Priority(listed, scheduled[j])
             /\ scheduled[i] < scheduled[j]
    /\ planned => {scheduled[i] : i \in DOMAIN scheduled} =
                  {i \in 0 .. listed - 1 : i < ScanLimit /\ ~Finished(i)}

(* After the rebalancing a tier above its capacity holds selected pages and  *)
(* no other, and no selected page is lower than it started.                  *)
OverCapacityIsSelected ==
    pass = "ended" =>
        /\ Cardinality(In("HBM")) > HbmCapacity => \A p \in In("HBM") : IsSelected(p)
        /\ Cardinality(In("DRAM")) > DramCapacity => \A p \in In("DRAM") : IsSelected(p)
        /\ \A p \in TierPages : IsSelected(p) =>
              tier[p] = IF p < 4 THEN "HBM" ELSE "DRAM"

(* What the two planning kernels leave behind.                              *)
PlansAreSound == ScheduleByPriority /\ OverCapacityIsSelected
=============================================================================
