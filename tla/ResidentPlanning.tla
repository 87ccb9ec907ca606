--------------------------- MODULE ResidentPlanning ---------------------------
(* Two single-pass kernels the launcher measures: the scheduler, which orders  *)
(* the live requests by priority, and the rebalancing of one request's pages   *)
(* over the memory tiers after its sparse selection.                           *)
EXTENDS Integers, Sequences, FiniteSets

CONSTANTS
    Lists,       \* numbers of requests given to the scheduler
    ScanLimit,   \* the 256 requests the scheduler looks at
    TopKs        \* the draft lengths given to the tier kernel

ASSUME PlanningAssumption ==
    Lists \subseteq Nat \ {0} /\ ScanLimit \in Nat \ {0} /\ TopKs \subseteq Nat

-----------------------------------------------------------------------------
VARIABLES
    listed,      \* num_requests
    scheduled,   \* the indices of scheduled_request_ids written so far
    planned      \* the kernel has returned

schedulerVars == <<listed, scheduled, planned>>

Priority(n, i) == ((i * 17) + 3) % (n + 7)
Finished(i)    == i % 5 = 0

SchedulerInit(n) == listed = n /\ scheduled = <<>> /\ planned = FALSE

(* The live requests among the first ScanLimit not scheduled yet.           *)
Candidates ==
    {i \in 0 .. listed - 1 : /\ i < ScanLimit
                             /\ ~Finished(i)
                             /\ \A k \in DOMAIN scheduled : scheduled[k] # i}

(* The highest priority, the first index among equals.                      *)
Best(S) == CHOOSE i \in S : \A j \in S :
              \/ Priority(listed, i) > Priority(listed, j)
              \/ Priority(listed, i) = Priority(listed, j) /\ i <= j

(* One slot of the output.                                                  *)
Schedule ==
    /\ ~planned
    /\ IF Len(scheduled) < listed /\ Candidates # {}
       THEN scheduled' = Append(scheduled, Best(Candidates)) /\ UNCHANGED planned
       ELSE planned' = TRUE /\ UNCHANGED scheduled
    /\ UNCHANGED listed

-----------------------------------------------------------------------------
VARIABLES
    topK,        \* max_selected_pages
    tier,        \* page_tiers of the request
    cursor,      \* the loop counter
    pass         \* "promote", "demote HBM", "demote DRAM", "ended"

tierVars == <<topK, tier, cursor, pass>>

TierPages    == 0 .. 5
HbmCapacity  == 2
DramCapacity == 2
In(t)        == {p \in TierPages : tier[p] = t}

(* All pages are resident at decode step 0, so the gather selects the first  *)
(* ones, in order: rank i is page i.                                         *)
IsSelected(p) == p < topK

TierInit(k) ==
    /\ topK = IF k > 0 THEN k ELSE 2
    /\ tier = [p \in TierPages |-> CASE p < 2 -> "HBM" [] p \in 2 .. 3 -> "DRAM" [] p > 3 -> "SSD"]
    /\ cursor = 0
    /\ pass = "promote"

(* A selected page climbs one tier, whether there is room or not.           *)
Promote ==
    /\ pass = "promote"
    /\ IF cursor < topK
       THEN /\ tier' = IF cursor \notin TierPages THEN tier
                       ELSE [tier EXCEPT ![cursor] = CASE @ = "DRAM" -> "HBM"
                                                       [] @ = "SSD"  -> "DRAM"
                                                       [] OTHER      -> @]
            /\ cursor' = cursor + 1
            /\ UNCHANGED pass
       ELSE /\ cursor' = 5
            /\ pass' = "demote HBM"
            /\ UNCHANGED tier
    /\ UNCHANGED topK

(* Mutant: selected pages are demoted too.                                  *)
DemotionAnyPage(from, to, capacity, next) ==
    /\ IF cursor >= 0 /\ Cardinality(In(from)) > capacity
       THEN /\ tier' = IF tier[cursor] = from THEN [tier EXCEPT ![cursor] = to] ELSE tier
            /\ cursor' = cursor - 1
            /\ UNCHANGED pass
       ELSE cursor' = 5 /\ pass' = next /\ UNCHANGED tier
    /\ UNCHANGED topK

(* From the last page down, pages that are not selected leave a tier that    *)
(* is over its capacity.                                                     *)
Demotion(from, to, capacity, next) ==
    /\ IF cursor >= 0 /\ Cardinality(In(from)) > capacity
       THEN /\ tier' = IF tier[cursor] = from /\ ~IsSelected(cursor)
                       THEN [tier EXCEPT ![cursor] = to] ELSE tier
            /\ cursor' = cursor - 1
            /\ UNCHANGED pass
       ELSE cursor' = 5 /\ pass' = next /\ UNCHANGED tier
    /\ UNCHANGED topK

DemoteHbm  == pass = "demote HBM"  /\ Demotion("HBM", "DRAM", HbmCapacity, "demote DRAM")
DemoteDram == pass = "demote DRAM" /\ Demotion("DRAM", "SSD", DramCapacity, "ended")

Rebalance == Promote \/ DemoteHbm \/ DemoteDram
=============================================================================
