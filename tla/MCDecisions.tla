---------------------------- MODULE MCDecisions ----------------------------
(* An instance of DecisionBenchmark for TLC.                               *)
EXTENDS DecisionBenchmark

CONSTANTS p1, p2

Of(kind, truth, numeric, difficulty) ==
    [kind |-> kind, truth |-> truth, numeric |-> numeric, difficulty |-> difficulty]

(* The tasks without the datasets, one of each domain; and math rows of a  *)
(* dataset, one of them "1,000".                                           *)
ThreeTasks ==
    {<<Of("math", 4, TRUE, 2), Of("coding", 1, TRUE, 3), Of("triage", 7, TRUE, 8)>>,
     <<Of("math", 80, TRUE, 2), Of("math", 4, TRUE, 4), Of("math", 1000, FALSE, 1)>>}

(* 4 without a confidence, and 4 with a high one stated before it.         *)
TwoResponses ==
    {[answer |-> 4, confidence |-> Absent, confidenceLast |-> FALSE],
     [answer |-> 4, confidence |-> 90, confidenceLast |-> FALSE]}

Typed == Of("math", 4, TRUE, 3)

=============================================================================
