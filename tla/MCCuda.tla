------------------------------- MODULE MCCuda -------------------------------
(* Instances for HostLauncher: launches of two and three requests whose      *)
(* iterations suffice and do not, one request more than the baseline has      *)
(* threads, a budget of zero, and the sweep's smallest and largest drafts.    *)
EXTENDS CudaProperties

MCLaunches ==
    {[n |-> 1, maxNew |-> 6, draftLen |-> 5, maxIterations |-> 8],
     [n |-> 2, maxNew |-> 6, draftLen |-> 1, maxIterations |-> 8],
     [n |-> 2, maxNew |-> 6, draftLen |-> 8, maxIterations |-> 8],
     [n |-> 2, maxNew |-> 0, draftLen |-> 4, maxIterations |-> 3],
     [n |-> 3, maxNew |-> 3, draftLen |-> 4, maxIterations |-> 2],
     [n |-> 3, maxNew |-> 4, draftLen |-> 8, maxIterations |-> 5],
     [n |-> 4, maxNew |-> 2, draftLen |-> 4, maxIterations |-> 3],
     [n |-> 4, maxNew |-> 1, draftLen |-> 1, maxIterations |-> 2]}

MCTraces == [n : 1 .. 14, draftLen : 0 .. 3]
=============================================================================
