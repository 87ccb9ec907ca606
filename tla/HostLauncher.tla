---------------------------- MODULE HostLauncher ----------------------------
(* host_launcher.cpp: main() runs the benchmark of its mode.  Mode "both"    *)
(* runs the host-driven baseline and then the persistent mega-kernel on       *)
(* requests set up alike, and compares them; the other modes modelled run one  *)
(* research kernel each.                                                      *)
EXTENDS MegaKernel, TraceReplay, ResidentPlanning

CONSTANT ThreadsPerBlock    \* BLOCK_SIZE, 256: the baseline launches one block

ASSUME HostAssumption ==
    /\ ThreadsPerBlock \in Nat \ {0}
    /\ {} \notin {Launches, Traces, Lists, TopKs}

VARIABLES
    mode,          \* --mode
    phase,         \* "baseline", "mega", "kernel", "reported"
    base,          \* the baseline's descriptors, by index
    baseLaunches   \* its host_kernel_launches

hostVars == <<mode, phase, base, baseLaunches>>
vars == <<hostVars, megaVars, traceVars, schedulerVars, tierVars>>

Modes == {"both", "trace-replay", "resident-scheduler", "tier-residency"}

AnyOf(S) == CHOOSE x \in S : TRUE

Init ==
    /\ mode \in Modes
    /\ phase = IF mode = "both" THEN "baseline" ELSE "kernel"
    /\ \E l \in IF mode = "both" THEN Launches ELSE {AnyOf(Launches)} :
          /\ MegaInit(l)
          /\ base = [i \in 0 .. l.n - 1 |->
                        [state |-> "DECODE_READY", output |-> 0,
                         lastToken |-> ((i + 1) * 7 + 3) % Vocab]]
    /\ \E t \in IF mode = "trace-replay" THEN Traces ELSE {AnyOf(Traces)} : TraceInit(t)
    /\ \E n \in IF mode = "resident-scheduler" THEN Lists ELSE {AnyOf(Lists)} : SchedulerInit(n)
    /\ \E k \in IF mode = "tier-residency" THEN TopKs ELSE {AnyOf(TopKs)} : TierInit(k)
    /\ baseLaunches = 0

-----------------------------------------------------------------------------
(* baseline_host_decode_step_kernel: one token, on the serial path.  A      *)
(* request beyond the threads of the block is not touched.                  *)
BaselineStep(i) ==
    LET r     == base[i]
        token == (r.lastToken + 1 + (i + 1)) % Vocab
    IN  IF IsDone(r) \/ i >= ThreadsPerBlock THEN r
        ELSE [lastToken |-> token, output |-> r.output + 1,
              state |-> IF token = EosToken \/ r.output + 1 >= launch.maxNew
                        THEN "COMPLETE" ELSE r.state]

BaselineGoesOn ==
    /\ baseLaunches < launch.maxIterations
    /\ \E i \in Blocks : ~IsDone(base[i])

(* Launch, synchronise, copy back: the host decides on every token.         *)
BaselineLaunch ==
    /\ phase = "baseline"
    /\ BaselineGoesOn
    /\ base' = [i \in Blocks |-> BaselineStep(i)]
    /\ baseLaunches' = baseLaunches + 1
    /\ UNCHANGED <<mode, phase, megaVars, traceVars, schedulerVars, tierVars>>

LaunchMegaKernel ==
    /\ phase = "baseline"
    /\ ~BaselineGoesOn
    /\ phase' = "mega"
    /\ UNCHANGED <<mode, base, baseLaunches, megaVars, traceVars, schedulerVars, tierVars>>

RunMegaKernel ==
    /\ phase = "mega"
    /\ MegaNext
    /\ UNCHANGED <<hostVars, traceVars, schedulerVars, tierVars>>

RunTraceReplay ==
    /\ phase = "kernel" /\ mode = "trace-replay"
    /\ TraceNext
    /\ UNCHANGED <<hostVars, megaVars, schedulerVars, tierVars>>

RunScheduler ==
    /\ phase = "kernel" /\ mode = "resident-scheduler"
    /\ Schedule
    /\ UNCHANGED <<hostVars, megaVars, traceVars, tierVars>>

RunTierResidency ==
    /\ phase = "kernel" /\ mode = "tier-residency"
    /\ Rebalance
    /\ UNCHANGED <<hostVars, megaVars, traceVars, schedulerVars>>

KernelEnded ==
    CASE mode = "both"               -> phase = "mega" /\ MegaEnded
      [] mode = "trace-replay"       -> turn = "ended"
      [] mode = "resident-scheduler" -> planned
      [] mode = "tier-residency"     -> pass = "ended"

(* cudaDeviceSynchronize returns once the kernel has; the host reports.     *)
Synchronize ==
    /\ phase \in {"mega", "kernel"}
    /\ KernelEnded
    /\ phase' = "reported"
    /\ UNCHANGED <<mode, base, baseLaunches, megaVars, traceVars, schedulerVars, tierVars>>

Next ==
    \/ BaselineLaunch \/ LaunchMegaKernel \/ RunMegaKernel
    \/ RunTraceReplay \/ RunScheduler \/ RunTierResidency
    \/ Synchronize

(* The host goes on as long as it can, and every resident block of the      *)
(* kernel is scheduled: a launch has at most as many blocks as fit the GPU.  *)
HostStep == BaselineLaunch \/ LaunchMegaKernel \/ Synchronize

RunBlock(b) ==
    /\ phase = "mega"
    /\ b \in Blocks
    /\ Step(b) \/ (b = 0 /\ Poll)
    /\ UNCHANGED <<hostVars, traceVars, schedulerVars, tierVars>>

MostBlocks == 4    \* bound: no launch of the instances has more requests

Fairness ==
    /\ WF_vars(HostStep)
    /\ \A b \in 0 .. MostBlocks - 1 : WF_vars(RunBlock(b))
    /\ WF_vars(RunTraceReplay)
    /\ WF_vars(RunScheduler)
    /\ WF_vars(RunTierResidency)

Spec == Init /\ [][Next]_vars /\ Fairness
=============================================================================
