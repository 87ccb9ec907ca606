--------------------------- MODULE AdaptiveBlocks ---------------------------
(* Adaptive speculative block sizing, twice: update_block_size of the       *)
(* simulator and update_block_size_device of the kernel, which takes "the    *)
(* same thresholds" (stage_spec_verify.cuh:7).  Rates are counted in         *)
(* ten-thousandths.  The simulator computes them in double precision, the    *)
(* kernel in single: each is somewhere Near the rate counted here, and where *)
(* a threshold is that near, each may be on either side of it.               *)
EXTENDS Integers

Unit  == 10000
Slack == 6      \* bound of the rounding: e <= 0.8 e + 1.2 at each update

Rate == 0 .. Unit
Near(rate) == (IF rate > Slack THEN rate - Slack ELSE 0)
              .. (IF rate + Slack < Unit THEN rate + Slack ELSE Unit)

(* Rounding may put rate on either side of the threshold.                   *)
Undecided(rate, threshold) == rate - Slack < threshold /\ threshold <= rate + Slack

-----------------------------------------------------------------------------
(* spec_decode.py                                                           *)
(* The defaults of AdaptiveBlockPolicy, alpha in tenths.                    *)
Policy == [min |-> 1, max |-> 8, alpha |-> 2, cap |-> 2, high |-> 8000, low |-> 5000]

SimulatorRate(rate, accepted, masked) ==
    LET proposed == IF masked > 1 THEN masked ELSE 1
        observed == (accepted * Unit) \div proposed
    IN  (Policy.alpha * observed + (10 - Policy.alpha) * rate) \div 10

SimulatorBlock(rate, pressure) ==
    LET next == IF rate >= Policy.high THEN Policy.max
                ELSE IF rate >= Policy.low THEN (Policy.min + Policy.max) \div 2
                ELSE Policy.min
        held == IF pressure /\ next > Policy.cap THEN Policy.cap ELSE next
    IN  IF held < Policy.min THEN Policy.min ELSE held

-----------------------------------------------------------------------------
(* stage_spec_verify.cuh                                                    *)
(* Mutant: the weights of the observation and of the old rate are swapped.  *)
DeviceRateSwapped(rate, accepted, proposed) ==
    LET observed == IF proposed > 0 THEN (accepted * Unit) \div proposed ELSE 0
    IN  (8 * observed + 2 * rate) \div 10

DeviceRate(rate, accepted, proposed) ==
    LET observed == IF proposed > 0 THEN (accepted * Unit) \div proposed ELSE 0
    IN  (2 * observed + 8 * rate) \div 10

DeviceBlock(rate, pressure) ==
    LET next == IF rate >= 8000 THEN 8 ELSE IF rate >= 5000 THEN 4 ELSE 1
    IN  IF pressure /\ next > 2 THEN 2 ELSE next

DeviceBlocks(rate, pressure) == {DeviceBlock(r, pressure) : r \in Near(rate)}
=============================================================================
