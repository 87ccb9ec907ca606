------------------------ MODULE MCPersistentRuntime ------------------------
(* Instances of PersistentRuntime for TLC: requests and configurations.    *)
EXTENDS PersistentRuntime

CONSTANTS r1, r2, r3

(* Three requests of two priorities.                                       *)
Prompt3   == (r1 :> 2) @@ (r2 :> 3) @@ (r3 :> 1)
Target3   == (r1 :> 4) @@ (r2 :> 3) @@ (r3 :> 5)
Eos3      == (r1 :> {4}) @@ (r2 :> {3}) @@ (r3 :> {})
MaxNew3   == (r1 :> 8) @@ (r2 :> 2) @@ (r3 :> 4)
Priority3 == (r1 :> 1) @@ (r2 :> 2) @@ (r3 :> 1)

(* The same, the last one with nothing to decode.                          *)
TargetZero == (r1 :> 4) @@ (r2 :> 3) @@ (r3 :> 2)
MaxNewZero == (r1 :> 8) @@ (r2 :> 2) @@ (r3 :> 0)

(* One request whose target has an EOS in the middle.                      *)
Prompt1   == r1 :> 1
Target1   == r1 :> 8
Eos1      == r1 :> {3}
MaxNew1   == r1 :> 8
Priority1 == r1 :> 0

Adaptive(pin, stride, reject, top, workers) ==
    [blockSizes |-> {1, 2, 4}, mismatchStride |-> stride,
     rejectDraftBlocks |-> reject, pinReady |-> pin,
     sparseTopK |-> top, decodeWorkers |-> workers]

(* Every choice the configuration offers.                                  *)
AnyConfig ==
    {Adaptive(pin, stride, reject, top, workers) :
        pin \in BOOLEAN, stride \in {0, 3}, reject \in BOOLEAN,
        top \in {0, 1}, workers \in {1, 2}}

(* Sparse selection only while ready pages are pinned.                     *)
SafeSparse == {g \in AnyConfig : g.pinReady \/ g.sparseTopK = 0}

UnpinnedDense == {g \in AnyConfig : ~g.pinReady /\ g.sparseTopK = 0}

UnpinnedSparse == {Adaptive(FALSE, 0, FALSE, 1, 2)}

Blocks == {Adaptive(TRUE, 0, FALSE, 0, 1)}

=============================================================================
