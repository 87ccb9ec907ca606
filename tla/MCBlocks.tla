------------------------------- MODULE MCBlocks -------------------------------
(* A small sweep for BlockRuntime: every mode, windows shorter and longer    *)
(* than the output, and outputs that are and are not multiples of the block. *)
EXTENDS BlockRuntime

MCRows == [mode : BlockModes, batch : 1 .. 3, block : {1, 2, 3, 4},
           window : {3, 256}, maxNew : {0, 1, 4, 7}]
=============================================================================
