--------------------------- MODULE MCAccumulator ---------------------------
(* Two batches, the first of two blocks, one revert.                       *)
EXTENDS Accumulator

MCBatch == {1, 2}
MCBlock == {1, 2, 3}
MCSpan == [i \in MCBatch |-> IF i = 1 THEN {1, 2} ELSE {3}]
MCL1Block == {0, 1}
=============================================================================
