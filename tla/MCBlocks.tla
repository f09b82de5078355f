------------------------------ MODULE MCBlocks ------------------------------
(***************************************************************************)
(* BlockPipeline for TLC: block 1 is caught up on without a witness, 2 and *)
(* 3 are a batch each.  Block 1 has the chain's first transaction, block 2 *)
(* has none, which are the tails the healing by transactions leaves alone. *)
(***************************************************************************)
EXTENDS BlockPipeline

MCTxCount == [b \in 0..3 |-> <<0, 1, 1, 3>>[b + 1]]
MCBlocksOf == <<{2}, {3}>>
=============================================================================
