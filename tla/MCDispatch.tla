---------------------------- MODULE MCDispatch -----------------------------
(* Two batches; three workers: two resumed and a fresh one.                *)
EXTENDS Dispatch

MCBatch == {1, 2}
MCSlot == {1, 2, 3}
=============================================================================
