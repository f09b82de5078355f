--------------------------- MODULE MCDispatchOne ---------------------------
(* One batch; two workers: a resumed one and a fresh one.                  *)
EXTENDS Dispatch

MCBatch == {1}
MCSlot == {1, 2}

\* The process may die while no batch has a row of its own, so between the
\* broadcast and mark_dispatched; behind it EveryBatchFinalized fails.
CrashUnrecorded ==
    process = "up" /\ process' = "down" => \A i \in Batch : ~Own(rows, i)
LiveSpec == Init /\ [][Next /\ CrashUnrecorded]_vars /\ Fairness
=============================================================================
