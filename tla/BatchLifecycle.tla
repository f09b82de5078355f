--------------------------- MODULE BatchLifecycle ---------------------------
(***************************************************************************)
(* What the accumulator promises about one durable fact: where each batch  *)
(* stands.  Crashes and restarts do not appear here: they must not change  *)
(* the stage of any batch.                                                 *)
(***************************************************************************)
CONSTANT Batch

VARIABLE stage

\* unknown: no row; committed, submitted: pending, without and with
\* blobs_accepted; own: dispatched by us; external: preconfirmed by another.
Stage == {"unknown", "committed", "submitted", "own", "external"}

Init == stage = [i \in Batch |-> "unknown"]

Goes(i, from, to) == stage[i] \in from /\ stage' = [stage EXCEPT ![i] = to]

\* L1 events.  A BatchSubmitted that came first is taken into account.
Commit(i) == \E to \in {"committed", "submitted"} : Goes(i, {"unknown"}, to)
Submit(i) == Goes(i, {"committed"}, "submitted")
Preconfirmed(i) == Goes(i, {"committed", "submitted"}, "external")

\* Only a batch whose blobs L1 has accepted is broadcast, and only our own
\* broadcast is ever taken back.
Broadcast(i) == Goes(i, {"submitted"}, "own")
Retry(i) == Goes(i, {"own"}, "submitted")
Finalize(i) == Goes(i, {"own", "external"}, "unknown")

Revert == stage' = [i \in Batch |-> "unknown"]

Next == \/ \E i \in Batch : \/ Commit(i) \/ Submit(i) \/ Preconfirmed(i)
                            \/ Broadcast(i) \/ Retry(i) \/ Finalize(i)
        \/ Revert

Spec == Init /\ [][Next]_stage
=============================================================================
