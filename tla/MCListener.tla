----------------------------- MODULE MCListener -----------------------------
(***************************************************************************)
(* L1Listener for TLC: one chain without a revert, one where the second    *)
(* batch and one where the first is reverted and committed again with      *)
(* another range, and one with a revert of the second, then of the first.  *)
(***************************************************************************)
EXTENDS L1Listener

C(i, f, t) == [kind |-> "committed", batch |-> i, from |-> f, to |-> t]
S(i) == [kind |-> "submitted", batch |-> i]
P(i) == [kind |-> "preconfirmed", batch |-> i]
R(i) == [kind |-> "reverted", batch |-> i]

MCScripts == {
    << <<C(1, 1, 2)>>, <<S(1), C(2, 3, 3)>>, <<P(1)>>, <<P(2)>>, <<>> >>,
    << <<C(1, 1, 1), C(2, 2, 3)>>, <<R(2), C(2, 2, 2)>>, <<C(3, 3, 3)>>,
       <<C(4, 4, 4)>>, <<>> >>,
    << <<C(1, 1, 1)>>, <<R(1)>>, <<>>, <<C(1, 1, 2)>>, <<P(1)>> >>,
    << <<C(1, 1, 1), C(2, 2, 2)>>, <<R(2)>>, <<C(2, 2, 3)>>, <<R(1), C(1, 1, 2)>>,
       <<C(2, 3, 4)>>, <<>> >> }
=============================================================================
