------------------------------- MODULE MCTee -------------------------------
EXTENDS Proxy

\* Two blocks, and blobs that fit a batch, are cut short or run on.
MCInputs == {[nr |-> 1, hash |-> "a"], [nr |-> 2, hash |-> "b"]}
MCBlobs == {<<"a">>, <<"a", "b">>}

\* Many requests and few faults, one request or challenge and many faults.
Setup(a, c, ch, f) == [attests |-> a, calls |-> c, challenges |-> ch, faults |-> f]
MCSetups == {Setup(TRUE, 3, 0, 0), Setup(TRUE, 2, 0, 1), Setup(TRUE, 1, 0, 2),
             Setup(TRUE, 0, 1, 3), Setup(FALSE, 1, 0, 1)}
=============================================================================
