------------------------------ MODULE Dispatch ------------------------------
(***************************************************************************)
(* Dispatch of signed batches to L1: the dispatch gate of the main loop,   *)
(* the RBF (replace-by-fee) workers, the finalization ticker, and the      *)
(* restart that resumes workers from the dispatched rows (orchestrator.rs).*)
(*                                                                         *)
(* Accumulator shows that the maps of the main loop mirror the database,   *)
(* so one copy of the rows stands for both here.  L1 is external: a pool   *)
(* of transactions of our signer, the transactions mined, which of those   *)
(* succeeded and which are finalized.  A transaction is its content, as    *)
(* its hash is.                                                            *)
(***************************************************************************)
EXTENDS Naturals, Sequences, FiniteSetsExt

CONSTANTS Batch,      \* batch indexes, from 1 on
          Slot,       \* bound: places for live RBF workers; contains Batch
          Foreign,    \* batches that another submitter may preconfirm
          MaxNonce,   \* bound: nonces of our signer, from 1 on
          MaxFee,     \* fee levels 1..MaxFee; MaxFee is the fee cap
          MaxFault,   \* bound: RPC errors, out-of-gas reverts, panics, time-outs
          MaxCrash,   \* bound: crashes of the process
          MaxReorg,   \* bound: L1 reorganisations that unmine a transaction
          CanPanic,   \* whether a worker task may panic
          PromptLoop  \* a broadcast is recorded within bump_interval, and before
                      \* any L1 event of its batch is l1_safe_blocks deep

ASSUME DispatchAssumption ==
    /\ Batch \subseteq Slot /\ Slot \subseteq Nat \ {0}
    /\ Foreign \subseteq Batch
    /\ MaxNonce \in Nat \ {0} /\ MaxFee \in Nat \ {0}
    /\ MaxFault \in Nat /\ MaxCrash \in Nat /\ MaxReorg \in Nat
    /\ CanPanic \in BOOLEAN /\ PromptLoop \in BOOLEAN

VARIABLES
    pool, chain, okay, final,     \* L1
    rows,       \* the row of each batch, in memory and in the database
    process,    \* "up" or "down"
    gate,       \* dispatching_batch; 0 is None
    backoff,    \* global_next_dispatch_allowed lies in the future
    keyCheck,   \* pending_key_check is set
    next,       \* NonceAllocator
    workers,    \* the RBF worker tasks
    doneQ,      \* dispatch_done channel
    bumpQ,      \* rbf_bump channel
    ticker,     \* the finalization-check task and its result
    faults, crashes, reorgs       \* how much of each bound is used

l1Vars == <<pool, chain, okay, final, reorgs>>
loopVars == <<rows, process, gate, backoff, keyCheck, ticker, crashes>>
vars == <<l1Vars, loopVars, next, workers, doneQ, bumpQ, faults>>
-----------------------------------------------------------------------------
Nonce == 1..MaxNonce
Fee == 1..MaxFee

\* Transactions of our signer; the one of another submitter for a batch.
OwnTx == [batch : Batch, nonce : Nonce, fee : Fee]
ForeignTx(i) == [batch |-> i, nonce |-> 0, fee |-> 0]
NoTx == [batch |-> 0, nonce |-> 0, fee |-> 0]
TxOrNone == OwnTx \cup {ForeignTx(i) : i \in Batch} \cup {NoTx}

\* nonce = 0 is None: a row seeded from L1.  l1 is the transaction whose
\* block is recorded as l1_block, NoTx the placeholder 0.
Row == [st : {"unsigned", "signed", "dispatched", "done"},
        tx : TxOrNone, nonce : 0..MaxNonce, l1 : TxOrNone]
NewRow == [st |-> "unsigned", tx |-> NoTx, nonce |-> 0, l1 |-> NoTx]

Worker == [phase : {"free", "preflight", "ready", "allocated", "built",
                    "loop", "bumping"},
           batch : Batch \cup {0}, resume : BOOLEAN,
           nonce : 0..MaxNonce, tx : TxOrNone, fee : 0..MaxFee]
Free == [phase |-> "free", batch |-> 0, resume |-> FALSE,
         nonce |-> 0, tx |-> NoTx, fee |-> 0]
Fresh(i) == [phase |-> "preflight", batch |-> i, resume |-> FALSE,
             nonce |-> 0, tx |-> NoTx, fee |-> 0]
Resume(r, i) == [phase |-> "preflight", batch |-> i, resume |-> TRUE,
              nonce |-> r[i].nonce, tx |-> r[i].tx, fee |-> r[i].tx.fee]

Outcome == [batch : Batch, tx : TxOrNone,
            kind : {"submitted", "oog", "logic", "already", "failed"}]
Bump == [batch : Batch, tx : OwnTx, initial : BOOLEAN]
Observation == [batch : Batch, tx : TxOrNone, ok : BOOLEAN]
IdleTicker == [phase |-> "idle", todo |-> {}, seen |-> {}]

\* No progress event of the batch waits in the channel.
Recorded(i) == \A k \in DOMAIN bumpQ : bumpQ[k].batch # i

Pending(r, i) == r[i].st \in {"unsigned", "signed"}
Dispatched(r, i) == r[i].st = "dispatched"
Own(r, i) == Dispatched(r, i) /\ r[i].nonce # 0

\* Rows, workers, channels and L1 keep their shape: no fee passes the cap
\* (bump_fees) and no nonce the allocator's range.
TypeOK ==
    /\ pool \subseteq OwnTx
    /\ chain \subseteq TxOrNone /\ okay \subseteq chain /\ final \subseteq chain
    /\ rows \in [Batch -> Row]
    /\ process \in {"up", "down"}
    /\ gate \in Batch \cup {0} /\ backoff \in BOOLEAN /\ keyCheck \in BOOLEAN
    /\ next \in 0..MaxNonce + 1
    /\ workers \in [Slot -> Worker]
    /\ doneQ \in Seq(Outcome) /\ bumpQ \in Seq(Bump)
    /\ ticker.phase \in {"idle", "spawned", "query", "done"}
    /\ ticker.seen \subseteq Observation
-----------------------------------------------------------------------------
(* L1.                                                                     *)

Preconfirming(i) == {t \in okay : t.batch = i}
IsPreconfirmed(i) == Preconfirming(i) # {}
Consumed(n) == \E t \in chain : t.nonce = n

\* Any version of a transaction that was broadcast may be the one mined,
\* in nonce order.  preconfirmBatch succeeds once per batch.
Mine(t) ==
    /\ t \in pool
    /\ \A n \in 1..(t.nonce - 1) : Consumed(n)
    /\ chain' = chain \cup {t}
    /\ pool' = {u \in pool : u.nonce # t.nonce}
    /\ \/ ~IsPreconfirmed(t.batch) /\ okay' = okay \cup {t} /\ UNCHANGED faults
       \/ IsPreconfirmed(t.batch) /\ UNCHANGED <<okay, faults>>
       \/ /\ ~IsPreconfirmed(t.batch) /\ faults < MaxFault   \* out of gas
          /\ faults' = faults + 1 /\ UNCHANGED okay
    /\ UNCHANGED <<final, reorgs, loopVars, next, workers, doneQ, bumpQ>>

ForeignPreconfirm(i) ==
    /\ i \in Foreign /\ ~IsPreconfirmed(i) /\ ForeignTx(i) \notin chain
    /\ chain' = chain \cup {ForeignTx(i)}
    /\ okay' = okay \cup {ForeignTx(i)}
    /\ UNCHANGED <<pool, final, reorgs, loopVars, next, workers, doneQ, bumpQ, faults>>

L1Finalize(t) ==
    /\ t \in chain \ final
    /\ \A u \in chain \ final : u.nonce >= t.nonce \/ u.nonce = 0
    /\ final' = final \cup {t}
    /\ UNCHANGED <<pool, chain, okay, reorgs, loopVars, next, workers, doneQ, bumpQ, faults>>

Reorg(t) ==
    /\ reorgs < MaxReorg
    /\ t \in (chain \ final) \cap OwnTx
    /\ \A u \in chain : u.nonce <= t.nonce
    /\ chain' = chain \ {t}
    /\ okay' = okay \ {t}
    /\ pool' = pool \cup {t}
    /\ reorgs' = reorgs + 1
    /\ UNCHANGED <<final, loopVars, next, workers, doneQ, bumpQ, faults>>
-----------------------------------------------------------------------------
(* The accumulator, as Accumulator.tla specifies it.                       *)

mark_dispatched(r, i, t) ==
    IF Pending(r, i)
      THEN [r EXCEPT ![i] = [st |-> "dispatched", tx |-> t, nonce |-> t.nonce, l1 |-> NoTx]]
      ELSE r

mark_dispatched_external(r, i, t) ==
    IF Pending(r, i)
      THEN [r EXCEPT ![i] = [st |-> "dispatched", tx |-> t, nonce |-> 0, l1 |-> t]]
      ELSE r

record_rbf_bump(r, i, t) == IF Dispatched(r, i) THEN [r EXCEPT ![i].tx = t] ELSE r

record_dispatched_l1_block(r, i, t) ==
    IF Dispatched(r, i) THEN [r EXCEPT ![i].l1 = t] ELSE r

undispatch(r, i) == IF Own(r, i) THEN [r EXCEPT ![i] = [NewRow EXCEPT !.st = "signed"]] ELSE r

finalize_dispatched(r, i) ==
    IF Dispatched(r, i) THEN [r EXCEPT ![i] = [NewRow EXCEPT !.st = "done"]] ELSE r

\* The lowest pending batch, and only if it is signed.
first_sequential_signed(r) ==
    {i \in Batch : r[i].st = "signed" /\ \A j \in Batch : Pending(r, j) => i <= j}
-----------------------------------------------------------------------------
(* The main loop.  Every handler leaves through try_dispatch_next_batch or *)
(* through NoDispatch.                                                     *)

try_dispatch_next_batch(r, g, b, k) ==
    LET ready == first_sequential_signed(r)
        free == {s \in Slot : workers[s] = Free}
    IN  IF g = 0 /\ ~b /\ ~k /\ ready # {}
          THEN /\ free # {}
               /\ gate' = Min(ready)
               /\ workers' = [workers EXCEPT ![Min(free)] = Fresh(Min(ready))]
          ELSE gate' = g /\ UNCHANGED workers

Handle(r, b, g) ==
    /\ process = "up"
    /\ rows' = r
    /\ backoff' = b
    /\ try_dispatch_next_batch(r, g, b, keyCheck)
    /\ UNCHANGED <<process, keyCheck, crashes, next, faults, l1Vars>>

NoDispatch(r, b, g) ==
    /\ process = "up"
    /\ rows' = r
    /\ backoff' = b
    /\ gate' = g
    /\ UNCHANGED <<workers, process, keyCheck, crashes, next, faults, l1Vars>>

on_sign_done(i) ==
    /\ rows[i].st = "unsigned"
    /\ Handle([rows EXCEPT ![i].st = "signed"], backoff, gate)
    /\ UNCHANGED <<doneQ, bumpQ, ticker>>

\* The enclave key was rotated: the batch stays unsigned, and nothing is
\* dispatched before the new key is registered on L1.
on_sign_done_invalid(i) ==
    /\ process = "up" /\ rows[i].st = "unsigned"
    /\ faults < MaxFault /\ faults' = faults + 1
    /\ keyCheck' = TRUE
    /\ UNCHANGED <<rows, process, gate, backoff, ticker, crashes, next, workers, doneQ, bumpQ,
                   l1Vars>>

key_check_registered ==
    /\ process = "up" /\ keyCheck
    /\ keyCheck' = FALSE
    /\ try_dispatch_next_batch(rows, gate, backoff, FALSE)
    /\ UNCHANGED <<rows, process, backoff, ticker, crashes, next, doneQ, bumpQ, faults, l1Vars>>

\* A block result tries to sign and to dispatch, whatever the block.
on_block_result ==
    /\ Handle(rows, backoff, gate)
    /\ UNCHANGED <<doneQ, bumpQ, ticker>>

\* BatchPreconfirmed, safe_blocks behind the head: mined, maybe not final;
\* delivered again after a restart.
on_l1_event_preconfirmed(t) ==
    /\ t \in okay
    /\ PromptLoop => Recorded(t.batch) /\ \A s \in Slot : workers[s].batch = t.batch =>
                                                        workers[s].phase # "built"
    /\ Handle(mark_dispatched_external(rows, t.batch, t), FALSE, gate)
    /\ UNCHANGED <<doneQ, bumpQ, ticker>>

BackoffExpires ==
    /\ process = "up" /\ backoff
    /\ backoff' = FALSE
    /\ UNCHANGED <<rows, process, gate, keyCheck, ticker, crashes, next, workers, doneQ, bumpQ,
                   faults, l1Vars>>

\* Mutant: only a submitted batch clears the gate.
GateAfter_mut(i) == IF gate = i /\ Head(doneQ).kind = "submitted" THEN 0 ELSE gate

\* The gate is cleared only by the batch it guards.
GateAfter(i) == IF gate = i THEN 0 ELSE gate

on_dispatch_done ==
    /\ doneQ # <<>>
    /\ LET i == Head(doneQ).batch
           t == Head(doneQ).tx
           g == GateAfter(i)
           retry == undispatch(rows, i)
       IN  CASE Head(doneQ).kind = "submitted" ->
                   Handle(record_dispatched_l1_block(rows, i, t), FALSE, g)
             [] Head(doneQ).kind = "already" ->
                   Handle(mark_dispatched_external(rows, i, t), FALSE, g)
             [] Head(doneQ).kind = "oog" -> Handle(retry, backoff, g)
             [] Head(doneQ).kind \in {"logic", "failed"} -> NoDispatch(retry, TRUE, g)
    /\ doneQ' = Tail(doneQ)
    /\ UNCHANGED <<bumpQ, ticker>>

\* The select is biased: dispatch_done is taken before rbf_bump.
on_rbf_bump ==
    /\ doneQ = <<>> /\ bumpQ # <<>>
    /\ LET e == Head(bumpQ)
       IN  IF e.initial
             THEN NoDispatch(mark_dispatched(rows, e.batch, e.tx), FALSE, gate)
             ELSE NoDispatch(record_rbf_bump(rows, e.batch, e.tx), backoff, gate)
    /\ bumpQ' = Tail(bumpQ)
    /\ UNCHANGED <<doneQ, ticker>>
-----------------------------------------------------------------------------
(* The finalization ticker.                                                *)

dispatched_snapshot ==
    {[batch |-> i, tx |-> rows[i].tx, l1 |-> rows[i].l1] :
        i \in {j \in Batch : Dispatched(rows, j)}}

\* l1_block <= finalized_block; the placeholder 0 always is.
Candidate(c) == c.l1 = NoTx \/ c.l1 \in final

\* Mutant: any receipt counts, whatever its status.
ReceiptOf_mut(c) == [batch |-> c.batch, tx |-> c.tx, ok |-> TRUE]

ReceiptOf(c) == [batch |-> c.batch, tx |-> c.tx, ok |-> c.tx \in okay]

try_start_finalization ==
    /\ process = "up"
    /\ ticker = IdleTicker /\ dispatched_snapshot # {}
    /\ ticker' = [phase |-> "spawned", todo |-> dispatched_snapshot, seen |-> {}]
    /\ UNCHANGED <<rows, process, gate, backoff, keyCheck, crashes, next, workers, doneQ, bumpQ,
                   faults, l1Vars>>

TickerStep(t, f) ==
    /\ ticker' = t
    /\ faults' = f
    /\ UNCHANGED <<rows, process, gate, backoff, keyCheck, crashes, next, workers, doneQ, bumpQ,
                   l1Vars>>

\* The finalized head is read once, then one receipt after the other.
check_finalized_batches_query_head ==
    /\ ticker.phase = "spawned"
    /\ LET candidates == {c \in ticker.todo : Candidate(c)}
       IN  TickerStep([ticker EXCEPT !.phase = IF candidates = {} THEN "done" ELSE "query",
                                     !.todo = candidates], faults)

check_finalized_batches_query_receipt ==
    /\ ticker.phase = "query"
    /\ \E c \in ticker.todo :
          LET rest == ticker.todo \ {c}
              seen == IF c.tx \in chain THEN {ReceiptOf(c)} ELSE {}
          IN  TickerStep([phase |-> IF rest = {} THEN "done" ELSE "query",
                          todo |-> rest, seen |-> ticker.seen \cup seen], faults)

\* The head is not available, a receipt call fails, or the task panics.
check_finalized_batches_query_fail ==
    /\ faults < MaxFault
    /\ \/ /\ ticker.phase \in {"spawned", "query"}
          /\ TickerStep([phase |-> "done", todo |-> {}, seen |-> {}], faults + 1)
       \/ /\ ticker.phase = "query"
          /\ \E c \in ticker.todo :
                LET rest == ticker.todo \ {c}
                IN  TickerStep([ticker EXCEPT !.phase = IF rest = {} THEN "done" ELSE "query",
                                              !.todo = rest], faults + 1)

\* Mutant: a reverted receipt is applied whatever the row holds by now.
Applied_mut(r, o) ==
    IF o.ok THEN finalize_dispatched(r, o.batch) ELSE undispatch(r, o.batch)

\* A receipt found finalizes the batch.  A reverted one takes the dispatch
\* back, unless the row has another hash by now.
Applied(r, o) ==
    CASE o.ok -> finalize_dispatched(r, o.batch)
      [] ~o.ok /\ r[o.batch].tx = o.tx -> undispatch(r, o.batch)
      [] OTHER -> r

\* One observation per batch, so their order does not matter.
apply_finalization_changes(r, seen) ==
    [i \in Batch |-> IF \E o \in seen : o.batch = i
                       THEN Applied(r, CHOOSE o \in seen : o.batch = i)[i]
                       ELSE r[i]]

on_finalization_done ==
    /\ ticker.phase = "done"
    /\ LET r == apply_finalization_changes(rows, ticker.seen)
           undone == \E i \in Batch : Dispatched(rows, i) /\ r[i].st = "signed"
       IN  IF r = rows
             THEN NoDispatch(rows, backoff, gate)
             ELSE \/ Handle(r, backoff, gate)
                  \/ undone /\ Handle(r, TRUE, gate)     \* a logic revert
    /\ ticker' = IdleTicker
    /\ UNCHANGED <<doneQ, bumpQ>>
-----------------------------------------------------------------------------
(* run_rbf_dispatch, in a task of its own.                                 *)

WorkerStep(s, w) ==
    /\ workers' = [workers EXCEPT ![s] = w]
    /\ UNCHANGED <<loopVars, chain, okay, final, reorgs>>

\* The task ends and reports; the DoneGuard reports for one that panicked.
Finish(s, kind, t) ==
    /\ WorkerStep(s, Free)
    /\ doneQ' = Append(doneQ, [batch |-> workers[s].batch, tx |-> t, kind |-> kind])

NoFault == UNCHANGED faults
Fault == faults < MaxFault /\ faults' = faults + 1

\* NonceAllocator::release, a tail compare-and-swap; only for fresh nonces.
release(w) == next' = IF ~w.resume /\ next = w.nonce + 1 THEN w.nonce ELSE next

\* What the RPC may report as the pending nonce: stale, at worst the count
\* of mined transactions.
PendingNonce == Min({n \in 1..(MaxNonce + 1) :
                        ~Consumed(n) /\ \A t \in pool : t.nonce # n})
RpcPending == {n \in 1..PendingNonce : ~Consumed(n)}

\* Pre-flight: a batch that is not Submitted on L1 is not broadcast.
preflight_submitted(s) ==
    /\ workers[s].phase = "preflight"
    /\ ~IsPreconfirmed(workers[s].batch)
    /\ WorkerStep(s, [workers[s] EXCEPT !.phase = "ready"])
    /\ NoFault /\ UNCHANGED <<pool, next, doneQ, bumpQ>>

\* Mutant: the event of a preconfirmed batch is never looked up.
preflight_preconfirmed_mut(s) ==
    /\ workers[s].phase = "preflight" /\ IsPreconfirmed(workers[s].batch)
    /\ Finish(s, "failed", NoTx)
    /\ NoFault /\ UNCHANGED <<pool, next, bumpQ>>

preflight_preconfirmed(s) ==
    /\ workers[s].phase = "preflight"
    /\ \E t \in Preconfirming(workers[s].batch) :
          IF t \in final THEN Finish(s, "already", t) ELSE Finish(s, "failed", NoTx)
    /\ NoFault /\ UNCHANGED <<pool, next, bumpQ>>

\* An RPC error, or a status that is neither Submitted nor Preconfirmed.
preflight_fails(s) ==
    /\ workers[s].phase = "preflight"
    /\ Finish(s, "failed", NoTx)
    /\ Fault /\ UNCHANGED <<pool, next, bumpQ>>

\* A panic gives no nonce back.
task_panics(s) ==
    /\ CanPanic /\ workers[s] # Free
    /\ Finish(s, "failed", NoTx)
    /\ Fault /\ UNCHANGED <<pool, next, bumpQ>>

allocate(s) ==
    /\ workers[s].phase = "ready" /\ ~workers[s].resume
    /\ next <= MaxNonce
    /\ next' = next + 1
    /\ WorkerStep(s, [workers[s] EXCEPT !.phase = "allocated", !.nonce = next, !.fee = 1])
    /\ NoFault /\ UNCHANGED <<pool, doneQ, bumpQ>>

\* A fresh worker has its nonce from the allocator, a resumed one brings it.
HasNonce(w) == w.phase = "allocated" \/ (w.phase = "ready" /\ w.resume)

\* A resumed worker goes on with the stored transaction.
build_preconfirm_tx(s) ==
    /\ HasNonce(workers[s])
    /\ ~IsPreconfirmed(workers[s].batch)
    /\ WorkerStep(s, [workers[s] EXCEPT !.phase = IF @ = "ready" THEN "loop" ELSE "built"])
    /\ NoFault /\ UNCHANGED <<pool, next, doneQ, bumpQ>>

\* estimate_gas reverts once the batch is preconfirmed.
build_preconfirm_tx_fails(s) ==
    /\ HasNonce(workers[s])
    /\ Finish(s, "failed", NoTx)
    /\ release(workers[s])
    /\ IF IsPreconfirmed(workers[s].batch) THEN NoFault ELSE Fault
    /\ UNCHANGED <<pool, bumpQ>>

TxOf(w, fee) == [batch |-> w.batch, nonce |-> w.nonce, fee |-> fee]

\* The node takes a transaction for a free nonce, or a better paid one.
Accepts(t) == ~Consumed(t.nonce) /\ \A u \in pool : u.nonce = t.nonce => u.fee < t.fee

Broadcast(s, t, initial) ==
    /\ Accepts(t)
    /\ pool' = pool \cup {t}
    /\ WorkerStep(s, [workers[s] EXCEPT !.phase = "loop", !.tx = t, !.fee = t.fee])
    /\ bumpQ' = Append(bumpQ, [batch |-> t.batch, tx |-> t, initial |-> initial])
    /\ NoFault /\ UNCHANGED <<next, doneQ>>

\* The call fails; the transaction may have got through all the same.
BroadcastLost(t) ==
    IF Accepts(t) THEN Fault /\ pool' \in {pool, pool \cup {t}} ELSE NoFault /\ UNCHANGED pool

broadcast_initial(s) ==
    /\ workers[s].phase = "built"
    /\ Broadcast(s, TxOf(workers[s], 1), TRUE)

broadcast_initial_fails(s) ==
    /\ workers[s].phase = "built" /\ ~Consumed(workers[s].nonce)
    /\ BroadcastLost(TxOf(workers[s], 1))
    /\ Finish(s, "failed", NoTx)
    /\ release(workers[s])
    /\ UNCHANGED bumpQ

\* Nonce too low: resync to what the RPC reports, if that is ahead.
broadcast_initial_too_low(s) ==
    /\ workers[s].phase = "built" /\ Consumed(workers[s].nonce)
    /\ Finish(s, "failed", NoTx)
    /\ \E n \in RpcPending : next' = Max({n, next})
    /\ NoFault /\ UNCHANGED <<pool, bumpQ>>

\* The latest hash has a receipt.
Landed(s) ==
    /\ workers[s].tx \in chain
    /\ IF workers[s].tx \in okay
         THEN Finish(s, "submitted", workers[s].tx)
         ELSE \E kind \in {"oog", "logic"} : Finish(s, kind, workers[s].tx)
    /\ NoFault /\ UNCHANGED <<pool, next, bumpQ>>

\* The worker sleeps bump_interval before it polls.
Awake(s) ==
    /\ workers[s].phase = "loop"
    /\ PromptLoop => Recorded(workers[s].batch)

poll_receipt(s) == Awake(s) /\ Landed(s)

poll_none(s) ==
    /\ Awake(s) /\ workers[s].tx \notin chain
    /\ WorkerStep(s, [workers[s] EXCEPT !.phase = "bumping"])
    /\ NoFault /\ UNCHANGED <<pool, next, doneQ, bumpQ>>

stuck_at_cap(s) ==
    /\ workers[s].phase = "bumping" /\ workers[s].fee = MaxFee
    /\ Finish(s, "failed", NoTx)
    /\ Fault /\ UNCHANGED <<pool, next, bumpQ>>

\* Mutant: the bumped fee is not clamped.
bump_fees_mut(fee) == fee + 1

bump_fees(fee) == Min({fee + 1, MaxFee})

bump(s) ==
    /\ workers[s].phase = "bumping"
    /\ Broadcast(s, TxOf(workers[s], bump_fees(workers[s].fee)), FALSE)

\* The worker keeps the old hash and the new fee.
bump_fails(s) ==
    /\ workers[s].phase = "bumping" /\ ~Consumed(workers[s].nonce)
    /\ LET fee == bump_fees(workers[s].fee)
       IN  /\ BroadcastLost(TxOf(workers[s], fee))
           /\ WorkerStep(s, [workers[s] EXCEPT !.phase = "loop", !.fee = fee])
    /\ UNCHANGED <<next, doneQ, bumpQ>>

\* Nonce too low: some version landed; only the latest is asked for.
bump_too_low(s) ==
    /\ workers[s].phase = "bumping" /\ Consumed(workers[s].nonce)
    /\ \/ Landed(s)
       \/ /\ IF workers[s].tx \in chain THEN Fault ELSE NoFault
          /\ Finish(s, "failed", NoTx)
          /\ UNCHANGED <<pool, next, bumpQ>>
-----------------------------------------------------------------------------
(* Crash and restart.                                                      *)

Crash ==
    /\ process = "up" /\ crashes < MaxCrash
    /\ process' = "down"
    /\ crashes' = crashes + 1
    /\ gate' = 0 /\ backoff' = FALSE /\ keyCheck' = FALSE /\ next' = 0
    /\ workers' = [s \in Slot |-> Free]
    /\ doneQ' = <<>> /\ bumpQ' = <<>>
    /\ ticker' = IdleTicker
    /\ UNCHANGED <<rows, faults, l1Vars>>

\* Mutant: the highest stored nonce itself.
StoredFloor_mut(r) == Max({r[i].nonce : i \in {j \in Batch : Own(r, j)}} \cup {0})

\* NonceAllocator::bootstrap: past every stored nonce.
StoredFloor(r) == Max({r[i].nonce + 1 : i \in {j \in Batch : Own(r, j)}} \cup {0})

\* The dispatched rows are checked once, then the nonces are seeded, then
\* every own row gets a worker; rows without a nonce do not.
restart ==
    /\ process = "down"
    /\ LET cands == {c \in dispatched_snapshot : Candidate(c) /\ c.tx \in chain}
       IN  \E cs \in SUBSET cands :
              /\ rows' = apply_finalization_changes(rows, {ReceiptOf(c) : c \in cs})
              /\ IF cs = cands THEN NoFault ELSE Fault      \* receipt calls fail
    /\ \E n \in RpcPending : next' = Max({n, StoredFloor(rows')})
    /\ workers' = [s \in Slot |-> IF s \in Batch /\ Own(rows', s) THEN Resume(rows', s) ELSE Free]
    /\ process' = "up"
    /\ UNCHANGED <<gate, backoff, keyCheck, ticker, crashes, doneQ, bumpQ, l1Vars>>
-----------------------------------------------------------------------------
Init == /\ pool = {} /\ chain = {} /\ okay = {} /\ final = {}
        /\ rows = [i \in Batch |-> NewRow]
        /\ process = "up" /\ gate = 0 /\ backoff = FALSE /\ keyCheck = FALSE
        /\ next = 1
        /\ workers = [s \in Slot |-> Free]
        /\ doneQ = <<>> /\ bumpQ = <<>> /\ ticker = IdleTicker
        /\ faults = 0 /\ crashes = 0 /\ reorgs = 0

WorkerNext(s) ==
    \/ preflight_submitted(s) \/ preflight_preconfirmed(s)
    \/ allocate(s) \/ build_preconfirm_tx(s) \/ build_preconfirm_tx_fails(s)
    \/ broadcast_initial(s) \/ broadcast_initial_fails(s) \/ broadcast_initial_too_low(s)
    \/ poll_receipt(s) \/ poll_none(s)
    \/ bump(s) \/ bump_fails(s) \/ bump_too_low(s)

TickerNext ==
    \/ try_start_finalization
    \/ check_finalized_batches_query_head
    \/ check_finalized_batches_query_receipt
    \/ on_finalization_done

Next ==
    \/ \E t \in pool : Mine(t)
    \/ \E t \in chain : L1Finalize(t)
    \/ \E t \in chain : Reorg(t)
    \/ \E i \in Batch : ForeignPreconfirm(i)
    \/ \E i \in Batch : on_sign_done(i)
    \/ \E i \in Batch : on_sign_done_invalid(i)
    \/ key_check_registered
    \/ \E t \in okay : on_l1_event_preconfirmed(t)
    \/ on_block_result \/ on_dispatch_done \/ on_rbf_bump
    \/ TickerNext \/ check_finalized_batches_query_fail
    \/ \E s \in Slot : WorkerNext(s)
    \/ \E s \in Slot : preflight_fails(s)
    \/ \E s \in Slot : task_panics(s)
    \/ \E s \in Slot : stuck_at_cap(s)
    \/ BackoffExpires \/ Crash \/ restart

Spec == Init /\ [][Next]_vars

\* Fairness.  Tasks run, the loop serves its channels, timers fire, a crashed
\* process is restarted, L2 keeps producing blocks, and L1 mines and
\* finalizes what it can.
Fairness ==
    /\ WF_vars(\E t \in pool : Mine(t)) /\ WF_vars(\E t \in chain : L1Finalize(t))
    /\ WF_vars(\E i \in Batch : on_sign_done(i)) /\ WF_vars(key_check_registered)
    /\ WF_vars(on_block_result) /\ WF_vars(on_dispatch_done) /\ WF_vars(on_rbf_bump)
    /\ WF_vars(TickerNext) /\ WF_vars(BackoffExpires) /\ WF_vars(restart)
    /\ \A s \in Slot : WF_vars(WorkerNext(s))

FairSpec == Spec /\ Fairness
-----------------------------------------------------------------------------
(* Properties.                                                             *)

Live(i) == {s \in Slot : workers[s].batch = i}
Reported(i) == \E k \in DOMAIN doneQ : doneQ[k].batch = i

\* No two live workers hold the same nonce, however fresh dispatches,
\* resumed workers, releases, resyncs and restarts with a stale pending
\* count interleave (NonceAllocator; the seeding before the resume loop).
NoncesDistinct ==
    \A s, u \in Slot : s # u /\ workers[s].nonce # 0 => workers[s].nonce # workers[u].nonce

\* dispatching_batch is never left set behind a worker that is gone: a live
\* worker or a report in the channel will clear it.
GateIsOwned == gate # 0 => Live(gate) # {} \/ Reported(gate)

\* A batch is cleaned up only if some preconfirmation of it succeeded.
DoneMeansPreconfirmed == \A i \in Batch : rows[i].st = "done" => IsPreconfirmed(i)

\* The ticker takes back a dispatch only if the transaction in the row now
\* reverted, not one the row held when the snapshot was taken.
TickerUndoStep ==
    ticker # ticker' =>
        \A i \in Batch : Own(rows, i) /\ rows'[i].st = "signed" => rows[i].tx \in chain \ okay
TickerUndoesReverted == [][TickerUndoStep]_vars

\* Every batch is finalized in the end: reverts, fees at the cap, RPC
\* failures, a key rotation and a preconfirmation by another submitter
\* only delay it.  After a restart it fails: AlreadyPreconfirmed, "the main
\* loop seeds `dispatched_batches` with the discovered on-chain coordinates",
\* is dropped for a batch that still has its own row.
EveryBatchFinalized == \A i \in Batch : <>(rows[i].st = "done")

\* ReceiptCheck::Found, "batch is finalized": a batch is cleaned up only
\* after the L1 block of its preconfirmation is final.
DoneMeansFinal ==
    \A i \in Batch : rows[i].st = "done" => Preconfirming(i) \cap final # {}

\* dispatch_cancel, "does not double-submit against a stale batch": never
\* two workers for one batch.
OneWorkerPerBatch == \A i \in Batch : Cardinality(Live(i)) <= 1
=============================================================================
