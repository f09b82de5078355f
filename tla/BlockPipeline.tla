--------------------------- MODULE BlockPipeline ---------------------------
(***************************************************************************)
(* From a witness to a signed batch: the feeder, the two execution queues, *)
(* the worker pool, the results and the checkpoint of orchestrator.rs, on  *)
(* top of the driver that feeds them (Driver).  A key rotation of the      *)
(* enclave turns stored responses stale; signing finds them, purges them   *)
(* and re-executes.  The checkpoint is normalised on every boot.           *)
(*                                                                         *)
(* A response is the epoch of the key that signed it.  The life of a batch *)
(* on L1 is Accumulator's subject: here it is only registered, dispatched  *)
(* and finalized.                                                          *)
(***************************************************************************)
EXTENDS Driver

CONSTANTS Batch,       \* batch indexes
          BlocksOf,    \* the blocks of each batch
          Workers,     \* EXECUTION_WORKERS
          InitCkpt,    \* checkpoints a fresh database is resolved to
          MaxKey,      \* bound: enclave keys
          MaxFaults    \* bound: exits of the process and tasks that fail

ASSUME PipelineAssumption ==
    /\ Batch \subseteq Nat /\ BlocksOf \in [Batch -> (SUBSET Block) \ {{}}]
    /\ Workers \in Nat \ {0}
    /\ \A i, j \in Batch : i < j => \A a \in BlocksOf[i], b \in BlocksOf[j] : a < b
    /\ InitCkpt \subseteq 0..MaxBlock
    /\ \A c \in InitCkpt, b \in Block : \* above the checkpoint without gaps
          c < b /\ (\E i \in Batch : \E a \in BlocksOf[i] : b <= a) =>
              \E j \in Batch : b \in BlocksOf[j]
    /\ MaxKey \in Nat \ {0} /\ MaxFaults \in Nat

VARIABLES
    resp,    \* block_responses: the epoch of each block's row, 0 for no row
    st,      \* status of each batch
    lbe,     \* last_batch_end in SQLite
    mem,     \* the main loop's memory
    normalQ, highQ, results,  \* the channels
    busy,    \* the block each worker has in hand, 0 for none
    reexec,  \* re-execution tasks looking for a witness
    key,     \* current key of the enclave
    lost,    \* history: tasks this process gave up on
    unmarked,\* history: final batches that last_batch_end in SQLite leaves out
    faults

pipeVars == <<resp, st, lbe, mem, normalQ, highQ, results, busy, reexec, key,
              lost, unmarked, faults>>
vars == <<driverVars, pipeVars>>

Status == {"none", "pending", "signed", "dispatched", "final"}
HighCap == Workers
NormalCap == 2 * Workers
ResultCap == 2 * Workers
From(i) == Min(BlocksOf[i])
To(i) == Max(BlocksOf[i])

Worker == 1..Workers
Idle == [w \in Worker |-> 0]
NoSigning == [batch |-> 0, rows |-> <<>>]
Fresh == [known |-> {}, confirmed |-> {}, lbe |-> lbe,
          signing |-> NoSigning, keyCheck |-> FALSE]
Up == drv.boot = "up"
-----------------------------------------------------------------------------
(* Boot and exit.                                                          *)

\* normalize_startup_checkpoint: the walk over the pending batches stops at
\* the first block without a response, in the first batch that has one.
Pending == {i \in Batch : st[i] \in {"pending", "signed"}}
Missing(i) == {b \in BlocksOf[i] : resp[b] = 0}
Gapped == {i \in Pending : st[i] = "pending" /\ Missing(i) # {}}
StaleSignatures == {i \in Pending : st[i] = "signed" /\ \E g \in Gapped : g < i}
NormalCheckpoint ==
    IF Gapped # {} THEN Min(Missing(Min(Gapped))) - 1
    ELSE IF Pending # {} THEN To(Max(Pending)) ELSE ckpt

Unsign(S) == [i \in Batch |-> IF i \in S THEN "pending" ELSE st[i]]

normalize_startup ==
    /\ drv.boot = "down"
    /\ st' = Unsign(StaleSignatures)
    /\ ckpt' = NormalCheckpoint
    /\ mem' = Fresh
    /\ drv' = [drv EXCEPT !.boot = "normalized"]
    /\ UNCHANGED <<remote, mdbx, static, cold, total, coldTorn>>
    /\ UNCHANGED <<resp, lbe, unmarked, normalQ, highQ, results, busy, reexec, key, lost,
                   faults>>

\* Killed between two deletions, or before the checkpoint is saved.
normalize_startup_torn ==
    /\ drv.boot = "down" /\ faults < MaxFaults
    /\ \E k \in StaleSignatures :
         st' = Unsign({i \in StaleSignatures : i <= k})
    /\ faults' = faults + 1
    /\ UNCHANGED driverVars
    /\ UNCHANGED <<resp, lbe, unmarked, mem, normalQ, highQ, results, busy, reexec, key,
                   lost>>

\* What the process held in memory is gone.
MemoryLost ==
    /\ mem' = [Fresh EXCEPT !.lbe = 0]
    /\ normalQ' = <<>> /\ highQ' = <<>> /\ results' = <<>>
    /\ busy' = Idle /\ reexec' = {} /\ lost' = {}

Crash ==
    /\ faults < MaxFaults /\ faults' = faults + 1
    /\ Killed /\ MemoryLost
    /\ UNCHANGED <<cold, total, resp, st, lbe, unmarked, key>>

\* Shutdown: the workers are drained into a closed channel, the feeder ends
\* and the hub's buffer is written.
GracefulExit ==
    /\ Up /\ drv.take = "idle"
    /\ flush_pending
    /\ drv' = Down /\ MemoryLost
    /\ UNCHANGED <<remote, mdbx, static, coldTorn, ckpt, resp, st, lbe, unmarked, key>>

Shutdown ==
    /\ faults < MaxFaults /\ faults' = faults + 1
    /\ GracefulExit

driver_fatal ==
    /\ SaveRefused /\ GracefulExit
    /\ UNCHANGED faults
-----------------------------------------------------------------------------
(* Feeder and workers.                                                     *)

feeder_loop ==
    /\ Up /\ drv.out # 0
    /\ IF drv.out \in mem.known THEN UNCHANGED normalQ
       ELSE /\ Len(normalQ) < NormalCap
            /\ normalQ' = Append(normalQ, drv.out)
    /\ drv' = [drv EXCEPT !.out = 0]
    /\ UNCHANGED <<remote, mdbx, static, cold, total, coldTorn, ckpt>>
    /\ UNCHANGED <<resp, st, lbe, unmarked, mem, highQ, results, busy, reexec, key, lost,
                   faults>>

\* biased: re-execution first.
worker_take(w) ==
    /\ Up /\ busy[w] = 0
    /\ \/ /\ highQ # <<>>
          /\ busy' = [busy EXCEPT ![w] = Head(highQ)]
          /\ highQ' = Tail(highQ) /\ UNCHANGED normalQ
       \/ /\ highQ = <<>> /\ normalQ # <<>>
          /\ busy' = [busy EXCEPT ![w] = Head(normalQ)]
          /\ normalQ' = Tail(normalQ) /\ UNCHANGED highQ
    /\ UNCHANGED driverVars
    /\ UNCHANGED <<resp, st, lbe, unmarked, mem, results, reexec, key, lost, faults>>

\* The proxy's answer, after any number of retries, carries the key of now.
worker_done(w) ==
    /\ Up /\ busy[w] # 0 /\ Len(results) < ResultCap
    /\ busy' = [busy EXCEPT ![w] = 0]
    /\ results' = Append(results, [block |-> busy[w], key |-> key])
    /\ UNCHANGED driverVars
    /\ UNCHANGED <<resp, st, lbe, unmarked, mem, normalQ, highQ, reexec, key, lost, faults>>

\* zstd compression failed.
worker_drop(w) ==
    /\ Up /\ busy[w] # 0 /\ faults < MaxFaults
    /\ busy' = [busy EXCEPT ![w] = 0]
    /\ lost' = lost \cup {busy[w]} /\ faults' = faults + 1
    /\ UNCHANGED driverVars
    /\ UNCHANGED <<resp, st, lbe, unmarked, mem, normalQ, highQ, results, reexec, key>>

spawn_re_execution(b) ==
    /\ Up /\ b \in reexec
    /\ reexec' = reexec \ {b}
    /\ \/ /\ CanServe(b) /\ Len(highQ) < HighCap
          /\ highQ' = Append(highQ, b)
          /\ UNCHANGED <<lost, faults>>
       \/ /\ ~CanServe(b)
          /\ lost' = lost \cup {b} /\ UNCHANGED <<highQ, faults>>
       \/ /\ ~get_witness(b) /\ b <= mdbx /\ faults < MaxFaults
          /\ lost' = lost \cup {b} /\ faults' = faults + 1 /\ UNCHANGED highQ
    /\ UNCHANGED driverVars
    /\ UNCHANGED <<resp, st, lbe, unmarked, mem, normalQ, results, busy, key>>
-----------------------------------------------------------------------------
(* The main loop.                                                          *)

\* try_sign_next_batch: the first batch with every response and no signature.
Ready(s, rows) == {i \in Batch : s[i] = "pending" /\ \A b \in BlocksOf[i] : rows[b] # 0}
try_sign(m, s, rows) ==
    IF m.signing # NoSigning \/ Ready(s, rows) = {} THEN m
    ELSE LET i == Min(Ready(s, rows))
         IN [m EXCEPT !.signing =
                [batch |-> i, rows |-> [b \in BlocksOf[i] |-> rows[b]]]]

\* The contiguous prefix of confirmed blocks moves into the checkpoint.
Advance(c, confirmed) == Max({e \in c..MaxBlock : c + 1..e \subseteq confirmed})

Dropped_mut(b) == b \in mem.known
Dropped(b) == b \in mem.known \/ b <= mem.lbe

on_block_result ==
    /\ Up /\ results # <<>>
    /\ results' = Tail(results)
    /\ LET r == Head(results)
           confirmed == mem.confirmed \cup {r.block}
           c == Advance(ckpt, confirmed)
           rows == [resp EXCEPT ![r.block] = r.key]
       IN IF Dropped(r.block) THEN UNCHANGED <<resp, mem, ckpt>>
          ELSE /\ resp' = rows
               /\ ckpt' = c
               /\ mem' = try_sign([mem EXCEPT !.known = @ \cup {r.block},
                                              !.confirmed = confirmed \ (ckpt + 1..c)],
                                  st, rows)
    /\ UNCHANGED <<remote, mdbx, static, cold, total, coldTorn, drv>>
    /\ UNCHANGED <<st, lbe, unmarked, normalQ, highQ, busy, reexec, key, lost, faults>>

\* Killed after the response row, before the checkpoint.
on_block_result_torn ==
    /\ Up /\ results # <<>> /\ faults < MaxFaults
    /\ ~Dropped(Head(results).block)
    /\ resp' = [resp EXCEPT ![Head(results).block] = Head(results).key]
    /\ faults' = faults + 1
    /\ Killed /\ MemoryLost
    /\ UNCHANGED <<cold, total, st, lbe, unmarked, key>>

\* BatchCommitted and BatchSubmitted: the batch may be signed from now on,
\* but neither handler looks for one to sign.
on_l1_register(i) ==
    /\ Up /\ st[i] = "none" /\ To(i) <= remote
    /\ \A j \in Batch : j < i => st[j] # "none"
    /\ st' = [st EXCEPT ![i] = "pending"]
    /\ UNCHANGED <<resp, lbe, unmarked, mem, reexec, key, lost, faults>>

\* BatchPreconfirmed, of this process's own dispatch or of somebody else's,
\* which may come before the batch is signed here.
on_l1_preconfirmed(i) ==
    /\ Up /\ i \in Pending
    /\ st' = [st EXCEPT ![i] = "dispatched"]
    /\ UNCHANGED <<resp, lbe, unmarked, mem, reexec, key, lost, faults>>

Purge(S) == [b \in Block |-> IF b \in S THEN 0 ELSE resp[b]]

\* A signature returned for a batch that has left the pending ones meanwhile
\* is cached, and there is nothing to purge.
on_sign_done_signed ==
    /\ Up /\ mem.signing # NoSigning
    /\ \A b \in DOMAIN mem.signing.rows : mem.signing.rows[b] = key
    /\ LET i == mem.signing.batch
           s == IF st[i] = "pending" THEN [st EXCEPT ![i] = "signed"] ELSE st
           rows == IF st[i] = "pending" THEN Purge(BlocksOf[i]) ELSE resp
       IN /\ st' = s /\ resp' = rows
          /\ mem' = try_sign([mem EXCEPT !.signing = NoSigning], s, rows)
    /\ UNCHANGED <<lbe, unmarked, reexec, key, lost, faults>>

on_sign_done_invalid_mut ==
    /\ Up /\ mem.signing # NoSigning
    /\ LET bad == {b \in DOMAIN mem.signing.rows : mem.signing.rows[b] # key}
       IN /\ bad # {}
          /\ resp' = Purge(bad)
          /\ mem' = [mem EXCEPT !.signing = NoSigning, !.keyCheck = TRUE]
          /\ reexec' = reexec \cup bad
    /\ UNCHANGED <<st, lbe, unmarked, key, lost, faults>>
on_sign_done_invalid ==
    /\ Up /\ mem.signing # NoSigning
    /\ LET bad == {b \in DOMAIN mem.signing.rows : mem.signing.rows[b] # key}
       IN /\ bad # {}
          /\ resp' = Purge(bad)
          /\ mem' = [mem EXCEPT !.signing = NoSigning, !.known = @ \ bad,
                                !.keyCheck = TRUE]
          /\ reexec' = reexec \cup bad
    /\ UNCHANGED <<st, lbe, unmarked, key, lost, faults>>

on_sign_done_failed ==
    /\ Up /\ mem.signing # NoSigning /\ faults < MaxFaults
    /\ mem' = [mem EXCEPT !.signing = NoSigning]
    /\ faults' = faults + 1
    /\ UNCHANGED <<resp, st, lbe, unmarked, reexec, key, lost>>

on_key_registered ==
    /\ Up /\ mem.keyCheck
    /\ mem' = try_sign([mem EXCEPT !.keyCheck = FALSE], st, resp)
    /\ UNCHANGED <<resp, st, lbe, unmarked, reexec, key, lost, faults>>

\* ReceiptCheck::Found: the rows go first, then the mark, which SQLite
\* overwrites and the main loop only raises.
on_finalized(i) ==
    /\ Up /\ st[i] = "dispatched"
    /\ LET s == [st EXCEPT ![i] = "final"]
       IN /\ st' = s
          /\ resp' = Purge(BlocksOf[i])
          /\ lbe' = To(i)
          /\ unmarked' = (unmarked \ {i}) \cup {j \in Batch : st[j] = "final" /\ j > i}
          /\ mem' = try_sign([mem EXCEPT !.known = @ \ BlocksOf[i],
                                         !.lbe = Max({@, To(i)})], s, Purge(BlocksOf[i]))
    /\ UNCHANGED <<reexec, key, lost, faults>>

on_finalized_torn(i) ==
    /\ Up /\ st[i] = "dispatched" /\ faults < MaxFaults
    /\ st' = [st EXCEPT ![i] = "final"]
    /\ resp' = Purge(BlocksOf[i])
    /\ unmarked' = unmarked \cup {i}
    /\ faults' = faults + 1
    /\ Killed /\ MemoryLost
    /\ UNCHANGED <<cold, total, lbe, key>>

\* The enclave restarts with a new key.
RotateKey ==
    /\ key < MaxKey /\ key' = key + 1
    /\ UNCHANGED <<resp, st, lbe, unmarked, mem, reexec, lost, faults>>
-----------------------------------------------------------------------------
Init ==
    /\ DriverInit
    /\ ckpt \in InitCkpt /\ lbe = ckpt
    /\ resp = [b \in Block |-> 0]
    /\ st = [i \in Batch |-> IF To(i) <= ckpt THEN "final" ELSE "none"]
    /\ mem = [Fresh EXCEPT !.lbe = 0]
    /\ normalQ = <<>> /\ highQ = <<>> /\ results = <<>>
    /\ busy = Idle /\ reexec = {} /\ key = 1 /\ lost = {} /\ unmarked = {}
    /\ faults = 0

\* What a handler of the main loop other than on_block_result may change.
Handler ==
    \/ \E i \in Batch : on_l1_register(i) \/ on_l1_preconfirmed(i) \/ on_finalized(i)
    \/ on_sign_done_signed \/ on_sign_done_invalid \/ on_sign_done_failed
    \/ on_key_registered \/ RotateKey
HandlerStep ==
    /\ Handler
    /\ UNCHANGED driverVars
    /\ UNCHANGED <<normalQ, highQ, results, busy>>

Next ==
    \/ DriverNext /\ UNCHANGED pipeVars
    \/ unwind_to_torn /\ faults < MaxFaults /\ faults' = faults + 1
       /\ UNCHANGED <<resp, st, lbe, unmarked, mem, normalQ, highQ, results, busy, reexec,
                      key, lost>>
    \/ normalize_startup \/ normalize_startup_torn
    \/ Crash \/ Shutdown \/ driver_fatal
    \/ feeder_loop
    \/ \E w \in Worker : worker_take(w) \/ worker_done(w) \/ worker_drop(w)
    \/ \E b \in Block : spawn_re_execution(b)
    \/ on_block_result \/ on_block_result_torn
    \/ HandlerStep
    \/ \E i \in Batch : on_finalized_torn(i)

Spec == Init /\ [][Next]_vars

\* The boot sequence, the driver, the feeder, the workers, the re-execution
\* tasks and the loop's receive of results keep running; nothing is assumed of
\* L1, of signing, of the operator or of the faults.
Fairness ==
    /\ WF_vars(DriverNext /\ UNCHANGED pipeVars)
    /\ WF_vars(normalize_startup) /\ WF_vars(driver_fatal)
    /\ WF_vars(feeder_loop) /\ WF_vars(\E w \in Worker : worker_take(w))
    /\ WF_vars(\E w \in Worker : worker_done(w))
    /\ WF_vars(\E b \in Block : spawn_re_execution(b))
    /\ WF_vars(on_block_result)

FairSpec == Spec /\ Fairness
-----------------------------------------------------------------------------
\* Positions, rows and queues stay in range: no queue exceeds its channel's
\* capacity and no more tasks run than there are workers.
TypeOK ==
    /\ remote \in 0..MaxBlock /\ mdbx \in 0..MaxBlock /\ ckpt \in 0..MaxBlock
    /\ static \in [Segment -> 0..MaxBlock] /\ cold \subseteq Block /\ total \in Nat
    /\ drv \in Memory
    /\ resp \in [Block -> 0..MaxKey] /\ st \in [Batch -> Status] /\ lbe \in 0..MaxBlock
    /\ mem.known \subseteq Block /\ mem.confirmed \subseteq Block
    /\ Len(normalQ) <= NormalCap /\ Len(highQ) <= HighCap /\ Len(results) <= ResultCap
    /\ busy \in [Worker -> 0..MaxBlock]

\* Once a boot has healed them (heal_static_files_if_needed), the static files
\* are never ahead of MDBX outside an open transaction, so that the next
\* save_blocks is accepted -- except in the two cases the code leaves alone: an
\* MDBX still at genesis, and a tail without a transaction to cut.
StaticFollowsMdbx ==
    drv.boot \in {"healed", "unwound", "up"} /\ drv.take # "saving" =>
        \A g \in Segment :
            \/ static[g] = mdbx
            \/ mdbx = 0
            \/ g # "Headers" /\ static[g] > mdbx /\ LastTx(static[g]) = LastTx(mdbx)

\* total_bytes is the size of what the cold store holds, through replacement,
\* retention and unwinding (commit_batch_blocking, unwind_above).
BytesMatch == total = Cardinality(cold)

\* The cold store never holds a witness above the MDBX tip, as Driver::new
\* says, unless a boot died between the two halves of an unwind.
ColdBehindTip ==
    ~coldTorn /\ drv.boot # "unwound" => \A b \in cold : b <= mdbx

\* A block still to be answered: no response and no batch signature has it.
Unanswered(b) ==
    /\ resp[b] = 0
    /\ \A i \in Batch : b \in BlocksOf[i] => st[i] \in {"none", "pending"}
InFlight(b) ==
    \/ b = drv.out \/ b \in Range(normalQ) \/ b \in Range(highQ)
    \/ (\E w \in Worker : b = busy[w]) \/ b \in {results[k].block : k \in DOMAIN results}
    \/ b \in reexec

\* No block falls between the driver's cursor, the queues, the responses and
\* the checkpoint, through crashes, rotations and re-feeding: a block that needs
\* an answer is ahead of the cursor, on its way, or was given up with an error.
\* A block at or below last_batch_end needs none: its result would be dropped.
NoBlockLost ==
    Up => \A b \in Block : Unanswered(b) /\ b > mem.lbe =>
              b >= drv.next \/ InFlight(b) \/ b \in lost

\* No response row of a finalized batch is left or comes back, since no path
\* would clean it up (the reason on_block_result drops old results) -- unless
\* SQLite's last_batch_end leaves the batch out: the process died before writing
\* it, or a lower batch finalized later overwrote it.
NoRowLeaks ==
    \A i \in Batch \ unmarked : st[i] = "final" => \A b \in BlocksOf[i] : resp[b] = 0

\* Every block the L2 node has buried deep enough is answered in the end,
\* unless its task was given up or the static files stay ahead of MDBX.
BlocksAnswered ==
    \A b \in Block :
        b <= Reachable ~> \/ ~Unanswered(b) \/ b <= lbe \/ b \in lost
                          \/ SaveRefused /\ \E g \in Segment : static[g] > mdbx
=============================================================================
