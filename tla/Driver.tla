------------------------------- MODULE Driver -------------------------------
(***************************************************************************)
(* The embedded forward driver (driver/forward.rs) and the cold witness    *)
(* store (hub.rs): MDBX and its static files, the redb table with its      *)
(* write buffer, the boot sequence of main.rs that heals, unwinds and      *)
(* constructs the driver, catch-up and the pull of the next witness.       *)
(*                                                                         *)
(* A block is its number and so is its witness: every rebuild of a witness *)
(* gives the same bytes.  reth and redb are external: a static file of one *)
(* segment and MDBX are the number of their highest block, and one commit  *)
(* of each is atomic.                                                      *)
(***************************************************************************)
EXTENDS Naturals, Sequences, FiniteSets, FiniteSetsExt

CONSTANTS MaxBlock,      \* bound: L2 blocks
          SafeBlocks,    \* l2_safe_blocks
          CatchupBatch,  \* CATCHUP_BATCH_SIZE
          ColdBatch,     \* DEFAULT_COLD_BATCH_SIZE
          Retention,     \* witness_retention_blocks; 0 keeps everything
          UnwindEnv,     \* values of UNWIND_TO_BLOCK; 0 when unset
          TxCount,       \* transactions of the chain up to each block
          InitRemote     \* tips of the L2 node at the first boot

ASSUME DriverAssumption ==
    /\ MaxBlock \in Nat \ {0} /\ SafeBlocks \in Nat /\ Retention \in Nat
    /\ CatchupBatch \in Nat \ {0} /\ ColdBatch \in Nat \ {0}
    /\ UnwindEnv \subseteq 0..MaxBlock
    /\ InitRemote \subseteq 0..MaxBlock
    /\ TxCount \in [0..MaxBlock -> Nat]
    /\ \A a, b \in 0..MaxBlock : a <= b => TxCount[a] <= TxCount[b]

VARIABLES
    remote,  \* tip of the L2 node
    mdbx,    \* best_block_number
    static,  \* highest block of each static-file segment
    cold,    \* blocks with a row in the redb table
    total,   \* total_bytes of the redb meta table, a witness being one byte
    coldTorn,\* history: a boot died after unwinding MDBX, before the cold rows
    ckpt,    \* the orchestrator's checkpoint in SQLite
    drv      \* memory of the process, as far as the driver is concerned

driverVars == <<remote, mdbx, static, cold, total, coldTorn, ckpt, drv>>

Block == 1..MaxBlock
Segment == {"Headers", "Transactions", "Receipts"}

\* boot: how far main.rs has come.  target: what is left to unwind.
\* take: where try_take_new_block stands with block next; upto: the last
\* block of the MDBX transaction that is open.  out: the request returned
\* to the feeder and not yet looked at.
Memory == [boot : {"down", "normalized", "healed", "unwound", "up"},
           target : 0..MaxBlock, wfb : 0..MaxBlock + 1, startTip : 0..MaxBlock,
           next : 0..MaxBlock + 1, ready : BOOLEAN,
           take : {"idle", "saving", "saved", "flushing"}, upto : 0..MaxBlock,
           buf : SUBSET Block, flush : SUBSET Block, out : 0..MaxBlock]
Down == [boot |-> "down", target |-> 0, wfb |-> 0, startTip |-> 0, next |-> 0,
         ready |-> FALSE, take |-> "idle", upto |-> 0, buf |-> {},
         flush |-> {}, out |-> 0]
-----------------------------------------------------------------------------
(* The hub.                                                                *)

\* commit_batch_blocking: rows, then retention below the highest of them.
Rows(entries) ==
    LET rows == cold \cup entries
        high == Max(entries)
    IN IF Retention = 0 THEN rows
       ELSE {b \in rows : b + Retention >= high}
Bytes_mut(entries) ==
    (total + Cardinality(entries)) - Cardinality((cold \cup entries) \ Rows(entries))
Bytes(entries) ==
    total - Cardinality(cold \cap entries) + Cardinality(entries)
          - Cardinality((cold \cup entries) \ Rows(entries))

commit_entries(entries) ==
    /\ cold' = Rows(entries)
    /\ total' = Bytes(entries)

get_witness(b) == b \in drv.buf \cup cold

unwind_above_mut(keep) ==
    /\ cold' = cold \cap 1..keep + 1
    /\ total' = total - Cardinality(cold \ (1..keep + 1))
unwind_above(keep) ==
    /\ cold' = cold \cap 1..keep
    /\ total' = total - Cardinality(cold \ (1..keep))
-----------------------------------------------------------------------------
(* Boot.  main.rs normalises the checkpoint first (BlockPipeline).         *)

\* last_tx_num and get_highest_static_file_tx: transactions are numbered from 0
\* across the chain, and a chain without any also answers 0.
LastTx(b) == IF TxCount[b] = 0 THEN 0 ELSE TxCount[b] - 1

\* Headers are cut by blocks, the other segments by transactions.
Healed_mut(g) ==
    IF static[g] > mdbx /\ g = "Headers" THEN mdbx ELSE static[g]
Healed(g) ==
    IF static[g] > mdbx /\ (g = "Headers" \/ LastTx(static[g]) > LastTx(mdbx))
    THEN mdbx ELSE static[g]

heal_static_files ==
    IF mdbx = 0 THEN static ELSE [g \in Segment |-> Healed(g)]

UnwindTarget(env) ==
    IF env # 0 THEN env
    ELSE IF ckpt > 0 /\ ckpt < mdbx THEN ckpt ELSE 0

\* unwind_to: what it does nothing for, and the highest block it keeps.
UnwindSkips(t) == t = 0 \/ t >= mdbx
Kept(t) == t - 1

open_writable_factory ==
    /\ drv.boot = "normalized"
    /\ static' = heal_static_files
    /\ \E env \in UnwindEnv :
         drv' = [drv EXCEPT !.boot = "healed", !.target = UnwindTarget(env)]
    /\ UNCHANGED <<remote, mdbx, cold, total, coldTorn, ckpt>>

unwind_to_mdbx ==
    /\ drv.boot = "healed" /\ ~UnwindSkips(drv.target)
    /\ mdbx' = Kept(drv.target)
    /\ static' = [g \in Segment |-> Kept(drv.target)]
    /\ drv' = [drv EXCEPT !.boot = "unwound"]
    /\ UNCHANGED <<remote, cold, total, coldTorn, ckpt>>

\* MDBX is committed first; the process dies before the static files are cut.
unwind_to_torn ==
    /\ drv.boot = "healed" /\ ~UnwindSkips(drv.target)
    /\ mdbx' = Kept(drv.target)
    /\ coldTorn' = TRUE
    /\ drv' = Down
    /\ UNCHANGED <<remote, static, cold, total, ckpt>>

\* witness_from, computed by main.rs from the checkpoint.
WitnessFrom == IF ckpt > 0 THEN ckpt + 1 ELSE 0

ResumeCursor_mut(tip) == Max({ckpt + 1, WitnessFrom})
ResumeCursor(tip) == Min({Max({ckpt + 1, WitnessFrom}), tip + 1})

Driver_new(tip) ==
    drv' = [drv EXCEPT !.boot = "up", !.target = 0, !.wfb = WitnessFrom,
                       !.startTip = tip, !.next = ResumeCursor(tip)]

new_after_unwind ==
    /\ drv.boot = "unwound"
    /\ unwind_above(Kept(drv.target))
    /\ Driver_new(mdbx)
    /\ UNCHANGED <<remote, mdbx, static, coldTorn, ckpt>>

new_aligned ==
    /\ drv.boot = "healed" /\ UnwindSkips(drv.target)
    /\ Driver_new(mdbx)
    /\ UNCHANGED <<remote, mdbx, static, cold, total, coldTorn, ckpt>>
-----------------------------------------------------------------------------
(* Catch-up and tip following.  The state lock is held by one of them.     *)

Reachable == IF remote > SafeBlocks THEN remote - SafeBlocks ELSE 0

\* save_blocks appends to the static files, which accept only the block
\* after their highest one.
Appendable == \A g \in Segment : static[g] + 1 = drv.next
SaveUpTo(e) ==
    /\ Appendable
    /\ static' = [g \in Segment |-> e]
    /\ drv' = [drv EXCEPT !.take = "saving", !.upto = e]
    /\ UNCHANGED <<remote, mdbx, cold, total, coldTorn, ckpt>>

advance_ready ==
    /\ drv.boot = "up" /\ ~drv.ready /\ drv.take = "idle"
    /\ drv.next >= drv.wfb
    /\ drv' = [drv EXCEPT !.ready = TRUE]
    /\ UNCHANGED <<remote, mdbx, static, cold, total, coldTorn, ckpt>>

CatchupUpper == Min({Reachable, drv.wfb - 1})

advance_save ==
    /\ drv.boot = "up" /\ ~drv.ready /\ drv.take = "idle"
    /\ drv.next < drv.wfb /\ drv.next <= CatchupUpper
    /\ SaveUpTo(Min({drv.next + CatchupBatch - 1, CatchupUpper}))

advance_commit ==
    /\ drv.boot = "up" /\ ~drv.ready /\ drv.take = "saving"
    /\ mdbx' = drv.upto
    /\ drv' = [drv EXCEPT !.take = "idle", !.upto = 0, !.next = drv.upto + 1]
    /\ UNCHANGED <<remote, static, cold, total, coldTorn, ckpt>>

\* The feeder calls while it holds no request.
Asked == drv.boot = "up" /\ drv.ready /\ drv.take = "idle" /\ drv.out = 0
Deliver_mut == [drv EXCEPT !.take = "idle", !.upto = 0, !.next = @ + 2,
                           !.out = drv.next, !.flush = {}]
Deliver == [drv EXCEPT !.take = "idle", !.upto = 0, !.next = @ + 1,
                       !.out = drv.next, !.flush = {}]

take_cached ==
    /\ Asked /\ drv.next <= drv.startTip
    /\ get_witness(drv.next)
    /\ drv' = Deliver
    /\ UNCHANGED <<remote, mdbx, static, cold, total, coldTorn, ckpt>>

take_rewitness ==
    /\ Asked /\ drv.next <= drv.startTip
    /\ ~get_witness(drv.next)
    /\ commit_entries({drv.next})
    /\ drv' = Deliver
    /\ UNCHANGED <<remote, mdbx, static, coldTorn, ckpt>>

take_save ==
    /\ Asked /\ drv.next > drv.startTip
    /\ drv.next <= Reachable
    /\ SaveUpTo(drv.next)

take_commit ==
    /\ drv.ready /\ drv.take = "saving"
    /\ mdbx' = drv.upto
    /\ drv' = [drv EXCEPT !.take = "saved"]
    /\ UNCHANGED <<remote, static, cold, total, coldTorn, ckpt>>

\* push_batched: below the batch size the entry stays in memory.
push_batched ==
    /\ drv.take = "saved"
    /\ LET buf == drv.buf \cup {drv.next}
       IN drv' = IF Cardinality(buf) >= ColdBatch
                 THEN [drv EXCEPT !.buf = {}, !.flush = buf, !.take = "flushing"]
                 ELSE [Deliver EXCEPT !.buf = buf]
    /\ UNCHANGED <<remote, mdbx, static, cold, total, coldTorn, ckpt>>

push_flush ==
    /\ drv.take = "flushing"
    /\ commit_entries(drv.flush)
    /\ drv' = Deliver
    /\ UNCHANGED <<remote, mdbx, static, coldTorn, ckpt>>

\* get_or_build_witness: the store first, then a rebuild below the tip.
\* The witness server answers 404 for the rest.
CanServe(b) == get_witness(b) \/ b <= mdbx

\* save_blocks is refused: the error is fatal and the process exits.
SaveRefused ==
    /\ drv.boot = "up" /\ drv.take = "idle" /\ ~Appendable
    /\ \/ ~drv.ready /\ drv.next < drv.wfb /\ drv.next <= CatchupUpper
       \/ drv.out = 0 /\ drv.ready /\ drv.next > drv.startTip /\ drv.next <= Reachable

\* flush_pending at the end of a clean exit.
flush_pending ==
    IF drv.buf = {} THEN UNCHANGED <<cold, total>> ELSE commit_entries(drv.buf)

\* An open MDBX transaction is lost, the static files keep any part of it.
Killed ==
    /\ drv.boot # "down"
    /\ IF drv.take = "saving"
       THEN \E f \in [Segment -> mdbx..drv.upto] : static' = f
       ELSE static' = static
    /\ coldTorn' = (coldTorn \/ drv.boot = "unwound")
    /\ drv' = Down
    /\ UNCHANGED <<remote, mdbx, ckpt>>

NewRemoteBlock ==
    /\ remote < MaxBlock
    /\ remote' = remote + 1
    /\ UNCHANGED <<mdbx, static, cold, total, coldTorn, ckpt, drv>>
-----------------------------------------------------------------------------
DriverInit ==
    /\ remote \in InitRemote
    /\ mdbx = 0 /\ static = [g \in Segment |-> 0]
    /\ cold = {} /\ total = 0 /\ coldTorn = FALSE
    /\ drv = Down

DriverNext ==
    \/ open_writable_factory \/ unwind_to_mdbx
    \/ new_after_unwind \/ new_aligned
    \/ advance_ready \/ advance_save \/ advance_commit
    \/ take_cached \/ take_rewitness \/ take_save \/ take_commit
    \/ push_batched \/ push_flush
    \/ NewRemoteBlock
=============================================================================
