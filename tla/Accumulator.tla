---------------------------- MODULE Accumulator ----------------------------
(***************************************************************************)
(* The batch accumulator of the witness orchestrator (accumulator.rs) and   *)
(* the SQLite tables behind it (db.rs).                                     *)
(*                                                                         *)
(* The main loop of the orchestrator is the only task that touches the     *)
(* in-memory maps.  Every method mirrors its change into the database; the *)
(* database is all that is left after a crash, and `with_db` rebuilds the  *)
(* maps from it.  One other task writes to the database on its own: the    *)
(* signing task, which saves a signature before it reports it.             *)
(*                                                                         *)
(* A method that makes one database write is one action: dying before the  *)
(* write is Crash before the action, dying after it is Crash after it.  A  *)
(* method that makes two has an action *_torn for the death in between.    *)
(***************************************************************************)
EXTENDS Naturals, FiniteSets

CONSTANTS Batch,      \* batch indexes
          Block,      \* L2 block numbers
          Span,       \* Span[i]: the blocks from_block..to_block of batch i
          Tx,         \* L1 transaction hashes
          L1Block,    \* L1 block numbers of receipts; 0 is the placeholder
          MaxEpoch    \* bound: the number of BatchReverted wipes plus one

ASSUME AccumulatorAssumption ==
    /\ Batch \subseteq Nat
    /\ Span \in [Batch -> SUBSET Block]
    /\ \A i, j \in Batch : i # j => Span[i] \cap Span[j] = {}
    /\ L1Block \subseteq Nat /\ 0 \in L1Block
    /\ MaxEpoch \in Nat \ {0}

VARIABLES
    mem,        \* the maps of BatchAccumulator (empty while not running)
    db,         \* the SQLite tables
    process,    \* "up", "draining" (main loop left, tasks alive) or "down"
    signer,     \* the signing task and, until it is handled, its outcome
    epoch,      \* history: 1 + number of wipes so far
    executed,   \* history: blocks with a persisted response that still counts
    finalized   \* history: batches finalized since the last wipe

vars == <<mem, db, process, signer, epoch, executed, finalized>>
-----------------------------------------------------------------------------
(* Rows.  Absence is a value, so that every table is a total function.     *)

Epoch == 1..MaxEpoch

\* A signature is known by the epoch in which its signing task started.
Signature == 0..MaxEpoch
NoSignature == 0

\* pending_batches: absent, present, or present with blobs_accepted set.
PendingRow == {"none", "committed", "submitted"}

\* dispatched_batches: own stands for nonce = Some(_).
DispatchedRow == [tx : Tx, l1Block : L1Block, own : {"yes", "no"}]
NoRow == [own |-> "absent"]

\* signing_batch is Some exactly while signer is not Idle.
SignTask == [batch : Batch, sig : Epoch,
             phase : {"checking", "calling", "signed", "invalid", "failed"}]
            \cup {[phase |-> "idle"]}
Idle == [phase |-> "idle"]

Tables == [batches    : [Batch -> PendingRow],
           early      : SUBSET Batch,
           responses  : SUBSET Block,
           signatures : [Batch -> Signature],
           dispatched : [Batch -> DispatchedRow \cup {NoRow}]]

EmptyTables == [batches    |-> [i \in Batch |-> "none"],
                early      |-> {},
                responses  |-> {},
                signatures |-> [i \in Batch |-> NoSignature],
                dispatched |-> [i \in Batch |-> NoRow]]

\* The maps and the tables keep their shape through every method of
\* BatchAccumulator, and the signing task its phases.
TypeOK == /\ mem \in Tables
          /\ db \in Tables
          /\ process \in {"up", "draining", "down"}
          /\ signer \in SignTask
          /\ epoch \in Epoch
          /\ executed \subseteq Block
          /\ finalized \subseteq Batch

IsPending(s, i) == s.batches[i] # "none"
IsDispatched(s, i) == s.dispatched[i] # NoRow
IsSigned(s, i) == s.signatures[i] # NoSignature

\* Mutant: readiness without blobs_accepted.
is_batch_ready_mut(s, i) == IsPending(s, i) /\ Span[i] \subseteq s.responses

is_batch_ready(s, i) == /\ s.batches[i] = "submitted"
                        /\ Span[i] \subseteq s.responses

first_ready_unsigned(s, i) ==
    /\ is_batch_ready(s, i) /\ ~IsSigned(s, i)
    /\ \A j \in Batch : is_batch_ready(s, j) /\ ~IsSigned(s, j) => i <= j
-----------------------------------------------------------------------------
(* Table updates.  The same update is applied to the maps and to the       *)
(* database, except where the code does otherwise.                         *)

Register(s, i, row) == [s EXCEPT !.batches[i] = row, !.early = @ \ {i}]

Move(s, i, row) == [s EXCEPT !.batches[i] = "none", !.dispatched[i] = row]

Purge(s, B) == [s EXCEPT !.responses = @ \ B]

Unsign(s, i) == [s EXCEPT !.signatures[i] = NoSignature]

Forget(s, i) == Unsign(Purge([s EXCEPT !.dispatched[i] = NoRow], Span[i]), i)

Restore(s, i) == [s EXCEPT !.dispatched[i] = NoRow, !.batches[i] = "submitted"]
-----------------------------------------------------------------------------
(* Methods the main loop calls.                                            *)

Up == process = "up"

Die == /\ process' = "down"
       /\ mem' = EmptyTables
       /\ signer' = Idle

\* An already registered batch returns early: the event changes nothing.
SetBatchGuard(i) == Up /\ ~IsPending(mem, i) /\ ~IsDispatched(mem, i)

set_batch(i) ==
    /\ SetBatchGuard(i)
    /\ LET row == IF i \in mem.early THEN "submitted" ELSE "committed"
       IN  /\ mem' = Register(mem, i, row)
           /\ db' = Register(db, i, row)
    /\ UNCHANGED <<process, signer, epoch, executed, finalized>>

\* The buffered BatchSubmitted is deleted before the batch row is saved.
set_batch_torn(i) ==
    /\ SetBatchGuard(i) /\ i \in mem.early
    /\ db' = [db EXCEPT !.early = @ \ {i}]
    /\ Die
    /\ UNCHANGED <<epoch, executed, finalized>>

insert_response(b) ==
    /\ Up
    /\ mem' = [mem EXCEPT !.responses = @ \cup {b}]
    /\ db' = [db EXCEPT !.responses = @ \cup {b}]
    /\ executed' = executed \cup {b}
    /\ UNCHANGED <<process, signer, epoch, finalized>>

mark_batch_submitted(i) ==
    /\ Up
    /\ IF IsPending(mem, i)
         THEN /\ mem' = [mem EXCEPT !.batches[i] = "submitted"]
              /\ db' = [db EXCEPT !.batches[i] =
                           IF @ = "none" THEN "none" ELSE "submitted"]
         ELSE /\ mem' = [mem EXCEPT !.early = @ \cup {i}]
              /\ db' = [db EXCEPT !.early = @ \cup {i}]
    /\ UNCHANGED <<process, signer, epoch, executed, finalized>>

\* Mutant: the signature row is deleted on dispatch, not on finalization.
mark_dispatched_mut(i, tx) ==
    /\ Up
    /\ IsPending(mem, i) /\ IsSigned(mem, i) /\ i \notin finalized
    /\ LET row == [tx |-> tx, l1Block |-> 0, own |-> "yes"]
       IN  /\ mem' = Move(mem, i, row)
           /\ db' = Unsign(Move(db, i, row), i)
    /\ UNCHANGED <<process, signer, epoch, executed, finalized>>

\* Called on InitialBroadcast.  The worker was given the signature of a
\* pending batch, and its pre-flight check refuses a batch that L1 already
\* preconfirmed.  The signature is kept, so that undispatch finds it.
mark_dispatched(i, tx) ==
    /\ Up
    /\ IsPending(mem, i) /\ IsSigned(mem, i) /\ i \notin finalized
    /\ LET row == [tx |-> tx, l1Block |-> 0, own |-> "yes"]
       IN  /\ mem' = Move(mem, i, row)
           /\ db' = Move(db, i, row)
    /\ UNCHANGED <<process, signer, epoch, executed, finalized>>

\* Drops the signature from the map but not from batch_signatures.
mark_dispatched_external(i, tx, l1) ==
    /\ Up
    /\ IsPending(mem, i)
    /\ LET row == [tx |-> tx, l1Block |-> l1, own |-> "no"]
       IN  /\ mem' = Unsign(Move(mem, i, row), i)
           /\ db' = Move(db, i, row)
    /\ UNCHANGED <<process, signer, epoch, executed, finalized>>

\* Mutant: the new hash is persisted but not mirrored in memory.
record_rbf_bump_mut(i, tx) ==
    /\ Up
    /\ IsDispatched(mem, i)
    /\ db' = [db EXCEPT !.dispatched[i].tx = tx]
    /\ UNCHANGED <<mem, process, signer, epoch, executed, finalized>>

record_rbf_bump(i, tx) ==
    /\ Up
    /\ IsDispatched(mem, i)
    /\ mem' = [mem EXCEPT !.dispatched[i].tx = tx]
    /\ db' = [db EXCEPT !.dispatched[i].tx = tx]
    /\ UNCHANGED <<process, signer, epoch, executed, finalized>>

\* Mutant: off by one, the block after the receipt's.
record_dispatched_l1_block_mut(i, l1) ==
    /\ Up
    /\ IsDispatched(mem, i)
    /\ mem' = [mem EXCEPT !.dispatched[i].l1Block = l1 + 1]
    /\ db' = [db EXCEPT !.dispatched[i].l1Block = l1 + 1]
    /\ UNCHANGED <<process, signer, epoch, executed, finalized>>

record_dispatched_l1_block(i, l1) ==
    /\ Up
    /\ IsDispatched(mem, i)
    /\ mem' = [mem EXCEPT !.dispatched[i].l1Block = l1]
    /\ db' = [db EXCEPT !.dispatched[i].l1Block = l1]
    /\ UNCHANGED <<process, signer, epoch, executed, finalized>>

finalize_dispatched(i) ==
    /\ Up
    /\ IsDispatched(mem, i)
    /\ mem' = Forget(mem, i)
    /\ db' = Forget(db, i)
    /\ executed' = executed \ Span[i]
    /\ finalized' = finalized \cup {i}
    /\ UNCHANGED <<process, signer, epoch>>

\* Mutant: without the nonce guard.
undispatch_mut(i) ==
    /\ Up
    /\ IsDispatched(mem, i)
    /\ mem' = Restore(mem, i)
    /\ db' = Restore(db, i)
    /\ UNCHANGED <<process, signer, epoch, executed, finalized>>

\* Rows seeded from a BatchPreconfirmed event are left alone.
undispatch(i) ==
    /\ Up
    /\ IsDispatched(mem, i) /\ mem.dispatched[i].own = "yes"
    /\ mem' = Restore(mem, i)
    /\ db' = Restore(db, i)
    /\ UNCHANGED <<process, signer, epoch, executed, finalized>>
-----------------------------------------------------------------------------
(* Signing.  sign_batch_io runs in a task of its own, one at a time.       *)

try_sign_next_batch(i) ==
    /\ Up
    /\ signer = Idle
    /\ first_ready_unsigned(mem, i)
    /\ signer' = [batch |-> i, phase |-> "checking", sig |-> epoch]
    /\ UNCHANGED <<mem, db, process, epoch, executed, finalized>>

\* The task first looks for a signature that survived a crash.
sign_batch_io_check ==
    /\ signer.phase = "checking"
    /\ LET i == signer.batch
       IN  signer' = IF IsSigned(db, i)
                       THEN [signer EXCEPT !.phase = "signed", !.sig = db.signatures[i]]
                       ELSE [signer EXCEPT !.phase = "calling"]
    /\ UNCHANGED <<mem, db, process, epoch, executed, finalized>>

\* Mutant: the outcome is reported without saving the signature.
sign_batch_io_save_mut ==
    /\ signer.phase = "calling"
    /\ signer' = [signer EXCEPT !.phase = "signed"]
    /\ UNCHANGED <<mem, db, process, epoch, executed, finalized>>

\* The proxy signed.  The signature is saved without another look at what
\* became of the batch, or at whether the main loop still runs.
sign_batch_io_save ==
    /\ signer.phase = "calling"
    /\ db' = [db EXCEPT !.signatures[signer.batch] = signer.sig]
    /\ signer' = [signer EXCEPT !.phase = "signed"]
    /\ UNCHANGED <<mem, process, epoch, executed, finalized>>

\* HTTP 409: the enclave rejects some of the responses as signed by an
\* older key.
sign_batch_io_invalid ==
    /\ signer.phase = "calling"
    /\ signer' = [signer EXCEPT !.phase = "invalid"]
    /\ UNCHANGED <<mem, db, process, epoch, executed, finalized>>

\* The task gave up or panicked.
sign_batch_io_fail ==
    /\ signer.phase \in {"checking", "calling"}
    /\ signer' = [signer EXCEPT !.phase = "failed"]
    /\ UNCHANGED <<mem, db, process, epoch, executed, finalized>>

\* cache_signature, then purge_responses if the batch is still pending.
on_sign_done_signed ==
    /\ Up
    /\ signer.phase = "signed"
    /\ LET i == signer.batch
           cached == [mem EXCEPT !.signatures[i] = signer.sig]
       IN  IF IsPending(mem, i)
             THEN mem' = Purge(cached, Span[i]) /\ db' = Purge(db, Span[i])
             ELSE mem' = cached /\ db' = db
    /\ signer' = Idle
    /\ UNCHANGED <<process, epoch, executed, finalized>>

\* Mutant: every response of the batch is purged, but only those the
\* enclave rejected are executed again.
on_sign_done_invalid_mut(B) ==
    /\ Up
    /\ signer.phase = "invalid"
    /\ B \subseteq Span[signer.batch]
    /\ mem' = Unsign(Purge(mem, Span[signer.batch]), signer.batch)
    /\ db' = Unsign(Purge(db, Span[signer.batch]), signer.batch)
    /\ executed' = executed \ B
    /\ signer' = Idle
    /\ UNCHANGED <<process, epoch, finalized>>

\* purge_responses of the blocks the enclave rejected, then
\* delete_batch_signature.
on_sign_done_invalid(B) ==
    /\ Up
    /\ signer.phase = "invalid"
    /\ B \subseteq Span[signer.batch]
    /\ mem' = Unsign(Purge(mem, B), signer.batch)
    /\ db' = Unsign(Purge(db, B), signer.batch)
    /\ executed' = executed \ B
    /\ signer' = Idle
    /\ UNCHANGED <<process, epoch, finalized>>

on_sign_done_invalid_torn(B) ==
    /\ Up
    /\ signer.phase = "invalid"
    /\ B \subseteq Span[signer.batch]
    /\ db' = Purge(db, B)
    /\ executed' = executed \ B
    /\ Die
    /\ UNCHANGED <<epoch, finalized>>

on_sign_done_failed ==
    /\ Up
    /\ signer.phase = "failed"
    /\ signer' = Idle
    /\ UNCHANGED <<mem, db, process, epoch, executed, finalized>>
-----------------------------------------------------------------------------
(* Crash, revert and restart.                                              *)

\* BatchReverted: every table is deleted in one transaction and the main
\* loop leaves.  A signing task keeps running until the process is gone.
wipe_for_revert ==
    /\ Up
    /\ epoch < MaxEpoch
    /\ db' = EmptyTables
    /\ mem' = EmptyTables
    /\ process' = "draining"
    /\ epoch' = epoch + 1
    /\ executed' = {} /\ finalized' = {}
    /\ UNCHANGED signer

Crash ==
    /\ process \in {"up", "draining"}
    /\ Die
    /\ UNCHANGED <<db, epoch, executed, finalized>>

\* Mutant: no signature row counts as an orphan.
Orphans_mut(s) == {}

\* Signature rows of batches that have no row of their own are dropped.
Orphans(s) == {i \in Batch : ~IsPending(s, i) /\ ~IsDispatched(s, i)}

with_db ==
    /\ process = "down"
    /\ LET loaded == [db EXCEPT !.signatures =
                         [i \in Batch |-> IF i \in Orphans(db) THEN NoSignature ELSE @[i]]]
       IN  mem' = loaded /\ db' = loaded
    /\ process' = "up"
    /\ UNCHANGED <<signer, epoch, executed, finalized>>
-----------------------------------------------------------------------------
Init == /\ mem = EmptyTables
        /\ db = EmptyTables
        /\ process = "up"
        /\ signer = Idle
        /\ epoch = 1
        /\ executed = {}
        /\ finalized = {}

MainLoop(i) ==
    \/ set_batch(i)
    \/ set_batch_torn(i)
    \/ mark_batch_submitted(i)
    \/ \E tx \in Tx : mark_dispatched(i, tx)
    \/ \E tx \in Tx, l1 \in L1Block \ {0} : mark_dispatched_external(i, tx, l1)
    \/ \E tx \in Tx : record_rbf_bump(i, tx)
    \/ \E l1 \in L1Block \ {0} : record_dispatched_l1_block(i, l1)
    \/ finalize_dispatched(i)
    \/ undispatch(i)
    \/ try_sign_next_batch(i)

SignDone ==
    \/ on_sign_done_signed
    \/ \E B \in SUBSET Block : on_sign_done_invalid(B)
    \/ \E B \in SUBSET Block : on_sign_done_invalid_torn(B)
    \/ on_sign_done_failed

Next ==
    \/ \E i \in Batch : MainLoop(i)
    \/ \E b \in Block : insert_response(b)
    \/ sign_batch_io_check
    \/ sign_batch_io_save
    \/ sign_batch_io_invalid
    \/ sign_batch_io_fail
    \/ SignDone
    \/ wipe_for_revert
    \/ Crash
    \/ with_db

Spec == Init /\ [][Next]_vars
-----------------------------------------------------------------------------
(* Properties.                                                             *)

\* While the main loop runs, the maps hold exactly the rows of the database
\* (signatures apart): what with_db would load after a crash at this point
\* is what the loop is working with.
MemoryMirrorsDb ==
    Up => /\ mem.batches = db.batches
          /\ mem.early = db.early
          /\ mem.responses = db.responses
          /\ mem.dispatched = db.dispatched

\* No crash, torn write or retry leaves a batch in pending_batches and in
\* dispatched_batches at once (move_to_dispatched and undispatch_batch).
OneHome == \A i \in Batch : ~(IsPending(db, i) /\ IsDispatched(db, i))

\* A signature the loop would dispatch with is in batch_signatures too, so
\* a crash does not lose it.  (A batch that was finalized and is then
\* registered again by a replayed BatchCommitted is the exception: its
\* signature row went with the finalization.)
SignatureIsDurable ==
    Up => \A i \in Batch \ finalized :
             (IsPending(mem, i) \/ IsDispatched(mem, i)) /\ IsSigned(mem, i)
                => db.signatures[i] = mem.signatures[i]

\* Every own dispatched row has its signature row: the startup resume of
\* orchestrator::run can always rebroadcast ("signature missing from DB").
ResumeFindsSignature ==
    \A i \in Batch : db.dispatched[i].own = "yes" => IsSigned(db, i)

\* After a BatchReverted wipe no signature made before it is ever cached
\* again, although a signing task may save one after the wipe.
NoStaleSignature ==
    Up => \A i \in Batch : mem.signatures[i] \in {NoSignature, epoch}

\* Work is not lost: a block of a pending batch that was executed has its
\* response in the database, or the batch has its signature there.  Blocks
\* up to the checkpoint are not fed again, so losing both would leave the
\* batch unsigned for good.
ExecutedWorkSurvives ==
    \A i \in Batch \ finalized :
        IsPending(db, i) /\ ~IsSigned(db, i)
            => Span[i] \cap executed \subseteq db.responses

\* undispatch must not wipe a row that another submitter owns: such a row
\* leaves dispatched_batches only by finalization (or a BatchReverted wipe).
ExternalRowStep ==
    \A i \in Batch :
        db.dispatched[i].own = "no" /\ epoch' = epoch
            => db'.dispatched[i].own = "no" \/ i \in finalized'
ExternalRowsStay == [][ExternalRowStep]_vars
-----------------------------------------------------------------------------
(* The stage of a batch, read from the database alone.                     *)

StageOf(i) == CASE db.dispatched[i].own = "yes" -> "own"
                [] db.dispatched[i].own = "no" -> "external"
                [] OTHER -> IF IsPending(db, i) THEN db.batches[i] ELSE "unknown"

Lifecycle == INSTANCE BatchLifecycle WITH stage <- [i \in Batch |-> StageOf(i)]

\* The durable stage of every batch moves only as BatchLifecycle says;
\* crashes, torn writes, the signing task and with_db leave it alone.
ImplementsLifecycle == Lifecycle!Spec
=============================================================================
