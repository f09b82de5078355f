------------------------- MODULE AccumulatorProofs -------------------------
(***************************************************************************)
(* What is proved of Accumulator: the end of a signing task, the wipe, the *)
(* crash and the restart keep the invariant of AccumulatorInvariant, and   *)
(* the theorems follow from it.                                            *)
(***************************************************************************)
EXTENDS AccumulatorInvariant

\* A failed task frees the signing gate.
LEMMA on_sign_done_failed_step ==
    ASSUME IndInv, on_sign_done_failed
    PROVE  IndInv'
<1>1. /\ Up /\ signer' = Idle
      /\ mem' = mem /\ db' = db /\ UNCHANGED <<process, epoch, executed, finalized>>
  BY DEF on_sign_done_failed
<1> USE DEF IsPending, IsDispatched, IsSigned, Registered, Up, TypeOK, Tables
<1>2. TypeOK'
  BY <1>1 DEF IndInv, SignTask, Idle
<1>3. MemoryMirrorsDb'
  BY <1>1 DEF IndInv, MemoryMirrorsDb
<1>4. OneHome'
  BY <1>1 DEF IndInv, OneHome
<1>5. SignerInv'
  BY <1>1 DEF SignerInv
<1>6. SignaturesInv'
  BY <1>1 DEF IndInv, SignaturesInv
<1>7. \A j \in Batch : RowsOk(j)'
  BY <1>1 DEF IndInv, DbInv, RowsOk
<1>8. \A j \in Batch : WorkOk(j)'
  BY <1>1 DEF IndInv, DbInv, WorkOk
<1>9. QED
  BY <1>2, <1>3, <1>4, <1>5, <1>6, <1>7, <1>8 DEF IndInv, DbInv

\* Rejected responses are purged; the batch was not dispatched by us.
LEMMA on_sign_done_invalid_step ==
    ASSUME IndInv, NEW B, on_sign_done_invalid(B)
    PROVE  IndInv'
<1>1. /\ mem' = Unsign(Purge(mem, B), signer.batch) /\ db' = Unsign(Purge(db, B), signer.batch)
      /\ signer # Idle /\ signer.batch \in Batch /\ signer.phase = "invalid" /\ Up
      /\ executed' = executed \ B /\ signer' = Idle
      /\ UNCHANGED <<process, epoch, finalized>>
  <2>1. /\ signer # Idle
        /\ signer \in [batch : Batch, sig : Epoch,
              phase : {"checking", "calling", "signed", "invalid", "failed"}]
    BY SignerType DEF on_sign_done_invalid, IndInv, TypeOK
  <2>2. QED
    BY <2>1 DEF on_sign_done_invalid
<1>2. /\ mem' \in Tables /\ db' \in Tables
      /\ mem'.batches = mem.batches /\ db'.batches = db.batches
      /\ mem'.early = mem.early /\ db'.early = db.early
      /\ mem'.responses = mem.responses \ B /\ db'.responses = db.responses \ B
      /\ mem'.signatures = [mem.signatures EXCEPT ![signer.batch] = NoSignature]
      /\ db'.signatures = [db.signatures EXCEPT ![signer.batch] = NoSignature]
      /\ mem'.dispatched = mem.dispatched /\ db'.dispatched = db.dispatched
  <2> DEFINE m == Purge(mem, B)
             d == Purge(db, B)
  <2>1. /\ m \in Tables
        /\ m.batches = mem.batches /\ m.early = mem.early
        /\ m.responses = mem.responses \ B
        /\ m.signatures = mem.signatures /\ m.dispatched = mem.dispatched
    BY PurgeFacts DEF IndInv, TypeOK
  <2>2. /\ d \in Tables
        /\ d.batches = db.batches /\ d.early = db.early
        /\ d.responses = db.responses \ B
        /\ d.signatures = db.signatures /\ d.dispatched = db.dispatched
    BY PurgeFacts DEF IndInv, TypeOK
  <2>3. mem' = Unsign(m, signer.batch) /\ db' = Unsign(d, signer.batch)
    BY <1>1
  <2> HIDE DEF m, d
  <2>4. /\ mem' \in Tables
        /\ mem'.batches = m.batches /\ mem'.early = m.early
        /\ mem'.responses = m.responses
        /\ mem'.signatures = [m.signatures EXCEPT ![signer.batch] = NoSignature]
        /\ mem'.dispatched = m.dispatched
    BY <1>1, <2>1, <2>3, UnsignFacts
  <2>5. /\ db' \in Tables
        /\ db'.batches = d.batches /\ db'.early = d.early
        /\ db'.responses = d.responses
        /\ db'.signatures = [d.signatures EXCEPT ![signer.batch] = NoSignature]
        /\ db'.dispatched = d.dispatched
    BY <1>1, <2>2, <2>3, UnsignFacts, SMTT(20)
  <2>6. QED
    BY <2>1, <2>2, <2>4, <2>5
<1> USE DEF IsPending, IsDispatched, IsSigned, Registered, Up, TypeOK, Tables
<1>3. TypeOK'
  BY <1>1, <1>2 DEF IndInv, SignTask, Idle
<1>4. MemoryMirrorsDb' /\ OneHome'
  BY <1>1, <1>2 DEF IndInv, MemoryMirrorsDb, OneHome
<1>5. SignerInv'
  BY <1>1 DEF SignerInv
<1>6. SignaturesInv'
  BY <1>1, <1>2 DEF IndInv, SignerInv, SignaturesInv
<1>7. \A j \in Batch : RowsOk(j)'
  BY <1>1, <1>2, SMTT(20) DEF IndInv, SignerInv, DbInv, RowsOk
<1>8. \A j \in Batch : WorkOk(j)'
  BY <1>1, <1>2 DEF IndInv, SignerInv, DbInv, WorkOk
<1>9. QED
  BY <1>3, <1>4, <1>5, <1>6, <1>7, <1>8 DEF IndInv, DbInv

\* Dying between the two writes: only responses are gone.
LEMMA on_sign_done_invalid_torn_step ==
    ASSUME IndInv, NEW B, on_sign_done_invalid_torn(B)
    PROVE  IndInv'
<1>1. /\ db' = Purge(db, B) /\ mem' = EmptyTables /\ process' = "down" /\ signer' = Idle
      /\ process = "up" /\ executed' = executed \ B
      /\ UNCHANGED <<epoch, finalized>>
  BY DEF on_sign_done_invalid_torn, Die, Up
<1>2. /\ mem' \in Tables /\ db' \in Tables
      /\ mem'.batches = EmptyTables.batches /\ db'.batches = db.batches
      /\ mem'.early = EmptyTables.early /\ db'.early = db.early
      /\ mem'.responses = EmptyTables.responses /\ db'.responses = db.responses \ B
      /\ mem'.signatures = EmptyTables.signatures /\ db'.signatures = db.signatures
      /\ mem'.dispatched = EmptyTables.dispatched /\ db'.dispatched = db.dispatched
  BY <1>1, PurgeFacts, EmptyFacts DEF IndInv, TypeOK
<1> USE DEF IsPending, IsDispatched, IsSigned, Registered, Up, TypeOK, Tables
<1>3. TypeOK'
  BY <1>1, <1>2 DEF IndInv, SignTask, Idle
<1>4. MemoryMirrorsDb' /\ OneHome'
  BY <1>1, <1>2 DEF IndInv, MemoryMirrorsDb, OneHome
<1>5. SignerInv'
  BY <1>1 DEF SignerInv
<1>6. SignaturesInv'
  BY <1>1 DEF SignaturesInv
<1>7. \A j \in Batch : RowsOk(j)'
  BY <1>1, <1>2, SMTT(20) DEF IndInv, SignerInv, DbInv, RowsOk
<1>8. \A j \in Batch : WorkOk(j)'
  <2> SUFFICES ASSUME NEW j \in Batch, WorkOk(j) PROVE WorkOk(j)'
    BY DEF IndInv, DbInv
  <2>1. Registered(j)' = Registered(j) /\ IsPending(db, j)' = IsPending(db, j)
        /\ IsSigned(db, j)' = IsSigned(db, j) /\ finalized' = finalized
    BY <1>1, <1>2
  <2>2. QED
    BY <1>1, <1>2 DEF WorkOk
<1>9. QED
  BY <1>3, <1>4, <1>5, <1>6, <1>7, <1>8 DEF IndInv, DbInv

\* Caching a signature and purging what it makes superfluous.
LEMMA on_sign_done_signed_step ==
    ASSUME IndInv, on_sign_done_signed
    PROVE  IndInv'
<1>1. /\ signer # Idle /\ signer.batch \in Batch /\ signer.sig \in Epoch /\ signer.phase = "signed"
      /\ Up /\ signer' = Idle /\ UNCHANGED <<process, epoch, executed, finalized>>
  <2>1. /\ signer # Idle
        /\ signer \in [batch : Batch, sig : Epoch,
              phase : {"checking", "calling", "signed", "invalid", "failed"}]
    BY SignerType, SMTT(20) DEF on_sign_done_signed, IndInv, TypeOK
  <2>2. QED
    BY <2>1 DEF on_sign_done_signed
<1>2. /\ mem' \in Tables /\ db' \in Tables
      /\ mem'.batches = mem.batches /\ db'.batches = db.batches
      /\ mem'.early = mem.early /\ db'.early = db.early
      /\ mem'.responses = IF IsPending(mem, signer.batch)
                            THEN mem.responses \ Span[signer.batch]
                            ELSE mem.responses
      /\ db'.responses = IF IsPending(mem, signer.batch)
                            THEN db.responses \ Span[signer.batch]
                            ELSE db.responses
      /\ mem'.signatures = [mem.signatures EXCEPT ![signer.batch] = signer.sig]
      /\ db'.signatures = db.signatures
      /\ mem'.dispatched = mem.dispatched /\ db'.dispatched = db.dispatched
  <2> DEFINE c == [mem EXCEPT !.signatures[signer.batch] = signer.sig]
  <2>1. /\ c \in Tables
        /\ c.batches = mem.batches /\ c.early = mem.early
        /\ c.responses = mem.responses
        /\ c.signatures = [mem.signatures EXCEPT ![signer.batch] = signer.sig]
        /\ c.dispatched = mem.dispatched
    BY <1>1, EpochFacts, SMTT(20) DEF IndInv, TypeOK, Tables
  <2>2. IF IsPending(mem, signer.batch)
          THEN mem' = Purge(c, Span[signer.batch]) /\ db' = Purge(db, Span[signer.batch])
          ELSE mem' = c /\ db' = db
    BY DEF on_sign_done_signed
  <2> HIDE DEF c
  <2>3. CASE IsPending(mem, signer.batch)
    BY <2>1, <2>2, <2>3, PurgeFacts DEF IndInv, TypeOK
  <2>4. CASE ~IsPending(mem, signer.batch)
    BY <2>1, <2>2, <2>4 DEF IndInv, TypeOK
  <2>5. QED
    BY <2>3, <2>4
<1> USE DEF IsPending, IsDispatched, IsSigned, Registered, Up, TypeOK, Tables
<1>3. TypeOK'
  BY <1>1, <1>2 DEF IndInv, SignTask, Idle
<1>4. MemoryMirrorsDb' /\ OneHome'
  <2>1. /\ mem.batches = db.batches /\ mem.early = db.early
        /\ mem.responses = db.responses /\ mem.dispatched = db.dispatched
    BY <1>1 DEF IndInv, MemoryMirrorsDb
  <2>2. mem'.responses = db'.responses
    BY <1>2, <2>1
  <2>3. MemoryMirrorsDb'
    BY <1>2, <2>1, <2>2 DEF MemoryMirrorsDb
  <2>4. db'.batches = db.batches /\ db'.dispatched = db.dispatched /\ OneHome
    BY <1>2 DEF IndInv
  <2>5. OneHome'
    BY <2>4 DEF OneHome
  <2>6. QED
    BY <2>3, <2>5
<1>5. SignerInv'
  BY <1>1, SMTT(20) DEF SignerInv
<1>6. SignaturesInv'
  BY <1>1, <1>2, SMTT(20) DEF IndInv, SignerInv, SignaturesInv
<1>7. \A j \in Batch : RowsOk(j)'
  BY <1>1, <1>2 DEF IndInv, DbInv, RowsOk
<1>8. \A j \in Batch : WorkOk(j)'
  <2> HIDE DEF TypeOK, Tables
  <2> SUFFICES ASSUME NEW j \in Batch, WorkOk(j) PROVE WorkOk(j)'
    BY SMTT(20) DEF IndInv, DbInv
  <2>0. /\ db'.batches = db.batches /\ db'.dispatched = db.dispatched
        /\ db'.signatures = db.signatures /\ finalized' = finalized /\ executed' = executed
    BY <1>1, <1>2
  <2>1. /\ Registered(j)' = Registered(j) /\ IsPending(db, j)' = IsPending(db, j)
        /\ IsSigned(db, j)' = IsSigned(db, j) /\ finalized' = finalized /\ executed' = executed
    BY <2>0
  <2>2. CASE j = signer.batch /\ IsPending(mem, j)
    <3>1. IsPending(db, j) /\ (j \notin finalized => IsSigned(db, j))
      BY <1>1, <2>2 DEF IndInv, SignerInv, MemoryMirrorsDb
    <3>2. QED
      BY <2>1, <3>1 DEF WorkOk
  <2>3. CASE j # signer.batch /\ IsPending(mem, signer.batch)
    <3>1. Span[j] \cap Span[signer.batch] = {} /\ db'.responses = db.responses \ Span[signer.batch]
      BY <1>1, <1>2, <2>3, AccumulatorAssumption
    <3>2. QED
      BY <2>1, <3>1, SMTT(20) DEF WorkOk
  <2>4. CASE ~IsPending(mem, signer.batch)
    BY <1>2, <2>1, <2>4 DEF WorkOk
  <2>5. QED
    BY <2>2, <2>3, <2>4
<1>9. QED
  BY <1>3, <1>4, <1>5, <1>6, <1>7, <1>8 DEF IndInv, DbInv

\* A wipe leaves nothing registered and starts a new epoch.
LEMMA wipe_for_revert_step ==
    ASSUME IndInv, wipe_for_revert
    PROVE  IndInv'
<1>1. /\ mem' = EmptyTables /\ db' = EmptyTables /\ process' = "draining"
      /\ epoch' \in Epoch /\ executed' = {} /\ finalized' = {} /\ signer' = signer
  BY AccumulatorAssumption, SMTT(20) DEF wipe_for_revert, Epoch, IndInv, TypeOK
<1>2. /\ mem' \in Tables /\ db' \in Tables
      /\ mem'.batches = EmptyTables.batches /\ db'.batches = [j \in Batch |-> "none"]
      /\ mem'.early = EmptyTables.early /\ db'.early = {}
      /\ mem'.responses = EmptyTables.responses /\ db'.responses = {}
      /\ mem'.signatures = EmptyTables.signatures
      /\ db'.signatures = [j \in Batch |-> NoSignature]
      /\ mem'.dispatched = EmptyTables.dispatched
      /\ db'.dispatched = [j \in Batch |-> NoRow]
  BY <1>1, EmptyFacts
<1> USE DEF IsPending, IsDispatched, IsSigned, Registered, Up, TypeOK, Tables
<1>3. TypeOK'
  BY <1>1, <1>2 DEF IndInv
<1>4. MemoryMirrorsDb' /\ OneHome'
  BY <1>1, <1>2 DEF MemoryMirrorsDb, OneHome
<1>5. SignerInv'
  BY <1>1 DEF SignerInv
<1>6. SignaturesInv'
  BY <1>1 DEF SignaturesInv
<1>7. \A j \in Batch : RowsOk(j)'
  BY <1>2 DEF RowsOk, NoRow
<1>8. \A j \in Batch : WorkOk(j)'
  BY <1>1 DEF WorkOk
<1>9. QED
  BY <1>3, <1>4, <1>5, <1>6, <1>7, <1>8 DEF IndInv, DbInv

\* A crash loses the maps and the task, not the database.
LEMMA Crash_step ==
    ASSUME IndInv, Crash
    PROVE  IndInv'
<1>1. /\ mem' = EmptyTables /\ db' = db /\ process' = "down" /\ signer' = Idle
      /\ UNCHANGED <<epoch, executed, finalized>>
  BY DEF Crash, Die
<1>2. /\ mem' \in Tables /\ db' \in Tables
      /\ mem'.batches = EmptyTables.batches /\ db'.batches = db.batches
      /\ mem'.early = EmptyTables.early /\ db'.early = db.early
      /\ mem'.responses = EmptyTables.responses /\ db'.responses = db.responses
      /\ mem'.signatures = EmptyTables.signatures /\ db'.signatures = db.signatures
      /\ mem'.dispatched = EmptyTables.dispatched /\ db'.dispatched = db.dispatched
  BY <1>1, EmptyFacts, SMTT(20) DEF IndInv, TypeOK
<1> USE DEF IsPending, IsDispatched, IsSigned, Registered, Up, TypeOK, Tables
<1>3. TypeOK'
  BY <1>1, <1>2 DEF IndInv, SignTask, Idle
<1>4. MemoryMirrorsDb' /\ OneHome'
  BY <1>1 DEF IndInv, MemoryMirrorsDb, OneHome
<1>5. SignerInv'
  BY <1>1 DEF SignerInv
<1>6. SignaturesInv'
  BY <1>1 DEF SignaturesInv
<1>7. \A j \in Batch : RowsOk(j)'
  BY <1>1 DEF IndInv, DbInv, RowsOk
<1>8. \A j \in Batch : WorkOk(j)'
  BY <1>1 DEF IndInv, DbInv, WorkOk
<1>9. QED
  BY <1>3, <1>4, <1>5, <1>6, <1>7, <1>8 DEF IndInv, DbInv

\* Loading drops the orphan signatures and keeps the others.
LEMMA with_db_step ==
    ASSUME IndInv, with_db
    PROVE  IndInv'
<1>1. /\ mem' = [db EXCEPT !.signatures =
                    [i \in Batch |-> IF i \in Orphans(db) THEN NoSignature ELSE db.signatures[i]]]
      /\ db' = [db EXCEPT !.signatures =
                    [i \in Batch |-> IF i \in Orphans(db) THEN NoSignature ELSE db.signatures[i]]]
      /\ process' = "up" /\ process = "down" /\ UNCHANGED <<signer, epoch, executed, finalized>>
  BY DEF with_db
<1>2. /\ mem' \in Tables /\ db' \in Tables
      /\ mem'.batches = db.batches /\ db'.batches = db.batches
      /\ mem'.early = db.early /\ db'.early = db.early
      /\ mem'.responses = db.responses /\ db'.responses = db.responses
      /\ mem'.signatures =
            [i \in Batch |-> IF i \in Orphans(db) THEN NoSignature ELSE db.signatures[i]]
      /\ db'.signatures =
            [i \in Batch |-> IF i \in Orphans(db) THEN NoSignature ELSE db.signatures[i]]
      /\ mem'.dispatched = db.dispatched /\ db'.dispatched = db.dispatched
  <2> DEFINE sigs == [i \in Batch |-> IF i \in Orphans(db) THEN NoSignature ELSE db.signatures[i]]
  <2>1. sigs \in [Batch -> Signature]
    BY AccumulatorAssumption DEF IndInv, TypeOK, Tables, Signature, NoSignature
  <2>2. mem' = [db EXCEPT !.signatures = sigs] /\ db' = [db EXCEPT !.signatures = sigs]
    BY <1>1
  <2> HIDE DEF sigs
  <2>3. /\ mem' \in Tables /\ db' \in Tables
        /\ mem'.signatures = sigs /\ db'.signatures = sigs
        /\ mem'.batches = db.batches /\ db'.batches = db.batches
        /\ mem'.early = db.early /\ db'.early = db.early
        /\ mem'.responses = db.responses /\ db'.responses = db.responses
        /\ mem'.dispatched = db.dispatched /\ db'.dispatched = db.dispatched
    BY <2>1, <2>2 DEF IndInv, TypeOK, Tables
  <2>4. QED
    BY <2>3 DEF sigs
<1> USE DEF IsPending, IsDispatched, IsSigned, Registered, Up, TypeOK, Tables, Orphans
<1>3. TypeOK'
  BY <1>1, <1>2 DEF IndInv
<1>4. MemoryMirrorsDb' /\ OneHome'
  BY <1>2 DEF IndInv, MemoryMirrorsDb, OneHome
<1>5. SignerInv'
  BY <1>1 DEF IndInv, SignerInv
<1>6. SignaturesInv'
  BY <1>1 DEF IndInv, SignaturesInv, DbInv, RowsOk
<1>7. \A j \in Batch : RowsOk(j)'
  BY <1>1 DEF IndInv, DbInv, RowsOk, NoRow
<1>8. \A j \in Batch : WorkOk(j)'
  BY <1>1, SMTT(20) DEF IndInv, DbInv, WorkOk
<1>9. QED
  BY <1>3, <1>4, <1>5, <1>6, <1>7, <1>8 DEF IndInv, DbInv

-----------------------------------------------------------------------------
(* The theorems.                                                           *)

\* A stuttering step changes nothing the invariant is about.
LEMMA Stutter == ASSUME IndInv, UNCHANGED vars PROVE IndInv'
BY DEF vars, IndInv, TypeOK, MemoryMirrorsDb, OneHome, SignerInv, SignaturesInv, DbInv,
       RowsOk, WorkOk, Registered, Up

\* Every step of the main loop, of the signing task, of a crash or of a
\* restart preserves the inductive invariant.
LEMMA NextInv == ASSUME IndInv, [Next]_vars PROVE IndInv'
<1>1. ASSUME NEW i \in Batch, MainLoop(i) PROVE IndInv'
  <2> USE <1>1
  <2>1. CASE set_batch(i)
    BY <2>1, set_batch_step
  <2>2. CASE set_batch_torn(i)
    BY <2>2, set_batch_torn_step
  <2>3. CASE mark_batch_submitted(i)
    BY <2>3, mark_batch_submitted_step
  <2>4. CASE \E tx \in Tx : mark_dispatched(i, tx)
    BY <2>4, mark_dispatched_step
  <2>5. CASE \E tx \in Tx, l1 \in L1Block \ {0} : mark_dispatched_external(i, tx, l1)
    BY <2>5, mark_dispatched_external_step
  <2>6. CASE \E tx \in Tx : record_rbf_bump(i, tx)
    BY <2>6, record_rbf_bump_step
  <2>7. CASE \E l1 \in L1Block \ {0} : record_dispatched_l1_block(i, l1)
    BY <2>7, record_dispatched_l1_block_step
  <2>8. CASE finalize_dispatched(i)
    BY <2>8, finalize_dispatched_step
  <2>9. CASE undispatch(i)
    BY <2>9, undispatch_step
  <2>10. CASE try_sign_next_batch(i)
    BY <2>10, try_sign_next_batch_step
  <2>11. QED
    BY <2>1, <2>2, <2>3, <2>4, <2>5, <2>6, <2>7, <2>8, <2>9, <2>10 DEF MainLoop
<1>2. ASSUME NEW b \in Block, insert_response(b) PROVE IndInv'
  BY <1>2, insert_response_step
<1>3. CASE sign_batch_io_check
  BY <1>3, sign_batch_io_check_step
<1>4. CASE sign_batch_io_save
  BY <1>4, sign_batch_io_save_step
<1>5. CASE sign_batch_io_invalid
  BY <1>5, sign_batch_io_invalid_step
<1>6. CASE sign_batch_io_fail
  BY <1>6, sign_batch_io_fail_step
<1>7. CASE SignDone
  BY <1>7, on_sign_done_signed_step, on_sign_done_invalid_step,
     on_sign_done_invalid_torn_step, on_sign_done_failed_step
  DEF SignDone
<1>8. CASE wipe_for_revert
  BY <1>8, wipe_for_revert_step
<1>9. CASE Crash
  BY <1>9, Crash_step
<1>10. CASE with_db
  BY <1>10, with_db_step
<1>11. CASE UNCHANGED vars
  BY <1>11, Stutter
<1>12. QED
  BY <1>1, <1>2, <1>3, <1>4, <1>5, <1>6, <1>7, <1>8, <1>9, <1>10, <1>11 DEF Next

\* The invariant holds throughout: every handler, write of the signing task,
\* crash, wipe and restart keeps it.
THEOREM Inductive == Spec => []IndInv
<1>1. Init => IndInv
  BY InitInv
<1>2. IndInv /\ [Next]_vars => IndInv'
  BY NextInv
<1>3. QED
  BY <1>1, <1>2, PTL DEF Spec

\* The maps and tables keep their types.
THEOREM TypeCorrect == Spec => []TypeOK
<1>1. IndInv => TypeOK
  BY DEF IndInv
<1>2. QED
  BY <1>1, Inductive, PTL

\* Whenever the main loop runs, a crash would bring it back to the maps it
\* has now: every method mirrors its change into the database.
THEOREM MirrorTheorem == Spec => []MemoryMirrorsDb
<1>1. IndInv => MemoryMirrorsDb
  BY DEF IndInv
<1>2. QED
  BY <1>1, Inductive, PTL

\* No batch is pending and dispatched at once, in any state of the database.
THEOREM OneHomeTheorem == Spec => []OneHome
<1>1. IndInv => OneHome
  BY DEF IndInv
<1>2. QED
  BY <1>1, Inductive, PTL

\* A signature that may still be dispatched is never in memory only.
THEOREM SignatureDurable == Spec => []SignatureIsDurable
<1>1. IndInv => SignatureIsDurable
  BY DEF IndInv, SignaturesInv, SignatureIsDurable, IsSigned
<1>2. QED
  BY <1>1, Inductive, PTL

\* The startup resume finds the signature of every own dispatched row.
THEOREM ResumeTheorem == Spec => []ResumeFindsSignature
<1>1. IndInv => ResumeFindsSignature
  BY DEF IndInv, DbInv, RowsOk, ResumeFindsSignature
<1>2. QED
  BY <1>1, Inductive, PTL

\* No signature made before a BatchReverted wipe is cached after it.
THEOREM NoStaleTheorem == Spec => []NoStaleSignature
<1>1. IndInv => NoStaleSignature
  BY DEF IndInv, SignaturesInv, NoStaleSignature
<1>2. QED
  BY <1>1, Inductive, PTL

\* Neither a crash nor a purge loses the responses an unsigned pending
\* batch still needs.
THEOREM WorkSurvives == Spec => []ExecutedWorkSurvives
<1>1. IndInv => ExecutedWorkSurvives
  BY DEF IndInv, DbInv, WorkOk, ExecutedWorkSurvives
<1>2. QED
  BY <1>1, Inductive, PTL
-----------------------------------------------------------------------------
(* The accumulator implements BatchLifecycle, and external rows stay: two  *)
(* facts about steps, from the inductive invariant.                        *)

stage == [i \in Batch |-> StageOf(i)]

Owner(i) == db.dispatched[i].own

\* A step that leaves the pending rows and the owners alone leaves the
\* stage of every batch alone.
LEMMA StageSame ==
    ASSUME db'.batches = db.batches,
           \A j \in Batch : Owner(j)' = Owner(j)
    PROVE  stage' = stage
BY DEF stage, StageOf, Owner, IsPending

\* A step that changes the rows of batch i only moves the stage of i only.
LEMMA StageMoves ==
    ASSUME NEW i \in Batch, NEW to,
           \A j \in Batch \ {i} : Owner(j)' = Owner(j) /\ db'.batches[j] = db.batches[j],
           StageOf(i)' = to
    PROVE  stage' = [stage EXCEPT ![i] = to]
<1>1. \A j \in Batch \ {i} : StageOf(j)' = StageOf(j)
  BY DEF StageOf, Owner, IsPending
<1>2. QED
  BY <1>1, Zenon DEF stage

\* Stages, row by row.
LEMMA StageRows ==
    ASSUME IndInv, NEW i \in Batch
    PROVE  /\ IsPending(db, i) => StageOf(i) = db.batches[i]
           /\ IsPending(db, i) => StageOf(i) \in {"committed", "submitted"}
           /\ ~Registered(i) => StageOf(i) = "unknown"
           /\ IsDispatched(db, i) => StageOf(i) \in {"own", "external"}
           /\ IsDispatched(db, i) /\ Owner(i) = "yes" => StageOf(i) = "own"
           /\ IsDispatched(db, i) /\ Owner(i) = "no" => StageOf(i) = "external"
<1>1. /\ db.batches[i] \in PendingRow
      /\ db.dispatched[i] \in DispatchedRow \cup {NoRow}
      /\ ~(IsPending(db, i) /\ IsDispatched(db, i))
  BY DEF IndInv, TypeOK, Tables, OneHome
<1>2. CASE db.dispatched[i] = NoRow
  BY <1>1, <1>2 DEF StageOf, Owner, Registered, IsPending, IsDispatched, NoRow, PendingRow
<1>3. CASE db.dispatched[i] \in DispatchedRow
  <2>1. Owner(i) \in {"yes", "no"} /\ db.dispatched[i] # NoRow
    BY <1>3 DEF Owner, DispatchedRow, NoRow
  <2>2. QED
    BY <1>1, <2>1 DEF StageOf, Owner, Registered, IsDispatched
<1>4. QED
  BY <1>1, <1>2, <1>3

StepOk == (Lifecycle!Next \/ UNCHANGED stage) /\ ExternalRowStep

\* Steps that stutter: no pending row and no owner changes.
LEMMA SameStep ==
    ASSUME db'.batches = db.batches, \A j \in Batch : Owner(j)' = Owner(j)
    PROVE  StepOk
BY StageSame DEF StepOk, ExternalRowStep, Owner

\* Steps that move one batch, as BatchLifecycle allows.
LEMMA MoveStep ==
    ASSUME NEW i \in Batch, NEW to,
           \A j \in Batch \ {i} : Owner(j)' = Owner(j) /\ db'.batches[j] = db.batches[j],
           StageOf(i)' = to,
           \/ StageOf(i) = "unknown" /\ to \in {"committed", "submitted"}
           \/ StageOf(i) = "committed" /\ to = "submitted"
           \/ StageOf(i) \in {"committed", "submitted"} /\ to = "external"
           \/ StageOf(i) = "submitted" /\ to = "own"
           \/ StageOf(i) = "own" /\ to = "submitted"
           \/ StageOf(i) \in {"own", "external"} /\ to = "unknown",
           Owner(i) # "no" \/ i \in finalized'
    PROVE  StepOk
<1>1. stage' = [stage EXCEPT ![i] = to] /\ stage[i] = StageOf(i)
  BY StageMoves DEF stage
<1>2. Lifecycle!Next
  BY <1>1, Zenon DEF stage, Lifecycle!Next, Lifecycle!Goes, Lifecycle!Commit, Lifecycle!Submit,
     Lifecycle!Preconfirmed, Lifecycle!Broadcast, Lifecycle!Retry, Lifecycle!Finalize
<1>3. ExternalRowStep
  BY DEF ExternalRowStep, Owner
<1>4. QED
  BY <1>2, <1>3 DEF StepOk

\* The signing task, responses, crashes, torn writes and restarts stutter.
LEMMA StutteringActions ==
    ASSUME IndInv,
           \/ \E b \in Block : insert_response(b)
           \/ sign_batch_io_check \/ sign_batch_io_save \/ sign_batch_io_invalid
           \/ sign_batch_io_fail \/ SignDone \/ Crash \/ with_db
           \/ \E i \in Batch : set_batch_torn(i) \/ try_sign_next_batch(i)
           \/ UNCHANGED vars
    PROVE  StepOk
<1>1. db'.batches = db.batches /\ db'.dispatched = db.dispatched
  <2>0. db \in Tables
    BY DEF IndInv, TypeOK
  <2>1. CASE \E b \in Block : insert_response(b)
    BY <2>0, <2>1 DEF insert_response, Tables
  <2>2. CASE sign_batch_io_save
    BY <2>0, <2>2 DEF sign_batch_io_save, Tables
  <2>3. CASE on_sign_done_signed
    BY <2>0, <2>3, PurgeFacts DEF on_sign_done_signed
  <2>4. CASE \E B \in SUBSET Block : on_sign_done_invalid(B)
    <3>1. PICK B \in SUBSET Block : on_sign_done_invalid(B)
      BY <2>4
    <3>2. signer.batch \in Batch /\ db' = Unsign(Purge(db, B), signer.batch)
      BY <3>1, SignerType DEF on_sign_done_invalid, IndInv, TypeOK
    <3> DEFINE d == Purge(db, B)
    <3>3. d \in Tables /\ d.batches = db.batches /\ d.dispatched = db.dispatched
      BY <2>0, PurgeFacts
    <3>4. db' = Unsign(d, signer.batch)
      BY <3>2
    <3> HIDE DEF d
    <3>5. Unsign(d, signer.batch).batches = d.batches /\ Unsign(d, signer.batch).dispatched = d.dispatched
      BY <3>2, <3>3, UnsignFacts, Zenon
    <3>6. QED
      BY <3>3, <3>4, <3>5
  <2>5. CASE \E B \in SUBSET Block : on_sign_done_invalid_torn(B)
    BY <2>0, <2>5, PurgeFacts DEF on_sign_done_invalid_torn
  <2>6. CASE with_db
    BY <2>0, <2>6 DEF with_db, Tables
  <2>7. CASE \E i \in Batch : set_batch_torn(i)
    BY <2>0, <2>7 DEF set_batch_torn, Tables
  <2>8. CASE \/ sign_batch_io_check \/ sign_batch_io_invalid \/ sign_batch_io_fail
             \/ on_sign_done_failed \/ Crash \/ UNCHANGED vars
             \/ \E i \in Batch : try_sign_next_batch(i)
    BY <2>8 DEF sign_batch_io_check, sign_batch_io_invalid, sign_batch_io_fail,
       on_sign_done_failed, Crash, vars, try_sign_next_batch
  <2>9. QED
    BY <2>1, <2>2, <2>3, <2>4, <2>5, <2>6, <2>7, <2>8 DEF SignDone
<1>2. QED
  BY <1>1, SameStep DEF Owner

\* set_batch is Commit.
LEMMA CommitStep == ASSUME IndInv, NEW i \in Batch, set_batch(i) PROVE StepOk
<1>1. PICK row \in {"committed", "submitted"} : db' = Register(db, i, row)
  BY DEF set_batch
<1>2. ~Registered(i)
  BY DEF set_batch, SetBatchGuard, IndInv, MemoryMirrorsDb, Registered, IsPending, IsDispatched
<1>3. db'.batches = [db.batches EXCEPT ![i] = row] /\ db'.dispatched = db.dispatched
  <2>1. row \in PendingRow
    BY DEF PendingRow
  <2>2. QED
    BY <1>1, <2>1, RegisterFacts DEF IndInv, TypeOK
<1>4. StageOf(i) = "unknown" /\ Owner(i) = "absent"
  BY <1>2, StageRows DEF Registered, IsDispatched, Owner, NoRow
<1>5. StageOf(i)' = row
  BY <1>3, <1>4 DEF StageOf, Owner, IsPending, IndInv, TypeOK, Tables
<1>6. QED
  BY <1>3, <1>4, <1>5, MoveStep DEF Owner, IndInv, TypeOK, Tables

\* mark_batch_submitted is Submit, or stutters.
LEMMA SubmitStep == ASSUME IndInv, NEW i \in Batch, mark_batch_submitted(i) PROVE StepOk
<1>1. CASE IsPending(mem, i)
  <2>1. IsPending(db, i) /\ db' = [db EXCEPT !.batches[i] = "submitted"]
    BY <1>1 DEF mark_batch_submitted, IndInv, MemoryMirrorsDb, IsPending
  <2>2. db'.batches = [db.batches EXCEPT ![i] = "submitted"] /\ db'.dispatched = db.dispatched
    BY <2>1 DEF IndInv, TypeOK, Tables
  <2>3. /\ ~IsDispatched(db, i)
        /\ StageOf(i) \in {"committed", "submitted"}
        /\ StageOf(i) = db.batches[i]
    BY <2>1, StageRows DEF IndInv, OneHome
  <2>4. CASE StageOf(i) = "submitted"
    <3>1. db.batches \in [Batch -> PendingRow] /\ db.batches[i] = "submitted"
      BY <2>3, <2>4 DEF IndInv, TypeOK, Tables
    <3>2. db'.batches = db.batches
      BY <2>2, <3>1
    <3>3. QED
      BY <2>2, <3>2, SameStep DEF Owner
  <2>5. CASE StageOf(i) = "committed"
    <3>1. Owner(i) = "absent"
      BY <2>3 DEF IsDispatched, Owner, NoRow
    <3>2. StageOf(i)' = "submitted"
      BY <2>2, <3>1 DEF StageOf, Owner, IsPending, IndInv, TypeOK, Tables
    <3>3. QED
      BY <2>2, <2>5, <3>1, <3>2, MoveStep DEF Owner, IndInv, TypeOK, Tables
  <2>6. QED
    BY <2>3, <2>4, <2>5
<1>2. CASE ~IsPending(mem, i)
  <2>1. db' = [db EXCEPT !.early = @ \cup {i}]
    BY <1>2 DEF mark_batch_submitted
  <2>2. QED
    BY <2>1, SameStep DEF Owner, IndInv, TypeOK, Tables
<1>3. QED
  BY <1>1, <1>2

\* mark_dispatched is Broadcast: the inductive invariant says that a signed
\* batch that is not finalized has its blobs accepted.
LEMMA BroadcastStep ==
    ASSUME IndInv, NEW i \in Batch, NEW tx \in Tx, mark_dispatched(i, tx)
    PROVE  StepOk
<1>1. PICK row \in DispatchedRow : db' = Move(db, i, row) /\ row.own = "yes"
  BY AccumulatorAssumption DEF mark_dispatched, DispatchedRow, AccumulatorAssumption
<1>2. IsPending(db, i) /\ StageOf(i) = "submitted" /\ ~IsDispatched(db, i)
  <2>1. IsPending(db, i) /\ IsSigned(db, i) /\ i \notin finalized
    BY Zenon DEF mark_dispatched, IndInv, MemoryMirrorsDb, SignaturesInv, IsPending, Up
  <2>2. db.batches[i] = "submitted"
    BY <2>1 DEF IndInv, DbInv, RowsOk
  <2>3. QED
    BY <2>1, <2>2, StageRows DEF IndInv, OneHome
<1>3. /\ db'.batches = [db.batches EXCEPT ![i] = "none"]
      /\ db'.dispatched = [db.dispatched EXCEPT ![i] = row]
  BY <1>1, MoveFacts DEF IndInv, TypeOK
<1>4. StageOf(i)' = "own" /\ Owner(i) = "absent"
  BY <1>1, <1>2, <1>3 DEF StageOf, Owner, IsDispatched, NoRow, IndInv, TypeOK, Tables
<1>5. QED
  BY <1>2, <1>3, <1>4, MoveStep DEF Owner, IndInv, TypeOK, Tables

\* mark_dispatched_external is Preconfirmed.
LEMMA PreconfirmedStep ==
    ASSUME IndInv, NEW i \in Batch, NEW tx \in Tx, NEW l1 \in L1Block,
           mark_dispatched_external(i, tx, l1)
    PROVE  StepOk
<1>1. PICK row \in DispatchedRow : db' = Move(db, i, row) /\ row.own = "no"
  BY DEF mark_dispatched_external, DispatchedRow
<1>2. IsPending(db, i)
  BY DEF mark_dispatched_external, IndInv, MemoryMirrorsDb, IsPending, Up
<1>3. StageOf(i) \in {"committed", "submitted"} /\ ~IsDispatched(db, i)
  BY <1>2, StageRows DEF IndInv, OneHome
<1>4. /\ db'.batches = [db.batches EXCEPT ![i] = "none"]
      /\ db'.dispatched = [db.dispatched EXCEPT ![i] = row]
  BY <1>1, MoveFacts DEF IndInv, TypeOK
<1>5. StageOf(i)' = "external" /\ Owner(i) = "absent"
  BY <1>1, <1>3, <1>4 DEF StageOf, Owner, IsDispatched, NoRow, IndInv, TypeOK, Tables
<1>6. QED
  BY <1>3, <1>4, <1>5, MoveStep DEF Owner, IndInv, TypeOK, Tables

\* A fee bump and the landed block change a row and not its owner.
LEMMA RowUpdateStep ==
    ASSUME IndInv, NEW i \in Batch,
           \/ \E tx \in Tx : record_rbf_bump(i, tx)
           \/ \E l1 \in L1Block : record_dispatched_l1_block(i, l1)
    PROVE  StepOk
<1>1. PICK row \in DispatchedRow :
         db' = [db EXCEPT !.dispatched[i] = row] /\ row.own = Owner(i)
  BY DEF record_rbf_bump, record_dispatched_l1_block, DispatchedRow, IsDispatched, Owner,
         IndInv, TypeOK, Tables, MemoryMirrorsDb, Up
<1>2. db'.batches = db.batches /\ db'.dispatched = [db.dispatched EXCEPT ![i] = row]
  BY <1>1 DEF IndInv, TypeOK, Tables
<1>3. QED
  BY <1>1, <1>2, SameStep DEF Owner, IndInv, TypeOK, Tables

\* finalize_dispatched is Finalize.
LEMMA FinalizeStep == ASSUME IndInv, NEW i \in Batch, finalize_dispatched(i) PROVE StepOk
<1>1. db' = Forget(db, i) /\ i \in finalized' /\ IsDispatched(db, i)
  BY DEF finalize_dispatched, IndInv, MemoryMirrorsDb, IsDispatched, Up
<1>2. db'.batches = db.batches /\ db'.dispatched = [db.dispatched EXCEPT ![i] = NoRow]
  BY <1>1, ForgetFacts, Zenon DEF IndInv, TypeOK
<1>3. StageOf(i) \in {"own", "external"} /\ ~IsPending(db, i)
  BY <1>1, StageRows DEF IndInv, OneHome
<1>4. StageOf(i)' = "unknown"
  BY <1>2, <1>3 DEF StageOf, IsPending, NoRow, IndInv, TypeOK, Tables
<1>5. QED
  BY <1>1, <1>2, <1>3, <1>4, MoveStep DEF Owner, IndInv, TypeOK, Tables

\* undispatch is Retry.
LEMMA RetryStep == ASSUME IndInv, NEW i \in Batch, undispatch(i) PROVE StepOk
<1>1. db' = Restore(db, i) /\ IsDispatched(db, i) /\ Owner(i) = "yes"
  BY DEF undispatch, IndInv, MemoryMirrorsDb, IsDispatched, Owner, Up
<1>2. /\ db'.batches = [db.batches EXCEPT ![i] = "submitted"]
      /\ db'.dispatched = [db.dispatched EXCEPT ![i] = NoRow]
  BY <1>1, RestoreFacts DEF IndInv, TypeOK
<1>3. StageOf(i) = "own"
  BY <1>1, StageRows
<1>4. StageOf(i)' = "submitted"
  BY <1>2 DEF StageOf, IsPending, NoRow, IndInv, TypeOK, Tables
<1>5. QED
  BY <1>1, <1>2, <1>3, <1>4, MoveStep DEF Owner, IndInv, TypeOK, Tables

\* wipe_for_revert is Revert.
LEMMA RevertStep == ASSUME IndInv, wipe_for_revert PROVE StepOk
<1>1. db' = EmptyTables /\ epoch' # epoch
  BY AccumulatorAssumption DEF wipe_for_revert, IndInv, TypeOK, Epoch, AccumulatorAssumption
<1>2. stage' = [i \in Batch |-> "unknown"]
  BY <1>1, EmptyFacts DEF stage, StageOf, IsPending, NoRow
<1>3. QED
  BY <1>1, <1>2 DEF StepOk, ExternalRowStep, stage, Lifecycle!Next, Lifecycle!Revert

\* Every step.
LEMMA NextStepOk == ASSUME IndInv, [Next]_vars PROVE StepOk
<1>1. ASSUME NEW i \in Batch, MainLoop(i) PROVE StepOk
  BY <1>1, CommitStep, SubmitStep, BroadcastStep, PreconfirmedStep, RowUpdateStep,
     FinalizeStep, RetryStep, StutteringActions DEF MainLoop
<1>2. QED
  BY <1>1, RevertStep, StutteringActions DEF Next

\* The durable stage of every batch follows BatchLifecycle: no crash, torn
\* write, retry or restart moves a batch, only our own dispatch is taken
\* back, and only a batch with accepted blobs is broadcast.
THEOREM Refinement == Spec => ImplementsLifecycle
<1>1. Init => Lifecycle!Init
  BY EmptyFacts DEF Init, Lifecycle!Init, StageOf, IsPending, NoRow
<1>2. IndInv /\ [Next]_vars => [Lifecycle!Next]_[i \in Batch |-> StageOf(i)]
  BY NextStepOk DEF StepOk, stage
<1>3. QED
  BY <1>1, <1>2, Inductive, PTL DEF Spec, ImplementsLifecycle, Lifecycle!Spec

\* A row that another submitter owns leaves the table only when finalized.
THEOREM ExternalRowsTheorem == Spec => ExternalRowsStay
<1>1. IndInv /\ [Next]_vars => ExternalRowStep
  BY NextStepOk DEF StepOk
<1>2. QED
  BY <1>1, Inductive, PTL DEF Spec, ExternalRowsStay
=============================================================================
