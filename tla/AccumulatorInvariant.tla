------------------------ MODULE AccumulatorInvariant ------------------------
(***************************************************************************)
(* The inductive invariant of Accumulator, and the proof that the loop's   *)
(* operations on batches and the signing task keep it: for every set of    *)
(* batches, every assignment of disjoint block ranges to them and any      *)
(* number of reverts.                                                      *)
(***************************************************************************)
EXTENDS Accumulator, TLAPS

Registered(i) == IsPending(db, i) \/ IsDispatched(db, i)

\* The signing task works for the epoch of the process.  Its batch is
\* signed in no map yet, so it is not dispatched by us; unless finalized it
\* is still there, pending with its blobs accepted or preconfirmed by
\* another, and a reported signature is in the database.
SignerInv ==
    /\ process = "down" => signer = Idle
    /\ Up /\ signer # Idle =>
          /\ signer.sig = epoch
          /\ \A i \in Batch : signer.batch = i =>
                /\ db.dispatched[i].own # "yes"
                /\ i \notin finalized =>
                      /\ ~IsSigned(mem, i)
                      /\ db.dispatched[i].own = "no" \/ db.batches[i] = "submitted"
                      /\ signer.phase = "signed" => IsSigned(db, i)
                      /\ signer.phase \in {"calling", "invalid"} => ~IsSigned(db, i)

\* What the maps and the signature rows may hold while the loop runs.
SignaturesInv ==
    Up => \A i \in Batch :
             /\ mem.signatures[i] \in {NoSignature, epoch}
             /\ db.signatures[i] \in {NoSignature, epoch}
             /\ i \notin finalized /\ IsSigned(mem, i) => IsSigned(db, i)
             /\ i \notin finalized /\ IsSigned(db, i) => Registered(i)

\* What is true of the database at every moment, crashes included.
RowsOk(i) ==
    /\ Registered(i) => /\ process # "draining"
                        /\ db.signatures[i] \in {NoSignature, epoch}
    /\ db.dispatched[i].own = "yes" => IsSigned(db, i) /\ i \notin finalized
    /\ i \notin finalized /\ IsPending(db, i) /\ IsSigned(db, i)
          => db.batches[i] = "submitted"

WorkOk(i) ==
    i \notin finalized /\ (~Registered(i) \/ (IsPending(db, i) /\ ~IsSigned(db, i)))
        => Span[i] \cap executed \subseteq db.responses

DbInv == \A i \in Batch : RowsOk(i) /\ WorkOk(i)

IndInv == /\ TypeOK
          /\ MemoryMirrorsDb
          /\ OneHome
          /\ SignerInv
          /\ SignaturesInv
          /\ DbInv
-----------------------------------------------------------------------------
(* The table updates, field by field.                                      *)

\* Register (set_batch) keeps the shape of the tables and changes only the
\* pending row and the buffered flag of batch i.
LEMMA RegisterFacts ==
    ASSUME NEW s \in Tables, NEW i \in Batch, NEW row \in PendingRow
    PROVE  LET t == Register(s, i, row)
           IN  /\ t \in Tables
               /\ t.batches = [s.batches EXCEPT ![i] = row]
               /\ t.early = s.early \ {i}
               /\ t.responses = s.responses
               /\ t.signatures = s.signatures
               /\ t.dispatched = s.dispatched
BY Zenon DEF Register, Tables

\* Move (mark_dispatched and its external form) moves the row of batch i.
LEMMA MoveFacts ==
    ASSUME NEW s \in Tables, NEW i \in Batch, NEW row \in DispatchedRow
    PROVE  LET t == Move(s, i, row)
           IN  /\ t \in Tables
               /\ t.batches = [s.batches EXCEPT ![i] = "none"]
               /\ t.early = s.early
               /\ t.responses = s.responses
               /\ t.signatures = s.signatures
               /\ t.dispatched = [s.dispatched EXCEPT ![i] = row]
BY Zenon DEF Move, Tables, PendingRow

\* Purge (purge_responses) removes responses and nothing else.
LEMMA PurgeFacts ==
    ASSUME NEW s \in Tables, NEW B
    PROVE  LET t == Purge(s, B)
           IN  /\ t \in Tables
               /\ t.batches = s.batches
               /\ t.early = s.early
               /\ t.responses = s.responses \ B
               /\ t.signatures = s.signatures
               /\ t.dispatched = s.dispatched
BY DEF Purge, Tables

\* Unsign (delete_batch_signature) removes one signature.
LEMMA UnsignFacts ==
    ASSUME NEW s \in Tables, NEW i \in Batch
    PROVE  LET t == Unsign(s, i)
           IN  /\ t \in Tables
               /\ t.batches = s.batches
               /\ t.early = s.early
               /\ t.responses = s.responses
               /\ t.signatures = [s.signatures EXCEPT ![i] = NoSignature]
               /\ t.dispatched = s.dispatched
BY AccumulatorAssumption, SMTT(20) DEF Unsign, Tables, Signature, NoSignature

\* Forget (finalize_dispatched_batch) removes the dispatched row, the
\* responses and the signature of batch i together.
LEMMA ForgetFacts ==
    ASSUME NEW s \in Tables, NEW i \in Batch
    PROVE  LET t == Forget(s, i)
           IN  /\ t \in Tables
               /\ t.batches = s.batches
               /\ t.early = s.early
               /\ t.responses = s.responses \ Span[i]
               /\ t.signatures = [s.signatures EXCEPT ![i] = NoSignature]
               /\ t.dispatched = [s.dispatched EXCEPT ![i] = NoRow]
<1> DEFINE u == [s EXCEPT !.dispatched[i] = NoRow]
<1>1. /\ u \in Tables
      /\ u.batches = s.batches /\ u.early = s.early
      /\ u.responses = s.responses /\ u.signatures = s.signatures
      /\ u.dispatched = [s.dispatched EXCEPT ![i] = NoRow]
  BY DEF Tables
<1> DEFINE v == Purge(u, Span[i])
<1>2. Forget(s, i) = Unsign(v, i)
  BY DEF Forget
<1> HIDE DEF u
<1>3. /\ v \in Tables
      /\ v.batches = u.batches /\ v.early = u.early
      /\ v.responses = u.responses \ Span[i] /\ v.signatures = u.signatures
      /\ v.dispatched = u.dispatched
  BY <1>1, PurgeFacts
<1> HIDE DEF v
<1>4. QED
  BY <1>1, <1>2, <1>3, UnsignFacts

\* Restore (undispatch_batch) is the way back of Move, always to a row with
\* blobs_accepted set.
LEMMA RestoreFacts ==
    ASSUME NEW s \in Tables, NEW i \in Batch
    PROVE  LET t == Restore(s, i)
           IN  /\ t \in Tables
               /\ t.batches = [s.batches EXCEPT ![i] = "submitted"]
               /\ t.early = s.early
               /\ t.responses = s.responses
               /\ t.signatures = s.signatures
               /\ t.dispatched = [s.dispatched EXCEPT ![i] = NoRow]
BY Zenon DEF Restore, Tables, PendingRow
-----------------------------------------------------------------------------
(* The empty tables.                                                       *)

\* The tables of a new or wiped database are well typed and hold no row.
LEMMA EmptyFacts ==
    /\ EmptyTables \in Tables
    /\ EmptyTables.batches = [i \in Batch |-> "none"]
    /\ EmptyTables.early = {}
    /\ EmptyTables.responses = {}
    /\ EmptyTables.signatures = [i \in Batch |-> NoSignature]
    /\ EmptyTables.dispatched = [i \in Batch |-> NoRow]
BY AccumulatorAssumption DEF EmptyTables, Tables, PendingRow, Signature, NoSignature

\* A process that starts on an empty database satisfies the invariant.
LEMMA InitInv == Init => IndInv
<1> SUFFICES ASSUME Init PROVE IndInv
  OBVIOUS
<1>1. TypeOK
  BY EmptyFacts, AccumulatorAssumption DEF Init, TypeOK, SignTask, Idle, Epoch
<1>2. MemoryMirrorsDb /\ OneHome /\ SignerInv
  BY EmptyFacts DEF Init, MemoryMirrorsDb, OneHome, SignerInv, IsPending
<1>3. SignaturesInv /\ DbInv
  BY EmptyFacts DEF Init, SignaturesInv, DbInv, RowsOk, WorkOk, IsSigned, NoRow
<1>4. QED
  BY <1>1, <1>2, <1>3 DEF IndInv

-----------------------------------------------------------------------------
(* One lemma per action: it preserves the inductive invariant.             *)

\* set_batch registers a batch that is in neither table.
LEMMA set_batch_step ==
    ASSUME IndInv, NEW i \in Batch, set_batch(i)
    PROVE  IndInv'
<1>1. PICK row \in PendingRow :
         /\ row # "none"
         /\ mem' = Register(mem, i, row) /\ db' = Register(db, i, row)
         /\ ~IsPending(mem, i) /\ ~IsDispatched(mem, i) /\ Up
         /\ UNCHANGED <<process, signer, epoch, executed, finalized>>
  BY DEF set_batch, SetBatchGuard, PendingRow
<1>2. /\ mem' \in Tables /\ db' \in Tables
      /\ mem'.batches = [mem.batches EXCEPT ![i] = row]
      /\ db'.batches = [db.batches EXCEPT ![i] = row]
      /\ mem'.early = mem.early \ {i} /\ db'.early = db.early \ {i}
      /\ mem'.responses = mem.responses /\ db'.responses = db.responses
      /\ mem'.signatures = mem.signatures /\ db'.signatures = db.signatures
      /\ mem'.dispatched = mem.dispatched /\ db'.dispatched = db.dispatched
  BY <1>1, RegisterFacts DEF IndInv, TypeOK
<1> USE DEF IsPending, IsDispatched, IsSigned, Registered, Up, TypeOK, Tables
<1>3. TypeOK'
  BY <1>1, <1>2 DEF IndInv
<1>4. MemoryMirrorsDb' /\ OneHome'
  BY <1>1, <1>2 DEF IndInv, MemoryMirrorsDb, OneHome
<1>5. SignerInv'
  BY <1>1, <1>2 DEF IndInv, SignerInv, MemoryMirrorsDb
<1>6. SignaturesInv'
  BY <1>1, <1>2 DEF IndInv, SignaturesInv
<1>7. \A j \in Batch : RowsOk(j)'
  BY <1>1, <1>2 DEF IndInv, SignaturesInv, DbInv, RowsOk, MemoryMirrorsDb
<1>8. \A j \in Batch : WorkOk(j)'
  BY <1>1, <1>2 DEF IndInv, DbInv, WorkOk, MemoryMirrorsDb
<1>9. QED
  BY <1>3, <1>4, <1>5, <1>6, <1>7, <1>8 DEF IndInv, DbInv

\* Dying between the two writes of set_batch leaves a sound database.
LEMMA set_batch_torn_step ==
    ASSUME IndInv, NEW i \in Batch, set_batch_torn(i)
    PROVE  IndInv'
<1>1. /\ db' = [db EXCEPT !.early = @ \ {i}]
      /\ mem' = EmptyTables /\ process' = "down" /\ signer' = Idle
      /\ process = "up" /\ UNCHANGED <<epoch, executed, finalized>>
  BY DEF set_batch_torn, SetBatchGuard, Die, Up
<1>2. /\ mem' \in Tables /\ db' \in Tables
      /\ mem'.batches = EmptyTables.batches /\ db'.batches = db.batches
      /\ mem'.early = EmptyTables.early /\ db'.early = db.early \ {i}
      /\ mem'.responses = EmptyTables.responses /\ db'.responses = db.responses
      /\ mem'.signatures = EmptyTables.signatures /\ db'.signatures = db.signatures
      /\ mem'.dispatched = EmptyTables.dispatched /\ db'.dispatched = db.dispatched
  BY <1>1, EmptyFacts DEF IndInv, TypeOK, Tables
<1> USE DEF IsPending, IsDispatched, IsSigned, Registered, Up, TypeOK, Tables
<1>3. TypeOK'
  BY <1>1, <1>2 DEF IndInv, SignTask, Idle
<1>4. MemoryMirrorsDb' /\ OneHome'
  BY <1>1 DEF IndInv, MemoryMirrorsDb, OneHome
<1>5. SignerInv'
  BY <1>1 DEF SignerInv
<1>6. SignaturesInv'
  BY <1>1 DEF SignaturesInv
<1>7. \A j \in Batch : RowsOk(j)'
  BY <1>1 DEF IndInv, DbInv, RowsOk
<1>8. \A j \in Batch : WorkOk(j)'
  BY <1>1 DEF IndInv, DbInv, WorkOk
<1>9. QED
  BY <1>3, <1>4, <1>5, <1>6, <1>7, <1>8 DEF IndInv, DbInv

\* insert_response only adds a response.
LEMMA insert_response_step ==
    ASSUME IndInv, NEW b \in Block, insert_response(b)
    PROVE  IndInv'
<1>1. /\ mem' = [mem EXCEPT !.responses = @ \cup {b}]
      /\ db' = [db EXCEPT !.responses = @ \cup {b}]
      /\ executed' = executed \cup {b} /\ Up
      /\ UNCHANGED <<process, signer, epoch, finalized>>
  BY DEF insert_response
<1>2. /\ mem' \in Tables /\ db' \in Tables
      /\ mem'.batches = mem.batches /\ db'.batches = db.batches
      /\ mem'.early = mem.early /\ db'.early = db.early
      /\ mem'.responses = mem.responses \cup {b} /\ db'.responses = db.responses \cup {b}
      /\ mem'.signatures = mem.signatures /\ db'.signatures = db.signatures
      /\ mem'.dispatched = mem.dispatched /\ db'.dispatched = db.dispatched
  BY <1>1, Zenon DEF IndInv, TypeOK, Tables
<1>3. TypeOK'
  BY <1>1, <1>2, Zenon DEF IndInv, TypeOK
<1> USE DEF IsPending, IsDispatched, IsSigned, Registered, Up, TypeOK, Tables
<1>4. MemoryMirrorsDb' /\ OneHome'
  BY <1>1 DEF IndInv, MemoryMirrorsDb, OneHome
<1>5. SignerInv'
  BY <1>1 DEF IndInv, SignerInv
<1>6. SignaturesInv'
  BY <1>1 DEF IndInv, SignaturesInv
<1>7. \A j \in Batch : RowsOk(j)'
  BY <1>1 DEF IndInv, DbInv, RowsOk
<1>8. \A j \in Batch : WorkOk(j)'
  BY <1>1 DEF IndInv, DbInv, WorkOk
<1>9. QED
  BY <1>3, <1>4, <1>5, <1>6, <1>7, <1>8 DEF IndInv, DbInv

\* mark_dispatched moves a signed batch that is not finalized.
LEMMA mark_dispatched_step ==
    ASSUME IndInv, NEW i \in Batch, NEW tx \in Tx, mark_dispatched(i, tx)
    PROVE  IndInv'
<1>1. PICK row \in DispatchedRow :
         /\ mem' = Move(mem, i, row) /\ db' = Move(db, i, row) /\ row.own = "yes"
         /\ IsPending(mem, i) /\ IsSigned(mem, i) /\ i \notin finalized /\ Up
         /\ UNCHANGED <<process, signer, epoch, executed, finalized>>
  BY AccumulatorAssumption DEF mark_dispatched, DispatchedRow
<1>2. /\ mem' \in Tables /\ db' \in Tables
      /\ mem'.batches = [mem.batches EXCEPT ![i] = "none"]
      /\ db'.batches = [db.batches EXCEPT ![i] = "none"]
      /\ mem'.early = mem.early /\ db'.early = db.early
      /\ mem'.responses = mem.responses /\ db'.responses = db.responses
      /\ mem'.signatures = mem.signatures /\ db'.signatures = db.signatures
      /\ mem'.dispatched = [mem.dispatched EXCEPT ![i] = row]
      /\ db'.dispatched = [db.dispatched EXCEPT ![i] = row]
  BY <1>1, MoveFacts DEF IndInv, TypeOK
<1> USE DEF IsPending, IsDispatched, IsSigned, Registered, Up, TypeOK, Tables
<1>3. TypeOK'
  BY <1>1, <1>2 DEF IndInv
<1>4. MemoryMirrorsDb' /\ OneHome'
  BY <1>1, <1>2 DEF IndInv, MemoryMirrorsDb, OneHome
<1>5. SignerInv'
  BY <1>1, <1>2 DEF IndInv, SignerInv
<1>6. SignaturesInv'
  BY <1>1, <1>2 DEF IndInv, SignaturesInv, NoRow
<1>7. \A j \in Batch : RowsOk(j)'
  BY <1>1, <1>2 DEF IndInv, SignaturesInv, DbInv, RowsOk
<1>8. \A j \in Batch : WorkOk(j)'
  BY <1>1, <1>2 DEF IndInv, DbInv, WorkOk, NoRow
<1>9. QED
  BY <1>3, <1>4, <1>5, <1>6, <1>7, <1>8 DEF IndInv, DbInv

\* undispatch takes back an own dispatch; its signature is still there.
LEMMA undispatch_step ==
    ASSUME IndInv, NEW i \in Batch, undispatch(i)
    PROVE  IndInv'
<1>1. /\ mem' = Restore(mem, i) /\ db' = Restore(db, i)
      /\ IsDispatched(mem, i) /\ mem.dispatched[i].own = "yes" /\ Up
      /\ UNCHANGED <<process, signer, epoch, executed, finalized>>
  BY DEF undispatch
<1>2. /\ mem' \in Tables /\ db' \in Tables
      /\ mem'.batches = [mem.batches EXCEPT ![i] = "submitted"]
      /\ db'.batches = [db.batches EXCEPT ![i] = "submitted"]
      /\ mem'.early = mem.early /\ db'.early = db.early
      /\ mem'.responses = mem.responses /\ db'.responses = db.responses
      /\ mem'.signatures = mem.signatures /\ db'.signatures = db.signatures
      /\ mem'.dispatched = [mem.dispatched EXCEPT ![i] = NoRow]
      /\ db'.dispatched = [db.dispatched EXCEPT ![i] = NoRow]
  <2>1. mem \in Tables /\ db \in Tables /\ mem' = Restore(mem, i) /\ db' = Restore(db, i)
    BY <1>1 DEF IndInv, TypeOK
  <2>2. /\ mem' \in Tables
        /\ mem'.batches = [mem.batches EXCEPT ![i] = "submitted"]
        /\ mem'.early = mem.early /\ mem'.responses = mem.responses
        /\ mem'.signatures = mem.signatures
        /\ mem'.dispatched = [mem.dispatched EXCEPT ![i] = NoRow]
    BY <2>1, RestoreFacts, Zenon
  <2>3. /\ db' \in Tables
        /\ db'.batches = [db.batches EXCEPT ![i] = "submitted"]
        /\ db'.early = db.early /\ db'.responses = db.responses
        /\ db'.signatures = db.signatures
        /\ db'.dispatched = [db.dispatched EXCEPT ![i] = NoRow]
    BY <2>1, RestoreFacts, Zenon
  <2>4. QED
    BY <2>2, <2>3
<1> USE DEF IsPending, IsDispatched, IsSigned, Registered, Up, TypeOK, Tables
<1>3. TypeOK'
  BY <1>1, <1>2 DEF IndInv
<1>4. MemoryMirrorsDb' /\ OneHome'
  BY <1>1, <1>2 DEF IndInv, MemoryMirrorsDb, OneHome
<1>5. SignerInv'
  BY <1>1, <1>2 DEF IndInv, SignerInv, NoRow
<1>6. SignaturesInv'
  BY <1>1, <1>2 DEF IndInv, SignaturesInv
<1>7. \A j \in Batch : RowsOk(j)'
  BY <1>1, <1>2 DEF IndInv, DbInv, RowsOk, MemoryMirrorsDb
<1>8. \A j \in Batch : WorkOk(j)'
  BY <1>1, <1>2 DEF IndInv, DbInv, RowsOk, WorkOk, MemoryMirrorsDb
<1>9. QED
  BY <1>3, <1>4, <1>5, <1>6, <1>7, <1>8 DEF IndInv, DbInv

\* finalize_dispatched forgets a batch for good.
LEMMA finalize_dispatched_step ==
    ASSUME IndInv, NEW i \in Batch, finalize_dispatched(i)
    PROVE  IndInv'
<1>1. /\ mem' = Forget(mem, i) /\ db' = Forget(db, i)
      /\ IsDispatched(mem, i) /\ Up
      /\ executed' = executed \ Span[i] /\ finalized' = finalized \cup {i}
      /\ UNCHANGED <<process, signer, epoch>>
  BY DEF finalize_dispatched
<1>2. /\ mem' \in Tables /\ db' \in Tables
      /\ mem'.batches = mem.batches /\ db'.batches = db.batches
      /\ mem'.early = mem.early /\ db'.early = db.early
      /\ mem'.responses = mem.responses \ Span[i] /\ db'.responses = db.responses \ Span[i]
      /\ mem'.signatures = [mem.signatures EXCEPT ![i] = NoSignature]
      /\ db'.signatures = [db.signatures EXCEPT ![i] = NoSignature]
      /\ mem'.dispatched = [mem.dispatched EXCEPT ![i] = NoRow]
      /\ db'.dispatched = [db.dispatched EXCEPT ![i] = NoRow]
  BY <1>1, ForgetFacts, Zenon DEF IndInv, TypeOK
<1> USE DEF IsPending, IsDispatched, IsSigned, Registered, Up, TypeOK, Tables
<1>3. TypeOK'
  BY <1>1, <1>2 DEF IndInv
<1>4. MemoryMirrorsDb' /\ OneHome'
  BY <1>1, <1>2 DEF IndInv, MemoryMirrorsDb, OneHome
<1>5. SignerInv'
  BY <1>1, <1>2 DEF IndInv, SignerInv, NoRow
<1>6. SignaturesInv'
  BY <1>1, <1>2 DEF IndInv, SignaturesInv
<1>7. \A j \in Batch : RowsOk(j)'
  BY <1>1, <1>2 DEF IndInv, DbInv, RowsOk, NoRow
<1>8. \A j \in Batch : WorkOk(j)'
  BY <1>1, <1>2 DEF IndInv, DbInv, WorkOk
<1>9. QED
  BY <1>3, <1>4, <1>5, <1>6, <1>7, <1>8 DEF IndInv, DbInv

\* mark_batch_submitted sets a flag of the pending row, or buffers the event.
LEMMA mark_batch_submitted_step ==
    ASSUME IndInv, NEW i \in Batch, mark_batch_submitted(i)
    PROVE  IndInv'
<1>1. /\ mem' \in Tables /\ db' \in Tables /\ Up
      /\ mem'.responses = mem.responses /\ db'.responses = db.responses
      /\ mem'.signatures = mem.signatures /\ db'.signatures = db.signatures
      /\ mem'.dispatched = mem.dispatched /\ db'.dispatched = db.dispatched
      /\ mem'.batches = db'.batches /\ mem'.early = db'.early
      /\ \A j \in Batch : /\ IsPending(db, j)' <=> IsPending(db, j)
                          /\ db'.batches[j] \in {db.batches[j], "submitted"}
      /\ UNCHANGED <<process, signer, epoch, executed, finalized>>
  <2> USE DEF mark_batch_submitted, IndInv, TypeOK, Tables, MemoryMirrorsDb, IsPending, Up
  <2>1. CASE IsPending(mem, i)
    <3>1. /\ mem' = [mem EXCEPT !.batches[i] = "submitted"]
          /\ db' = [db EXCEPT !.batches[i] = "submitted"]
      BY <2>1
    <3>2. "submitted" \in PendingRow
      BY DEF PendingRow
    <3>3. QED
      BY <3>1, <3>2, Zenon
  <2>2. CASE ~IsPending(mem, i)
    <3>1. /\ mem' = [mem EXCEPT !.early = @ \cup {i}]
          /\ db' = [db EXCEPT !.early = @ \cup {i}]
      BY <2>2
    <3>2. mem'.batches = mem.batches /\ db'.batches = db.batches
      BY <3>1
    <3>3. QED
      BY <3>1
  <2>3. QED
    BY <2>1, <2>2
<1> USE DEF IsDispatched, IsSigned, Registered, Up, TypeOK, Tables
<1>2. TypeOK'
  BY <1>1 DEF IndInv
<1>3. MemoryMirrorsDb'
  BY <1>1 DEF IndInv, MemoryMirrorsDb
<1>4. OneHome'
  BY <1>1 DEF IndInv, OneHome
<1>5. SignerInv'
  BY <1>1 DEF IndInv, SignerInv
<1>6. SignaturesInv'
  BY <1>1 DEF IndInv, SignaturesInv
<1>7. \A j \in Batch : RowsOk(j)'
  BY <1>1 DEF IndInv, DbInv, RowsOk
<1>8. \A j \in Batch : WorkOk(j)'
  BY <1>1 DEF IndInv, DbInv, WorkOk
<1>9. QED
  BY <1>2, <1>3, <1>4, <1>5, <1>6, <1>7, <1>8 DEF IndInv, DbInv

\* mark_dispatched_external moves a pending batch and uncaches its signature.
LEMMA mark_dispatched_external_step ==
    ASSUME IndInv, NEW i \in Batch, NEW tx \in Tx, NEW l1 \in L1Block,
           mark_dispatched_external(i, tx, l1)
    PROVE  IndInv'
<1>1. PICK row \in DispatchedRow :
         /\ mem' = Unsign(Move(mem, i, row), i) /\ db' = Move(db, i, row) /\ row.own = "no"
         /\ IsPending(mem, i) /\ Up
         /\ UNCHANGED <<process, signer, epoch, executed, finalized>>
  BY DEF mark_dispatched_external, DispatchedRow
<1>2. /\ mem' \in Tables /\ db' \in Tables
      /\ mem'.batches = [mem.batches EXCEPT ![i] = "none"]
      /\ db'.batches = [db.batches EXCEPT ![i] = "none"]
      /\ mem'.early = mem.early /\ db'.early = db.early
      /\ mem'.responses = mem.responses /\ db'.responses = db.responses
      /\ mem'.signatures = [mem.signatures EXCEPT ![i] = NoSignature]
      /\ db'.signatures = db.signatures
      /\ mem'.dispatched = [mem.dispatched EXCEPT ![i] = row]
      /\ db'.dispatched = [db.dispatched EXCEPT ![i] = row]
  <2> DEFINE m == Move(mem, i, row)
  <2>1. /\ m \in Tables
        /\ m.batches = [mem.batches EXCEPT ![i] = "none"]
        /\ m.early = mem.early
        /\ m.responses = mem.responses
        /\ m.signatures = mem.signatures
        /\ m.dispatched = [mem.dispatched EXCEPT ![i] = row]
    BY MoveFacts DEF IndInv, TypeOK
  <2>2. mem' = Unsign(m, i)
    BY <1>1
  <2> HIDE DEF m
  <2>3. /\ mem' \in Tables
        /\ mem'.batches = m.batches
        /\ mem'.early = m.early
        /\ mem'.responses = m.responses
        /\ mem'.signatures = [m.signatures EXCEPT ![i] = NoSignature]
        /\ mem'.dispatched = m.dispatched
    BY <2>1, <2>2, UnsignFacts
  <2>4. /\ db' \in Tables
        /\ db'.batches = [db.batches EXCEPT ![i] = "none"]
        /\ db'.early = db.early
        /\ db'.responses = db.responses
        /\ db'.signatures = db.signatures
        /\ db'.dispatched = [db.dispatched EXCEPT ![i] = row]
    BY <1>1, MoveFacts DEF IndInv, TypeOK
  <2>5. QED
    BY <2>1, <2>3, <2>4
<1> USE DEF IsPending, IsDispatched, IsSigned, Registered, Up, TypeOK, Tables
<1>3. TypeOK'
  BY <1>1, <1>2 DEF IndInv
<1>4. MemoryMirrorsDb' /\ OneHome'
  BY <1>1, <1>2 DEF IndInv, MemoryMirrorsDb, OneHome
<1>5. SignerInv'
  BY <1>1, <1>2 DEF IndInv, SignerInv
<1>6. SignaturesInv'
  BY <1>1, <1>2 DEF IndInv, SignaturesInv, NoRow
<1>7. \A j \in Batch : RowsOk(j)'
  BY <1>1, <1>2 DEF IndInv, DbInv, RowsOk, MemoryMirrorsDb
<1>8. \A j \in Batch : WorkOk(j)'
  BY <1>1, <1>2 DEF IndInv, DbInv, WorkOk, NoRow
<1>9. QED
  BY <1>3, <1>4, <1>5, <1>6, <1>7, <1>8 DEF IndInv, DbInv

\* record_rbf_bump changes the hash of a dispatched row, nothing else.
LEMMA record_rbf_bump_step ==
    ASSUME IndInv, NEW i \in Batch, NEW tx \in Tx, record_rbf_bump(i, tx)
    PROVE  IndInv'
<1>1. PICK row \in DispatchedRow :
         /\ mem.dispatched[i] # NoRow /\ row.own = mem.dispatched[i].own
         /\ mem' = [mem EXCEPT !.dispatched[i] = row]
         /\ db' = [db EXCEPT !.dispatched[i] = row] /\ Up
         /\ UNCHANGED <<process, signer, epoch, executed, finalized>>
  BY Zenon DEF record_rbf_bump, DispatchedRow, IsDispatched, IndInv, TypeOK, Tables,
         MemoryMirrorsDb
<1>2. /\ mem' \in Tables /\ db' \in Tables
      /\ mem'.batches = mem.batches /\ db'.batches = db.batches
      /\ mem'.early = mem.early /\ db'.early = db.early
      /\ mem'.responses = mem.responses /\ db'.responses = db.responses
      /\ mem'.signatures = mem.signatures /\ db'.signatures = db.signatures
      /\ mem'.dispatched = [mem.dispatched EXCEPT ![i] = row]
      /\ db'.dispatched = [db.dispatched EXCEPT ![i] = row]
  BY <1>1, Zenon DEF IndInv, TypeOK, Tables
<1> USE DEF IsPending, IsDispatched, IsSigned, Registered, Up, TypeOK, Tables
<1>3. TypeOK'
  BY <1>1, Zenon DEF IndInv
<1>4. MemoryMirrorsDb' /\ OneHome'
  BY <1>1 DEF IndInv, MemoryMirrorsDb, OneHome
<1>5. SignerInv'
  BY <1>1 DEF IndInv, SignerInv, MemoryMirrorsDb
<1>6. SignaturesInv'
  BY <1>1 DEF IndInv, SignaturesInv, NoRow, DispatchedRow
<1>7. \A j \in Batch : RowsOk(j)'
  BY <1>1 DEF IndInv, DbInv, RowsOk, MemoryMirrorsDb
<1>8. \A j \in Batch : WorkOk(j)'
  BY <1>1 DEF IndInv, DbInv, WorkOk, NoRow, DispatchedRow
<1>9. QED
  BY <1>3, <1>4, <1>5, <1>6, <1>7, <1>8 DEF IndInv, DbInv

\* record_dispatched_l1_block changes the block of a dispatched row, nothing else.
LEMMA record_dispatched_l1_block_step ==
    ASSUME IndInv, NEW i \in Batch, NEW l1 \in L1Block, record_dispatched_l1_block(i, l1)
    PROVE  IndInv'
<1>1. PICK row \in DispatchedRow :
         /\ mem.dispatched[i] # NoRow /\ row.own = mem.dispatched[i].own
         /\ mem' = [mem EXCEPT !.dispatched[i] = row]
         /\ db' = [db EXCEPT !.dispatched[i] = row] /\ Up
         /\ UNCHANGED <<process, signer, epoch, executed, finalized>>
  BY Zenon DEF record_dispatched_l1_block, DispatchedRow, IsDispatched, IndInv, TypeOK,
         Tables, MemoryMirrorsDb
<1>2. /\ mem' \in Tables /\ db' \in Tables
      /\ mem'.batches = mem.batches /\ db'.batches = db.batches
      /\ mem'.early = mem.early /\ db'.early = db.early
      /\ mem'.responses = mem.responses /\ db'.responses = db.responses
      /\ mem'.signatures = mem.signatures /\ db'.signatures = db.signatures
      /\ mem'.dispatched = [mem.dispatched EXCEPT ![i] = row]
      /\ db'.dispatched = [db.dispatched EXCEPT ![i] = row]
  BY <1>1, Zenon DEF IndInv, TypeOK, Tables
<1>3. TypeOK'
  BY <1>1, <1>2, Zenon DEF IndInv, TypeOK
<1> USE DEF IsPending, IsDispatched, IsSigned, Registered, Up, TypeOK, Tables
<1>4. MemoryMirrorsDb' /\ OneHome'
  BY <1>1 DEF IndInv, MemoryMirrorsDb, OneHome
<1>5. SignerInv'
  BY <1>1 DEF IndInv, SignerInv, MemoryMirrorsDb
<1>6. SignaturesInv'
  BY <1>1 DEF IndInv, SignaturesInv, NoRow, DispatchedRow
<1>7. \A j \in Batch : RowsOk(j)'
  BY <1>1 DEF IndInv, DbInv, RowsOk, MemoryMirrorsDb
<1>8. \A j \in Batch : WorkOk(j)'
  BY <1>1 DEF IndInv, DbInv, WorkOk, NoRow, DispatchedRow
<1>9. QED
  BY <1>3, <1>4, <1>5, <1>6, <1>7, <1>8 DEF IndInv, DbInv

\* try_sign_next_batch takes a ready, unsigned batch.
LEMMA try_sign_next_batch_step ==
    ASSUME IndInv, NEW i \in Batch, try_sign_next_batch(i)
    PROVE  IndInv'
<1>1. /\ Up /\ mem' = mem /\ db' = db /\ UNCHANGED <<process, epoch, executed, finalized>>
      /\ signer' = [batch |-> i, phase |-> "checking", sig |-> epoch]
      /\ mem.batches[i] = "submitted" /\ ~IsSigned(mem, i)
  BY DEF try_sign_next_batch, first_ready_unsigned, is_batch_ready
<1> USE DEF IsPending, IsDispatched, IsSigned, Registered, Up, TypeOK, Tables
<1>2. TypeOK'
  BY <1>1 DEF IndInv, SignTask
<1>3. MemoryMirrorsDb'
  BY <1>1 DEF IndInv, MemoryMirrorsDb
<1>4. OneHome'
  BY <1>1 DEF IndInv, OneHome
<1>5. SignerInv'
  BY <1>1 DEF IndInv, SignerInv, MemoryMirrorsDb, OneHome, NoRow
<1>6. SignaturesInv'
  BY <1>1 DEF IndInv, SignaturesInv
<1>7. \A j \in Batch : RowsOk(j)'
  BY <1>1 DEF IndInv, DbInv, RowsOk
<1>8. \A j \in Batch : WorkOk(j)'
  BY <1>1 DEF IndInv, DbInv, WorkOk
<1>9. QED
  BY <1>2, <1>3, <1>4, <1>5, <1>6, <1>7, <1>8 DEF IndInv, DbInv

\* Epochs are the signatures that are there.
LEMMA EpochFacts ==
    /\ \A e \in Epoch : e \in Signature /\ e # NoSignature
    /\ \A e \in Signature : e # NoSignature => e \in Epoch
BY DEF Epoch, Signature, NoSignature

\* A task that is not idle has a batch, an epoch and a phase.
LEMMA SignerType ==
    ASSUME signer \in SignTask, signer.phase # "idle"
    PROVE  /\ signer # Idle
           /\ signer \in [batch : Batch, sig : Epoch,
                 phase : {"checking", "calling", "signed", "invalid", "failed"}]
BY DEF SignTask, Idle

\* The look for a saved signature: what it finds is of this epoch.
LEMMA sign_batch_io_check_step ==
    ASSUME IndInv, sign_batch_io_check
    PROVE  IndInv'
<1>1. /\ signer # Idle /\ signer' # Idle /\ signer.batch \in Batch /\ signer'.batch = signer.batch
      /\ signer' \in SignTask
      /\ mem' = mem /\ db' = db /\ UNCHANGED <<process, epoch, executed, finalized>>
      /\ \/ /\ IsSigned(db, signer.batch)
            /\ signer'.sig = db.signatures[signer.batch]
            /\ signer'.phase = "signed"
         \/ /\ ~IsSigned(db, signer.batch)
            /\ signer'.phase = "calling" /\ signer'.sig = signer.sig
  <2>1. /\ signer # Idle
        /\ signer \in [batch : Batch, sig : Epoch,
              phase : {"checking", "calling", "signed", "invalid", "failed"}]
    BY SignerType DEF sign_batch_io_check, IndInv, TypeOK
  <2>2. CASE IsSigned(db, signer.batch)
    <3>1. signer' = [signer EXCEPT !.phase = "signed", !.sig = db.signatures[signer.batch]]
      BY <2>2 DEF sign_batch_io_check
    <3>2. db.signatures[signer.batch] \in Epoch
      BY <2>1, <2>2, EpochFacts DEF IndInv, TypeOK, Tables, IsSigned
    <3>3. QED
      BY <2>1, <3>2, Zenon DEF sign_batch_io_check, SignTask, Idle
  <2>3. CASE ~IsSigned(db, signer.batch)
    <3>1. signer' = [signer EXCEPT !.phase = "calling"]
      BY <2>3 DEF sign_batch_io_check
    <3>2. QED
      BY <2>1, <3>1 DEF sign_batch_io_check, SignTask, Idle
  <2>4. QED
    BY <2>2, <2>3
<1> USE DEF IsPending, IsDispatched, IsSigned, Registered, Up, TypeOK, Tables
<1>2. TypeOK'
  BY <1>1 DEF IndInv
<1>3. MemoryMirrorsDb'
  BY <1>1 DEF IndInv, MemoryMirrorsDb
<1>4. OneHome'
  BY <1>1 DEF IndInv, OneHome
<1>5. SignerInv'
  BY <1>1 DEF IndInv, SignerInv, SignaturesInv
<1>6. SignaturesInv'
  BY <1>1 DEF IndInv, SignaturesInv
<1>7. \A j \in Batch : RowsOk(j)'
  BY <1>1 DEF IndInv, DbInv, RowsOk
<1>8. \A j \in Batch : WorkOk(j)'
  BY <1>1 DEF IndInv, DbInv, WorkOk
<1>9. QED
  BY <1>2, <1>3, <1>4, <1>5, <1>6, <1>7, <1>8 DEF IndInv, DbInv

\* Saving a signature, in whatever state the batch and the loop are by then.
LEMMA sign_batch_io_save_step ==
    ASSUME IndInv, sign_batch_io_save
    PROVE  IndInv'
<1>1. /\ signer # Idle /\ signer' # Idle /\ signer.batch \in Batch /\ signer'.batch = signer.batch
      /\ signer' \in SignTask /\ signer'.sig = signer.sig /\ signer.sig \in Epoch
      /\ signer'.phase = "signed"
      /\ mem' = mem /\ db' = [db EXCEPT !.signatures[signer.batch] = signer.sig]
      /\ UNCHANGED <<process, epoch, executed, finalized>>
  <2>1. /\ signer # Idle
        /\ signer \in [batch : Batch, sig : Epoch,
              phase : {"checking", "calling", "signed", "invalid", "failed"}]
    BY SignerType DEF sign_batch_io_save, IndInv, TypeOK
  <2>2. QED
    BY <2>1 DEF sign_batch_io_save, SignTask, Idle
<1>2. /\ mem' \in Tables /\ db' \in Tables
      /\ mem'.batches = mem.batches /\ db'.batches = db.batches
      /\ mem'.early = mem.early /\ db'.early = db.early
      /\ mem'.responses = mem.responses /\ db'.responses = db.responses
      /\ mem'.signatures = mem.signatures
      /\ db'.signatures = [db.signatures EXCEPT ![signer.batch] = signer.sig]
      /\ mem'.dispatched = mem.dispatched /\ db'.dispatched = db.dispatched
  BY <1>1, EpochFacts DEF IndInv, TypeOK, Tables
<1>3. TypeOK'
  BY <1>1, <1>2 DEF IndInv, TypeOK
<1> USE DEF IsPending, IsDispatched, IsSigned, Registered, Up, TypeOK, Tables
<1>4. MemoryMirrorsDb' /\ OneHome'
  BY <1>1 DEF IndInv, MemoryMirrorsDb, OneHome
<1>5. SignerInv'
  BY <1>1, EpochFacts DEF IndInv, SignerInv
<1>6. SignaturesInv'
  BY <1>1 DEF IndInv, SignerInv, SignaturesInv, NoRow
<1>7. \A j \in Batch : RowsOk(j)'
  BY <1>1 DEF IndInv, SignerInv, DbInv, RowsOk, OneHome, NoRow
<1>8. \A j \in Batch : WorkOk(j)'
  BY <1>1 DEF IndInv, SignerInv, DbInv, RowsOk, WorkOk
<1>9. QED
  BY <1>3, <1>4, <1>5, <1>6, <1>7, <1>8 DEF IndInv, DbInv

\* A signing task that fails changes its own state only.
LEMMA sign_batch_io_fail_step ==
    ASSUME IndInv, sign_batch_io_fail
    PROVE  IndInv'
<1>1. /\ signer # Idle /\ signer' # Idle /\ signer' \in SignTask
      /\ signer.batch \in Batch /\ signer'.batch = signer.batch /\ signer'.sig = signer.sig
      /\ signer'.phase = "failed"
      /\ mem' = mem /\ db' = db /\ UNCHANGED <<process, epoch, executed, finalized>>
  <2>1. /\ signer # Idle
        /\ signer \in [batch : Batch, sig : Epoch,
              phase : {"checking", "calling", "signed", "invalid", "failed"}]
    BY SignerType DEF sign_batch_io_fail, IndInv, TypeOK
  <2>2. QED
    BY <2>1 DEF sign_batch_io_fail, SignTask, Idle
<1> USE DEF IsPending, IsDispatched, IsSigned, Registered, Up, TypeOK, Tables
<1>2. TypeOK'
  BY <1>1 DEF IndInv
<1>3. MemoryMirrorsDb'
  BY <1>1 DEF IndInv, MemoryMirrorsDb
<1>4. OneHome'
  BY <1>1 DEF IndInv, OneHome
<1>5. SignerInv'
  BY <1>1 DEF IndInv, SignerInv
<1>6. SignaturesInv'
  BY <1>1 DEF IndInv, SignaturesInv
<1>7. \A j \in Batch : RowsOk(j)'
  BY <1>1 DEF IndInv, DbInv, RowsOk
<1>8. \A j \in Batch : WorkOk(j)'
  BY <1>1 DEF IndInv, DbInv, WorkOk
<1>9. QED
  BY <1>2, <1>3, <1>4, <1>5, <1>6, <1>7, <1>8 DEF IndInv, DbInv

\* A rejected request found no saved signature.
LEMMA sign_batch_io_invalid_step ==
    ASSUME IndInv, sign_batch_io_invalid
    PROVE  IndInv'
<1>1. /\ signer # Idle /\ signer' # Idle /\ signer' \in SignTask
      /\ signer.batch \in Batch /\ signer'.batch = signer.batch /\ signer'.sig = signer.sig
      /\ signer.phase = "calling" /\ signer'.phase = "invalid"
      /\ mem' = mem /\ db' = db /\ UNCHANGED <<process, epoch, executed, finalized>>
  <2>1. /\ signer # Idle
        /\ signer \in [batch : Batch, sig : Epoch,
              phase : {"checking", "calling", "signed", "invalid", "failed"}]
    BY SignerType DEF sign_batch_io_invalid, IndInv, TypeOK
  <2>2. QED
    BY <2>1 DEF sign_batch_io_invalid, SignTask, Idle
<1> USE DEF IsPending, IsDispatched, IsSigned, Registered, Up, TypeOK, Tables
<1>2. TypeOK'
  BY <1>1 DEF IndInv
<1>3. MemoryMirrorsDb'
  BY <1>1 DEF IndInv, MemoryMirrorsDb
<1>4. OneHome'
  BY <1>1 DEF IndInv, OneHome
<1>5. SignerInv'
  BY <1>1 DEF IndInv, SignerInv
<1>6. SignaturesInv'
  BY <1>1 DEF IndInv, SignaturesInv
<1>7. \A j \in Batch : RowsOk(j)'
  BY <1>1 DEF IndInv, DbInv, RowsOk
<1>8. \A j \in Batch : WorkOk(j)'
  BY <1>1 DEF IndInv, DbInv, WorkOk
<1>9. QED
  BY <1>2, <1>3, <1>4, <1>5, <1>6, <1>7, <1>8 DEF IndInv, DbInv
=============================================================================
