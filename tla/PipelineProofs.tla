--------------------------- MODULE PipelineProofs ---------------------------
(***************************************************************************)
(* Proofs about the pipeline of BlockPipeline, on top of what DriverProofs *)
(* shows of the driver and with the same generality.                       *)
(***************************************************************************)
EXTENDS DriverProofs

Result == [block : Block, key : 1..MaxKey]
Signing ==
    {NoSigning} \cup UNION {[batch : {i}, rows : [BlocksOf[i] -> 0..MaxKey]] : i \in Batch}
MainLoop == [known : SUBSET Block, confirmed : SUBSET Block, lbe : 0..MaxBlock,
             signing : Signing, keyCheck : BOOLEAN]

\* The rest of TypeOK, and what it leaves out.
PipeTypes ==
    /\ resp \in [Block -> 0..MaxKey] /\ st \in [Batch -> Status] /\ lbe \in 0..MaxBlock
    /\ mem \in MainLoop
    /\ normalQ \in Seq(Block) /\ Len(normalQ) <= NormalCap
    /\ highQ \in Seq(Block) /\ Len(highQ) <= HighCap
    /\ results \in Seq(Result) /\ Len(results) <= ResultCap
    /\ busy \in [Worker -> 0..MaxBlock] /\ reexec \subseteq Block /\ key \in 1..MaxKey

\* A process that is not up remembers nothing of an earlier one.
Forgotten == ~Up => mem.known = {} /\ mem.confirmed = {} /\ mem.signing = NoSigning

\* Batches are registered in order, and only a registered one is signed.
InOrder == \A i, j \in Batch : j < i /\ st[j] = "none" => st[i] = "none"
SigningRegistered == mem.signing # NoSigning => st[mem.signing.batch] # "none"

\* No registered batch has the block; no batch at all has it, though a batch
\* above it exists.
Unregistered(b) == \A i \in Batch : b \in BlocksOf[i] => st[i] = "none"
Hole(b) ==
    /\ \A i \in Batch : b \notin BlocksOf[i]
    /\ \E i \in Batch : b <= To(i)

\* last_batch_end covers the holes, and where it is above an unregistered
\* block every batch below that block is final.
HolesMarked == \A b \in Block : Hole(b) => b <= lbe
MarkFinal ==
    \A b \in Block : Unregistered(b) /\ b <= lbe =>
        \A i \in Batch : To(i) < b => st[i] = "final"

\* An unregistered block that the checkpoint, or the confirmed blocks above
\* it, count as done has its response.
CheckpointCovered ==
    \A b \in Block : Unregistered(b) /\ b <= ckpt /\ resp[b] = 0 => b <= lbe
ConfirmedAnswered ==
    \A b \in Block : b \in mem.confirmed /\ Unregistered(b) => resp[b] # 0

Registry ==
    /\ InOrder /\ SigningRegistered /\ HolesMarked /\ MarkFinal
    /\ CheckpointCovered /\ ConfirmedAnswered

\* Blocks the main loop knows are answered.
KnownAnswered == \A b \in Block : b \in mem.known => ~Unanswered(b)

\* A block that needs an answer is above the checkpoint when the process
\* boots, and from then on ahead of catch-up and cursor, or on its way.
BootCovered ==
    drv.boot \in {"normalized", "healed", "unwound"} =>
        \A b \in Block : Unanswered(b) /\ mem.lbe < b => ckpt < b
UpCovered ==
    Up => \A b \in Block : Unanswered(b) /\ mem.lbe < b =>
              \/ drv.next <= b /\ drv.wfb <= b
              \/ InFlight(b) \/ b \in lost

Coverage == KnownAnswered /\ BootCovered /\ UpCovered

\* last_batch_end, in SQLite and in memory, is past every final batch that is
\* not left out.
Marked ==
    \A i \in Batch \ unmarked : st[i] = "final" =>
        To(i) <= lbe /\ (drv.boot # "down" => To(i) <= mem.lbe)

Marks == Marked /\ NoRowLeaks

PipeInv == PipeTypes /\ Forgotten /\ Registry /\ Coverage /\ Marks
IndInv == DriverInv /\ PipeInv
-----------------------------------------------------------------------------
(* Queues, memory and signing.                                             *)

\* A task put into a queue.
LEMMA AppendFacts ==
    ASSUME NEW S, NEW q \in Seq(S), NEW x \in S
    PROVE  /\ Append(q, x) \in Seq(S) /\ Len(Append(q, x)) = Len(q) + 1
           /\ Range(Append(q, x)) = Range(q) \cup {x}
<1>1. Append(q, x) \in Seq(S) /\ Len(Append(q, x)) = Len(q) + 1 /\ Len(q) \in Nat
  OBVIOUS
<1>2. ASSUME NEW y \in Range(q) \cup {x} PROVE y \in Range(Append(q, x))
  <2>1. /\ DOMAIN q = 1..Len(q) /\ DOMAIN Append(q, x) = 1..(Len(q) + 1)
        /\ Append(q, x)[Len(q) + 1] = x
        /\ \A i \in 1..Len(q) : Append(q, x)[i] = q[i]
    BY <1>1
  <2>2. CASE y = x
    BY <1>1, <2>1, <2>2 DEF Range
  <2>3. CASE y \in Range(q)
    <3>1. PICK i \in 1..Len(q) : y = q[i]
      BY <2>1, <2>3, Zenon DEF Range
    <3>2. i \in 1..(Len(q) + 1) /\ y = Append(q, x)[i]
      BY <1>1, <2>1, <3>1
    <3> QED
      BY <2>1, <3>2, Zenon DEF Range
  <2> QED
    BY <1>2, <2>2, <2>3, Zenon
<1>3. ASSUME NEW y \in Range(Append(q, x)) PROVE y \in Range(q) \cup {x}
  BY <1>1, <1>3 DEF Range
<1> QED
  BY <1>1, <1>2, <1>3, Zenon

\* A task taken from a queue.
LEMMA TailFacts ==
    ASSUME NEW S, NEW q \in Seq(S), q # <<>>
    PROVE  /\ Head(q) \in S /\ Tail(q) \in Seq(S) /\ Len(Tail(q)) <= Len(q)
           /\ \A y \in Range(q) : y = Head(q) \/ y \in Range(Tail(q))
<1>1. Head(q) \in S /\ Tail(q) \in Seq(S) /\ Len(Tail(q)) = Len(q) - 1 /\ Len(q) \in Nat
  OBVIOUS
<1>2. ASSUME NEW y \in Range(q), y # Head(q) PROVE y \in Range(Tail(q))
  <2>1. PICK k \in 1..Len(q) : y = q[k]
    BY <1>2 DEF Range
  <2>2. k - 1 \in 1..Len(Tail(q)) /\ Tail(q)[k - 1] = q[k]
    BY <1>1, <1>2, <2>1
  <2>3. DOMAIN Tail(q) = 1..Len(Tail(q))
    BY <1>1
  <2> QED
    BY <2>1, <2>2, <2>3, Zenon DEF Range
<1> QED
  BY <1>1, <1>2

\* The blocks of the results that wait.
LEMMA ResultFacts ==
    ASSUME NEW q \in Seq(Result), NEW b
    PROVE  b \in {q[k].block : k \in DOMAIN q} <=> \E r \in Range(q) : r.block = b
BY Zenon DEF Range

\* The memory of the main loop.
LEMMA LoopFacts ==
    ASSUME NEW m \in MainLoop
    PROVE  /\ m.known \subseteq Block /\ m.confirmed \subseteq Block
           /\ m.lbe \in Nat /\ m.lbe \in 0..MaxBlock /\ m.signing \in Signing
BY BlockFacts DEF MainLoop

\* A batch that is being signed.
LEMMA SigningFacts ==
    ASSUME NEW g \in Signing, g # NoSigning
    PROVE  /\ g.batch \in Batch /\ DOMAIN g.rows = BlocksOf[g.batch]
           /\ DOMAIN g.rows \subseteq Block
<1>1. PICK i \in Batch : g \in [batch : {i}, rows : [BlocksOf[i] -> 0..MaxKey]]
  BY Zenon DEF Signing
<1>2. g.batch = i /\ DOMAIN g.rows = BlocksOf[i]
  BY <1>1, Zenon
<1> QED
  BY <1>2, BatchFacts, Zenon

\* try_sign_next_batch changes nothing but what is being signed, and that only
\* to a pending batch.
LEMMA TrySignFacts ==
    ASSUME NEW m \in MainLoop, NEW s \in [Batch -> Status],
           NEW rows \in [Block -> 0..MaxKey], NEW w, w = try_sign(m, s, rows)
    PROVE  /\ w \in MainLoop
           /\ w.known = m.known /\ w.confirmed = m.confirmed /\ w.lbe = m.lbe
           /\ w.signing # NoSigning => w.signing = m.signing \/ s[w.signing.batch] = "pending"
<1>1. CASE m.signing # NoSigning \/ Ready(s, rows) = {}
  <2>1. w = m
    BY <1>1, Zenon DEF try_sign
  <2> QED
    BY <2>1, Zenon
<1>2. CASE ~(m.signing # NoSigning \/ Ready(s, rows) = {})
  <2>1. Ready(s, rows) \in SUBSET Nat /\ Ready(s, rows) # {}
    BY <1>2, PipelineAssumption, Zenon DEF Ready
  <2>2. PICK i : i = Min(Ready(s, rows)) /\ i \in Ready(s, rows)
    BY <2>1, MinFacts, Zenon
  <2>3. i \in Batch /\ s[i] = "pending"
    BY <2>2, Zenon DEF Ready
  <2>4. PICK f : f = [b \in BlocksOf[i] |-> rows[b]]
    BY Zenon
  <2>5. f \in [BlocksOf[i] -> 0..MaxKey]
    BY <2>3, <2>4, BatchFacts, Zenon
  <2>6. PICK g : g = [batch |-> i, rows |-> f]
    BY Zenon
  <2>7. g \in [batch : {i}, rows : [BlocksOf[i] -> 0..MaxKey]] /\ g.batch = i
    BY <2>5, <2>6
  <2>8. g \in Signing
    BY <2>3, <2>7, Zenon DEF Signing
  <2>9. w = [m EXCEPT !.signing = g]
    BY <1>2, <2>2, <2>4, <2>6, Zenon DEF try_sign
  <2>10. /\ w \in MainLoop /\ w.known = m.known /\ w.confirmed = m.confirmed
         /\ w.lbe = m.lbe /\ w.signing = g
    BY <2>8, <2>9, Zenon DEF MainLoop
  <2> QED
    BY <2>3, <2>7, <2>10, Zenon
<1> QED
  BY <1>1, <1>2, Zenon

\* The memory of a process that starts.
LEMMA FreshFacts ==
    ASSUME lbe \in 0..MaxBlock
    PROVE  /\ Fresh \in MainLoop /\ Fresh.known = {} /\ Fresh.confirmed = {}
           /\ Fresh.lbe = lbe /\ Fresh.signing = NoSigning
BY DEF Fresh, MainLoop, Signing

\* And what a process that died leaves of it.
LEMMA LostFacts ==
    ASSUME lbe \in 0..MaxBlock, MemoryLost
    PROVE  /\ mem' \in MainLoop /\ mem'.known = {} /\ mem'.confirmed = {}
           /\ mem'.signing = NoSigning
<1>1. Fresh \in MainLoop /\ 0 \in 0..MaxBlock
  BY FreshFacts, BlockFacts
<1>2. PICK w : w = [Fresh EXCEPT !.lbe = 0]
  BY Zenon
<1>3. mem' = w
  BY <1>2, Zenon DEF MemoryLost
<1>4. /\ w \in MainLoop /\ w.known = Fresh.known /\ w.confirmed = Fresh.confirmed
      /\ w.signing = Fresh.signing
  BY <1>1, <1>2, Zenon DEF MainLoop
<1> QED
  BY <1>3, <1>4, FreshFacts, Zenon

-----------------------------------------------------------------------------
(* What most steps have in common.                                         *)

\* A registered batch keeps its registration, a final one stays final, no
\* response of an unregistered block is removed, and neither mark moves.
LEMMA RegistryStep ==
    ASSUME Registry, InOrder', SigningRegistered',
           ckpt' = ckpt, lbe' = lbe, mem'.confirmed \subseteq mem.confirmed,
           \A i \in Batch : /\ st'[i] = "none" => st[i] = "none"
                            /\ st[i] = "final" => st'[i] = "final",
           \A b \in Block : Unregistered(b) /\ resp[b] # 0 => resp'[b] # 0
    PROVE  Registry'
<1>1. \A b \in Block : Unregistered(b)' => Unregistered(b)
  BY Zenon DEF Unregistered
<1>2. HolesMarked'
  BY Zenon DEF Registry, HolesMarked, Hole, To
<1>3. MarkFinal'
  BY <1>1, Zenon DEF Registry, MarkFinal, To
<1>4. CheckpointCovered'
  BY <1>1, Zenon DEF Registry, CheckpointCovered
<1>5. ConfirmedAnswered'
  BY <1>1, Zenon DEF Registry, ConfirmedAnswered
<1> QED
  BY <1>2, <1>3, <1>4, <1>5, Zenon DEF Registry

\* No batch becomes final, no row appears, and memory does not fall back.
LEMMA MarksStep ==
    ASSUME Marks, PipeTypes, PipeTypes', unmarked' = unmarked, lbe' = lbe,
           \A i \in Batch : st'[i] = "final" => st[i] = "final",
           \A b \in Block : resp[b] = 0 => resp'[b] = 0,
           drv'.boot # "down" => drv.boot # "down" /\ mem.lbe <= mem'.lbe
    PROVE  Marks'
<1>1. Marked'
  <2> SUFFICES ASSUME NEW i \in Batch, i \notin unmarked, st'[i] = "final"
               PROVE  To(i) <= lbe /\ (drv'.boot # "down" => To(i) <= mem'.lbe)
    BY Zenon DEF Marked, To
  <2>1. To(i) <= lbe /\ (drv.boot # "down" => To(i) <= mem.lbe)
    BY Zenon DEF Marks, Marked
  <2>2. To(i) \in Block
    BY BatchFacts, Zenon
  <2>3. To(i) \in Nat /\ mem.lbe \in Nat /\ mem'.lbe \in Nat
    BY <2>2, BlockFacts, LoopFacts, Zenon DEF PipeTypes
  <2> QED
    BY <2>1, <2>3
<1>2. NoRowLeaks'
  BY BatchFacts, Zenon DEF Marks, NoRowLeaks
<1> QED
  BY <1>1, <1>2, Zenon DEF Marks

\* The cursor stands still, and what needs an answer did before and is still
\* on its way, or is now.
LEMMA CoverageStep ==
    ASSUME Coverage, KnownAnswered', PipeTypes, PipeTypes', Up, Up',
           drv'.next = drv.next, drv'.wfb = drv.wfb, mem.lbe <= mem'.lbe, lost \subseteq lost',
           \A b \in Block : Unanswered(b)' =>
               \/ Unanswered(b) /\ (InFlight(b) => InFlight(b)' \/ b \in lost')
               \/ InFlight(b)'
    PROVE  Coverage'
<1>1. BootCovered'
  BY Zenon DEF BootCovered, Up
<1>2. UpCovered'
  <2> SUFFICES ASSUME NEW b \in Block, Unanswered(b)', mem'.lbe < b
               PROVE  \/ drv.next <= b /\ drv.wfb <= b
                      \/ InFlight(b)' \/ b \in lost'
    BY Zenon DEF UpCovered
  <2>1. b \in Nat /\ mem.lbe \in Nat /\ mem'.lbe \in Nat
    BY BlockFacts, LoopFacts, Zenon DEF PipeTypes
  <2>2. mem.lbe < b
    BY <2>1
  <2> QED
    BY <2>2, Zenon DEF Coverage, UpCovered
<1> QED
  BY <1>1, <1>2, Zenon DEF Coverage

\* A process that is down has nothing to cover.
LEMMA CoverageDown ==
    ASSUME drv' = Down, mem'.known = {}
    PROVE  Coverage'
<1>1. drv'.boot = "down"
  BY DownFacts, Zenon
<1> QED
  BY <1>1, Zenon DEF Coverage, KnownAnswered, BootCovered, UpCovered, Up

-----------------------------------------------------------------------------
(* The driver moves.                                                       *)

\* While it boots, the driver has no cursor; it comes up with one that is not
\* above the checkpoint; and then a block is passed only by catch-up, or by
\* handing it out.
Boots == {drv.boot, drv'.boot} \subseteq {"normalized", "healed", "unwound"}
ComesUp ==
    /\ drv.boot \in {"healed", "unwound"} /\ drv'.boot = "up"
    /\ drv'.next <= ckpt + 1 /\ drv'.wfb <= ckpt + 1
Follows ==
    /\ drv.boot = "up" /\ drv'.boot = "up" /\ drv'.wfb = drv.wfb
    /\ \/ drv'.next = drv.next \/ drv'.next <= drv.wfb
       \/ drv'.next = drv.next + 1 /\ drv'.out = drv.next
    /\ drv'.out = drv.out \/ drv.out = 0

\* The boot steps.
LEMMA BootMoves ==
    ASSUME DriverInv, \/ open_writable_factory \/ unwind_to_mdbx
                      \/ new_after_unwind \/ new_aligned
    PROVE  Boots \/ ComesUp
<1>1. drv \in Memory
  BY DEF DriverInv, DriverTypes
<1>2. CASE open_writable_factory
  <2>1. drv'.boot = "healed" /\ drv.boot = "normalized"
    BY <1>1, <1>2, Zenon DEF open_writable_factory, Memory
  <2> QED
    BY <2>1, Zenon DEF Boots
<1>3. CASE unwind_to_mdbx
  <2>1. drv'.boot = "unwound" /\ drv.boot = "healed"
    BY <1>1, <1>3, Zenon DEF unwind_to_mdbx, Memory
  <2> QED
    BY <2>1, Zenon DEF Boots
<1>4. CASE new_after_unwind \/ new_aligned
  <2>1. Driver_new(mdbx) /\ drv.boot \in {"healed", "unwound"}
    BY <1>4, Zenon DEF new_after_unwind, new_aligned
  <2>2. drv'.boot = "up" /\ drv'.next = ResumeCursor(mdbx) /\ drv'.wfb = WitnessFrom
    BY <1>1, <2>1, Zenon DEF Driver_new, Memory
  <2> QED
    BY <2>1, <2>2, ResumeFacts, Zenon DEF DriverInv, ComesUp
<1> QED
  BY <1>2, <1>3, <1>4, Zenon

\* Deliver hands out the block at the cursor.
LEMMA DeliverMoves ==
    ASSUME DriverInv, NEW S, drv' = Deliver \/ drv' = [Deliver EXCEPT !.buf = S],
           drv.boot = "up", drv.out = 0
    PROVE  Follows
<1>1. drv \in Memory
  BY Zenon DEF DriverInv, DriverTypes
<1>2. PICK d : d = Deliver
  BY Zenon
<1>3. PICK e : e = [d EXCEPT !.buf = S]
  BY Zenon
<1>4. /\ d.boot = drv.boot /\ d.wfb = drv.wfb /\ d.next = drv.next + 1 /\ d.out = drv.next
      /\ DOMAIN d = DOMAIN drv
  BY <1>1, <1>2, Zenon DEF Deliver, Memory
<1>5. "boot" \in DOMAIN drv /\ "wfb" \in DOMAIN drv /\ "next" \in DOMAIN drv /\ "out" \in DOMAIN drv
  BY <1>1, Zenon DEF Memory
<1>6. e.boot = d.boot /\ e.wfb = d.wfb /\ e.next = d.next /\ e.out = d.out
  BY <1>3, <1>4, <1>5, Zenon
<1>7. drv' = d \/ drv' = e
  BY <1>2, <1>3, Zenon
<1> QED
  BY <1>4, <1>6, <1>7, Zenon DEF Follows

\* Catch-up and the pull of the next witness.
LEMMA UpMoves ==
    ASSUME DriverInv, \/ advance_ready \/ advance_save \/ advance_commit
                      \/ take_cached \/ take_rewitness \/ take_save \/ take_commit
                      \/ push_batched \/ push_flush
    PROVE  Follows
<1>1. drv \in Memory
  BY DEF DriverInv, DriverTypes
<1>2. CASE advance_ready
  <2>1. drv'.boot = drv.boot /\ drv'.wfb = drv.wfb /\ drv'.next = drv.next /\ drv'.out = drv.out
    BY <1>1, <1>2, Zenon DEF advance_ready, Memory
  <2> QED
    BY <1>2, <2>1, Zenon DEF advance_ready, Follows
<1>3. CASE advance_save \/ take_save
  <2>1. PICK e : SaveUpTo(e)
    BY <1>3, Zenon DEF advance_save, take_save
  <2>2. drv'.boot = drv.boot /\ drv'.wfb = drv.wfb /\ drv'.next = drv.next /\ drv'.out = drv.out
    BY <1>1, <2>1, Zenon DEF SaveUpTo, Memory
  <2> QED
    BY <1>3, <2>2, Zenon DEF advance_save, take_save, Asked, Follows
<1>4. CASE advance_commit
  <2>1. drv'.boot = drv.boot /\ drv'.wfb = drv.wfb /\ drv'.next = drv.upto + 1 /\ drv'.out = drv.out
    BY <1>1, <1>4, Zenon DEF advance_commit, Memory
  <2>2. drv.upto + 1 <= drv.wfb /\ drv.boot = "up"
    BY <1>1, <1>4 DEF DriverInv, Saving, advance_commit, Memory
  <2> QED
    BY <2>1, <2>2, Zenon DEF Follows
<1>5. CASE take_commit
  <2>1. drv'.boot = drv.boot /\ drv'.wfb = drv.wfb /\ drv'.next = drv.next /\ drv'.out = drv.out
    BY <1>1, <1>5, Zenon DEF take_commit, Memory
  <2>2. drv.boot = "up"
    BY <1>5, Zenon DEF take_commit, DriverInv, Saving
  <2> QED
    BY <2>1, <2>2, Zenon DEF Follows
<1>6. CASE take_cached \/ take_rewitness
  BY <1>6, DeliverMoves, Zenon DEF take_cached, take_rewitness, Asked
<1>7. CASE push_batched
  <2>1. drv.boot = "up" /\ drv.out = 0
    BY <1>7, Zenon DEF push_batched, DriverInv, Taking
  <2>2. PICK S : drv' = [drv EXCEPT !.buf = {}, !.flush = S, !.take = "flushing"]
                    \/ drv' = [Deliver EXCEPT !.buf = S]
    BY <1>7, Zenon DEF push_batched
  <2>3. CASE drv' = [drv EXCEPT !.buf = {}, !.flush = S, !.take = "flushing"]
    <3>1. drv'.boot = drv.boot /\ drv'.wfb = drv.wfb /\ drv'.next = drv.next /\ drv'.out = drv.out
      BY <1>1, <2>3, Zenon DEF Memory
    <3> QED
      BY <2>1, <3>1, Zenon DEF Follows
  <2>4. CASE drv' = [Deliver EXCEPT !.buf = S]
    BY <2>1, <2>4, DeliverMoves, Zenon
  <2> QED
    BY <2>2, <2>3, <2>4, Zenon
<1>8. CASE push_flush
  <2>1. drv.boot = "up" /\ drv.out = 0
    BY <1>8, Zenon DEF push_flush, DriverInv, Taking
  <2> QED
    BY <1>8, <2>1, DeliverMoves, Zenon DEF push_flush
<1> QED
  BY <1>2, <1>3, <1>4, <1>5, <1>6, <1>7, <1>8, Zenon

\* The checkpoint is not the driver's, and only its memory concerns the pipeline.
LEMMA DriverMoves ==
    ASSUME DriverInv, DriverNext
    PROVE  ckpt' = ckpt /\ (Boots \/ ComesUp \/ Follows \/ drv' = drv)
<1>1. ckpt' = ckpt
  BY Zenon DEF DriverNext, open_writable_factory, unwind_to_mdbx, new_after_unwind, new_aligned,
               advance_ready, advance_save, advance_commit, take_cached, take_rewitness,
               take_save, take_commit, push_batched, push_flush, NewRemoteBlock, SaveUpTo
<1>2. CASE NewRemoteBlock
  BY <1>1, <1>2, Zenon DEF NewRemoteBlock
<1> QED
  BY <1>1, <1>2, BootMoves, UpMoves, Zenon DEF DriverNext

\* The registry of a step that changes neither a row nor a status.
LEMMA RegistryIdle ==
    ASSUME Registry, UNCHANGED <<ckpt, lbe, st, resp>>,
           mem'.confirmed \subseteq mem.confirmed, mem'.signing \in {mem.signing, NoSigning}
    PROVE  Registry'
<1>1. InOrder' /\ SigningRegistered'
  BY Zenon DEF Registry, InOrder, SigningRegistered
<1> QED
  BY <1>1, RegistryStep, Zenon

\* The driver takes a step.
LEMMA PipeDriverStep ==
    ASSUME DriverInv, PipeInv, DriverNext, UNCHANGED pipeVars
    PROVE  PipeInv'
<1>1. ckpt' = ckpt /\ (Boots \/ ComesUp \/ Follows \/ drv' = drv)
  BY DriverMoves, Zenon
<1>2. UNCHANGED <<resp, st, lbe, mem, normalQ, highQ, results, busy, reexec, key, lost, unmarked>>
  BY Zenon DEF pipeVars
<1>3. PipeTypes'
  BY <1>2, Zenon DEF PipeInv, PipeTypes
<1>4. Forgotten'
  BY <1>1, <1>2, Zenon DEF PipeInv, Forgotten, Up, Boots, ComesUp, Follows
<1>5. Registry'
  BY <1>1, <1>2, RegistryIdle, Zenon DEF PipeInv
<1>6. drv'.boot # "down" => drv.boot # "down"
  BY <1>1 DEF Boots, ComesUp, Follows
<1>7. mem.lbe <= mem'.lbe
  <2>1. mem.lbe \in Nat
    BY LoopFacts, Zenon DEF PipeInv, PipeTypes
  <2> QED
    BY <1>2, <2>1
<1>8. Marks'
  BY <1>2, <1>3, <1>6, <1>7, MarksStep, Zenon DEF PipeInv
<1>9. \A b : Unanswered(b)' <=> Unanswered(b)
  BY <1>2, Zenon DEF Unanswered
<1>10. KnownAnswered'
  BY <1>2, <1>9, Zenon DEF PipeInv, Coverage, KnownAnswered
<1>11. BootCovered'
  <2>1. drv'.boot \in {"normalized", "healed", "unwound"} => Boots \/ drv' = drv
    BY <1>1 DEF ComesUp, Follows
  <2>2. drv'.boot \in {"normalized", "healed", "unwound"} =>
            drv.boot \in {"normalized", "healed", "unwound"}
    BY <2>1, Zenon DEF Boots
  <2> QED
    BY <1>1, <1>2, <1>9, <2>2, Zenon DEF PipeInv, Coverage, BootCovered
<1>12. UpCovered'
  <2> SUFFICES ASSUME Up', NEW b \in Block, Unanswered(b), mem.lbe < b
               PROVE  \/ drv'.next <= b /\ drv'.wfb <= b
                      \/ InFlight(b)' \/ b \in lost
    BY <1>2, <1>9, Zenon DEF UpCovered
  <2>1. CASE ComesUp
    <3>1. ckpt < b
      BY <2>1, Zenon DEF PipeInv, Coverage, BootCovered, ComesUp
    <3>2. b \in Nat /\ ckpt \in Nat /\ drv'.next \in Nat /\ drv'.wfb \in Nat
      <4>1. DriverInv'
        BY DriverNextStep, Zenon
      <4> QED
        BY <4>1, BlockFacts DEF DriverInv, DriverTypes, Memory
    <3> QED
      BY <2>1, <3>1, <3>2 DEF ComesUp
  <2>2. CASE Follows
    <3>1. \/ drv.next <= b /\ drv.wfb <= b
          \/ InFlight(b) \/ b \in lost
      BY <2>2, Zenon DEF PipeInv, Coverage, UpCovered, Up, Follows
    <3>2. b \in Nat /\ b # 0 /\ drv.next \in Nat /\ drv.wfb \in Nat /\ drv'.next \in Nat
      <4>1. DriverInv'
        BY DriverNextStep, Zenon
      <4> QED
        BY <4>1, BlockFacts DEF DriverInv, DriverTypes, Memory
    <3>3. CASE InFlight(b)
      <4>1. b = drv.out => b = drv'.out
        BY <2>2, <3>2 DEF Follows
      <4> QED
        BY <1>2, <3>3, <4>1, Zenon DEF InFlight
    <3>4. CASE drv.next <= b /\ drv.wfb <= b
      <4>1. (drv'.next <= b /\ drv'.wfb <= b) \/ b = drv'.out
        BY <2>2, <3>2, <3>4 DEF Follows
      <4> QED
        BY <4>1, Zenon DEF InFlight
    <3> QED
      BY <3>1, <3>3, <3>4, Zenon
  <2>3. CASE drv' = drv
    BY <1>2, <2>3, Zenon DEF PipeInv, Coverage, UpCovered, Up, InFlight
  <2>4. ~Boots
    BY DEF Boots, Up
  <2> QED
    BY <1>1, <2>1, <2>2, <2>3, <2>4, Zenon
<1> QED
  BY <1>3, <1>4, <1>5, <1>8, <1>10, <1>11, <1>12, Zenon DEF PipeInv, Coverage

-----------------------------------------------------------------------------
(* The process dies.                                                       *)

\* Its queues are empty and nothing is remembered.
LEMMA DeathFacts ==
    ASSUME PipeInv, MemoryLost, drv' = Down, lbe' = lbe, key' = key,
           resp' \in [Block -> 0..MaxKey], st' \in [Batch -> Status]
    PROVE  /\ PipeTypes' /\ Forgotten' /\ Coverage'
           /\ mem'.confirmed = {} /\ mem'.signing = NoSigning /\ SigningRegistered'
<1>1. lbe \in 0..MaxBlock /\ key \in 1..MaxKey
  BY Zenon DEF PipeInv, PipeTypes
<1>2. /\ mem' \in MainLoop /\ mem'.known = {} /\ mem'.confirmed = {}
      /\ mem'.signing = NoSigning
  BY <1>1, LostFacts, Zenon
<1>3. Workers \in Nat
  BY PipelineAssumption
<1>4. /\ normalQ' = <<>> /\ highQ' = <<>> /\ results' = <<>>
      /\ busy' = Idle /\ reexec' = {}
  BY Zenon DEF MemoryLost
<1>5. /\ normalQ' \in Seq(Block) /\ Len(normalQ') <= NormalCap
      /\ highQ' \in Seq(Block) /\ Len(highQ') <= HighCap
      /\ results' \in Seq(Result) /\ Len(results') <= ResultCap
  BY <1>3, <1>4 DEF NormalCap, HighCap, ResultCap
<1>6. busy' \in [Worker -> 0..MaxBlock] /\ reexec' \subseteq Block
  BY <1>4, BlockFacts DEF Idle
<1>7. PipeTypes'
  BY <1>1, <1>2, <1>5, <1>6, Zenon DEF PipeTypes, NormalCap, HighCap, ResultCap
<1>8. Forgotten' /\ SigningRegistered'
  BY <1>2, Zenon DEF Forgotten, SigningRegistered
<1>9. Coverage'
  BY <1>2, CoverageDown, Zenon
<1> QED
  BY <1>2, <1>7, <1>8, <1>9, Zenon

\* It dies between two transactions of SQLite, or exits.
LEMMA DeathStep ==
    ASSUME DriverInv, PipeInv, MemoryLost, drv' = Down, ckpt' = ckpt,
           UNCHANGED <<resp, st, lbe, unmarked, key>>
    PROVE  PipeInv'
<1>1. resp' \in [Block -> 0..MaxKey] /\ st' \in [Batch -> Status] /\ lbe' = lbe /\ key' = key
  BY Zenon DEF PipeInv, PipeTypes
<1>2. /\ PipeTypes' /\ Forgotten' /\ Coverage'
      /\ mem'.confirmed = {} /\ mem'.signing = NoSigning
  BY <1>1, DeathFacts, Zenon
<1>3. Registry'
  BY <1>2, RegistryIdle, Zenon DEF PipeInv
<1>4. drv'.boot = "down"
  BY DownFacts, Zenon
<1>5. Marks'
  BY <1>2, <1>4, MarksStep, Zenon DEF PipeInv
<1> QED
  BY <1>2, <1>3, <1>5, Zenon DEF PipeInv

\* It dies while it unwinds.
LEMMA UnwindDeathStep ==
    ASSUME DriverInv, PipeInv, unwind_to_torn,
           UNCHANGED <<resp, st, lbe, unmarked, mem, normalQ, highQ, results, busy, reexec,
                       key, lost>>
    PROVE  PipeInv'
<1>1. drv' = Down /\ ckpt' = ckpt /\ ~Up
  BY Zenon DEF unwind_to_torn, Up
<1>2. mem.known = {} /\ mem.confirmed = {} /\ mem.signing = NoSigning
  BY <1>1, Zenon DEF PipeInv, Forgotten
<1>3. PipeTypes' /\ Forgotten'
  BY <1>2, Zenon DEF PipeInv, PipeTypes, Forgotten
<1>4. Registry'
  BY <1>1, RegistryIdle, Zenon DEF PipeInv
<1>5. drv'.boot = "down"
  BY <1>1, DownFacts, Zenon
<1>6. Marks'
  BY <1>3, <1>5, MarksStep, Zenon DEF PipeInv
<1>7. Coverage'
  BY <1>1, <1>2, CoverageDown, Zenon
<1> QED
  BY <1>3, <1>4, <1>6, <1>7, Zenon DEF PipeInv

\* A row written for a result that is not dropped belongs to no final batch
\* that last_batch_end covers.
LEMMA RowFacts ==
    ASSUME PipeInv, Up, NEW b \in Block, ~Dropped(b), NEW k \in 1..MaxKey,
           resp' = [resp EXCEPT ![b] = k], UNCHANGED <<st, unmarked>>
    PROVE  /\ resp' \in [Block -> 0..MaxKey] /\ NoRowLeaks'
           /\ resp'[b] # 0 /\ \A a \in Block : a # b => resp'[a] = resp[a]
           /\ \A a \in Block : resp[a] # 0 => resp'[a] # 0
<1>1. resp \in [Block -> 0..MaxKey]
  BY Zenon DEF PipeInv, PipeTypes
<1>2. MaxKey \in Nat
  BY PipelineAssumption, Zenon
<1>3. /\ resp' \in [Block -> 0..MaxKey] /\ resp'[b] = k
      /\ \A a \in Block : a # b => resp'[a] = resp[a]
  BY <1>1, <1>2
<1>4. k # 0
  BY <1>2
<1>5. \A a \in Block : resp[a] # 0 => resp'[a] # 0
  BY <1>3, <1>4, Zenon
<1>6. NoRowLeaks'
  <2> SUFFICES ASSUME NEW i \in Batch, i \notin unmarked, st[i] = "final",
                      NEW a \in BlocksOf[i]
               PROVE  resp'[a] = 0
    BY Zenon DEF NoRowLeaks
  <2>1. resp[a] = 0 /\ To(i) <= mem.lbe
    BY Zenon DEF PipeInv, Marks, NoRowLeaks, Marked, Up
  <2>2. a \in Block /\ a <= To(i) /\ To(i) \in Block
    BY BatchFacts, Zenon
  <2>3. ~(b <= mem.lbe)
    BY Zenon DEF Dropped
  <2>4. mem.lbe \in Nat /\ a \in Nat /\ b \in Nat /\ To(i) \in Nat
    BY <2>2, BlockFacts, LoopFacts, Zenon DEF PipeInv, PipeTypes
  <2>5. a # b
    BY <2>1, <2>2, <2>3, <2>4
  <2> QED
    BY <1>3, <2>1, <2>2, <2>5, Zenon
<1> QED
  BY <1>3, <1>4, <1>5, <1>6, Zenon

\* The result at the head of its channel.
LEMMA HeadFacts ==
    ASSUME PipeInv, results # <<>>
    PROVE  Head(results).block \in Block /\ Head(results).key \in 1..MaxKey
<1>1. Head(results) \in Result
  BY TailFacts, Zenon DEF PipeInv, PipeTypes
<1> QED
  BY <1>1 DEF Result

\* It dies after the row of a result, before the checkpoint.
LEMMA ResultDeathStep ==
    ASSUME DriverInv, PipeInv, on_block_result_torn
    PROVE  PipeInv'
<1>1. PICK b \in Block, k \in 1..MaxKey : resp' = [resp EXCEPT ![b] = k] /\ ~Dropped(b)
  BY HeadFacts, Zenon DEF on_block_result_torn
<1>2. /\ Up /\ MemoryLost /\ drv' = Down /\ ckpt' = ckpt
      /\ UNCHANGED <<st, lbe, unmarked, key>>
  BY Zenon DEF on_block_result_torn, Killed
<1>3. /\ resp' \in [Block -> 0..MaxKey] /\ NoRowLeaks'
      /\ \A a \in Block : resp[a] # 0 => resp'[a] # 0
  BY <1>1, <1>2, RowFacts, Zenon
<1>4. st' \in [Batch -> Status] /\ lbe' = lbe /\ key' = key
  BY <1>2, Zenon DEF PipeInv, PipeTypes
<1>5. /\ PipeTypes' /\ Forgotten' /\ Coverage'
      /\ mem'.confirmed = {} /\ SigningRegistered'
  BY <1>2, <1>3, <1>4, DeathFacts, Zenon
<1>6. InOrder' /\ \A i \in Batch : st'[i] = st[i]
  BY <1>2, Zenon DEF PipeInv, Registry, InOrder
<1>7. Registry'
  BY <1>2, <1>3, <1>5, <1>6, RegistryStep, Zenon DEF PipeInv
<1>8. drv'.boot = "down"
  BY <1>2, DownFacts, Zenon
<1>9. Marked'
  BY <1>2, <1>8, Zenon DEF PipeInv, Marks, Marked, To
<1> QED
  BY <1>3, <1>5, <1>7, <1>9, Zenon DEF PipeInv, Marks

-----------------------------------------------------------------------------
(* Boot: the checkpoint is normalised.                                     *)

\* Only signed batches lose their signature, and become pending again.
LEMMA UnsignFacts ==
    ASSUME st \in [Batch -> Status], NEW T \in SUBSET StaleSignatures
    PROVE  /\ Unsign(T) \in [Batch -> Status]
           /\ \A i \in Batch : Unsign(T)[i] = "none" <=> st[i] = "none"
           /\ \A i \in Batch : Unsign(T)[i] = "final" <=> st[i] = "final"
           /\ \A i \in Batch : Unsign(T)[i] = "pending" => st[i] = "pending" \/ i \in T
<1>1. \A i \in T : st[i] = "signed"
  BY Zenon DEF StaleSignatures
<1>2. \A i \in Batch : Unsign(T)[i] = IF i \in T THEN "pending" ELSE st[i]
  BY Zenon DEF Unsign
<1>3. Unsign(T) \in [Batch -> Status]
  BY Zenon DEF Unsign, Status
<1> QED
  BY <1>1, <1>2, <1>3

\* The registry when signatures are taken back.
LEMMA UnsignRegistry ==
    ASSUME PipeInv, ~Up, NEW T \in SUBSET StaleSignatures, st' = Unsign(T),
           UNCHANGED <<resp, lbe>>, mem'.confirmed = {}, mem'.signing = NoSigning
    PROVE  /\ InOrder' /\ SigningRegistered' /\ HolesMarked' /\ MarkFinal'
           /\ ConfirmedAnswered' /\ (ckpt' = ckpt => CheckpointCovered')
           /\ \A b \in Block : Unregistered(b)' <=> Unregistered(b)
<1>1. /\ \A i \in Batch : st'[i] = "none" <=> st[i] = "none"
      /\ \A i \in Batch : st'[i] = "final" <=> st[i] = "final"
  BY UnsignFacts, Zenon DEF PipeInv, PipeTypes
<1>2. \A b \in Block : Unregistered(b)' <=> Unregistered(b)
  BY <1>1, Zenon DEF Unregistered
<1>3. InOrder' /\ SigningRegistered'
  BY <1>1, Zenon DEF PipeInv, Registry, InOrder, SigningRegistered
<1>4. HolesMarked' /\ MarkFinal'
  BY <1>1, <1>2, Zenon DEF PipeInv, Registry, HolesMarked, Hole, MarkFinal, To
<1>5. ConfirmedAnswered'
  BY Zenon DEF ConfirmedAnswered
<1>6. ckpt' = ckpt => CheckpointCovered'
  BY <1>2, Zenon DEF PipeInv, Registry, CheckpointCovered
<1> QED
  BY <1>2, <1>3, <1>4, <1>5, <1>6, Zenon

\* It dies while it takes signatures back.
LEMMA NormalizeDeathStep ==
    ASSUME DriverInv, PipeInv, normalize_startup_torn
    PROVE  PipeInv'
<1>1. /\ UNCHANGED <<drv, ckpt, resp, lbe, unmarked, mem, normalQ, highQ, results, busy, reexec,
                     key, lost>>
      /\ drv.boot = "down"
  BY Zenon DEF normalize_startup_torn, driverVars
<1>2. PICK T \in SUBSET StaleSignatures : st' = Unsign(T)
  BY Zenon DEF normalize_startup_torn
<1>3. st' \in [Batch -> Status] /\ \A i \in Batch : st'[i] = "final" <=> st[i] = "final"
  BY <1>2, UnsignFacts, Zenon DEF PipeInv, PipeTypes
<1>4. ~Up
  BY <1>1, Zenon DEF Up
<1>5. mem.known = {} /\ mem.confirmed = {} /\ mem.signing = NoSigning
  BY <1>4, Zenon DEF PipeInv, Forgotten
<1>6. PipeTypes' /\ Forgotten'
  BY <1>1, <1>3, Zenon DEF PipeInv, PipeTypes, Forgotten, Up
<1>7. Registry'
  BY <1>1, <1>2, <1>4, <1>5, UnsignRegistry, Zenon DEF Registry
<1>8. drv'.boot = "down"
  BY <1>1, Zenon
<1>9. Coverage'
  BY <1>1, <1>5, <1>8 DEF Coverage, KnownAnswered, BootCovered, UpCovered, Up
<1>10. Marks'
  BY <1>1, <1>3, <1>6, <1>8, MarksStep, Zenon DEF PipeInv
<1> QED
  BY <1>6, <1>7, <1>9, <1>10, Zenon DEF PipeInv

\* An unregistered block below a registered one is a hole, so last_batch_end
\* covers it.
LEMMA BelowRegistered ==
    ASSUME Registry, NEW i \in Batch, st[i] # "none", NEW a \in BlocksOf[i],
           NEW b \in Block, Unregistered(b), b <= a
    PROVE  b <= lbe
<1>1. ASSUME NEW j \in Batch, b \in BlocksOf[j] PROVE FALSE
  <2>1. st[j] = "none" /\ j # i
    BY <1>1, Zenon DEF Unregistered
  <2>2. i \in Nat /\ j \in Nat /\ a \in Nat /\ b \in Nat
    BY BatchFacts, BlockFacts, Zenon
  <2>3. ~(j < i)
    BY <2>1, Zenon DEF Registry, InOrder
  <2>4. i < j => a < b
    BY <1>1, OrderFacts, Zenon
  <2> QED
    BY <2>1, <2>2, <2>3, <2>4
<1>2. b <= To(i)
  <2>1. a <= To(i) /\ a \in Block /\ To(i) \in Block
    BY BatchFacts, Zenon
  <2>2. a \in Nat /\ To(i) \in Nat /\ b \in Nat
    BY <2>1, BlockFacts, Zenon
  <2> QED
    BY <2>1, <2>2
<1> QED
  BY <1>1, <1>2, Zenon DEF Registry, HolesMarked, Hole

\* The checkpoint is normalised: it stays below every block that still needs
\* an answer, whatever signatures were taken back.
LEMMA NormalizeStep ==
    ASSUME DriverInv, PipeInv, normalize_startup
    PROVE  PipeInv'
<1>1. /\ UNCHANGED <<resp, lbe, unmarked, normalQ, highQ, results, busy, reexec, key, lost>>
      /\ drv.boot = "down" /\ st' = Unsign(StaleSignatures) /\ ckpt' = NormalCheckpoint
      /\ mem' = Fresh
  BY Zenon DEF normalize_startup
<1>2. drv'.boot = "normalized"
  BY Zenon DEF normalize_startup, DriverInv, DriverTypes, Memory
<1>3. /\ mem' \in MainLoop /\ mem'.known = {} /\ mem'.confirmed = {}
      /\ mem'.lbe = lbe /\ mem'.signing = NoSigning
  BY <1>1, FreshFacts, Zenon DEF PipeInv, PipeTypes
<1>4. /\ st' \in [Batch -> Status]
      /\ \A i \in Batch : st'[i] = "none" <=> st[i] = "none"
      /\ \A i \in Batch : st'[i] = "final" <=> st[i] = "final"
      /\ \A i \in Batch : st'[i] = "pending" => st[i] = "pending" \/ i \in StaleSignatures
  BY <1>1, UnsignFacts, Zenon DEF PipeInv, PipeTypes
<1>5. PipeTypes' /\ Forgotten'
  BY <1>1, <1>3, <1>4, Zenon DEF PipeInv, PipeTypes, Forgotten
<1>6. ~Up
  BY <1>1, Zenon DEF Up
<1>7. /\ InOrder' /\ SigningRegistered' /\ HolesMarked' /\ MarkFinal' /\ ConfirmedAnswered'
      /\ \A b \in Block : Unregistered(b)' <=> Unregistered(b)
  BY <1>1, <1>3, <1>6, UnsignRegistry, Zenon
<1>8. CheckpointCovered'
  <2> SUFFICES ASSUME NEW b \in Block, Unregistered(b), b <= NormalCheckpoint, resp[b] = 0
               PROVE  b <= lbe
    BY <1>1, <1>7, Zenon DEF CheckpointCovered
  <2>1. CASE Gapped # {}
    <3>1. PICK g \in Gapped : \E x \in Missing(g) : NormalCheckpoint = x - 1
      BY <2>1, NormalFacts, Zenon
    <3> PICK m \in Missing(g) : NormalCheckpoint = m - 1
      BY <3>1, Zenon
    <3>2. g \in Batch /\ st[g] # "none" /\ m \in BlocksOf[g]
      BY DEF Gapped, Pending, Missing
    <3>3. m \in Block
      BY <3>2, BatchFacts, Zenon
    <3>4. b <= m
      BY <3>3, BlockFacts
    <3> QED
      BY <3>2, <3>4, BelowRegistered, Zenon DEF PipeInv
  <2>2. CASE Gapped = {} /\ Pending # {}
    <3>1. PICK i \in Pending : NormalCheckpoint = To(i)
      BY <2>2, NormalFacts, Zenon
    <3>2. i \in Batch /\ st[i] # "none"
      BY <3>1, Zenon DEF Pending
    <3>3. To(i) \in BlocksOf[i]
      BY <3>2, BatchFacts, Zenon
    <3> QED
      BY <3>1, <3>2, <3>3, BelowRegistered, Zenon DEF PipeInv
  <2>3. CASE Gapped = {} /\ Pending = {}
    BY <2>3, NormalFacts, Zenon DEF PipeInv, Registry, CheckpointCovered
  <2> QED
    BY <2>1, <2>2, <2>3, Zenon
<1>9. BootCovered'
  <2> SUFFICES ASSUME NEW b \in Block, Unanswered(b)', lbe < b
               PROVE  NormalCheckpoint < b
    BY <1>1, <1>3, Zenon DEF BootCovered
  <2>1. b \in Nat /\ lbe \in Nat /\ NormalCheckpoint \in Nat
    <3>1. ckpt \in 0..MaxBlock /\ lbe \in 0..MaxBlock
      BY Zenon DEF DriverInv, DriverTypes, PipeInv, PipeTypes
    <3>2. NormalCheckpoint \in 0..MaxBlock
      BY <3>1, NormalType, Zenon
    <3> QED
      BY <3>1, <3>2, BlockFacts
  <2>2. resp[b] = 0
    BY <1>1, Zenon DEF Unanswered
  <2>3. CASE Unregistered(b)'
    <3>1. ~(b <= NormalCheckpoint)
      BY <1>1, <1>8, <2>1, <2>2, <2>3 DEF CheckpointCovered
    <3> QED
      BY <2>1, <3>1
  <2>4. CASE ~Unregistered(b)'
    <3>1. PICK j \in Batch : b \in BlocksOf[j] /\ st'[j] # "none"
      BY <2>4, Zenon DEF Unregistered
    <3>2. st'[j] = "pending"
      BY <3>1, Zenon DEF Unanswered
    <3>3. b \in Missing(j)
      BY <2>2, <3>1, Zenon DEF Missing
    <3>4. st[j] = "pending" => j \in Gapped
      BY <3>3, Zenon DEF Gapped, Pending
    <3>5. PICK h \in Gapped : h = j \/ h < j
      BY <1>4, <3>2, <3>4, Zenon DEF StaleSignatures
    <3>6. PICK g \in Gapped :
             /\ \A k \in Gapped : g <= k
             /\ \E x \in Missing(g) : (\A a \in Missing(g) : x <= a) /\ NormalCheckpoint = x - 1
      BY <3>5, NormalFacts, Zenon
    <3>m. PICK m \in Missing(g) : (\A a \in Missing(g) : m <= a) /\ NormalCheckpoint = m - 1
      BY <3>6, Zenon
    <3>7. g \in Batch /\ h \in Batch /\ m \in BlocksOf[g] /\ g <= h
      BY <3>5, <3>6, <3>m, Zenon DEF Gapped, Pending, Missing
    <3>8. g \in Nat /\ h \in Nat /\ j \in Nat /\ m \in Block
      BY <3>7, BatchFacts, Zenon
    <3>9. g = j \/ g < j
      BY <3>5, <3>7, <3>8
    <3>10. g = j => m <= b
      BY <3>3, <3>m, Zenon
    <3>11. g < j => m < b
      BY <3>1, <3>7, OrderFacts, Zenon
    <3>12. m \in Nat
      BY <3>8, BlockFacts, Zenon
    <3> QED
      BY <2>1, <3>m, <3>9, <3>10, <3>11, <3>12
  <2> QED
    BY <2>3, <2>4, Zenon
<1>10. Coverage'
  <2>1. ~Up'
    BY <1>2, Zenon DEF Up
  <2> QED
    BY <1>3, <1>9, <2>1, Zenon DEF Coverage, KnownAnswered, UpCovered
<1>11. Marked'
  BY <1>1, <1>3, <1>4, Zenon DEF PipeInv, Marks, Marked, To
<1>12. NoRowLeaks'
  BY <1>1, <1>4, Zenon DEF PipeInv, Marks, NoRowLeaks
<1> QED
  BY <1>5, <1>7, <1>8, <1>10, <1>11, <1>12, Zenon DEF PipeInv, Registry, Marks

-----------------------------------------------------------------------------
(* Feeder and workers: the store of SQLite and the main loop stand still.  *)

\* A task moves from one queue or worker to the next, or is given up.
LEMMA TaskStep ==
    ASSUME DriverInv, PipeInv, PipeTypes', Up, Up', UNCHANGED <<resp, st, lbe, unmarked, mem, ckpt>>,
           drv'.next = drv.next, drv'.wfb = drv.wfb, lost \subseteq lost',
           \A b \in Block : Unanswered(b) /\ InFlight(b) => InFlight(b)' \/ b \in lost'
    PROVE  PipeInv'
<1>1. Forgotten'
  BY Zenon DEF Forgotten
<1>2. Registry'
  BY RegistryIdle, Zenon DEF PipeInv
<1>3. mem.lbe \in Nat
  BY LoopFacts, Zenon DEF PipeInv, PipeTypes
<1>4. mem.lbe <= mem'.lbe
  BY <1>3
<1>5. Marks'
  BY <1>4, MarksStep, Zenon DEF PipeInv, Up
<1>6. \A b : Unanswered(b)' <=> Unanswered(b)
  BY Zenon DEF Unanswered
<1>7. KnownAnswered'
  BY <1>6, Zenon DEF PipeInv, Coverage, KnownAnswered
<1>8. Coverage'
  BY <1>4, <1>6, <1>7, CoverageStep, Zenon DEF PipeInv
<1> QED
  BY <1>1, <1>2, <1>5, <1>8, Zenon DEF PipeInv

\* The feeder queues a block, or skips one that is known to be answered.
LEMMA FeederStep ==
    ASSUME DriverInv, PipeInv, feeder_loop
    PROVE  PipeInv'
<1>1. /\ UNCHANGED <<resp, st, lbe, unmarked, mem, ckpt, highQ, results, busy, reexec, key, lost>>
      /\ Up /\ drv.out # 0
  BY Zenon DEF feeder_loop
<1>2. Up' /\ drv'.next = drv.next /\ drv'.wfb = drv.wfb
  BY Zenon DEF feeder_loop, DriverInv, DriverTypes, Memory, Up
<1>3. normalQ \in Seq(Block) /\ Len(normalQ) <= NormalCap /\ drv.out \in Block
  BY <1>1, BlockFacts DEF PipeInv, PipeTypes, DriverInv, DriverTypes, Memory, Block
<1>4. /\ normalQ' \in Seq(Block) /\ Len(normalQ') <= NormalCap /\ Range(normalQ) \subseteq Range(normalQ')
      /\ drv.out \in mem.known \/ drv.out \in Range(normalQ')
  <2>1. CASE drv.out \in mem.known
    BY <1>3, <2>1, Zenon DEF feeder_loop
  <2>2. CASE drv.out \notin mem.known
    <3>1. normalQ' = Append(normalQ, drv.out) /\ Len(normalQ) < NormalCap
      BY <2>2, Zenon DEF feeder_loop
    <3>2. /\ normalQ' \in Seq(Block) /\ Len(normalQ') = Len(normalQ) + 1
          /\ Range(normalQ') = Range(normalQ) \cup {drv.out}
      BY <1>3, <3>1, AppendFacts, ZenonT(60)
    <3>3. Len(normalQ) \in Nat /\ NormalCap \in Nat
      BY <1>3, PipelineAssumption DEF NormalCap
    <3> QED
      BY <3>1, <3>2, <3>3
  <2> QED
    BY <2>1, <2>2, Zenon
<1>5. PipeTypes'
  BY <1>1, <1>4, Zenon DEF PipeInv, PipeTypes, NormalCap, HighCap, ResultCap
<1>6. ASSUME NEW b \in Block, Unanswered(b), InFlight(b) PROVE InFlight(b)'
  <2>1. b # drv.out \/ b \in Range(normalQ')
    BY <1>4, <1>6, Zenon DEF PipeInv, Coverage, KnownAnswered
  <2> QED
    BY <1>1, <1>4, <1>6, <2>1, Zenon DEF InFlight
<1> QED
  BY <1>1, <1>2, <1>5, <1>6, TaskStep, Zenon

\* A worker takes the task at the head of a queue.
LEMMA TakeTaskStep ==
    ASSUME DriverInv, PipeInv, NEW w \in Worker, worker_take(w)
    PROVE  PipeInv'
<1>1. /\ UNCHANGED <<drv, ckpt, resp, st, lbe, unmarked, mem, results, reexec, key, lost>>
      /\ Up /\ busy[w] = 0
  BY Zenon DEF worker_take, driverVars
<1>2. normalQ \in Seq(Block) /\ highQ \in Seq(Block) /\ busy \in [Worker -> 0..MaxBlock]
  BY Zenon DEF PipeInv, PipeTypes
<1>3. PICK x \in Block :
         /\ normalQ' \in Seq(Block) /\ Len(normalQ') <= Len(normalQ)
         /\ highQ' \in Seq(Block) /\ Len(highQ') <= Len(highQ)
         /\ \A y \in Range(normalQ) \cup Range(highQ) :
               y = x \/ y \in Range(normalQ') \cup Range(highQ')
         /\ busy' = [busy EXCEPT ![w] = x]
  <2>1. CASE highQ # <<>> /\ busy' = [busy EXCEPT ![w] = Head(highQ)] /\ highQ' = Tail(highQ) /\ normalQ' = normalQ
    <3>1. /\ Head(highQ) \in Block /\ highQ' \in Seq(Block) /\ Len(highQ') <= Len(highQ)
          /\ \A y \in Range(highQ) : y = Head(highQ) \/ y \in Range(highQ')
      BY <1>2, <2>1, TailFacts, Zenon
    <3>2. Len(normalQ') <= Len(normalQ)
      BY <1>2, <2>1
    <3> QED
      BY <1>2, <2>1, <3>1, <3>2, Zenon
  <2>2. CASE normalQ # <<>> /\ busy' = [busy EXCEPT ![w] = Head(normalQ)] /\ normalQ' = Tail(normalQ) /\ highQ' = highQ
    <3>1. /\ Head(normalQ) \in Block /\ normalQ' \in Seq(Block) /\ Len(normalQ') <= Len(normalQ)
          /\ \A y \in Range(normalQ) : y = Head(normalQ) \/ y \in Range(normalQ')
      BY <1>2, <2>2, TailFacts, Zenon
    <3>2. Len(highQ') <= Len(highQ)
      BY <1>2, <2>2
    <3> QED
      BY <1>2, <2>2, <3>1, <3>2, Zenon
  <2> QED
    BY <2>1, <2>2, Zenon DEF worker_take
<1>4. Len(normalQ') <= NormalCap /\ Len(highQ') <= HighCap
  BY <1>2, <1>3, PipelineAssumption DEF PipeInv, PipeTypes, NormalCap, HighCap
<1>5. x \in 0..MaxBlock
  BY BlockFacts DEF Block
<1>6. /\ busy' \in [Worker -> 0..MaxBlock] /\ busy'[w] = x
      /\ \A v \in Worker : v # w => busy'[v] = busy[v]
  BY <1>2, <1>3, <1>5, Zenon
<1>7. PipeTypes'
  BY <1>1, <1>3, <1>4, <1>6, Zenon DEF PipeInv, PipeTypes, NormalCap, HighCap, ResultCap
<1>8. ASSUME NEW b \in Block, InFlight(b) PROVE InFlight(b)'
  <2>1. ASSUME NEW v \in Worker, b = busy[v] PROVE \E u \in Worker : b = busy'[u]
    <3>1. b # 0
      BY BlockFacts
    <3> QED
      BY <1>1, <1>6, <2>1, <3>1, Zenon
  <2>2. b \in Range(normalQ) \cup Range(highQ) =>
          b \in Range(normalQ') \cup Range(highQ') \/ b = busy'[w]
    BY <1>3, <1>6, Zenon
  <2> QED
    BY <1>1, <1>8, <2>1, <2>2, Zenon DEF InFlight
<1>9. Up' /\ drv'.next = drv.next /\ drv'.wfb = drv.wfb
  BY <1>1, Zenon DEF Up
<1> QED
  BY <1>1, <1>7, <1>8, <1>9, TaskStep, Zenon

\* A worker puts its block down.
LEMMA PutDownFacts ==
    ASSUME PipeTypes, NEW w \in Worker, busy[w] # 0, busy' = [busy EXCEPT ![w] = 0]
    PROVE  /\ busy[w] \in Block /\ busy' \in [Worker -> 0..MaxBlock]
           /\ \A v \in Worker : v # w => busy'[v] = busy[v]
<1>1. busy \in [Worker -> 0..MaxBlock] /\ 0 \in 0..MaxBlock
  BY BlockFacts DEF PipeTypes
<1>2. busy[w] \in Block
  BY <1>1, BlockFacts DEF Block
<1> QED
  BY <1>1, <1>2, Zenon

\* A worker sends a result.
LEMMA DoneStep ==
    ASSUME DriverInv, PipeInv, NEW w \in Worker, worker_done(w)
    PROVE  PipeInv'
<1>1. /\ UNCHANGED <<drv, ckpt, resp, st, lbe, unmarked, mem, normalQ, highQ, reexec, key, lost>>
      /\ Up /\ busy[w] # 0 /\ Len(results) < ResultCap /\ busy' = [busy EXCEPT ![w] = 0]
      /\ results' = Append(results, [block |-> busy[w], key |-> key])
  BY Zenon DEF worker_done, driverVars
<1>2. results \in Seq(Result) /\ key \in 1..MaxKey
  BY Zenon DEF PipeInv, PipeTypes
<1>3. /\ busy[w] \in Block /\ busy' \in [Worker -> 0..MaxBlock]
      /\ \A v \in Worker : v # w => busy'[v] = busy[v]
  BY <1>1, PutDownFacts, Zenon DEF PipeInv
<1>4. PICK r : r = [block |-> busy[w], key |-> key]
  BY Zenon
<1>5. r \in Result /\ r.block = busy[w]
  BY <1>2, <1>3, <1>4 DEF Result
<1>6. /\ results' \in Seq(Result) /\ Len(results') = Len(results) + 1
      /\ Range(results') = Range(results) \cup {r}
  <2>1. results' = Append(results, r)
    BY <1>1, <1>4
  <2> QED
    BY <1>2, <1>5, <2>1, AppendFacts, ZenonT(60)
<1>7. Len(results') <= ResultCap
  BY <1>1, <1>2, <1>6, PipelineAssumption DEF ResultCap
<1>8. PipeTypes'
  BY <1>1, <1>3, <1>6, <1>7, Zenon DEF PipeInv, PipeTypes, NormalCap, HighCap, ResultCap
<1>9. ASSUME NEW b \in Block, InFlight(b) PROVE InFlight(b)'
  <2>1. b \in {results[k].block : k \in DOMAIN results} \cup {busy[w]}
          => b \in {results'[k].block : k \in DOMAIN results'}
    BY <1>2, <1>5, <1>6, ResultFacts, Zenon
  <2>2. (\E v \in Worker : b = busy[v]) => b = busy[w] \/ \E v \in Worker : b = busy'[v]
    BY <1>3, Zenon
  <2> QED
    BY <1>1, <1>9, <2>1, <2>2, Zenon DEF InFlight
<1>10. Up' /\ drv'.next = drv.next /\ drv'.wfb = drv.wfb
  BY <1>1, Zenon DEF Up
<1> QED
  BY <1>1, <1>8, <1>9, <1>10, TaskStep, Zenon

\* A worker gives its task up.
LEMMA DropStep ==
    ASSUME DriverInv, PipeInv, NEW w \in Worker, worker_drop(w)
    PROVE  PipeInv'
<1>1. /\ UNCHANGED <<drv, ckpt, resp, st, lbe, unmarked, mem, normalQ, highQ, results, reexec,
                     key>>
      /\ Up /\ busy[w] # 0 /\ busy' = [busy EXCEPT ![w] = 0] /\ lost' = lost \cup {busy[w]}
  BY Zenon DEF worker_drop, driverVars
<1>2. /\ busy' \in [Worker -> 0..MaxBlock]
      /\ \A v \in Worker : v # w => busy'[v] = busy[v]
  BY <1>1, PutDownFacts, Zenon DEF PipeInv
<1>3. PipeTypes'
  BY <1>1, <1>2, Zenon DEF PipeInv, PipeTypes, NormalCap, HighCap, ResultCap
<1>4. ASSUME NEW b \in Block, InFlight(b) PROVE InFlight(b)' \/ b \in lost'
  <2>1. (\E v \in Worker : b = busy[v]) => b \in lost' \/ \E v \in Worker : b = busy'[v]
    BY <1>1, <1>2, Zenon
  <2> QED
    BY <1>1, <1>4, <2>1, Zenon DEF InFlight
<1>5. Up' /\ drv'.next = drv.next /\ drv'.wfb = drv.wfb /\ lost \subseteq lost'
  BY <1>1, Zenon DEF Up
<1> QED
  BY <1>1, <1>3, <1>4, <1>5, TaskStep, Zenon

\* A re-execution finds its witness, or is given up.
LEMMA SpawnStep ==
    ASSUME DriverInv, PipeInv, NEW x \in Block, spawn_re_execution(x)
    PROVE  PipeInv'
<1>1. /\ UNCHANGED <<drv, ckpt, resp, st, lbe, unmarked, mem, normalQ, results, busy, key>>
      /\ Up /\ reexec' = reexec \ {x}
  BY Zenon DEF spawn_re_execution, driverVars
<1>2. highQ \in Seq(Block) /\ Len(highQ) <= HighCap
  BY Zenon DEF PipeInv, PipeTypes
<1>3. /\ highQ' \in Seq(Block) /\ Len(highQ') <= HighCap /\ Range(highQ) \subseteq Range(highQ')
      /\ lost \subseteq lost' /\ x \in Range(highQ') \cup lost'
  <2>1. CASE Len(highQ) < HighCap /\ highQ' = Append(highQ, x) /\ lost' = lost
    <3>1. /\ highQ' \in Seq(Block) /\ Len(highQ') = Len(highQ) + 1
          /\ Range(highQ') = Range(highQ) \cup {x}
      BY <1>2, <2>1, AppendFacts, ZenonT(60)
    <3>2. Len(highQ') <= HighCap
      BY <1>2, <2>1, <3>1, PipelineAssumption DEF HighCap
    <3> QED
      BY <2>1, <3>1, <3>2, Zenon
  <2>2. CASE lost' = lost \cup {x} /\ highQ' = highQ
    BY <1>2, <2>2, Zenon
  <2> QED
    BY <2>1, <2>2, Zenon DEF spawn_re_execution
<1>4. PipeTypes'
  BY <1>1, <1>3, Zenon DEF PipeInv, PipeTypes, NormalCap, HighCap, ResultCap
<1>5. ASSUME NEW b \in Block, InFlight(b) PROVE InFlight(b)' \/ b \in lost'
  BY <1>1, <1>3, <1>5, Zenon DEF InFlight
<1>6. Up' /\ drv'.next = drv.next /\ drv'.wfb = drv.wfb
  BY <1>1, Zenon DEF Up
<1> QED
  BY <1>1, <1>3, <1>4, <1>5, <1>6, TaskStep, Zenon
-----------------------------------------------------------------------------
(* Results.                                                                *)

\* A result is dropped: its block is answered, or below last_batch_end.
LEMMA DroppedStep ==
    ASSUME DriverInv, PipeInv, Up, UNCHANGED <<drv, ckpt, resp, st, lbe, unmarked, mem, normalQ,
                                            highQ, busy, reexec, key, lost>>,
           results # <<>>, results' = Tail(results), Dropped(Head(results).block)
    PROVE  PipeInv'
<1>1. results \in Seq(Result) /\ Len(results) <= ResultCap
  BY Zenon DEF PipeInv, PipeTypes
<1>2. /\ results' \in Seq(Result) /\ Len(results') <= Len(results)
      /\ \A r \in Range(results) : r = Head(results) \/ r \in Range(results')
  BY <1>1, TailFacts, Zenon
<1>3. Len(results') <= ResultCap
  BY <1>1, <1>2, PipelineAssumption DEF ResultCap
<1>4. PipeTypes'
  BY <1>2, <1>3, Zenon DEF PipeInv, PipeTypes, NormalCap, HighCap, ResultCap
<1>5. mem.lbe \in Nat /\ mem.lbe <= mem'.lbe /\ mem' = mem
  <2>1. mem.lbe \in Nat
    BY LoopFacts, Zenon DEF PipeInv, PipeTypes
  <2> QED
    BY <2>1
<1>6. Forgotten' /\ Registry' /\ Marks'
  BY <1>4, <1>5, RegistryIdle, MarksStep, Zenon DEF PipeInv, Forgotten, Up
<1>7. \A b : Unanswered(b)' <=> Unanswered(b)
  BY Zenon DEF Unanswered
<1>8. KnownAnswered'
  BY <1>7, Zenon DEF PipeInv, Coverage, KnownAnswered
<1>9. BootCovered'
  BY Zenon DEF BootCovered, Up
<1>10. UpCovered'
  <2> SUFFICES ASSUME NEW b \in Block, Unanswered(b), mem.lbe < b
               PROVE  \/ drv.next <= b /\ drv.wfb <= b
                      \/ InFlight(b)' \/ b \in lost
    BY <1>5, <1>7, Zenon DEF UpCovered
  <2>1. b \in Nat
    BY BlockFacts, Zenon
  <2>2. ~(b <= mem.lbe)
    BY <1>5, <2>1
  <2>3. b # Head(results).block
    BY <2>2, Zenon DEF Dropped, PipeInv, Coverage, KnownAnswered
  <2>4. b \in {results[k].block : k \in DOMAIN results} =>
            b \in {results'[k].block : k \in DOMAIN results'}
    BY <1>1, <1>2, <2>3, ResultFacts, Zenon
  <2>5. InFlight(b) => InFlight(b)'
    BY <2>4, Zenon DEF InFlight
  <2> QED
    BY <2>5, Zenon DEF PipeInv, Coverage, UpCovered
<1> QED
  BY <1>4, <1>6, <1>8, <1>9, <1>10, Zenon DEF PipeInv, Coverage

\* A result is kept: its row is written, the checkpoint advances over the
\* confirmed prefix, and a batch that is complete now is signed.
LEMMA KeptStep ==
    ASSUME DriverInv, PipeInv, on_block_result, ~Dropped(Head(results).block)
    PROVE  PipeInv'
<1>1. /\ UNCHANGED <<drv, st, lbe, unmarked, normalQ, highQ, busy, reexec, key, lost>>
      /\ Up /\ results # <<>> /\ results' = Tail(results)
  BY Zenon DEF on_block_result
<1>2. PICK b \in Block, k \in 1..MaxKey : b = Head(results).block /\ k = Head(results).key
  BY <1>1, HeadFacts, Zenon
<1>3. PICK conf : conf = mem.confirmed \cup {b}
  BY Zenon
<1>4. PICK c : c = Advance(ckpt, conf)
  BY Zenon
<1>5. PICK m : m = [mem EXCEPT !.known = mem.known \cup {b}, !.confirmed = conf \ (ckpt + 1..c)]
  BY Zenon
<1>6. resp' = [resp EXCEPT ![b] = k] /\ ckpt' = c /\ mem' = try_sign(m, st, resp')
  BY <1>2, <1>3, <1>4, <1>5, Zenon DEF on_block_result
<1>7. mem \in MainLoop /\ mem.known \subseteq Block /\ mem.confirmed \subseteq Block /\ mem.lbe \in Nat
  BY LoopFacts, Zenon DEF PipeInv, PipeTypes
<1>8. /\ m \in MainLoop /\ m.known = mem.known \cup {b} /\ m.confirmed = conf \ (ckpt + 1..c)
      /\ m.lbe = mem.lbe /\ m.signing = mem.signing
  <2>1. mem.known \cup {b} \in SUBSET Block /\ conf \ (ckpt + 1..c) \in SUBSET Block
    BY <1>3, <1>7
  <2> QED
    BY <1>5, <1>7, <2>1, Zenon DEF MainLoop
<1>9. /\ resp' \in [Block -> 0..MaxKey] /\ NoRowLeaks' /\ resp'[b] # 0
      /\ \A a \in Block : a # b => resp'[a] = resp[a]
      /\ \A a \in Block : resp[a] # 0 => resp'[a] # 0
  BY <1>1, <1>2, <1>6, RowFacts, Zenon
<1>10. /\ mem' \in MainLoop /\ mem'.known = mem.known \cup {b} /\ mem'.lbe = mem.lbe
       /\ mem'.confirmed = conf \ (ckpt + 1..c)
       /\ mem'.signing # NoSigning => mem'.signing = mem.signing \/ st[mem'.signing.batch] = "pending"
  <2>1. PICK rows : rows = resp'
    BY Zenon
  <2>2. rows \in [Block -> 0..MaxKey] /\ mem' = try_sign(m, st, rows)
    BY <1>6, <1>9, <2>1, Zenon
  <2>3. PICK w : w = try_sign(m, st, rows)
    BY Zenon
  <2>4. /\ w \in MainLoop /\ w.known = m.known /\ w.confirmed = m.confirmed /\ w.lbe = m.lbe
        /\ w.signing # NoSigning => w.signing = m.signing \/ st[w.signing.batch] = "pending"
    <3>1. m \in MainLoop /\ st \in [Batch -> Status] /\ rows \in [Block -> 0..MaxKey]
      BY <1>8, <2>2, Zenon DEF PipeInv, PipeTypes
    <3> QED
      BY <2>3, <3>1, TrySignFacts, SMT
  <2> QED
    BY <1>8, <2>2, <2>3, <2>4, Zenon
<1>11. results \in Seq(Result) /\ Len(results) <= ResultCap
  BY Zenon DEF PipeInv, PipeTypes
<1>12. /\ results' \in Seq(Result) /\ Len(results') <= Len(results)
       /\ \A r \in Range(results) : r = Head(results) \/ r \in Range(results')
  BY <1>1, <1>11, TailFacts, Zenon
<1>13. PipeTypes'
  <2>1. Len(results') <= ResultCap
    BY <1>11, <1>12, PipelineAssumption DEF ResultCap
  <2> QED
    BY <1>1, <1>9, <1>10, <1>12, <2>1, Zenon DEF PipeInv, PipeTypes, NormalCap, HighCap, ResultCap
<1>14. Up' /\ Forgotten'
  BY <1>1, Zenon DEF Up, Forgotten
<1>15. \A a \in Block : Unregistered(a)' <=> Unregistered(a)
  BY <1>1, Zenon DEF Unregistered
<1>16. InOrder' /\ SigningRegistered' /\ HolesMarked' /\ MarkFinal'
  <2>1. InOrder' /\ HolesMarked' /\ MarkFinal'
    BY <1>1, <1>15, Zenon DEF PipeInv, Registry, InOrder, HolesMarked, MarkFinal, Hole, To
  <2>2. SigningRegistered'
    BY <1>1, <1>10, Zenon DEF PipeInv, Registry, SigningRegistered
  <2> QED
    BY <2>1, <2>2, Zenon
<1>17. CheckpointCovered'
  <2> SUFFICES ASSUME NEW a \in Block, Unregistered(a), a <= c, resp'[a] = 0
               PROVE  a <= lbe
    BY <1>1, <1>6, <1>15, Zenon DEF CheckpointCovered
  <2>1. a # b /\ resp[a] = 0
    BY <1>9, Zenon
  <2>2. ckpt \in 0..MaxBlock
    BY Zenon DEF DriverInv, DriverTypes
  <2>3. c \in ckpt..MaxBlock /\ ckpt + 1..c \subseteq conf
    BY <1>4, <2>2, AdvanceFacts, Zenon
  <2>4. a <= ckpt \/ a \in ckpt + 1..c
    BY <2>2, <2>3, BlockFacts
  <2>5. a \notin mem.confirmed
    BY <2>1, Zenon DEF PipeInv, Registry, ConfirmedAnswered
  <2>6. a <= ckpt
    BY <1>3, <2>1, <2>3, <2>4, <2>5, Zenon
  <2> QED
    BY <2>1, <2>6, Zenon DEF PipeInv, Registry, CheckpointCovered
<1>18. ConfirmedAnswered'
  BY <1>3, <1>9, <1>10, <1>15, Zenon DEF PipeInv, Registry, ConfirmedAnswered
<1>19. Registry'
  BY <1>16, <1>17, <1>18, Zenon DEF Registry
<1>20. \A a \in Block : Unanswered(a)' => Unanswered(a) /\ a # b
  BY <1>1, <1>9, Zenon DEF Unanswered
<1>21. KnownAnswered'
  BY <1>10, <1>20, Zenon DEF PipeInv, Coverage, KnownAnswered
<1>22. ASSUME NEW a \in Block, a # b, InFlight(a) PROVE InFlight(a)'
  <2>1. a \in {results[j].block : j \in DOMAIN results} =>
            a \in {results'[j].block : j \in DOMAIN results'}
    BY <1>2, <1>11, <1>12, <1>22, ResultFacts, Zenon
  <2> QED
    BY <1>1, <1>22, <2>1, Zenon DEF InFlight
<1>23. mem.lbe <= mem'.lbe /\ drv'.next = drv.next /\ drv'.wfb = drv.wfb /\ lost \subseteq lost'
  BY <1>1, <1>7, <1>10
<1>24. Coverage'
  BY <1>1, <1>13, <1>14, <1>20, <1>21, <1>22, <1>23, CoverageStep, Zenon DEF PipeInv
<1>25. Marked'
  BY <1>1, <1>10, Zenon DEF PipeInv, Marks, Marked, To
<1> QED
  BY <1>9, <1>13, <1>14, <1>19, <1>24, <1>25, Zenon DEF PipeInv, Marks

\* Every result.
LEMMA ResultStep ==
    ASSUME DriverInv, PipeInv, on_block_result
    PROVE  PipeInv'
<1>1. CASE Dropped(Head(results).block)
  <2>1. /\ UNCHANGED <<drv, ckpt, resp, st, lbe, unmarked, mem, normalQ, highQ, busy, reexec, key,
                       lost>>
        /\ Up /\ results # <<>> /\ results' = Tail(results)
    BY <1>1, Zenon DEF on_block_result
  <2> QED
    BY <1>1, <2>1, DroppedStep, Zenon
<1>2. CASE ~Dropped(Head(results).block)
  BY <1>2, KeptStep, Zenon
<1> QED
  BY <1>1, <1>2, Zenon

-----------------------------------------------------------------------------
(* The other handlers of the main loop.                                    *)

\* What a handler leaves alone, and what it may change.
HandlerFrame ==
    /\ UNCHANGED <<drv, ckpt, normalQ, highQ, results, busy, lost>>
    /\ resp' \in [Block -> 0..MaxKey] /\ st' \in [Batch -> Status] /\ lbe' \in 0..MaxBlock
    /\ mem' \in MainLoop /\ reexec \subseteq reexec' /\ reexec' \subseteq Block
    /\ key' \in 1..MaxKey

\* What follows from that alone.
LEMMA FrameFacts ==
    ASSUME PipeInv, Up, HandlerFrame
    PROVE  /\ PipeTypes' /\ Forgotten' /\ Up'
           /\ \A b \in Block : InFlight(b) => InFlight(b)'
<1>1. PipeTypes'
  BY Zenon DEF HandlerFrame, PipeInv, PipeTypes, NormalCap, HighCap, ResultCap
<1>2. Up' /\ Forgotten'
  BY Zenon DEF HandlerFrame, Up, Forgotten
<1>3. \A b \in Block : InFlight(b) => InFlight(b)'
  BY Zenon DEF HandlerFrame, InFlight
<1> QED
  BY <1>1, <1>2, <1>3, Zenon

\* A handler that finalizes nothing: rows are only purged, of registered
\* blocks, and a block that needs an answer again is re-executed and forgotten.
LEMMA QuietHandler ==
    ASSUME DriverInv, PipeInv, Up, HandlerFrame, InOrder', SigningRegistered',
           UNCHANGED <<lbe, unmarked>>,
           mem'.confirmed = mem.confirmed, mem'.lbe = mem.lbe, mem'.known \subseteq mem.known,
           \A i \in Batch : /\ st'[i] = "none" => st[i] = "none"
                            /\ st'[i] = "final" <=> st[i] = "final",
           \A b \in Block : /\ resp[b] = 0 => resp'[b] = 0
                            /\ Unregistered(b) => resp'[b] = resp[b]
                            /\ Unanswered(b)' =>
                                  Unanswered(b) \/ (b \in reexec' /\ b \notin mem'.known)
    PROVE  PipeInv'
<1>1. /\ PipeTypes' /\ Forgotten' /\ Up'
      /\ \A b \in Block : InFlight(b) => InFlight(b)'
  BY FrameFacts, Zenon
<1>2. UNCHANGED <<drv, ckpt, lost>>
  BY Zenon DEF HandlerFrame
<1>3. mem.lbe <= mem'.lbe
  <2>1. mem.lbe \in Nat
    BY LoopFacts, Zenon DEF PipeInv, PipeTypes
  <2> QED
    BY <2>1
<1>4. Registry'
  <2>1. /\ Registry /\ ckpt' = ckpt /\ lbe' = lbe /\ mem'.confirmed \subseteq mem.confirmed
        /\ \A i \in Batch : /\ st'[i] = "none" => st[i] = "none"
                            /\ st[i] = "final" => st'[i] = "final"
        /\ \A b \in Block : Unregistered(b) /\ resp[b] # 0 => resp'[b] # 0
    BY <1>2, Zenon DEF PipeInv
  <2> QED
    BY <2>1, RegistryStep, Zenon
<1>5. Marks'
  BY <1>1, <1>2, <1>3, MarksStep, Zenon DEF PipeInv, Up
<1>6. KnownAnswered'
  BY Zenon DEF PipeInv, Coverage, KnownAnswered
<1>7. \A b \in Block : b \in reexec' => InFlight(b)'
  BY Zenon DEF InFlight
<1>8. Coverage'
  BY <1>1, <1>2, <1>3, <1>6, <1>7, CoverageStep, Zenon DEF PipeInv
<1> QED
  BY <1>1, <1>4, <1>5, <1>8, Zenon DEF PipeInv

\* Rows that are purged.
LEMMA PurgeFacts ==
    ASSUME PipeTypes, NEW S
    PROVE  /\ Purge(S) \in [Block -> 0..MaxKey]
           /\ \A b \in Block : Purge(S)[b] = IF b \in S THEN 0 ELSE resp[b]
<1>1. 0 \in 0..MaxKey
  BY PipelineAssumption
<1> QED
  BY <1>1 DEF Purge, PipeTypes

\* The types a handler starts from.
LEMMA Before ==
    ASSUME PipeInv
    PROVE  /\ PipeTypes /\ resp \in [Block -> 0..MaxKey] /\ st \in [Batch -> Status]
           /\ lbe \in 0..MaxBlock /\ mem \in MainLoop /\ reexec \subseteq Block
           /\ key \in 1..MaxKey /\ InOrder /\ SigningRegistered
BY Zenon DEF PipeInv, PipeTypes, Registry

\* L1 registers a batch.
LEMMA RegisterStep ==
    ASSUME DriverInv, PipeInv, HandlerStep, NEW i \in Batch, on_l1_register(i)
    PROVE  PipeInv'
<1>1. /\ UNCHANGED <<drv, ckpt, normalQ, highQ, results, busy, resp, lbe, unmarked, mem, reexec,
                     key, lost>>
      /\ Up /\ st[i] = "none" /\ st' = [st EXCEPT ![i] = "pending"]
      /\ \A j \in Batch : j < i => st[j] # "none"
  BY Zenon DEF HandlerStep, driverVars, on_l1_register
<1>2. st' \in [Batch -> Status] /\ st'[i] = "pending" /\ \A j \in Batch : j # i => st'[j] = st[j]
  BY <1>1, Before, "pending" \in Status, Zenon DEF Status
<1>3. HandlerFrame
  BY <1>1, <1>2, Before, Zenon DEF HandlerFrame
<1>4. InOrder'
  BY <1>1, <1>2, Before, Zenon DEF InOrder
<1>5. SigningRegistered'
  <2>1. mem.signing # NoSigning => mem.signing.batch \in Batch
    BY Before, LoopFacts, SigningFacts, Zenon
  <2> QED
    BY <1>1, <1>2, <2>1, Before, Zenon DEF SigningRegistered
<1>6. \A j \in Batch : /\ st'[j] = "none" => st[j] = "none"
                       /\ st'[j] = "final" <=> st[j] = "final"
  BY <1>1, <1>2, Zenon
<1>7. \A b \in Block : Unanswered(b)' => Unanswered(b)
  <2>1. \A j \in Batch : st'[j] \in {"none", "pending"} => st[j] \in {"none", "pending"}
    BY <1>1, <1>2, Zenon
  <2> QED
    BY <1>1, <2>1, Zenon DEF Unanswered
<1> QED
  BY <1>1, <1>3, <1>4, <1>5, <1>6, <1>7, QuietHandler, Zenon

\* L1 preconfirms a batch.
LEMMA PreconfirmedStep ==
    ASSUME DriverInv, PipeInv, HandlerStep, NEW i \in Batch, on_l1_preconfirmed(i)
    PROVE  PipeInv'
<1>1. /\ UNCHANGED <<drv, ckpt, normalQ, highQ, results, busy, resp, lbe, unmarked, mem, reexec,
                     key, lost>>
      /\ Up /\ i \in Pending /\ st' = [st EXCEPT ![i] = "dispatched"]
  BY Zenon DEF HandlerStep, driverVars, on_l1_preconfirmed
<1>2. st' \in [Batch -> Status] /\ st'[i] = "dispatched" /\ \A j \in Batch : j # i => st'[j] = st[j]
  BY <1>1, Before, "dispatched" \in Status, Zenon DEF Status
<1>3. HandlerFrame
  BY <1>1, <1>2, Before, Zenon DEF HandlerFrame
<1>4. st[i] \in {"pending", "signed"}
  BY <1>1, Zenon DEF Pending
<1>5. \A j \in Batch : /\ st'[j] = "none" <=> st[j] = "none"
                       /\ st'[j] = "final" <=> st[j] = "final"
  BY <1>2, <1>4, Zenon
<1>6. InOrder'
  BY <1>5, Before, Zenon DEF InOrder
<1>7. SigningRegistered'
  <2>1. mem.signing # NoSigning => mem.signing.batch \in Batch
    BY Before, LoopFacts, SigningFacts, Zenon
  <2> QED
    BY <1>1, <1>5, <2>1, Before, Zenon DEF SigningRegistered
<1>8. \A b \in Block : Unanswered(b)' => Unanswered(b)
  <2>1. \A j \in Batch : st'[j] \in {"none", "pending"} => st[j] \in {"none", "pending"}
    BY <1>2, Zenon
  <2> QED
    BY <1>1, <2>1, Zenon DEF Unanswered
<1> QED
  BY <1>1, <1>3, <1>5, <1>6, <1>7, <1>8, QuietHandler, Zenon

\* The loop looks for the next batch to sign.
LEMMA SignNextFacts ==
    ASSUME NEW m \in MainLoop, NEW s \in [Batch -> Status], NEW rows \in [Block -> 0..MaxKey],
           mem' = try_sign(m, s, rows)
    PROVE  /\ mem' \in MainLoop /\ mem'.known = m.known /\ mem'.confirmed = m.confirmed
           /\ mem'.lbe = m.lbe
           /\ mem'.signing # NoSigning =>
                 mem'.signing = m.signing \/ s[mem'.signing.batch] = "pending"
<1>1. PICK w : w = try_sign(m, s, rows)
  BY Zenon
<1>2. /\ w \in MainLoop /\ w.known = m.known /\ w.confirmed = m.confirmed /\ w.lbe = m.lbe
      /\ w.signing # NoSigning => w.signing = m.signing \/ s[w.signing.batch] = "pending"
  BY <1>1, TrySignFacts, SMT
<1>3. mem' = w
  BY <1>1, Zenon
<1> QED
  BY <1>2, <1>3, Zenon

\* No signature is under way any more.
LEMMA UnsigningFacts ==
    ASSUME mem \in MainLoop
    PROVE  /\ [mem EXCEPT !.signing = NoSigning] \in MainLoop
           /\ [mem EXCEPT !.signing = NoSigning].known = mem.known
           /\ [mem EXCEPT !.signing = NoSigning].confirmed = mem.confirmed
           /\ [mem EXCEPT !.signing = NoSigning].lbe = mem.lbe
           /\ [mem EXCEPT !.signing = NoSigning].signing = NoSigning
<1>1. NoSigning \in Signing
  BY Zenon DEF Signing
<1> QED
  BY <1>1, Zenon DEF MainLoop

\* The enclave signs a batch that is still pending: its rows go.
LEMMA SignedPendingStep ==
    ASSUME DriverInv, PipeInv, HandlerStep, on_sign_done_signed,
           st[mem.signing.batch] = "pending"
    PROVE  PipeInv'
<1>1. /\ UNCHANGED <<drv, ckpt, normalQ, highQ, results, busy, lbe, unmarked, reexec, key, lost>>
      /\ Up /\ mem.signing # NoSigning
  BY Zenon DEF HandlerStep, driverVars, on_sign_done_signed
<1>2. mem.signing.batch \in Batch
  BY <1>1, Before, LoopFacts, SigningFacts, Zenon
<1>3. PICK i \in Batch : i = mem.signing.batch
  BY <1>2, Zenon
<1>4. PICK m : m = [mem EXCEPT !.signing = NoSigning]
  BY Zenon
<1>5. /\ m \in MainLoop /\ m.known = mem.known /\ m.confirmed = mem.confirmed
      /\ m.lbe = mem.lbe /\ m.signing = NoSigning
  BY <1>4, Before, UnsigningFacts, Zenon
<1>6. PICK s, rows : s = [st EXCEPT ![i] = "signed"] /\ rows = Purge(BlocksOf[i])
  BY Zenon
<1>7. st' = s /\ resp' = rows /\ mem' = try_sign(m, s, rows)
  BY <1>3, <1>4, <1>6, Zenon DEF on_sign_done_signed
<1>8. s \in [Batch -> Status] /\ s[i] = "signed" /\ \A j \in Batch : j # i => s[j] = st[j]
  BY <1>6, Before, "signed" \in Status, Zenon DEF Status
<1>9. /\ rows \in [Block -> 0..MaxKey]
      /\ \A b \in Block : rows[b] = IF b \in BlocksOf[i] THEN 0 ELSE resp[b]
  BY <1>6, Before, PurgeFacts, Zenon
<1>10. /\ mem' \in MainLoop /\ mem'.known = mem.known /\ mem'.confirmed = mem.confirmed
       /\ mem'.lbe = mem.lbe
       /\ mem'.signing # NoSigning => s[mem'.signing.batch] = "pending"
  BY <1>5, <1>7, <1>8, <1>9, SignNextFacts, Zenon
<1>11. HandlerFrame
  BY <1>1, <1>7, <1>8, <1>9, <1>10, Before, Zenon DEF HandlerFrame
<1>12. st[i] = "pending"
  BY <1>3, Zenon
<1>13. \A j \in Batch : /\ st'[j] = "none" <=> st[j] = "none"
                        /\ st'[j] = "final" <=> st[j] = "final"
  BY <1>7, <1>8, <1>12, Zenon
<1>14. InOrder'
  BY <1>13, Before, Zenon DEF InOrder
<1>15. SigningRegistered'
  BY <1>7, <1>10, Zenon DEF SigningRegistered
<1>16. \A b \in Block : resp[b] = 0 => resp'[b] = 0
  BY <1>7, <1>9, Zenon
<1>17. \A b \in Block : Unregistered(b) => resp'[b] = resp[b]
  <2>1. \A b \in Block : Unregistered(b) => b \notin BlocksOf[i]
    BY <1>12 DEF Unregistered
  <2> QED
    BY <1>7, <1>9, <2>1, Zenon
<1>18. \A b \in Block : Unanswered(b)' => Unanswered(b)
  <2> SUFFICES ASSUME NEW b \in Block, Unanswered(b)' PROVE Unanswered(b)
    OBVIOUS
  <2>1. resp'[b] = 0 /\ \A j \in Batch : b \in BlocksOf[j] => s[j] \in {"none", "pending"}
    BY <1>7, Zenon DEF Unanswered
  <2>2. b \notin BlocksOf[i]
    BY <1>8, <2>1
  <2>3. resp[b] = 0
    BY <1>7, <1>9, <2>1, <2>2, Zenon
  <2> QED
    BY <1>8, <2>1, <2>2, <2>3, Zenon DEF Unanswered
<1> QED
  BY <1>1, <1>10, <1>11, <1>13, <1>14, <1>15, <1>16, <1>17, <1>18, QuietHandler, Zenon

\* The loop forgets a signature, or a check of the key, and may start to sign
\* another batch: nothing else changes.
LEMMA SigningStep ==
    ASSUME DriverInv, PipeInv, HandlerStep, Up,
           UNCHANGED <<resp, st, lbe, unmarked, reexec, key, lost>>,
           mem' \in MainLoop, mem'.known = mem.known, mem'.confirmed = mem.confirmed,
           mem'.lbe = mem.lbe,
           mem'.signing # NoSigning =>
               mem'.signing = mem.signing \/ st[mem'.signing.batch] = "pending"
    PROVE  PipeInv'
<1>1. UNCHANGED <<drv, ckpt, normalQ, highQ, results, busy>>
  BY Zenon DEF HandlerStep, driverVars
<1>2. HandlerFrame
  BY <1>1, Before, Zenon DEF HandlerFrame
<1>3. InOrder'
  BY Before, Zenon DEF InOrder
<1>4. SigningRegistered'
  <2>1. CASE mem'.signing = NoSigning \/ mem'.signing = mem.signing
    BY <2>1, Before, Zenon DEF SigningRegistered
  <2>2. CASE st[mem'.signing.batch] = "pending"
    BY <2>2, Zenon DEF SigningRegistered
  <2> QED
    BY <2>1, <2>2, Zenon
<1>5. \A b \in Block : Unanswered(b)' => Unanswered(b)
  BY Zenon DEF Unanswered
<1> QED
  BY <1>2, <1>3, <1>4, <1>5, QuietHandler, Zenon

\* The enclave signs a batch that has left the pending ones.
LEMMA SignedLateStep ==
    ASSUME DriverInv, PipeInv, HandlerStep, on_sign_done_signed,
           st[mem.signing.batch] # "pending"
    PROVE  PipeInv'
<1>1. UNCHANGED <<resp, st, lbe, unmarked, reexec, key, lost>> /\ Up
  BY Zenon DEF on_sign_done_signed
<1>2. PICK m : m = [mem EXCEPT !.signing = NoSigning]
  BY Zenon
<1>3. /\ m \in MainLoop /\ m.known = mem.known /\ m.confirmed = mem.confirmed
      /\ m.lbe = mem.lbe /\ m.signing = NoSigning
  BY <1>2, Before, UnsigningFacts, Zenon
<1>4. mem' = try_sign(m, st, resp)
  BY <1>2, Zenon DEF on_sign_done_signed
<1>5. /\ mem' \in MainLoop /\ mem'.known = mem.known /\ mem'.confirmed = mem.confirmed
      /\ mem'.lbe = mem.lbe
      /\ mem'.signing # NoSigning => st[mem'.signing.batch] = "pending"
  BY <1>3, <1>4, Before, SignNextFacts, Zenon
<1> QED
  BY <1>1, <1>5, SigningStep, Zenon

\* Signing fails.
LEMMA SignFailedStep ==
    ASSUME DriverInv, PipeInv, HandlerStep, on_sign_done_failed
    PROVE  PipeInv'
<1>1. UNCHANGED <<resp, st, lbe, unmarked, reexec, key, lost>> /\ Up
  BY Zenon DEF on_sign_done_failed
<1>2. mem' = [mem EXCEPT !.signing = NoSigning]
  BY Zenon DEF on_sign_done_failed
<1>3. /\ mem' \in MainLoop /\ mem'.known = mem.known /\ mem'.confirmed = mem.confirmed
      /\ mem'.lbe = mem.lbe /\ mem'.signing = NoSigning
  BY <1>2, Before, UnsigningFacts, Zenon
<1> QED
  BY <1>1, <1>3, SigningStep, Zenon

\* The key turns out to be registered on L1.
LEMMA KeyRegisteredStep ==
    ASSUME DriverInv, PipeInv, HandlerStep, on_key_registered
    PROVE  PipeInv'
<1>1. UNCHANGED <<resp, st, lbe, unmarked, reexec, key, lost>> /\ Up
  BY Zenon DEF on_key_registered
<1>2. PICK m : m = [mem EXCEPT !.keyCheck = FALSE]
  BY Zenon
<1>3. /\ m \in MainLoop /\ m.known = mem.known /\ m.confirmed = mem.confirmed
      /\ m.lbe = mem.lbe /\ m.signing = mem.signing
  BY <1>2, Before, FALSE \in BOOLEAN, Zenon DEF MainLoop
<1>4. mem' = try_sign(m, st, resp)
  BY <1>2, Zenon DEF on_key_registered
<1>5. /\ mem' \in MainLoop /\ mem'.known = mem.known /\ mem'.confirmed = mem.confirmed
      /\ mem'.lbe = mem.lbe
      /\ mem'.signing # NoSigning =>
            mem'.signing = mem.signing \/ st[mem'.signing.batch] = "pending"
  BY <1>3, <1>4, Before, SignNextFacts, Zenon
<1> QED
  BY <1>1, <1>5, SigningStep, Zenon

\* The enclave refuses some rows: they are purged and their blocks executed again.
LEMMA SignInvalidStep ==
    ASSUME DriverInv, PipeInv, HandlerStep, on_sign_done_invalid
    PROVE  PipeInv'
<1>1. /\ UNCHANGED <<drv, ckpt, normalQ, highQ, results, busy, st, lbe, unmarked, key, lost>>
      /\ Up /\ mem.signing # NoSigning
  BY Zenon DEF HandlerStep, driverVars, on_sign_done_invalid
<1>2. PICK bad : bad = {b \in DOMAIN mem.signing.rows : mem.signing.rows[b] # key}
  BY Zenon
<1>3. PICK i \in Batch : i = mem.signing.batch /\ DOMAIN mem.signing.rows = BlocksOf[i]
  BY <1>1, Before, LoopFacts, SigningFacts, Zenon
<1>4. bad \subseteq BlocksOf[i] /\ bad \subseteq Block
  BY <1>2, <1>3, BatchFacts, Zenon
<1>5. /\ resp' = Purge(bad) /\ reexec' = reexec \cup bad
      /\ mem' = [mem EXCEPT !.signing = NoSigning, !.known = mem.known \ bad, !.keyCheck = TRUE]
  BY <1>2, Zenon DEF on_sign_done_invalid
<1>6. /\ mem' \in MainLoop /\ mem'.known = mem.known \ bad /\ mem'.confirmed = mem.confirmed
      /\ mem'.lbe = mem.lbe /\ mem'.signing = NoSigning
  <2>1. mem.known \ bad \in SUBSET Block /\ NoSigning \in Signing
    BY Before, LoopFacts, Zenon DEF Signing
  <2> QED
    BY <1>5, <2>1, Before, TRUE \in BOOLEAN, Zenon DEF MainLoop
<1>7. /\ resp' \in [Block -> 0..MaxKey]
      /\ \A b \in Block : resp'[b] = IF b \in bad THEN 0 ELSE resp[b]
  BY <1>5, Before, PurgeFacts, Zenon
<1>8. HandlerFrame
  BY <1>1, <1>4, <1>5, <1>6, <1>7, Before, Zenon DEF HandlerFrame
<1>9. InOrder' /\ SigningRegistered'
  BY <1>1, <1>6, Before, Zenon DEF InOrder, SigningRegistered
<1>10. \A b \in Block : resp[b] = 0 => resp'[b] = 0
  BY <1>7, Zenon
<1>11. \A b \in Block : Unregistered(b) => resp'[b] = resp[b]
  <2>1. st[i] # "none"
    BY <1>1, <1>3, Before, Zenon DEF SigningRegistered
  <2>2. \A b \in Block : Unregistered(b) => b \notin bad
    BY <1>4, <2>1, Zenon DEF Unregistered
  <2> QED
    BY <1>7, <2>2, Zenon
<1>12. \A b \in Block : Unanswered(b)' => Unanswered(b) \/ (b \in reexec' /\ b \notin mem'.known)
  <2> SUFFICES ASSUME NEW b \in Block, Unanswered(b)', b \notin bad PROVE Unanswered(b)
    BY <1>5, <1>6, Zenon
  <2> QED
    BY <1>1, <1>7, Zenon DEF Unanswered
<1>13. mem'.known \subseteq mem.known
  BY <1>6, Zenon
<1> QED
  BY <1>1, <1>6, <1>8, <1>9, <1>10, <1>11, <1>12, <1>13, QuietHandler, Zenon

\* Nothing happens, or the enclave rotates its key.
LEMMA RotateStep ==
    ASSUME PipeInv, key' \in 1..MaxKey,
           UNCHANGED <<drv, ckpt, normalQ, highQ, results, busy, resp, st, lbe, unmarked, mem,
                       reexec, lost>>
    PROVE  PipeInv'
<1>1. PipeTypes' /\ Forgotten'
  BY Zenon DEF PipeInv, PipeTypes, Forgotten, Up, NormalCap, HighCap, ResultCap
<1>2. Registry'
  BY RegistryIdle, Zenon DEF PipeInv
<1>3. \A b \in Block : (Unanswered(b)' <=> Unanswered(b)) /\ (InFlight(b)' <=> InFlight(b))
  BY Zenon DEF Unanswered, InFlight
<1>4. Coverage'
  BY <1>3, Zenon DEF PipeInv, Coverage, KnownAnswered, BootCovered, UpCovered, Up
<1>5. Marks'
  BY Zenon DEF PipeInv, Marks, Marked, NoRowLeaks, To
<1> QED
  BY <1>1, <1>2, <1>4, <1>5, Zenon DEF PipeInv

-----------------------------------------------------------------------------
(* Finalization.                                                           *)

\* The batch becomes final and its rows go.
LEMMA FinalFacts ==
    ASSUME PipeInv, NEW i \in Batch, st[i] = "dispatched",
           st' = [st EXCEPT ![i] = "final"], resp' = Purge(BlocksOf[i])
    PROVE  /\ st' \in [Batch -> Status] /\ st'[i] = "final"
           /\ \A j \in Batch : j # i => st'[j] = st[j]
           /\ \A j \in Batch : /\ st'[j] = "none" <=> st[j] = "none"
                               /\ st[j] = "final" => st'[j] = "final"
           /\ resp' \in [Block -> 0..MaxKey]
           /\ \A b \in Block : resp[b] = 0 => resp'[b] = 0
           /\ \A b \in BlocksOf[i] : resp'[b] = 0
           /\ \A b \in Block : b \notin BlocksOf[i] => resp'[b] = resp[b]
           /\ \A b \in Block : Unregistered(b) => resp'[b] = resp[b]
           /\ InOrder'
<1>1. st' \in [Batch -> Status] /\ st'[i] = "final" /\ \A j \in Batch : j # i => st'[j] = st[j]
  BY Before, "final" \in Status, Zenon DEF Status
<1>2. \A j \in Batch : /\ st'[j] = "none" <=> st[j] = "none"
                       /\ st[j] = "final" => st'[j] = "final"
  BY <1>1
<1>3. /\ resp' \in [Block -> 0..MaxKey]
      /\ \A b \in Block : resp'[b] = IF b \in BlocksOf[i] THEN 0 ELSE resp[b]
  BY Before, PurgeFacts, Zenon
<1>4. \A b \in Block : Unregistered(b) => b \notin BlocksOf[i]
  BY Zenon DEF Unregistered
<1>5. InOrder'
  BY <1>2, Before, Zenon DEF InOrder
<1> QED
  BY <1>1, <1>2, <1>3, <1>4, <1>5, BatchFacts, Zenon

\* last_batch_end is overwritten with the end of the batch, even when it was
\* higher: everything it must cover is below that end.
LEMMA FinalRegistry ==
    ASSUME PipeInv, NEW i \in Batch, st[i] = "dispatched",
           st' = [st EXCEPT ![i] = "final"], resp' = Purge(BlocksOf[i]), lbe' = To(i),
           ckpt' = ckpt, mem'.confirmed = mem.confirmed, SigningRegistered'
    PROVE  Registry'
<1>1. /\ \A j \in Batch : /\ st'[j] = "none" <=> st[j] = "none"
                          /\ st[j] = "final" => st'[j] = "final"
      /\ \A b \in Block : Unregistered(b) => resp'[b] = resp[b]
      /\ InOrder'
  BY FinalFacts, Zenon
<1>2. \A b \in Block : Unregistered(b)' <=> Unregistered(b)
  BY <1>1, Zenon DEF Unregistered
<1>3. To(i) \in BlocksOf[i] /\ To(i) \in Nat /\ st[i] # "final" /\ st[i] # "none"
  BY BatchFacts, BlockFacts, Zenon
<1>4. ASSUME NEW b \in Block, Unregistered(b), b <= lbe PROVE b <= To(i)
  <2>1. ~(To(i) < b)
    BY <1>3, <1>4, Zenon DEF PipeInv, Registry, MarkFinal
  <2>2. b \in Nat
    BY BlockFacts, Zenon
  <2> QED
    BY <1>3, <2>1, <2>2
<1>5. HolesMarked'
  <2> SUFFICES ASSUME NEW b \in Block, Hole(b) PROVE b <= To(i)
    BY Zenon DEF HolesMarked, Hole, To
  <2>1. Unregistered(b) /\ b <= lbe
    BY Zenon DEF PipeInv, Registry, HolesMarked, Hole, Unregistered
  <2> QED
    BY <1>4, <2>1, Zenon
<1>6. MarkFinal'
  <2> SUFFICES ASSUME NEW b \in Block, Unregistered(b), b <= To(i),
                      NEW j \in Batch, To(j) < b
               PROVE  st'[j] = "final"
    BY <1>2, Zenon DEF MarkFinal, To
  <2>1. \A k \in Batch : b \notin BlocksOf[k]
    <3> SUFFICES ASSUME NEW k \in Batch, b \in BlocksOf[k] PROVE FALSE
      OBVIOUS
    <3>1. st[k] = "none" /\ k # i
      BY <1>3 DEF Unregistered
    <3>2. b # To(i)
      BY <1>3, <3>1, OrderFacts, ZenonT(60)
    <3>3. b \in Nat /\ k \in Nat /\ i \in Nat
      BY BlockFacts, BatchFacts, Zenon
    <3>4. b < To(i)
      BY <1>3, <3>2, <3>3
    <3>5. k <= i
      BY <1>3, <3>4, OrderFacts, Zenon
    <3>6. k < i
      BY <3>1, <3>3, <3>5
    <3> QED
      BY <1>3, <3>1, <3>6, Before, Zenon DEF InOrder
  <2>2. b <= lbe
    BY <2>1, Zenon DEF PipeInv, Registry, HolesMarked, Hole
  <2>3. st[j] = "final"
    BY <2>2, Zenon DEF PipeInv, Registry, MarkFinal
  <2> QED
    BY <1>1, <2>3, Zenon
<1>7. CheckpointCovered'
  <2> SUFFICES ASSUME NEW b \in Block, Unregistered(b), b <= ckpt, resp'[b] = 0
               PROVE  b <= To(i)
    BY <1>2, Zenon DEF CheckpointCovered
  <2>1. b <= lbe
    BY <1>1, Zenon DEF PipeInv, Registry, CheckpointCovered
  <2> QED
    BY <1>4, <2>1, Zenon
<1>8. ConfirmedAnswered'
  BY <1>1, <1>2, ZenonT(60) DEF PipeInv, Registry, ConfirmedAnswered
<1> QED
  BY <1>1, <1>5, <1>6, <1>7, <1>8, Zenon DEF Registry

\* L1 finalizes a batch.
LEMMA FinalizedStep ==
    ASSUME DriverInv, PipeInv, HandlerStep, NEW i \in Batch, on_finalized(i)
    PROVE  PipeInv'
<1>1. /\ UNCHANGED <<drv, ckpt, normalQ, highQ, results, busy, reexec, key, lost>>
      /\ Up /\ st[i] = "dispatched" /\ st' = [st EXCEPT ![i] = "final"]
      /\ resp' = Purge(BlocksOf[i]) /\ lbe' = To(i)
      /\ unmarked' = (unmarked \ {i}) \cup {j \in Batch : st[j] = "final" /\ j > i}
  BY Zenon DEF HandlerStep, driverVars, on_finalized
<1>2. /\ st' \in [Batch -> Status] /\ st'[i] = "final"
      /\ \A j \in Batch : j # i => st'[j] = st[j]
      /\ \A j \in Batch : /\ st'[j] = "none" <=> st[j] = "none"
                          /\ st[j] = "final" => st'[j] = "final"
      /\ resp' \in [Block -> 0..MaxKey]
      /\ \A b \in Block : resp[b] = 0 => resp'[b] = 0
      /\ \A b \in BlocksOf[i] : resp'[b] = 0
      /\ \A b \in Block : b \notin BlocksOf[i] => resp'[b] = resp[b]
  BY <1>1, FinalFacts, Zenon
<1>3. /\ To(i) \in Block /\ To(i) \in BlocksOf[i] /\ To(i) \in Nat /\ To(i) \in 0..MaxBlock
      /\ i \in Nat
  <2>1. To(i) \in Block /\ To(i) \in BlocksOf[i] /\ i \in Nat
    BY BatchFacts, Zenon
  <2>2. To(i) \in Nat /\ MaxBlock \in Nat /\ To(i) <= MaxBlock
    BY <2>1, BlockFacts, Zenon
  <2> QED
    BY <2>1, <2>2
<1>4. mem \in MainLoop /\ mem.known \subseteq Block /\ mem.lbe \in Nat /\ mem.lbe \in 0..MaxBlock
  BY Before, LoopFacts, Zenon
<1>5. PICK e : e = Max({mem.lbe, To(i)})
  BY Zenon
<1>6. e \in {mem.lbe, To(i)} /\ mem.lbe <= e /\ To(i) <= e
  BY <1>3, <1>4, <1>5, TwoFacts, Zenon
<1>7. e \in 0..MaxBlock
  BY <1>3, <1>4, <1>6, Zenon
<1>8. PICK m : m = [mem EXCEPT !.known = mem.known \ BlocksOf[i], !.lbe = e]
  BY Zenon
<1>9. /\ m \in MainLoop /\ m.known = mem.known \ BlocksOf[i] /\ m.confirmed = mem.confirmed
      /\ m.lbe = e /\ m.signing = mem.signing
  <2>1. mem.known \ BlocksOf[i] \in SUBSET Block
    BY <1>4, Zenon
  <2> QED
    BY <1>4, <1>7, <1>8, <2>1, Zenon DEF MainLoop
<1>10. PICK s, rows : s = [st EXCEPT ![i] = "final"] /\ rows = Purge(BlocksOf[i])
  BY Zenon
<1>11. mem' = try_sign(m, s, rows) /\ s = st' /\ rows = resp'
  BY <1>5, <1>8, <1>10, Zenon DEF on_finalized
<1>12. /\ mem' \in MainLoop /\ mem'.known = mem.known \ BlocksOf[i]
       /\ mem'.confirmed = mem.confirmed /\ mem'.lbe = e
       /\ mem'.signing # NoSigning =>
             mem'.signing = mem.signing \/ s[mem'.signing.batch] = "pending"
  <2>1. s \in [Batch -> Status] /\ rows \in [Block -> 0..MaxKey]
    BY <1>2, <1>11, Zenon
  <2> QED
    BY <1>9, <1>11, <2>1, SignNextFacts, Zenon
<1>13. HandlerFrame
  BY <1>1, <1>2, <1>3, <1>12, Before, Zenon DEF HandlerFrame
<1>14. /\ PipeTypes' /\ Forgotten' /\ Up'
       /\ \A b \in Block : InFlight(b) => InFlight(b)'
  BY <1>1, <1>13, FrameFacts, Zenon
<1>15. SigningRegistered'
  <2> SUFFICES ASSUME mem'.signing # NoSigning PROVE st'[mem'.signing.batch] # "none"
    BY Zenon DEF SigningRegistered
  <2>1. CASE mem'.signing = mem.signing
    <3>1. mem.signing.batch \in Batch /\ st[mem.signing.batch] # "none"
      BY <2>1, Before, LoopFacts, SigningFacts, Zenon DEF SigningRegistered
    <3> QED
      BY <1>2, <2>1, <3>1, Zenon
  <2>2. CASE s[mem'.signing.batch] = "pending"
    BY <1>11, <2>2
  <2> QED
    BY <1>12, <2>1, <2>2, Zenon
<1>16. Registry'
  BY <1>1, <1>12, <1>15, FinalRegistry, Zenon
<1>17. \A b \in Block : Unanswered(b)' => Unanswered(b) /\ b \notin BlocksOf[i]
  <2> SUFFICES ASSUME NEW b \in Block, Unanswered(b)'
               PROVE  Unanswered(b) /\ b \notin BlocksOf[i]
    OBVIOUS
  <2>1. resp'[b] = 0 /\ \A j \in Batch : b \in BlocksOf[j] => st'[j] \in {"none", "pending"}
    BY Zenon DEF Unanswered
  <2>2. b \notin BlocksOf[i]
    BY <1>2, <2>1
  <2> QED
    BY <1>2, <2>1, <2>2, Zenon DEF Unanswered
<1>18. KnownAnswered'
  BY <1>12, <1>17, Zenon DEF PipeInv, Coverage, KnownAnswered
<1>19. Coverage'
  <2>1. mem.lbe <= mem'.lbe
    BY <1>6, <1>12, Zenon
  <2> QED
    BY <1>1, <1>14, <1>17, <1>18, <2>1, CoverageStep, Zenon DEF PipeInv
<1>20. Marked'
  <2> SUFFICES ASSUME NEW j \in Batch, j \notin unmarked', st'[j] = "final"
               PROVE  To(j) <= To(i) /\ To(j) <= mem'.lbe
    BY <1>1, Zenon DEF Marked, To
  <2>1. To(j) \in BlocksOf[j] /\ To(j) \in Block /\ j \in Nat
    BY BatchFacts, Zenon
  <2>2. To(j) \in Nat /\ e \in Nat
    BY <1>7, <2>1, BlockFacts
  <2>3. CASE j = i
    BY <1>3, <1>6, <1>12, <2>3
  <2>4. CASE j # i
    <3>1. ~(j > i)
      BY <1>1, <1>2, <2>4, Zenon
    <3>2. j < i
      BY <1>3, <2>1, <2>4, <3>1
    <3>3. To(j) < To(i)
      BY <1>3, <2>1, <3>2, OrderFacts, Zenon
    <3> QED
      BY <1>3, <1>6, <1>12, <2>2, <3>3
  <2> QED
    BY <2>3, <2>4, Zenon
<1>21. NoRowLeaks'
  <2> SUFFICES ASSUME NEW j \in Batch, j \notin unmarked', st'[j] = "final",
                      NEW b \in BlocksOf[j]
               PROVE  resp'[b] = 0
    BY Zenon DEF NoRowLeaks
  <2>1. CASE j = i
    BY <1>2, <2>1, Zenon
  <2>2. CASE j # i
    <3>1. j \notin unmarked /\ st[j] = "final" /\ b \in Block
      BY <1>1, <1>2, <2>2, BatchFacts, Zenon
    <3>2. resp[b] = 0
      BY <3>1, Zenon DEF PipeInv, Marks, NoRowLeaks
    <3> QED
      BY <1>2, <3>1, <3>2, Zenon
  <2> QED
    BY <2>1, <2>2, Zenon
<1> QED
  BY <1>14, <1>16, <1>19, <1>20, <1>21, Zenon DEF PipeInv, Marks

\* The process dies before last_batch_end is written.
LEMMA FinalizedDeathStep ==
    ASSUME DriverInv, PipeInv, NEW i \in Batch, on_finalized_torn(i)
    PROVE  PipeInv'
<1>1. /\ Up /\ MemoryLost /\ drv' = Down /\ ckpt' = ckpt /\ lbe' = lbe /\ key' = key
      /\ st[i] = "dispatched" /\ st' = [st EXCEPT ![i] = "final"]
      /\ resp' = Purge(BlocksOf[i]) /\ unmarked' = unmarked \cup {i}
  BY Zenon DEF on_finalized_torn, Killed
<1>2. /\ st' \in [Batch -> Status]
      /\ \A j \in Batch : j # i => st'[j] = st[j]
      /\ \A j \in Batch : /\ st'[j] = "none" <=> st[j] = "none"
                          /\ st[j] = "final" => st'[j] = "final"
      /\ resp' \in [Block -> 0..MaxKey]
      /\ \A b \in Block : resp[b] = 0 => resp'[b] = 0
      /\ \A b \in Block : Unregistered(b) => resp'[b] = resp[b]
      /\ InOrder'
  BY <1>1, FinalFacts, Zenon
<1>3. /\ PipeTypes' /\ Forgotten' /\ Coverage'
      /\ mem'.confirmed = {} /\ SigningRegistered'
  BY <1>1, <1>2, DeathFacts, Zenon
<1>4. Registry'
  BY <1>1, <1>2, <1>3, RegistryStep, Zenon DEF PipeInv
<1>5. drv'.boot = "down"
  BY <1>1, DownFacts, Zenon
<1>6. \A j \in Batch : j \notin unmarked' /\ st'[j] = "final" => j \notin unmarked /\ st[j] = "final"
  BY <1>1, <1>2, Zenon
<1>7. Marked'
  BY <1>1, <1>5, <1>6, Zenon DEF PipeInv, Marks, Marked, To
<1>8. NoRowLeaks'
  BY <1>2, <1>6, BatchFacts, Zenon DEF PipeInv, Marks, NoRowLeaks
<1> QED
  BY <1>3, <1>4, <1>7, <1>8, Zenon DEF PipeInv, Marks

-----------------------------------------------------------------------------
(* The invariant.                                                          *)

\* A handler of the main loop.
LEMMA HandlersStep ==
    ASSUME DriverInv, PipeInv, HandlerStep
    PROVE  PipeInv'
<1>1. CASE \E i \in Batch : on_l1_register(i) \/ on_l1_preconfirmed(i) \/ on_finalized(i)
  BY <1>1, RegisterStep, PreconfirmedStep, FinalizedStep, Zenon
<1>2. CASE on_sign_done_signed
  BY <1>2, SignedPendingStep, SignedLateStep, Zenon
<1>3. CASE on_sign_done_invalid \/ on_sign_done_failed \/ on_key_registered
  BY <1>3, SignInvalidStep, SignFailedStep, KeyRegisteredStep, Zenon
<1>4. CASE RotateKey
  <2>1. /\ UNCHANGED <<drv, ckpt, normalQ, highQ, results, busy, resp, st, lbe, unmarked, mem,
                       reexec, lost>>
        /\ key < MaxKey /\ key' = key + 1
    BY <1>4, Zenon DEF RotateKey, HandlerStep, driverVars
  <2>2. key \in 1..MaxKey /\ MaxKey \in Nat
    BY Before, PipelineAssumption, Zenon
  <2>3. key' \in 1..MaxKey
    BY <2>1, <2>2
  <2> QED
    BY <2>1, <2>3, RotateStep, Zenon
<1> QED
  BY <1>1, <1>2, <1>3, <1>4, Zenon DEF HandlerStep, Handler

\* Every step of the pipeline.
LEMMA PipeStep ==
    ASSUME DriverInv, PipeInv, [Next]_vars
    PROVE  PipeInv'
<1>1. CASE DriverNext /\ UNCHANGED pipeVars
  BY <1>1, PipeDriverStep, Zenon
<1>2. CASE /\ unwind_to_torn
           /\ UNCHANGED <<resp, st, lbe, unmarked, mem, normalQ, highQ, results, busy, reexec,
                          key, lost>>
  BY <1>2, UnwindDeathStep, Zenon
<1>3. CASE normalize_startup \/ normalize_startup_torn
  BY <1>3, NormalizeStep, NormalizeDeathStep, Zenon
<1>4. CASE Crash
  BY <1>4, DeathStep, Zenon DEF Crash, Killed
<1>5. CASE Shutdown \/ driver_fatal
  BY <1>5, DeathStep, Zenon DEF Shutdown, driver_fatal, GracefulExit
<1>6. CASE feeder_loop
  BY <1>6, FeederStep, Zenon
<1>7. CASE \E w \in Worker : worker_take(w) \/ worker_done(w) \/ worker_drop(w)
  BY <1>7, TakeTaskStep, DoneStep, DropStep, Zenon
<1>8. CASE \E b \in Block : spawn_re_execution(b)
  BY <1>8, SpawnStep, Zenon
<1>9. CASE on_block_result \/ on_block_result_torn
  BY <1>9, ResultStep, ResultDeathStep, Zenon
<1>10. CASE HandlerStep
  BY <1>10, HandlersStep, Zenon
<1>11. CASE \E i \in Batch : on_finalized_torn(i)
  BY <1>11, FinalizedDeathStep, Zenon
<1>12. CASE UNCHANGED vars
  <2>1. UNCHANGED <<drv, ckpt, normalQ, highQ, results, busy, resp, st, lbe, unmarked, mem,
                    reexec, lost, key>>
    BY <1>12, Zenon DEF vars, driverVars, pipeVars
  <2> QED
    BY <2>1, Before, RotateStep, Zenon
<1> QED
  BY <1>1, <1>2, <1>3, <1>4, <1>5, <1>6, <1>7, <1>8, <1>9, <1>10, <1>11, <1>12, Zenon DEF Next

\* A deployment starts with the batches up to its checkpoint final.
LEMMA PipeInitial ==
    ASSUME Init
    PROVE  PipeInv
<1>1. /\ drv = Down /\ ckpt \in InitCkpt /\ lbe = ckpt /\ resp = [b \in Block |-> 0]
      /\ st = [i \in Batch |-> IF To(i) <= ckpt THEN "final" ELSE "none"]
      /\ mem = [Fresh EXCEPT !.lbe = 0]
      /\ normalQ = <<>> /\ highQ = <<>> /\ results = <<>>
      /\ busy = Idle /\ reexec = {} /\ key = 1 /\ unmarked = {}
  BY Zenon DEF Init, DriverInit
<1>2. drv.boot = "down"
  BY <1>1, DownFacts, Zenon
<1>3. ckpt \in 0..MaxBlock /\ ckpt \in Nat /\ lbe \in 0..MaxBlock /\ 0 \in 0..MaxBlock
  BY <1>1, BlockFacts, PipelineAssumption
<1>4. /\ mem \in MainLoop /\ mem.known = {} /\ mem.confirmed = {} /\ mem.signing = NoSigning
  <2>1. PICK f : f = Fresh
    BY Zenon
  <2>2. f \in MainLoop /\ f.known = {} /\ f.confirmed = {} /\ f.signing = NoSigning
    BY <1>3, <2>1, FreshFacts, Zenon
  <2>3. mem = [f EXCEPT !.lbe = 0]
    BY <1>1, <2>1, Zenon
  <2> QED
    BY <1>3, <2>2, <2>3, Zenon DEF MainLoop
<1>5. /\ \A b \in Block : resp[b] = 0
      /\ \A i \in Batch : st[i] = IF To(i) <= ckpt THEN "final" ELSE "none"
  BY <1>1, Zenon
<1>6. PipeTypes
  <2>1. resp \in [Block -> 0..MaxKey] /\ key \in 1..MaxKey
    BY <1>1, PipelineAssumption
  <2>2. st \in [Batch -> Status]
    BY <1>1, Zenon DEF Status
  <2>3. /\ normalQ \in Seq(Block) /\ highQ \in Seq(Block) /\ results \in Seq(Result)
        /\ Len(normalQ) <= NormalCap /\ Len(highQ) <= HighCap /\ Len(results) <= ResultCap
    BY <1>1, PipelineAssumption DEF NormalCap, HighCap, ResultCap
  <2>4. busy \in [Worker -> 0..MaxBlock] /\ reexec \subseteq Block
    BY <1>1, <1>3, Zenon DEF Idle
  <2> QED
    BY <1>3, <1>4, <2>1, <2>2, <2>3, <2>4, Zenon DEF PipeTypes
<1>7. Registry
  <2>1. InOrder
    <3> SUFFICES ASSUME NEW i \in Batch, NEW j \in Batch, j < i, st[j] = "none"
                 PROVE  st[i] = "none"
      BY Zenon DEF InOrder
    <3>1. ~(To(j) <= ckpt)
      BY <1>5
    <3>2. To(j) \in BlocksOf[j] /\ To(i) \in BlocksOf[i] /\ To(i) \in Block /\ To(j) \in Block
      BY BatchFacts, Zenon
    <3>3. To(j) < To(i)
      BY <3>2, OrderFacts, Zenon
    <3>4. To(i) \in Nat /\ To(j) \in Nat
      BY <3>2, BlockFacts, Zenon
    <3>5. ~(To(i) <= ckpt)
      BY <1>3, <3>1, <3>3, <3>4
    <3> QED
      BY <1>5, <3>5, Zenon
  <2>2. SigningRegistered /\ ConfirmedAnswered
    BY <1>4, Zenon DEF SigningRegistered, ConfirmedAnswered
  <2>3. HolesMarked
    <3> SUFFICES ASSUME NEW b \in Block, Hole(b), ~(b <= ckpt) PROVE FALSE
      BY <1>1, Zenon DEF HolesMarked
    <3>1. ckpt < b
      BY <1>3, BlockFacts
    <3>2. PICK i \in Batch : b <= To(i)
      BY Zenon DEF Hole
    <3>3. \E j \in Batch : b \in BlocksOf[j]
      BY <1>1, <3>1, <3>2, BatchFacts, PipelineAssumption, Zenon
    <3> QED
      BY <3>3, Zenon DEF Hole
  <2>4. MarkFinal
    <3> SUFFICES ASSUME NEW b \in Block, b <= ckpt, NEW i \in Batch, To(i) < b
                 PROVE  st[i] = "final"
      BY <1>1, Zenon DEF MarkFinal
    <3>1. To(i) \in Nat /\ b \in Nat
      BY BatchFacts, BlockFacts, Zenon
    <3>2. To(i) <= ckpt
      BY <1>3, <3>1
    <3> QED
      BY <1>5, <3>2, Zenon
  <2>5. CheckpointCovered
    BY <1>1, Zenon DEF CheckpointCovered
  <2> QED
    BY <2>1, <2>2, <2>3, <2>4, <2>5, Zenon DEF Registry
<1>8. Coverage
  BY <1>2, <1>4 DEF Coverage, KnownAnswered, BootCovered, UpCovered, Up
<1>9. Marks
  <2>1. Marked
    <3> SUFFICES ASSUME NEW i \in Batch, st[i] = "final" PROVE To(i) <= lbe
      BY <1>2, Zenon DEF Marked
    <3> QED
      BY <1>1, <1>5
  <2>2. NoRowLeaks
    BY <1>5, BatchFacts, Zenon DEF NoRowLeaks
  <2> QED
    BY <2>1, <2>2, Zenon DEF Marks
<1>10. Forgotten
  BY <1>4, Zenon DEF Forgotten
<1> QED
  BY <1>6, <1>7, <1>8, <1>9, <1>10, Zenon DEF PipeInv

\* The inductive invariant: what the marks, the checkpoint and the queues say
\* of every block (registry of batches, coverage, last_batch_end), on top of
\* the driver's own.
THEOREM InductiveInvariant == Spec => []IndInv
<1>1. Init => IndInv
  BY DriverInitial, PipeInitial, Zenon DEF IndInv
<1>2. IndInv /\ [Next]_vars => IndInv'
  BY DriverStep, PipeStep, Zenon DEF IndInv
<1> QED
  BY <1>1, <1>2, PTL DEF Spec

\* Every position and row is in range, and no queue exceeds the capacity of
\* its channel, for any number of workers.
THEOREM TypeCorrect == Spec => []TypeOK
<1>1. IndInv => TypeOK
  <2> SUFFICES ASSUME IndInv PROVE TypeOK
    OBVIOUS
  <2>1. PipeTypes /\ DriverTypes
    BY Zenon DEF IndInv, PipeInv, DriverInv
  <2>2. mem.known \subseteq Block /\ mem.confirmed \subseteq Block
    BY <2>1, LoopFacts, Zenon DEF PipeTypes
  <2>3. cold \subseteq Block /\ total \in Nat
    BY <2>1, Zenon DEF DriverTypes
  <2> QED
    BY <2>1, <2>2, <2>3, Zenon DEF TypeOK, PipeTypes, DriverTypes
<1> QED
  BY <1>1, InductiveInvariant, PTL

\* No block falls between the driver's cursor, the queues, the responses and
\* the checkpoint, whatever crashes, rotates or is fed again
\* (normalize_startup_checkpoint, Driver::new, feeder_loop, on_block_result).
THEOREM NoBlockFallsThrough == Spec => []NoBlockLost
<1>1. IndInv => NoBlockLost
  <2> SUFFICES ASSUME IndInv, Up, NEW b \in Block, Unanswered(b), b > mem.lbe
               PROVE  b >= drv.next \/ InFlight(b) \/ b \in lost
    BY Zenon DEF NoBlockLost
  <2>1. mem.lbe \in Nat /\ b \in Nat
    BY BlockFacts, LoopFacts, Zenon DEF IndInv, PipeInv, PipeTypes
  <2>2. mem.lbe < b
    BY <2>1
  <2>3. drv.next <= b \/ InFlight(b) \/ b \in lost
    BY <2>2, Zenon DEF IndInv, PipeInv, Coverage, UpCovered
  <2> QED
    BY <2>3
<1> QED
  BY <1>1, InductiveInvariant, PTL

\* No response row of a finalized batch is left or comes back while SQLite's
\* last_batch_end covers the batch (on_block_result, on_finalized).
THEOREM NoRowComesBack == Spec => []NoRowLeaks
<1>1. IndInv => NoRowLeaks
  BY Zenon DEF IndInv, PipeInv, Marks
<1> QED
  BY <1>1, InductiveInvariant, PTL
=============================================================================
