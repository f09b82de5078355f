----------------------------- MODULE L1Listener -----------------------------
(***************************************************************************)
(* How the orchestrator follows the rollup contract: the paged poll of     *)
(* l1_listener.rs, the event channel, the main loop's on_l1_event with the *)
(* meta rows of db.rs, the boot that resolves where to start (main.rs,     *)
(* resolve_l2_start_checkpoint) and the recovery from BatchReverted.       *)
(*                                                                         *)
(* L1 is a script: the events of each L1 block, revealed as the head       *)
(* grows.  Blocks are never reorganised once safe_blocks deep.  A batch is *)
(* tracked as far as its range and whether it is dispatched; signing and   *)
(* the life of the dispatch are Accumulator's and Dispatch's.              *)
(***************************************************************************)
EXTENDS Naturals, Sequences, FiniteSets, FiniteSetsExt

CONSTANTS Scripts,    \* L1 chains: sequences of blocks, each a sequence of events
          Safe,       \* safe_blocks of the listener
          EnvId,      \* L1_START_BATCH_ID
          MinPage,    \* MIN_PAGE, also what a good page adds
          MaxPage,    \* MAX_PAGE
          InitialPage,\* INITIAL_PAGE
          LogLimit,   \* events the RPC returns at most
          ChanCap,    \* capacity of the event channel
          MaxL2,      \* bound: L2 blocks executed
          MaxFaults,  \* bound: exits of the process and failed RPC calls
          None        \* a meta row that was never written

ASSUME ListenerAssumption ==
    /\ Safe \in Nat /\ EnvId \in Nat \ {0} /\ MinPage \in Nat \ {0}
    /\ InitialPage \in MinPage..MaxPage /\ LogLimit \in Nat \ {0}
    /\ ChanCap \in Nat \ {0} /\ MaxL2 \in Nat /\ MaxFaults \in Nat
    /\ MaxPage \in Nat /\ None \notin Nat

\* The events of the rollup contract.
Commitment == [kind : {"committed"}, batch : Nat, from : Nat \ {0}, to : Nat]
Notice == [kind : {"submitted", "preconfirmed", "reverted"}, batch : Nat]
Later(k, n, j, m) == k < j \/ (k = j /\ n < m)
SameBatch(e, f) == e.kind = "committed" /\ f.kind = "committed" /\ e.batch = f.batch
Withdraws(r, e) == r.kind = "reverted" /\ r.batch <= e.batch

\* A batch is committed a second time only after a BatchReverted of it, or of a
\* batch below it.
ASSUME ScriptAssumption ==
    \A s \in Scripts :
        /\ s \in Seq(Seq(Commitment \cup Notice)) /\ s # <<>>
        /\ \A k, j \in DOMAIN s : \A n \in DOMAIN s[k], m \in DOMAIN s[j] :
             SameBatch(s[k][n], s[j][m]) /\ Later(k, n, j, m) =>
                 \E i \in DOMAIN s : \E o \in DOMAIN s[i] :
                     /\ Withdraws(s[i][o], s[k][n])
                     /\ Later(k, n, i, o) /\ Later(i, o, j, m)

VARIABLES
    chain,   \* the script of this behaviour
    head,    \* latest L1 block
    db,      \* meta rows and batch tables of SQLite
    proc,    \* how far the process has booted
    lst,     \* the listener task
    chan,    \* events between the listener and the main loop
    applied, \* history: events handled since the last wipe
    base,    \* history: first L1 block the database asks for
    fin,     \* history: batches finalized since the last wipe
    faults

vars == <<chain, head, db, proc, lst, chan, applied, base, fin, faults>>

MaxLen == Max({Len(s) : s \in Scripts})
Event(k, n) == [at |-> k, nr |-> n, ev |-> chain[k][n]]
EventsIn(from, to) == UNION {{Event(k, n) : n \in DOMAIN chain[k]} : k \in from..to}
Latest == IF head > Safe THEN head - Safe ELSE 0

EmptyDb == [ckpt |-> 0, l1 |-> None, id |-> 0, lbe |-> None,
            pend |-> <<>>, disp |-> <<>>]
Booting == [at |-> "down", fromDb |-> FALSE, event |-> 0]
Idle(from) == [at |-> "idle", from |-> from, cur |-> 0, ok |-> 0, latest |-> 0,
               page |-> InitialPage, end |-> 0, todo |-> {}]
Off == Idle(0)
Running == proc.at = "run"
-----------------------------------------------------------------------------
(* Boot: every write is a transaction of its own.                          *)

\* resolve_l2_start_checkpoint: the first commit of the batch, up to the raw
\* head; without one the process exits and is started again.
Commits(id, k, n) == chain[k][n].kind = "committed" /\ chain[k][n].batch = id
resolve(id, k, n) ==
    /\ Commits(id, k, n)
    /\ \A j \in 1..k : \A m \in DOMAIN chain[j] : Later(j, m, k, n) => ~Commits(id, j, m)

StartId == IF db.id # 0 THEN db.id ELSE EnvId
L2Checkpoint_mut(from) == from
L2Checkpoint(from) == from - 1

boot_resolve ==
    /\ proc.at = "down" /\ db.ckpt = 0
    /\ \E k \in 1..head : \E n \in DOMAIN chain[k] :
         /\ resolve(StartId, k, n)
         /\ db' = [db EXCEPT !.ckpt = L2Checkpoint(chain[k][n].from)]
         /\ proc' = [at |-> "ckpt", fromDb |-> db.id # 0, event |-> k]
    /\ UNCHANGED <<chain, head, lst, chan, applied, base, fin, faults>>

\* Only the environment's batch moves the L1 checkpoint.
boot_l1_checkpoint ==
    /\ proc.at = "ckpt"
    /\ proc' = [proc EXCEPT !.at = "l1"]
    /\ IF proc.fromDb THEN UNCHANGED <<db, base>>
       ELSE /\ db' = [db EXCEPT !.l1 = proc.event - 1]
            /\ base' = proc.event
    /\ UNCHANGED <<chain, head, lst, chan, applied, fin, faults>>

boot_last_batch_end ==
    /\ proc.at = "l1"
    /\ proc' = [proc EXCEPT !.at = "lbe"]
    /\ db' = IF db.lbe = None THEN [db EXCEPT !.lbe = db.ckpt] ELSE db
    /\ UNCHANGED <<chain, head, lst, chan, applied, base, fin, faults>>

boot_clear_id ==
    /\ proc.at = "lbe"
    /\ proc' = [proc EXCEPT !.at = "start"]
    /\ db' = IF proc.fromDb THEN [db EXCEPT !.id = 0] ELSE db
    /\ UNCHANGED <<chain, head, lst, chan, applied, base, fin, faults>>

\* Normalisation (BlockPipeline) may put the checkpoint before a batch that
\* misses a response.  The listener resumes after the L1 checkpoint.
boot_start ==
    /\ proc.at = "start" \/ (proc.at = "down" /\ db.ckpt # 0)
    /\ \E c \in {db.ckpt} \cup {db.pend[i].from - 1 : i \in DOMAIN db.pend} :
         db' = [db EXCEPT !.ckpt = c]
    /\ proc' = [Booting EXCEPT !.at = "run"]
    /\ lst' = Idle(IF db.l1 = None THEN 1 ELSE db.l1 + 1)
    /\ UNCHANGED <<chain, head, chan, applied, base, fin, faults>>
-----------------------------------------------------------------------------
(* The listener: one poll is a sequence of pages, one page a log query and *)
(* the sends of its events, and a checkpoint follows the last page.        *)

Send(m) == Len(chan) < ChanCap /\ chan' = Append(chan, m)
Checkpoint(c) == [at |-> c, nr |-> 0, ev |-> [kind |-> "checkpoint"]]
Quiet == UNCHANGED <<chain, head, db, proc, applied, base, fin>>

poll_once ==
    /\ Running /\ lst.at = "idle"
    /\ lst' = IF lst.from > Latest
              THEN [lst EXCEPT !.at = "done", !.ok = lst.from - 1]
              ELSE [lst EXCEPT !.at = "page", !.cur = lst.from, !.ok = lst.from - 1,
                               !.latest = Latest]
    /\ Quiet /\ UNCHANGED <<chan, faults>>

PageEnd == IF lst.cur + lst.page - 1 < lst.latest THEN lst.cur + lst.page - 1
           ELSE lst.latest

\* The log query of process_page.
page_logs ==
    /\ Running /\ lst.at = "page" /\ lst.cur <= lst.latest
    /\ Cardinality(EventsIn(lst.cur, PageEnd)) <= LogLimit
    /\ lst' = [lst EXCEPT !.at = "emit", !.end = PageEnd,
                          !.todo = EventsIn(lst.cur, PageEnd)]
    /\ Quiet /\ UNCHANGED <<chan, faults>>

\* is_too_many_results: halve the page, and give up the poll at MIN_PAGE.
Shrunk_mut == lst.page
Shrunk == IF lst.page \div 2 > MinPage THEN lst.page \div 2 ELSE MinPage
page_too_many ==
    /\ Running /\ lst.at = "page" /\ lst.cur <= lst.latest
    /\ Cardinality(EventsIn(lst.cur, PageEnd)) > LogLimit
    /\ lst' = [lst EXCEPT !.page = Shrunk,
                          !.at = IF lst.page = MinPage THEN "done" ELSE "page"]
    /\ Quiet /\ UNCHANGED <<chan, faults>>

\* Logs are sent in the order of the chain.
Foremost(m) == \A o \in lst.todo \ {m} : Later(m.at, m.nr, o.at, o.nr)
page_emit ==
    /\ Running /\ lst.at = "emit"
    /\ \E m \in lst.todo :
         /\ Foremost(m) /\ Send(m)
         /\ lst' = [lst EXCEPT !.todo = @ \ {m}]
    /\ Quiet /\ UNCHANGED faults

page_done ==
    /\ Running /\ lst.at = "emit" /\ lst.todo = {}
    /\ lst' = [lst EXCEPT !.at = IF lst.end = lst.latest THEN "done" ELSE "page",
                          !.ok = lst.end, !.cur = lst.end + 1, !.end = 0,
                          !.page = IF @ + MinPage < MaxPage THEN @ + MinPage ELSE MaxPage]
    /\ Quiet /\ UNCHANGED <<chan, faults>>

\* Any other error ends the poll with what is complete: the log query fails,
\* or an L2 lookup between two events that were sent.
LastOk_mut == lst.end
LastOk == lst.ok
page_failed ==
    /\ Running /\ lst.at \in {"page", "emit"} /\ faults < MaxFaults
    /\ lst.at = "emit" => \E m \in lst.todo : Foremost(m) /\ m.ev.kind = "committed"
    /\ lst' = [lst EXCEPT !.at = "done", !.ok = LastOk, !.end = 0, !.todo = {}]
    /\ faults' = faults + 1
    /\ Quiet /\ UNCHANGED chan

\* run: the checkpoint goes down the same channel, after the events.
poll_done ==
    /\ Running /\ lst.at = "done"
    /\ Send(Checkpoint(lst.ok))
    /\ lst' = [Idle(lst.ok + 1) EXCEPT !.page = lst.page]
    /\ Quiet /\ UNCHANGED faults
-----------------------------------------------------------------------------
(* The main loop: on_l1_event.                                             *)

Recv(kind) ==
    /\ Running /\ chan # <<>> /\ Head(chan).ev.kind = kind
    /\ chan' = Tail(chan)
    /\ UNCHANGED <<chain, head, proc, lst, base, faults>>
Batches(t) == DOMAIN t
Put(t, i, r) == [j \in DOMAIN t \cup {i} |-> IF j = i THEN r ELSE t[j]]
Drop(t, i) == [j \in DOMAIN t \ {i} |-> t[j]]

\* set_batch: a batch already pending or dispatched is left alone.
Tracked_mut(i) == i \in Batches(db.pend)
Tracked(i) == i \in Batches(db.pend) \cup Batches(db.disp)
on_batch_committed ==
    /\ Recv("committed")
    /\ LET e == Head(chan).ev
       IN db' = IF Tracked(e.batch) THEN db
                ELSE [db EXCEPT !.pend = Put(@, e.batch, [from |-> e.from, to |-> e.to])]
    /\ applied' = applied \cup {Head(chan)}
    /\ UNCHANGED fin

\* mark_batch_submitted is a flag or a buffered row of the batch (Accumulator).
on_batch_submitted ==
    /\ Recv("submitted")
    /\ applied' = applied \cup {Head(chan)}
    /\ UNCHANGED <<db, fin>>

\* mark_dispatched_external: nothing for a batch that is not pending.
Dispatchable_mut(i) == i \in Batches(db.pend) /\ i \notin fin
Dispatchable(i) == i \in Batches(db.pend)
on_batch_preconfirmed ==
    /\ Recv("preconfirmed")
    /\ LET i == Head(chan).ev.batch
       IN db' = IF Dispatchable(i)
                THEN [db EXCEPT !.disp = Put(@, i, db.pend[i]), !.pend = Drop(@, i)]
                ELSE db
    /\ applied' = applied \cup {Head(chan)}
    /\ UNCHANGED fin

on_checkpoint ==
    /\ Recv("checkpoint")
    /\ db' = [db EXCEPT !.l1 = Head(chan).at]
    /\ UNCHANGED <<applied, fin>>

\* wipe_for_revert, then shutdown: the biased loop takes nothing more from the
\* channel.
Wiped_mut(i, k) == [db EXCEPT !.ckpt = 0, !.lbe = None, !.id = i, !.l1 = k]
Wiped(i, k) == [EmptyDb EXCEPT !.id = i, !.l1 = k]
on_batch_reverted ==
    /\ Running /\ chan # <<>> /\ Head(chan).ev.kind = "reverted"
    /\ db' = Wiped(Head(chan).ev.batch, Head(chan).at + 1)
    /\ base' = Head(chan).at + 2
    /\ applied' = {} /\ fin' = {}
    /\ chan' = <<>> /\ lst' = Off /\ proc' = Booting
    /\ UNCHANGED <<chain, head, faults>>
-----------------------------------------------------------------------------
(* The rest of the process and of the world.                               *)

\* The finalization ticker (Dispatch): the batch is dropped and last_batch_end
\* takes its last block.
finalize_dispatched ==
    /\ Running
    /\ \E i \in Batches(db.disp) :
         /\ db' = [db EXCEPT !.disp = Drop(@, i), !.lbe = db.disp[i].to]
         /\ fin' = fin \cup {i}
    /\ UNCHANGED <<chain, head, proc, lst, chan, applied, base, faults>>

ExecuteBlock ==
    /\ Running /\ db.ckpt < MaxL2
    /\ db' = [db EXCEPT !.ckpt = @ + 1]
    /\ UNCHANGED <<chain, head, proc, lst, chan, applied, base, fin, faults>>

Exit ==
    /\ proc.at # "down" /\ faults < MaxFaults /\ faults' = faults + 1
    /\ proc' = Booting /\ lst' = Off /\ chan' = <<>>
    /\ UNCHANGED <<chain, head, db, applied, base, fin>>

NewL1Block ==
    /\ head < Len(chain) /\ head' = head + 1
    /\ UNCHANGED <<chain, db, proc, lst, chan, applied, base, fin, faults>>
-----------------------------------------------------------------------------
Init ==
    /\ chain \in Scripts /\ head = 1
    /\ db = EmptyDb /\ proc = Booting /\ lst = Off /\ chan = <<>>
    /\ applied = {} /\ base = 1 /\ fin = {} /\ faults = 0

Boot == \/ boot_resolve \/ boot_l1_checkpoint \/ boot_last_batch_end
        \/ boot_clear_id \/ boot_start
Listen == \/ poll_once \/ page_logs \/ page_too_many \/ page_emit \/ page_done
          \/ poll_done
on_l1_event == \/ on_batch_committed \/ on_batch_submitted \/ on_batch_preconfirmed
               \/ on_checkpoint \/ on_batch_reverted

Next == \/ Boot \/ Listen \/ page_failed \/ on_l1_event
        \/ finalize_dispatched \/ ExecuteBlock \/ Exit \/ NewL1Block

Spec == Init /\ [][Next]_vars

\* The supervisor restarts the process, the listener polls, the main loop
\* receives, and L1 goes on; blocks and finality are not needed.
Fairness == WF_vars(Boot) /\ WF_vars(Listen) /\ WF_vars(on_l1_event) /\ WF_vars(NewL1Block)
FairSpec == Spec /\ Fairness
-----------------------------------------------------------------------------
\* Rows stay in range, no batch is pending and dispatched at once, and the page
\* size stays between MIN_PAGE and MAX_PAGE (poll_once).
TypeOK ==
    /\ chain \in Scripts /\ head \in 1..Len(chain)
    /\ db.ckpt \in Nat /\ (db.lbe # None => db.lbe \in Nat)
    /\ db.l1 # None => db.l1 \in 0..Len(chain) + 1
    /\ Batches(db.pend) \cap Batches(db.disp) = {}
    /\ lst.page \in MinPage..MaxPage /\ Len(chan) <= ChanCap

\* Every event of an L1 block at or below the stored checkpoint, from where the
\* database asked to start, has been handled: a page that fails half way, a
\* crash and a restart skip nothing ("All events up to this L1 block have been
\* sent", L1Event::Checkpoint).
NoEventSkipped ==
    db.l1 # None =>
        \A k \in base..Len(chain) : k <= db.l1 =>
            \A n \in DOMAIN chain[k] : Event(k, n) \in applied

\* What wipe_for_revert documents: the stored checkpoint is "L1 block of the
\* `BatchReverted` event", so that the listener resumes with the block after it
\* and no later event is skipped.
NoneSkippedAfterRevert ==
    \A k \in 1..Len(chain) :
        base > k /\ (\E n \in DOMAIN chain[k] : chain[k][n].kind = "reverted") =>
            \A j \in k + 1..Len(chain) : db.l1 # None /\ j <= db.l1 =>
                \A n \in DOMAIN chain[j] : Event(j, n) \in applied

\* r is the range of the last commit of batch i that L1 has, and whether a
\* BatchReverted that the database is still to read withdraws it.
LastRange(i, r) ==
    \E k \in 1..head : \E n \in DOMAIN chain[k] :
        /\ Commits(i, k, n) /\ r = [from |-> chain[k][n].from, to |-> chain[k][n].to]
        /\ \A j \in k..head : \A m \in DOMAIN chain[j] :
             Later(k, n, j, m) => ~Commits(i, j, m)
RevertAhead(i) ==
    \E k \in 1..head : \E n \in DOMAIN chain[k] :
        /\ chain[k][n].kind = "reverted" /\ chain[k][n].batch <= i
        /\ db.l1 # None => k > db.l1

\* set_batch may ignore a second BatchCommitted of a batch because the ranges
\* never differ: a tracked range is the one L1 has now, or the revert that
\* withdrew it is still to be read.
RangeCurrent ==
    \A i \in Batches(db.pend) \cup Batches(db.disp) :
        LET r == IF i \in Batches(db.pend) THEN db.pend[i] ELSE db.disp[i]
        IN LastRange(i, r) \/ RevertAhead(i)

\* Results at or below last_batch_end are dropped as finalized: the boot never
\* sets that mark inside a batch that is still to be answered.  A batch below
\* the mark is one that was finalized and is being read again.  (Not so for every
\* script: resolve takes the first commit of a batch, even where the batch starts
\* lower since an earlier revert.)
MarkBelowBatches ==
    db.lbe # None =>
        \A i \in Batches(db.pend) : db.pend[i].from > db.lbe \/ i \in fin

Due(k, n) == k <= Latest /\ n \in DOMAIN chain[k] /\ base <= k

\* Every event that is deep enough is handled in the end, unless a revert moves
\* the start of the database past it (poll_once, on_l1_event).
EventsApplied ==
    \A k \in 1..MaxLen, n \in 1..LogLimit :
        Due(k, n) ~> (~Due(k, n) \/ Event(k, n) \in applied)

\* A finalized batch that a replay of old events registers again does not stay:
\* the BatchPreconfirmed behind it is replayed too.
ReplaySettles ==
    \A i \in EnvId..EnvId + 1 : i \in fin /\ i \in Batches(db.pend) ~> i \notin Batches(db.pend)
=============================================================================
