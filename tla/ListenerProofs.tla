--------------------------- MODULE ListenerProofs ---------------------------
(***************************************************************************)
(* Proofs about L1Listener, for every script of L1, page sizes, channel    *)
(* capacity, depth of safety and number of faults.                         *)
(***************************************************************************)
EXTENDS L1Listener, TLAPS

\* The rows of SQLite, the stages of the boot, the messages and the listener.
Span == [from : Nat \ {0}, to : Nat]
Table == UNION {[S -> Span] : S \in SUBSET Nat}
Rows == [ckpt : Nat, l1 : Nat \cup {None}, id : Nat, lbe : Nat \cup {None},
         pend : Table, disp : Table]
Stage == [at : {"down", "ckpt", "l1", "lbe", "start", "run"}, fromDb : BOOLEAN,
          event : Nat]
Message == [at : Nat, nr : Nat, ev : Commitment \cup Notice \cup {[kind |-> "checkpoint"]}]
Poller == [at : {"idle", "page", "emit", "done"}, from : Nat, cur : Nat, ok : Nat,
           latest : Nat, page : MinPage..MaxPage, end : Nat, todo : SUBSET Message]

Shape ==
    /\ chain \in Scripts /\ head \in 1..Len(chain) /\ db \in Rows
    /\ proc \in Stage /\ lst \in Poller /\ chan \in Seq(Message) /\ Len(chan) <= ChanCap
    /\ base \in Nat \ {0} /\ DOMAIN db.pend \cap DOMAIN db.disp = {}

\* Outside of "run" there is no listener and nothing in the channel.
Stopped == ~Running => lst = Off /\ chan = <<>>

\* The batch that a first boot starts from is committed before any revert.
\* (A condition on the scripts; only RangeCurrent needs it.)
StartsEarly ==
    \A s \in Scripts : \A k \in DOMAIN s : \A n \in DOMAIN s[k] :
        s[k][n].kind = "reverted" =>
            \E j \in 1..k : \E m \in DOMAIN s[j] :
                s[j][m].kind = "committed" /\ s[j][m].batch = EnvId

\* What boot_resolve found: the first commit of the environment's batch.
Resolved ==
    proc.at = "ckpt" =>
        /\ proc.event \in 1..Len(chain)
        /\ ~proc.fromDb => \A j \in 1..Len(chain) : \A m \in DOMAIN chain[j] :
                               Commits(EnvId, j, m) => proc.event <= j

\* The L1 checkpoint lies behind the block the database starts from.
Started ==
    /\ db.l1 = None => base = 1
    /\ db.l1 # None => base <= db.l1 + 1 /\ db.l1 <= Len(chain) + 1

\* The event (k, n) was handled, or is in the channel before position p.
Sent(p, k, n) ==
    Event(k, n) \in applied \/ \E q \in 1..Len(chan) : q < p /\ chan[q] = Event(k, n)
SentTo(p, c) ==
    \A k \in base..Len(chain) : k <= c => \A n \in DOMAIN chain[k] : Sent(p, k, n)

\* A message is an event of L1, or a checkpoint with all events up to its block
\* ahead of it.
Log(m) ==
    /\ m.at \in base..head /\ m.nr \in DOMAIN chain[m.at] /\ m = Event(m.at, m.nr)
Mark(m) == m = Checkpoint(m.at) /\ base <= m.at + 1 /\ m.at <= Len(chain) + 1
Queued ==
    \A p \in 1..Len(chan) :
        Log(chan[p]) \/ (Mark(chan[p]) /\ SentTo(p, chan[p].at))

\* How far the poll is: everything up to lst.ok was sent; of the page that is
\* being sent every event was sent or is still to be.
Whole(c) == base <= c + 1 /\ c <= Len(chain) + 1 /\ SentTo(Len(chan) + 1, c)
Polling ==
    /\ lst.at = "idle" => lst.from # 0 /\ Whole(lst.from - 1)
    /\ lst.at # "idle" => Whole(lst.ok)
    /\ lst.at \in {"page", "emit"} =>
         lst.cur = lst.ok + 1 /\ lst.cur <= lst.latest /\ lst.latest <= head
    /\ lst.at = "emit" =>
         /\ lst.end \in lst.cur..lst.latest
         /\ \A m \in lst.todo : Log(m)
         /\ \A k \in lst.cur..lst.end : \A n \in DOMAIN chain[k] :
              Sent(Len(chan) + 1, k, n) \/ Event(k, n) \in lst.todo

NoneReverted == \A m \in applied : m.ev.kind # "reverted"

\* A tracked range is that of a commit on L1, and every BatchReverted that
\* withdrew it since lies ahead of where the database started to read.
Backed(i, r) ==
    \E k \in 1..head : \E n \in DOMAIN chain[k] :
        /\ Commits(i, k, n) /\ r = [from |-> chain[k][n].from, to |-> chain[k][n].to]
        /\ \A j \in 1..Len(chain) : \A m \in DOMAIN chain[j] :
             Withdraws(chain[j][m], chain[k][n]) /\ Later(k, n, j, m) => base <= j
RowsBacked ==
    /\ \A i \in DOMAIN db.pend : Backed(i, db.pend[i])
    /\ \A i \in DOMAIN db.disp : Backed(i, db.disp[i])

IndInv ==
    /\ Shape /\ Stopped /\ Resolved /\ Started /\ Queued /\ (Running => Polling)
    /\ NoEventSkipped /\ NoneReverted
-----------------------------------------------------------------------------
(* Operators.                                                              *)

\* The fields of an event.
LEMMA EventFacts ==
    ASSUME NEW e \in Commitment \cup Notice
    PROVE  /\ e.batch \in Nat
           /\ e.kind \in {"committed", "submitted", "preconfirmed", "reverted"}
           /\ e.kind = "committed" => e.from \in Nat \ {0} /\ e.to \in Nat
BY DEF Commitment, Notice

\* Scripts are sequences of blocks, and blocks sequences of events.
LEMMA ScriptFacts ==
    ASSUME Shape
    PROVE  /\ Len(chain) \in Nat /\ head \in Nat /\ DOMAIN chain = 1..Len(chain)
           /\ \A k \in 1..Len(chain) : DOMAIN chain[k] \subseteq Nat \ {0}
           /\ \A k \in 1..Len(chain) : \A n \in DOMAIN chain[k] :
                chain[k][n] \in Commitment \cup Notice
<1>1. chain \in Seq(Seq(Commitment \cup Notice))
  BY ScriptAssumption, Zenon DEF Shape
<1>2. head \in 1..Len(chain)
  BY Zenon DEF Shape
<1>3. Len(chain) \in Nat /\ DOMAIN chain = 1..Len(chain)
  BY <1>1
<1>4. ASSUME NEW k \in 1..Len(chain)
      PROVE  /\ DOMAIN chain[k] \subseteq Nat \ {0}
             /\ \A n \in DOMAIN chain[k] : chain[k][n] \in Commitment \cup Notice
  <2>1. PICK b : b = chain[k]
    OBVIOUS
  <2>2. b \in Seq(Commitment \cup Notice)
    BY <1>1, <2>1
  <2>3. DOMAIN b \subseteq Nat \ {0} /\ \A n \in DOMAIN b : b[n] \in Commitment \cup Notice
    BY <2>2
  <2> QED
    BY <2>1, <2>3, Zenon
<1> QED
  BY <1>2, <1>3, <1>4

\* An event as a message.
LEMMA MessageFacts ==
    ASSUME Shape, NEW k \in 1..Len(chain), NEW n \in DOMAIN chain[k]
    PROVE  /\ Event(k, n) \in Message /\ Event(k, n).at = k /\ Event(k, n).nr = n
           /\ Event(k, n).ev = chain[k][n]
<1>1. k \in Nat /\ n \in Nat /\ chain[k][n] \in Commitment \cup Notice
  BY ScriptFacts
<1> QED
  BY <1>1 DEF Event, Message

\* A checkpoint is not an event.
LEMMA MarkFacts ==
    ASSUME NEW c \in Nat
    PROVE  /\ Checkpoint(c) \in Message /\ Checkpoint(c).at = c
           /\ Checkpoint(c).nr = 0 /\ Checkpoint(c).ev.kind = "checkpoint"
BY DEF Checkpoint, Message

\* A row put into a table.
LEMMA PutFacts ==
    ASSUME NEW t \in Table, NEW i \in Nat, NEW r \in Span
    PROVE  /\ Put(t, i, r) \in Table /\ DOMAIN Put(t, i, r) = DOMAIN t \cup {i}
           /\ Put(t, i, r)[i] = r /\ \A j \in DOMAIN t : j # i => Put(t, i, r)[j] = t[j]
<1>1. PICK S \in SUBSET Nat : t \in [S -> Span]
  BY Zenon DEF Table
<1>2. DOMAIN t = S /\ \A j \in S : t[j] \in Span
  BY <1>1, Zenon
<1>3. /\ DOMAIN Put(t, i, r) = S \cup {i}
      /\ Put(t, i, r)[i] = r /\ \A j \in S : j # i => Put(t, i, r)[j] = t[j]
  BY <1>2, Zenon DEF Put
<1>4. Put(t, i, r) \in [S \cup {i} -> Span]
  BY <1>2, Zenon DEF Put
<1>5. S \cup {i} \in SUBSET Nat
  OBVIOUS
<1> QED
  BY <1>2, <1>3, <1>4, <1>5, Zenon DEF Table

\* A row taken out of a table.
LEMMA DropFacts ==
    ASSUME NEW t \in Table, NEW i
    PROVE  /\ Drop(t, i) \in Table /\ DOMAIN Drop(t, i) = DOMAIN t \ {i}
           /\ \A j \in DOMAIN t \ {i} : Drop(t, i)[j] = t[j]
<1>1. PICK S \in SUBSET Nat : t \in [S -> Span]
  BY Zenon DEF Table
<1>2. DOMAIN t = S /\ \A j \in S : t[j] \in Span
  BY <1>1, Zenon
<1>3. /\ DOMAIN Drop(t, i) = S \ {i} /\ \A j \in S \ {i} : Drop(t, i)[j] = t[j]
      /\ Drop(t, i) \in [S \ {i} -> Span]
  BY <1>2, Zenon DEF Drop
<1>4. S \ {i} \in SUBSET Nat
  BY Zenon
<1> QED
  BY <1>2, <1>3, <1>4, Zenon DEF Table

\* A table has numbers for keys and ranges for rows.
LEMMA TableFacts ==
    ASSUME NEW t \in Table
    PROVE  /\ DOMAIN t \subseteq Nat
           /\ \A i \in DOMAIN t : t[i] \in Span
BY Zenon DEF Table

\* The fields of a range.
LEMMA RangeFacts ==
    ASSUME NEW r \in Span
    PROVE  r.from \in Nat \ {0} /\ r.to \in Nat
BY DEF Span

\* No rows.
LEMMA EmptyFacts == <<>> \in Table /\ DOMAIN <<>> = {}
<1>1. DOMAIN <<>> = {}
  OBVIOUS
<1>2. <<>> \in [{} -> Span]
  OBVIOUS
<1> QED
  BY <1>1, <1>2, Zenon DEF Table

\* The fields of the database.
LEMMA RowsFacts ==
    ASSUME NEW d \in Rows
    PROVE  /\ d.ckpt \in Nat /\ d.l1 \in Nat \cup {None} /\ d.id \in Nat
           /\ d.lbe \in Nat \cup {None} /\ d.pend \in Table /\ d.disp \in Table
BY Zenon DEF Rows

\* Writes of one meta row.
LEMMA MetaFacts ==
    ASSUME NEW d \in Rows, NEW c \in Nat, NEW e,
           \/ e = [d EXCEPT !.ckpt = c] \/ e = [d EXCEPT !.id = c]
           \/ e = [d EXCEPT !.lbe = c]
    PROVE  e \in Rows /\ e.l1 = d.l1 /\ e.pend = d.pend /\ e.disp = d.disp
BY DEF Rows

\* A write of the L1 checkpoint.
LEMMA L1Facts ==
    ASSUME NEW d \in Rows, NEW c \in Nat, NEW e, e = [d EXCEPT !.l1 = c]
    PROVE  e \in Rows /\ e.l1 = c /\ e.pend = d.pend /\ e.disp = d.disp
BY DEF Rows
-----------------------------------------------------------------------------
(* What a step that leaves something alone keeps.                          *)

\* Events that were sent stay sent, and a longer L1 takes no event away.
LEMMA SentKept ==
    ASSUME Shape, UNCHANGED <<chain, base, applied, chan>>, head' \in Nat, head <= head'
    PROVE  /\ Queued => Queued'
           /\ \A c : Whole(c) => Whole(c)'
           /\ \A m : Log(m) => Log(m)'
           /\ \A p, k, n : Sent(p, k, n) => Sent(p, k, n)'
<1>1. /\ \A k, n : Event(k, n)' = Event(k, n)
      /\ chain' = chain /\ base' = base /\ applied' = applied /\ chan' = chan
  BY Zenon DEF Event
<1>2. \A p, k, n : Sent(p, k, n)' <=> Sent(p, k, n)
  BY <1>1, Zenon DEF Sent
<1>3. \A p, c : SentTo(p, c)' <=> SentTo(p, c)
  BY <1>1, <1>2, Zenon DEF SentTo
<1>4. ASSUME NEW m, Log(m) PROVE Log(m)'
  <2>1. base \in Nat /\ head \in Nat
    BY ScriptFacts DEF Shape
  <2>2. \A k \in base..head : k \in base..head'
    BY <2>1
  <2> QED
    BY <1>1, <1>4, <2>2, Zenon DEF Log
<1>5. \A m : Mark(m)' <=> Mark(m)
  BY <1>1, Zenon DEF Mark, Checkpoint
<1>6. Queued => Queued'
  BY <1>1, <1>3, <1>4, <1>5, Zenon DEF Queued
<1>7. \A c : Whole(c)' <=> Whole(c)
  BY <1>1, <1>3, Zenon DEF Whole
<1> QED
  BY <1>2, <1>4, <1>6, <1>7, Zenon

\* What was handled, and where the database stands.
LEMMA StandKept ==
    ASSUME NoEventSkipped, Started, NoneReverted,
           UNCHANGED <<chain, base, applied>>, db'.l1 = db.l1
    PROVE  NoEventSkipped' /\ Started' /\ NoneReverted'
BY Zenon DEF NoEventSkipped, Started, NoneReverted, Event

\* What a first boot resolved.
LEMMA ResolvedKept ==
    ASSUME Resolved, UNCHANGED <<chain, proc>>
    PROVE  Resolved'
BY Zenon DEF Resolved, Commits

\* A poll that goes on.
LEMMA PollingKept ==
    ASSUME Shape, Polling, UNCHANGED <<chain, base, applied, chan, lst>>,
           head' \in Nat, head <= head'
    PROVE  Polling'
<1>1. /\ \A c : Whole(c) => Whole(c)'
      /\ \A m : Log(m) => Log(m)'
      /\ \A p, k, n : Sent(p, k, n) => Sent(p, k, n)'
  BY SentKept, Zenon
<1>2. \A k, n : Event(k, n)' = Event(k, n)
  BY Zenon DEF Event
<1>3. lst.at \in {"page", "emit"} => lst.latest <= head'
  <2>1. head \in Nat
    BY ScriptFacts
  <2>2. lst.latest \in Nat
    BY Zenon DEF Shape, Poller
  <2> QED
    BY <2>1, <2>2 DEF Polling
<1> QED
  BY <1>1, <1>2, <1>3, Zenon DEF Polling

\* A step that writes rows other than the L1 checkpoint.
LEMMA DbStep ==
    ASSUME IndInv, db' \in Rows, db'.l1 = db.l1,
           DOMAIN db'.pend \cap DOMAIN db'.disp = {},
           UNCHANGED <<chain, head, lst, chan, applied, base>>,
           proc' \in Stage, Running' <=> Running, Resolved'
    PROVE  IndInv'
<1>1. Shape /\ Stopped /\ Started /\ Queued /\ NoEventSkipped /\ NoneReverted
      /\ (Running => Polling)
  BY Zenon DEF IndInv
<1>2. head \in Nat /\ head' \in Nat /\ head <= head'
  BY <1>1, ScriptFacts
<1>3. Shape'
  BY <1>1 DEF Shape, Rows, Stage, Poller
<1>4. Stopped'
  BY <1>1, Zenon DEF Stopped, Off, Idle
<1>5. Queued' /\ (Running' => Polling')
  BY <1>1, <1>2, SentKept, PollingKept, Zenon
<1>6. NoEventSkipped' /\ Started' /\ NoneReverted'
  BY <1>1, StandKept, Zenon
<1> QED
  BY <1>3, <1>4, <1>5, <1>6, Zenon DEF IndInv

\* A step of the listener that sends nothing.
LEMMA ListenStep ==
    ASSUME IndInv, Running, Quiet, chan' = chan, lst' \in Poller, Polling'
    PROVE  IndInv'
<1>1. /\ Shape /\ Resolved /\ Started /\ Queued /\ NoEventSkipped /\ NoneReverted
  BY Zenon DEF IndInv
<1>2. UNCHANGED <<chain, head, db, proc, applied, base>>
  BY Zenon DEF Quiet
<1>3. head \in Nat /\ head' \in Nat /\ head <= head'
  BY <1>1, <1>2, ScriptFacts
<1>4. Shape'
  BY <1>1, <1>2, Zenon DEF Shape, Rows, Stage, Poller, Table
<1>5. Stopped'
  BY <1>2, Zenon DEF Stopped, Running
<1>6. Queued'
  BY <1>1, <1>2, <1>3, SentKept, Zenon
<1>7. NoEventSkipped' /\ Started' /\ NoneReverted' /\ Resolved'
  BY <1>1, <1>2, StandKept, ResolvedKept, Zenon
<1> QED
  BY <1>4, <1>5, <1>6, <1>7, Zenon DEF IndInv
-----------------------------------------------------------------------------
(* The listener.                                                           *)

\* The fields of the listener.
LEMMA PollerFacts ==
    ASSUME NEW w \in Poller
    PROVE  /\ w.at \in {"idle", "page", "emit", "done"} /\ w.from \in Nat /\ w.cur \in Nat
           /\ w.ok \in Nat /\ w.latest \in Nat /\ w.end \in Nat
           /\ w.page \in MinPage..MaxPage /\ w.page \in Nat \ {0}
           /\ w.todo \subseteq Message
<1>1. /\ w.at \in {"idle", "page", "emit", "done"} /\ w.from \in Nat /\ w.cur \in Nat
      /\ w.ok \in Nat /\ w.latest \in Nat /\ w.end \in Nat
      /\ w.page \in MinPage..MaxPage /\ w.todo \subseteq Message
  BY Zenon DEF Poller
<1>2. w.page \in Nat \ {0}
  BY <1>1, ListenerAssumption
<1> QED
  BY <1>1, <1>2

\* While nothing is sent, what was complete stays so.
LEMMA ListenFacts ==
    ASSUME IndInv, Quiet, chan' = chan
    PROVE  /\ \A c : Whole(c) => Whole(c)'
           /\ \A m : Log(m) => Log(m)'
           /\ \A p, k, n : Sent(p, k, n) => Sent(p, k, n)'
           /\ \A k, n : Event(k, n)' = Event(k, n)
           /\ chain' = chain /\ head' = head
<1>1. Shape /\ UNCHANGED <<chain, head, base, applied, chan>>
  BY Zenon DEF IndInv, Quiet
<1>2. head' \in Nat /\ head <= head'
  BY <1>1, ScriptFacts
<1> QED
  BY <1>1, <1>2, SentKept, Zenon DEF Event

\* The poll begins: everything below lst.from was sent.
LEMMA PollOnce == ASSUME IndInv, poll_once PROVE IndInv'
<1>1. /\ Running /\ Quiet /\ chan' = chan /\ lst.at = "idle" /\ lst \in Poller /\ Shape
      /\ lst.from # 0 /\ Whole(lst.from - 1)
  BY Zenon DEF IndInv, poll_once, Shape, Polling
<1>2. head \in Nat /\ Latest \in Nat /\ Latest <= head
  BY <1>1, ScriptFacts, ListenerAssumption DEF Latest
<1>3. CASE lst.from > Latest
  <2>1. lst' = [lst EXCEPT !.at = "done", !.ok = lst.from - 1]
    BY <1>3, Zenon DEF poll_once
  <2>2. lst.from - 1 \in Nat
    BY <1>1, PollerFacts
  <2>3. lst' \in Poller /\ lst'.at = "done" /\ lst'.ok = lst.from - 1
    BY <1>1, <2>1, <2>2, Zenon DEF Poller
  <2>4. Polling'
    BY <1>1, <2>3, ListenFacts, Zenon DEF Polling
  <2> QED
    BY <1>1, <2>3, <2>4, ListenStep, Zenon
<1>4. CASE ~(lst.from > Latest)
  <2>1. lst' = [lst EXCEPT !.at = "page", !.cur = lst.from, !.ok = lst.from - 1,
                           !.latest = Latest]
    BY <1>4, Zenon DEF poll_once
  <2>2. lst.from - 1 \in Nat /\ lst.from \in Nat
    BY <1>1, PollerFacts
  <2>3. /\ lst' \in Poller /\ lst'.at = "page" /\ lst'.ok = lst.from - 1
        /\ lst'.cur = lst.from /\ lst'.latest = Latest
    BY <1>1, <1>2, <2>1, <2>2, Zenon DEF Poller
  <2>4. lst'.cur = lst'.ok + 1 /\ lst'.cur <= lst'.latest /\ lst'.latest <= head
    BY <1>2, <1>4, <2>2, <2>3
  <2>5. Polling'
    BY <1>1, <2>3, <2>4, ListenFacts, Zenon DEF Polling
  <2> QED
    BY <1>1, <2>3, <2>5, ListenStep, Zenon
<1> QED
  BY <1>3, <1>4

\* A page lies between the cursor and the safe head.
LEMMA PageFacts ==
    ASSUME IndInv, Running, lst.at \in {"page", "emit"}
    PROVE  /\ lst \in Poller /\ Shape /\ Whole(lst.ok)
           /\ lst.cur = lst.ok + 1 /\ lst.cur <= lst.latest /\ lst.latest <= head
           /\ PageEnd \in lst.cur..lst.latest /\ PageEnd \in Nat
           /\ base \in Nat /\ base <= lst.cur /\ head \in Nat /\ head <= Len(chain)
<1>1. /\ lst \in Poller /\ Shape /\ Whole(lst.ok)
      /\ lst.cur = lst.ok + 1 /\ lst.cur <= lst.latest /\ lst.latest <= head
  BY Zenon DEF IndInv, Shape, Polling
<1>2. base \in Nat /\ head \in 1..Len(chain) /\ Len(chain) \in Nat /\ base <= lst.ok + 1
  BY <1>1, ScriptFacts, Zenon DEF Shape, Whole
<1>3. PageEnd \in lst.cur..lst.latest /\ PageEnd \in Nat
  BY <1>1, PollerFacts DEF PageEnd
<1> QED
  BY <1>1, <1>2, <1>3

\* The log query returns the events of its blocks.
LEMMA PageLogs == ASSUME IndInv, page_logs PROVE IndInv'
<1>1. /\ Running /\ Quiet /\ chan' = chan /\ lst.at = "page"
      /\ lst' = [lst EXCEPT !.at = "emit", !.end = PageEnd,
                            !.todo = EventsIn(lst.cur, PageEnd)]
  BY Zenon DEF page_logs
<1>2. /\ lst \in Poller /\ Shape /\ Whole(lst.ok)
      /\ lst.cur = lst.ok + 1 /\ lst.cur <= lst.latest /\ lst.latest <= head
      /\ PageEnd \in lst.cur..lst.latest /\ PageEnd \in Nat
      /\ base \in Nat /\ base <= lst.cur /\ head \in Nat /\ head <= Len(chain)
  BY <1>1, PageFacts
<1>3. \A k \in lst.cur..PageEnd : k \in base..head /\ k \in 1..Len(chain)
  BY <1>2, PollerFacts, ScriptFacts DEF Shape
<1>4. ASSUME NEW m \in EventsIn(lst.cur, PageEnd) PROVE m \in Message /\ Log(m)
  <2>0. PICK k \in lst.cur..PageEnd : m \in {Event(k, n) : n \in DOMAIN chain[k]}
    BY <1>4, Zenon DEF EventsIn
  <2>1. PICK n \in DOMAIN chain[k] : m = Event(k, n)
    BY <2>0, Zenon
  <2>2. m \in Message /\ m.at = k /\ m.nr = n
    BY <1>2, <1>3, <2>1, MessageFacts, Zenon
  <2> QED
    BY <1>3, <2>1, <2>2, Zenon DEF Log
<1>5. PICK t : t = EventsIn(lst.cur, PageEnd)
  OBVIOUS
<1>6. /\ lst' \in Poller /\ lst'.at = "emit" /\ lst'.end = PageEnd /\ lst'.todo = t
      /\ lst'.ok = lst.ok /\ lst'.cur = lst.cur /\ lst'.latest = lst.latest
  <2>1. t \in SUBSET Message
    BY <1>4, <1>5, Zenon
  <2>2. lst' = [lst EXCEPT !.at = "emit", !.end = PageEnd, !.todo = t]
    BY <1>1, <1>5, Zenon
  <2> QED
    BY <1>2, <2>1, <2>2, Zenon DEF Poller
<1>7. ASSUME NEW k \in lst.cur..PageEnd, NEW n \in DOMAIN chain[k]
      PROVE  Event(k, n) \in t
  <2>1. Event(k, n) \in {Event(k, x) : x \in DOMAIN chain[k]}
    BY Zenon
  <2> QED
    BY <1>5, <2>1, Zenon DEF EventsIn
<1>8. Polling'
  <2>1. Whole(lst.ok)' /\ lst'.at = "emit"
    BY <1>1, <1>2, <1>6, ListenFacts, Zenon
  <2>2. ASSUME NEW m \in lst'.todo PROVE Log(m)'
    BY <1>1, <1>4, <1>5, <1>6, ListenFacts, Zenon
  <2>3. ASSUME NEW k \in lst'.cur..lst'.end, NEW n \in DOMAIN chain'[k]
        PROVE  Event(k, n)' \in lst'.todo
    <3>1. k \in lst.cur..PageEnd /\ n \in DOMAIN chain[k]
      BY <1>1, <1>6, ListenFacts, Zenon
    <3> QED
      BY <1>1, <1>6, <1>7, <3>1, ListenFacts, Zenon
  <2>4. /\ lst'.cur = lst'.ok + 1 /\ lst'.cur <= lst'.latest /\ lst'.latest <= head'
        /\ lst'.end \in lst'.cur..lst'.latest
    BY <1>1, <1>2, <1>6, ListenFacts, Zenon
  <2> QED
    BY <2>1, <2>2, <2>3, <2>4, Zenon DEF Polling
<1> QED
  BY <1>1, <1>6, <1>8, ListenStep, Zenon

\* A refused page changes the size only, or ends the poll.
LEMMA PageTooMany == ASSUME IndInv, page_too_many PROVE IndInv'
<1>1. /\ Running /\ Quiet /\ chan' = chan /\ lst.at = "page"
      /\ lst' = [lst EXCEPT !.page = Shrunk,
                            !.at = IF lst.page = MinPage THEN "done" ELSE "page"]
  BY Zenon DEF page_too_many
<1>2. /\ lst \in Poller /\ Shape /\ Whole(lst.ok)
      /\ lst.cur = lst.ok + 1 /\ lst.cur <= lst.latest /\ lst.latest <= head
  BY <1>1, PageFacts
<1>3. Shrunk \in MinPage..MaxPage
  BY <1>2, PollerFacts, ListenerAssumption DEF Shrunk
<1>4. PICK a : a = IF lst.page = MinPage THEN "done" ELSE "page"
  OBVIOUS
<1>5. a \in {"done", "page"}
  BY <1>4
<1>6. /\ lst' \in Poller /\ lst'.at = a
      /\ lst'.ok = lst.ok /\ lst'.cur = lst.cur /\ lst'.latest = lst.latest
  BY <1>1, <1>2, <1>3, <1>4, <1>5, Zenon DEF Poller
<1>7. lst'.at # "idle" /\ lst'.at # "emit"
  BY <1>5, <1>6
<1>8. Polling'
  BY <1>1, <1>2, <1>6, <1>7, ListenFacts, Zenon DEF Polling
<1> QED
  BY <1>1, <1>6, <1>8, ListenStep, Zenon

\* A page whose events were all sent extends what is complete.
LEMMA PageDone == ASSUME IndInv, page_done PROVE IndInv'
<1> DEFINE a == IF lst.end = lst.latest THEN "done" ELSE "page"
           g == IF lst.page + MinPage < MaxPage THEN lst.page + MinPage ELSE MaxPage
<1>1. /\ Running /\ Quiet /\ chan' = chan /\ lst.at = "emit" /\ lst.todo = {}
      /\ lst' = [lst EXCEPT !.at = a, !.ok = lst.end, !.cur = lst.end + 1, !.end = 0,
                            !.page = g]
  BY DEF page_done
<1>2. /\ lst \in Poller /\ Shape /\ Whole(lst.ok)
      /\ lst.cur = lst.ok + 1 /\ lst.cur <= lst.latest /\ lst.latest <= head
      /\ base \in Nat /\ base <= lst.cur /\ head \in Nat /\ head <= Len(chain)
  BY <1>1, PageFacts
<1>3. /\ lst.end \in lst.cur..lst.latest
      /\ \A k \in lst.cur..lst.end : \A n \in DOMAIN chain[k] : Sent(Len(chan) + 1, k, n)
  BY <1>1, Zenon DEF IndInv, Polling
<1>4. a \in {"done", "page"} /\ g \in MinPage..MaxPage /\ lst.end + 1 \in Nat
  <2>1. /\ MinPage \in Nat /\ MaxPage \in Nat /\ MinPage <= MaxPage
        /\ lst.page \in Nat /\ lst.cur \in Nat /\ lst.latest \in Nat
    BY <1>2, PollerFacts, ListenerAssumption
  <2>2. g \in MinPage..MaxPage
    BY <2>1
  <2>3. lst.end + 1 \in Nat
    BY <1>3, <2>1
  <2> QED
    BY <2>2, <2>3, Zenon
<1>5. /\ lst' \in Poller /\ lst'.at = a
      /\ lst'.ok = lst.end /\ lst'.cur = lst.end + 1 /\ lst'.latest = lst.latest
  BY <1>1, <1>2, <1>4, PollerFacts, Zenon DEF Poller
<1>6. Whole(lst.end)
  <2>1. lst.end \in Nat /\ lst.ok \in Nat /\ Len(chain) \in Nat /\ lst.latest \in Nat
    BY <1>2, PollerFacts, ScriptFacts
  <2>2. base <= lst.end + 1 /\ lst.end <= Len(chain) + 1
    BY <1>2, <1>3, <2>1
  <2>3. ASSUME NEW k \in base..Len(chain), k <= lst.end, NEW n \in DOMAIN chain[k]
        PROVE  Sent(Len(chan) + 1, k, n)
    <3>1. CASE k <= lst.ok
      BY <1>2, <3>1, Zenon DEF Whole, SentTo
    <3>2. CASE ~(k <= lst.ok)
      <4>1. k \in lst.cur..lst.end
        BY <1>2, <2>1, <2>3, <3>2
      <4> QED
        BY <1>3, <4>1, Zenon
    <3> QED
      BY <3>1, <3>2
  <2> QED
    BY <2>2, <2>3, Zenon DEF Whole, SentTo
<1>7. a = "page" => lst.end + 1 <= lst.latest
  BY <1>2, <1>3, PollerFacts
<1>8. lst'.at # "idle" /\ lst'.at # "emit" /\ (lst'.at = "page" => lst'.cur <= lst'.latest)
  BY <1>4, <1>5, <1>7
<1>9. Polling'
  BY <1>1, <1>2, <1>5, <1>6, <1>8, ListenFacts, Zenon DEF Polling
<1> QED
  BY <1>1, <1>5, <1>9, ListenStep, Zenon

\* A page that failed leaves what was complete before it.
LEMMA PageFailed == ASSUME IndInv, page_failed PROVE IndInv'
<1>1. /\ Running /\ Quiet /\ chan' = chan /\ lst.at \in {"page", "emit"}
      /\ lst' = [lst EXCEPT !.at = "done", !.ok = lst.ok, !.end = 0, !.todo = {}]
  BY Zenon DEF page_failed, LastOk
<1>2. lst \in Poller /\ Whole(lst.ok)
  BY <1>1, PageFacts
<1>3. lst' \in Poller /\ lst'.at = "done" /\ lst'.ok = lst.ok
  BY <1>1, <1>2, Zenon DEF Poller
<1>4. Polling'
  BY <1>1, <1>2, <1>3, ListenFacts, Zenon DEF Polling
<1> QED
  BY <1>1, <1>3, <1>4, ListenStep, Zenon
-----------------------------------------------------------------------------
(* Sends.                                                                  *)

\* A message at the end of the channel.
LEMMA SendFacts ==
    ASSUME IndInv, Quiet, NEW m \in Message, Send(m)
    PROVE  /\ chan' \in Seq(Message) /\ Len(chan) \in Nat /\ Len(chan') = Len(chan) + 1
           /\ Len(chan') <= ChanCap /\ chan'[Len(chan) + 1] = m
           /\ \A p \in 1..Len(chan) : chan'[p] = chan[p]
           /\ chain' = chain /\ head' = head /\ base' = base /\ applied' = applied
           /\ \A k, n : Event(k, n)' = Event(k, n)
           /\ \A x : Log(x)' <=> Log(x)
           /\ \A x : Mark(x)' <=> Mark(x)
<1>1. /\ chan \in Seq(Message) /\ Len(chan) < ChanCap /\ chan' = Append(chan, m)
      /\ chain' = chain /\ head' = head /\ base' = base /\ applied' = applied
  BY Zenon DEF IndInv, Shape, Quiet, Send
<1>2. /\ chan' \in Seq(Message) /\ Len(chan) \in Nat /\ Len(chan') = Len(chan) + 1
      /\ chan'[Len(chan) + 1] = m /\ \A p \in 1..Len(chan) : chan'[p] = chan[p]
  BY <1>1
<1>3. Len(chan') <= ChanCap
  BY <1>1, <1>2, ListenerAssumption
<1>4. \A k, n : Event(k, n)' = Event(k, n)
  BY <1>1, Zenon DEF Event
<1>5. \A x : Log(x)' <=> Log(x)
  BY <1>1, <1>4, Zenon DEF Log
<1>6. \A x : Mark(x)' <=> Mark(x)
  BY <1>1, Zenon DEF Mark, Checkpoint
<1> QED
  BY <1>1, <1>2, <1>3, <1>4, <1>5, <1>6

\* What was sent before a position stays so, and the new message is sent.
LEMMA SendKeeps ==
    ASSUME IndInv, Quiet, NEW m \in Message, Send(m)
    PROVE  /\ \A p, k, n : Sent(p, k, n) => Sent(p, k, n)'
           /\ \A k, n : Sent(Len(chan) + 1, k, n) => Sent(Len(chan) + 1, k, n)'
           /\ \A k, n : m = Event(k, n) => Sent(Len(chan) + 1, k, n)'
<1>1. /\ Len(chan) \in Nat /\ Len(chan') = Len(chan) + 1
      /\ chan'[Len(chan) + 1] = m /\ \A p \in 1..Len(chan) : chan'[p] = chan[p]
      /\ applied' = applied /\ \A k, n : Event(k, n)' = Event(k, n)
  BY SendFacts, Zenon
<1>2. \A q \in 1..Len(chan) : q \in 1..Len(chan') /\ q < Len(chan') + 1
  BY <1>1
<1>3. ASSUME NEW p, NEW k, NEW n, Sent(p, k, n) PROVE Sent(p, k, n)'
  BY <1>1, <1>2, <1>3, Zenon DEF Sent
<1>4. ASSUME NEW k, NEW n, Sent(Len(chan) + 1, k, n) PROVE Sent(Len(chan) + 1, k, n)'
  BY <1>1, <1>2, <1>4, Zenon DEF Sent
<1>5. ASSUME NEW k, NEW n, m = Event(k, n) PROVE Sent(Len(chan) + 1, k, n)'
  <2>1. Len(chan) + 1 \in 1..Len(chan') /\ Len(chan) + 1 < Len(chan') + 1
    BY <1>1
  <2> QED
    BY <1>1, <1>5, <2>1, Zenon DEF Sent
<1> QED
  BY <1>3, <1>4, <1>5, Zenon

\* A step of the listener that sends an event, or a checkpoint behind its events.
LEMMA SendStep ==
    ASSUME IndInv, Running, Quiet, NEW m \in Message, Send(m),
           Log(m) \/ (Mark(m) /\ SentTo(Len(chan) + 1, m.at)), lst' \in Poller, Polling'
    PROVE  IndInv'
<1>1. /\ Shape /\ Resolved /\ Started /\ Queued /\ NoEventSkipped /\ NoneReverted
  BY Zenon DEF IndInv
<1>2. UNCHANGED <<chain, head, db, proc, applied, base>>
  BY Zenon DEF Quiet
<1>3. Shape'
  BY <1>1, <1>2, SendFacts, Zenon DEF Shape, Rows, Stage, Poller, Table
<1>4. Stopped'
  BY <1>2, Zenon DEF Stopped, Running
<1>5. NoEventSkipped' /\ Started' /\ NoneReverted' /\ Resolved'
  BY <1>1, <1>2, StandKept, ResolvedKept, Zenon
<1>6. ASSUME NEW p, NEW c, SentTo(p, c) PROVE SentTo(p, c)'
  BY <1>2, <1>6, SendKeeps, Zenon DEF SentTo
<1>7. ASSUME NEW p \in 1..Len(chan')
      PROVE  (Log(chan[p]) \/ (Mark(chan[p]) /\ SentTo(p, chan[p].at)))'
  <2>1. CASE p \in 1..Len(chan)
    BY <1>1, <1>6, <2>1, SendFacts, Zenon DEF Queued
  <2>2. CASE p \notin 1..Len(chan)
    <3>1. p = Len(chan) + 1
      BY <2>2, SendFacts
    <3> QED
      BY <1>6, <3>1, SendFacts, Zenon
  <2> QED
    BY <2>1, <2>2, Zenon
<1>8. Queued'
  BY <1>7, Zenon DEF Queued
<1> QED
  BY <1>3, <1>4, <1>5, <1>8, Zenon DEF IndInv

\* An event of the page goes from what is to be sent to what was.
LEMMA PageEmit == ASSUME IndInv, page_emit PROVE IndInv'
<1>1. /\ Running /\ Quiet /\ lst.at = "emit" /\ lst \in Poller /\ Whole(lst.ok)
      /\ lst.cur = lst.ok + 1 /\ lst.cur <= lst.latest /\ lst.latest <= head
      /\ lst.end \in lst.cur..lst.latest /\ \A m \in lst.todo : Log(m)
      /\ \A k \in lst.cur..lst.end : \A n \in DOMAIN chain[k] :
           Sent(Len(chan) + 1, k, n) \/ Event(k, n) \in lst.todo
  BY Zenon DEF IndInv, Shape, Polling, page_emit
<1>2. PICK m \in lst.todo : Send(m) /\ lst' = [lst EXCEPT !.todo = @ \ {m}]
  BY Zenon DEF page_emit
<1>3. m \in Message /\ lst.todo \ {m} \in SUBSET Message
  BY <1>1, PollerFacts, Zenon
<1>4. /\ lst' \in Poller /\ lst'.at = "emit" /\ lst'.todo = lst.todo \ {m}
      /\ lst'.ok = lst.ok /\ lst'.cur = lst.cur /\ lst'.latest = lst.latest
      /\ lst'.end = lst.end
  BY <1>1, <1>2, <1>3 DEF Poller
<1>5. Whole(lst.ok)'
  BY <1>1, <1>2, <1>3, <1>4, SendFacts, SendKeeps, Zenon DEF Whole, SentTo
<1>6. ASSUME NEW k \in lst'.cur..lst'.end, NEW n \in DOMAIN chain'[k]
      PROVE  Sent(Len(chan) + 1, k, n)' \/ Event(k, n)' \in lst'.todo
  <2>1. k \in lst.cur..lst.end /\ n \in DOMAIN chain[k] /\ Event(k, n)' = Event(k, n)
    BY <1>1, <1>2, <1>3, <1>4, SendFacts, Zenon
  <2> QED
    BY <1>1, <1>2, <1>3, <1>4, <2>1, SendKeeps, Zenon
<1>7. \A x \in lst'.todo : Log(x)'
  BY <1>1, <1>2, <1>3, <1>4, SendFacts, Zenon
<1>8. lst'.latest <= head'
  BY <1>1, <1>2, <1>3, <1>4, SendFacts, Zenon
<1>9. Polling'
  BY <1>1, <1>4, <1>5, <1>6, <1>7, <1>8, Zenon DEF Polling
<1> QED
  BY <1>1, <1>2, <1>3, <1>4, <1>9, SendStep, Zenon

\* The checkpoint follows the events it covers.
LEMMA PollDone == ASSUME IndInv, poll_done PROVE IndInv'
<1>1. /\ Running /\ Quiet /\ lst.at = "done" /\ lst \in Poller /\ Whole(lst.ok)
      /\ Send(Checkpoint(lst.ok)) /\ lst' = [Idle(lst.ok + 1) EXCEPT !.page = lst.page]
  BY Zenon DEF IndInv, Shape, Polling, poll_done
<1>2. lst.ok \in Nat /\ lst.page \in MinPage..MaxPage
  BY <1>1, PollerFacts
<1>3. PICK m : m = Checkpoint(lst.ok)
  OBVIOUS
<1>4. m \in Message /\ m.at = lst.ok /\ Send(m)
  BY <1>1, <1>2, <1>3, MarkFacts, Zenon
<1>5. Mark(m) /\ SentTo(Len(chan) + 1, m.at)
  BY <1>1, <1>3, <1>4, Zenon DEF Mark, Whole
<1>6. lst' \in Poller /\ lst'.at = "idle" /\ lst'.from = lst.ok + 1
  BY <1>1, <1>2, ListenerAssumption DEF Idle, Poller
<1>7. lst'.from # 0 /\ lst'.from - 1 = lst.ok
  BY <1>2, <1>6
<1>8. Whole(lst.from - 1)'
  BY <1>1, <1>4, <1>7, SendFacts, SendKeeps, Zenon DEF Whole, SentTo
<1>9. Polling'
  BY <1>6, <1>7, <1>8, Zenon DEF Polling
<1> QED
  BY <1>1, <1>4, <1>5, <1>6, <1>9, SendStep, Zenon
-----------------------------------------------------------------------------
(* The main loop.                                                          *)

\* The message at the head of the channel.
LEMMA RecvFacts ==
    ASSUME IndInv, chan # <<>>, chan' = Tail(chan)
    PROVE  /\ chan' \in Seq(Message) /\ Len(chan) \in Nat /\ Len(chan) = Len(chan') + 1
           /\ Len(chan') \in Nat /\ Len(chan') <= ChanCap
           /\ 1 \in 1..Len(chan) /\ Head(chan) = chan[1] /\ Head(chan) \in Message
           /\ \A p \in 1..Len(chan') : p + 1 \in 1..Len(chan) /\ chan'[p] = chan[p + 1]
<1>1. chan \in Seq(Message) /\ Len(chan) <= ChanCap
  BY Zenon DEF IndInv, Shape
<1>2. /\ chan' \in Seq(Message) /\ Len(chan) \in Nat /\ Len(chan) = Len(chan') + 1
      /\ Len(chan') \in Nat
      /\ 1 \in 1..Len(chan) /\ Head(chan) = chan[1] /\ Head(chan) \in Message
      /\ \A p \in 1..Len(chan') : p + 1 \in 1..Len(chan) /\ chan'[p] = chan[p + 1]
  BY <1>1
<1> QED
  BY <1>1, <1>2, ListenerAssumption

\* What was sent before a position of the channel is handled or still before
\* it, if the event that leaves the channel is handled.
LEMMA RecvKeeps ==
    ASSUME IndInv, chan # <<>>, chan' = Tail(chan), chain' = chain, applied \subseteq applied',
           NEW p \in Nat, NEW k \in 1..Len(chain), NEW n \in DOMAIN chain[k],
           chan[1] = Event(k, n) => Event(k, n) \in applied', Sent(p + 1, k, n)
    PROVE  Sent(p, k, n)'
<1>1. Event(k, n)' = Event(k, n)
  BY Zenon DEF Event
<1>2. CASE Event(k, n) \in applied
  BY <1>1, <1>2, Zenon DEF Sent
<1>3. CASE \E q \in 1..Len(chan) : q < p + 1 /\ chan[q] = Event(k, n)
  <2>1. PICK q \in 1..Len(chan) : q < p + 1 /\ chan[q] = Event(k, n)
    BY <1>3, Zenon
  <2>2. CASE q = 1
    BY <1>1, <2>1, <2>2, Zenon DEF Sent
  <2>3. CASE q # 1
    <3>1. q - 1 \in 1..Len(chan') /\ q - 1 < p /\ chan'[q - 1] = chan[q]
      BY <2>1, <2>3, RecvFacts
    <3> QED
      BY <1>1, <2>1, <3>1, Zenon DEF Sent
  <2> QED
    BY <2>2, <2>3, Zenon
<1> QED
  BY <1>2, <1>3, Zenon DEF Sent

\* Handling the message at the head of the channel.
LEMMA RecvStep ==
    ASSUME IndInv, Running, chan # <<>>, chan' = Tail(chan),
           UNCHANGED <<chain, head, proc, lst, base>>, applied \subseteq applied',
           \A k \in 1..Len(chain) : \A n \in DOMAIN chain[k] :
               chan[1] = Event(k, n) => Event(k, n) \in applied',
           db' \in Rows, DOMAIN db'.pend \cap DOMAIN db'.disp = {},
           NoEventSkipped', Started', NoneReverted'
    PROVE  IndInv'
<1>1. Shape /\ Resolved /\ Queued /\ Polling
  BY Zenon DEF IndInv
<1>2. Shape'
  BY <1>1, RecvFacts, Zenon DEF Shape, Stage, Poller
<1>3. Stopped' /\ Resolved'
  BY <1>1, ResolvedKept, Zenon DEF Stopped, Running
<1>4. /\ \A k \in base..Len(chain) : k \in 1..Len(chain)
      /\ \A k \in base..head : k \in 1..Len(chain)
  BY <1>1, ScriptFacts DEF Shape
<1>5. ASSUME NEW p \in Nat, NEW c, SentTo(p + 1, c) PROVE SentTo(p, c)'
  <2> SUFFICES ASSUME NEW k \in base..Len(chain), k <= c, NEW n \in DOMAIN chain[k]
               PROVE  Sent(p, k, n)'
    BY Zenon DEF SentTo
  <2>1. k \in 1..Len(chain) /\ Sent(p + 1, k, n)
    BY <1>4, <1>5, Zenon DEF SentTo
  <2> QED
    BY <2>1, RecvKeeps, Zenon
<1>6. /\ \A k, n : Event(k, n)' = Event(k, n)
      /\ \A x : Log(x)' <=> Log(x)
      /\ \A x : Mark(x)' <=> Mark(x)
  BY Zenon DEF Event, Log, Mark, Checkpoint
<1>7. ASSUME NEW p \in 1..Len(chan')
      PROVE  (Log(chan[p]) \/ (Mark(chan[p]) /\ SentTo(p, chan[p].at)))'
  <2>1. p \in Nat /\ p + 1 \in 1..Len(chan) /\ chan'[p] = chan[p + 1]
    BY RecvFacts
  <2> QED
    BY <1>1, <1>5, <1>6, <2>1, Zenon DEF Queued
<1>8. ASSUME NEW c, Whole(c) PROVE Whole(c)'
  BY <1>5, <1>8, RecvFacts, Zenon DEF Whole
<1>9. Polling'
  <2>1. \A k \in 1..Len(chain) : \A n \in DOMAIN chain[k] :
          Sent(Len(chan) + 1, k, n) => Sent(Len(chan) + 1, k, n)'
    BY RecvFacts, RecvKeeps, Zenon
  <2>2. ASSUME lst.at = "emit", NEW k \in lst.cur..lst.end
        PROVE  k \in 1..Len(chain)
    <3>1. lst.end <= lst.latest /\ lst.latest <= head /\ base <= lst.cur /\ lst \in Poller
      BY <2>2, PageFacts DEF Polling, IndInv
    <3> QED
      BY <1>1, <2>2, <3>1, ScriptFacts, PollerFacts DEF Shape
  <2> QED
    BY <1>1, <1>6, <1>8, <2>1, <2>2, Zenon DEF Polling
<1>10. Queued'
  BY <1>7, Zenon DEF Queued
<1> QED
  BY <1>2, <1>3, <1>9, <1>10, Zenon DEF IndInv

\* An event of L1 at the head of the channel.
LEMMA HeadFacts ==
    ASSUME IndInv, chan # <<>>, Head(chan).ev.kind # "checkpoint"
    PROVE  /\ Log(Head(chan)) /\ Head(chan).at \in 1..Len(chain) /\ base <= Head(chan).at
           /\ Head(chan).nr \in DOMAIN chain[Head(chan).at]
           /\ Head(chan).ev = chain[Head(chan).at][Head(chan).nr]
           /\ Head(chan).ev \in Commitment \cup Notice
<1>1. Shape /\ Queued
  BY Zenon DEF IndInv
<1>2. 1 \in 1..Len(chan) /\ Head(chan) = chan[1] /\ Head(chan) \in Message
  BY <1>1 DEF Shape
<1>3. PICK m : m = Head(chan)
  OBVIOUS
<1>4. m.at \in Nat
  BY <1>2, <1>3, Zenon DEF Message
<1>5. ~Mark(m)
  BY <1>3, <1>4, MarkFacts, Zenon DEF Mark
<1>6. Log(m)
  BY <1>1, <1>2, <1>3, <1>5, Zenon DEF Queued
<1>7. m.at \in 1..Len(chain) /\ base <= m.at
  BY <1>1, <1>6, ScriptFacts DEF Log, Shape
<1>8. m.ev = chain[m.at][m.nr] /\ m.nr \in DOMAIN chain[m.at]
  <2>1. PICK k, n : k = m.at /\ n = m.nr
    BY Zenon
  <2>2. n \in DOMAIN chain[k] /\ m = Event(k, n)
    BY <1>6, <2>1 DEF Log
  <2>3. m.ev = chain[k][n]
    BY <1>1, <1>7, <2>1, <2>2, MessageFacts
  <2> QED
    BY <2>1, <2>2, <2>3, Zenon
<1>9. m.ev \in Commitment \cup Notice
  BY <1>1, <1>7, <1>8, ScriptFacts, Zenon
<1> QED
  BY <1>3, <1>6, <1>7, <1>8, <1>9, Zenon

\* Handling an event other than BatchReverted.
LEMMA EventStep ==
    ASSUME IndInv, NEW kind \in {"committed", "submitted", "preconfirmed"}, Recv(kind),
           applied' = applied \cup {Head(chan)},
           db' \in Rows, db'.l1 = db.l1, DOMAIN db'.pend \cap DOMAIN db'.disp = {}
    PROVE  IndInv'
<1>1. /\ Running /\ chan # <<>> /\ Head(chan).ev.kind = kind /\ chan' = Tail(chan)
      /\ UNCHANGED <<chain, head, proc, lst, base>>
  BY Zenon DEF Recv
<1>2. NoEventSkipped /\ Started /\ NoneReverted
  BY Zenon DEF IndInv
<1>3. Head(chan) = chan[1]
  BY <1>1, RecvFacts, Zenon
<1>4. \A k, n : Event(k, n)' = Event(k, n)
  BY <1>1, Zenon DEF Event
<1>5. NoEventSkipped'
  BY <1>1, <1>2, <1>4, Zenon DEF NoEventSkipped
<1>6. Started'
  BY <1>1, <1>2, Zenon DEF Started
<1>7. NoneReverted'
  BY <1>1, <1>2 DEF NoneReverted
<1> QED
  BY <1>1, <1>3, <1>5, <1>6, <1>7, RecvStep, Zenon

\* The tables after set_batch and mark_dispatched_external.
LEMMA CommittedRows ==
    ASSUME IndInv, on_batch_committed
    PROVE  /\ db' \in Rows /\ db'.l1 = db.l1 /\ db'.disp = db.disp
           /\ DOMAIN db'.pend \cap DOMAIN db'.disp = {}
           /\ \A i \in DOMAIN db'.pend :
                \/ i \in DOMAIN db.pend /\ db'.pend[i] = db.pend[i]
                \/ /\ i = Head(chan).ev.batch
                   /\ db'.pend[i] = [from |-> Head(chan).ev.from, to |-> Head(chan).ev.to]
<1>1. /\ chan # <<>> /\ Head(chan).ev.kind = "committed"
      /\ db \in Rows /\ DOMAIN db.pend \cap DOMAIN db.disp = {}
  BY Zenon DEF IndInv, Shape, on_batch_committed, Recv
<1>2. PICK e : e = Head(chan).ev
  OBVIOUS
<1>3. e \in Commitment \cup Notice /\ e.kind = "committed"
  BY <1>1, <1>2, HeadFacts
<1>4. e.batch \in Nat /\ e.from \in Nat \ {0} /\ e.to \in Nat
  BY <1>3, EventFacts, Zenon
<1>5. CASE Tracked(e.batch)
  BY <1>1, <1>2, <1>5, Zenon DEF on_batch_committed
<1>6. CASE ~Tracked(e.batch)
  <2>1. PICK r : r = [from |-> e.from, to |-> e.to]
    BY Zenon
  <2>2. r \in Span
    BY <1>4, <2>1 DEF Span
  <2>3. PICK t : t = Put(db.pend, e.batch, r)
    OBVIOUS
  <2>4. db' = [db EXCEPT !.pend = t]
    BY <1>2, <1>6, <2>1, <2>3, Zenon DEF on_batch_committed
  <2>5. /\ t \in Table /\ DOMAIN t = DOMAIN db.pend \cup {e.batch}
        /\ t[e.batch] = r /\ \A j \in DOMAIN db.pend : j # e.batch => t[j] = db.pend[j]
    <3>1. db.pend \in Table
      BY <1>1, RowsFacts, Zenon
    <3>2. PICK p, i : p = db.pend /\ i = e.batch
      BY Zenon
    <3>3. /\ Put(p, i, r) \in Table /\ DOMAIN Put(p, i, r) = DOMAIN p \cup {i}
          /\ Put(p, i, r)[i] = r /\ \A j \in DOMAIN p : j # i => Put(p, i, r)[j] = p[j]
      <4>1. p \in Table /\ i \in Nat
        BY <1>4, <3>1, <3>2, Zenon
      <4> QED
        BY <2>2, <4>1, PutFacts, Zenon
    <3> QED
      BY <2>3, <3>2, <3>3, Zenon
  <2>6. db' \in Rows /\ db'.l1 = db.l1 /\ db'.disp = db.disp /\ db'.pend = t
    BY <1>1, <2>4, <2>5 DEF Rows
  <2>7. e.batch \notin DOMAIN db.disp
    BY <1>6, Zenon DEF Tracked, Batches
  <2> QED
    BY <1>1, <1>2, <2>1, <2>5, <2>6, <2>7, Zenon
<1> QED
  BY <1>5, <1>6, Zenon

\* set_batch.
LEMMA OnBatchCommitted == ASSUME IndInv, on_batch_committed PROVE IndInv'
<1>1. Recv("committed") /\ applied' = applied \cup {Head(chan)}
  BY Zenon DEF on_batch_committed
<1> QED
  BY <1>1, CommittedRows, EventStep, Zenon

\* mark_batch_submitted.
LEMMA OnBatchSubmitted == ASSUME IndInv, on_batch_submitted PROVE IndInv'
<1>1. Recv("submitted") /\ applied' = applied \cup {Head(chan)} /\ db' = db
  BY Zenon DEF on_batch_submitted
<1>2. db' \in Rows /\ db'.l1 = db.l1 /\ DOMAIN db'.pend \cap DOMAIN db'.disp = {}
  BY <1>1, Zenon DEF IndInv, Shape
<1> QED
  BY <1>1, <1>2, EventStep, Zenon

\* A row moves from the pending to the dispatched table.
LEMMA PreconfirmedRows ==
    ASSUME IndInv, on_batch_preconfirmed
    PROVE  /\ db' \in Rows /\ db'.l1 = db.l1
           /\ DOMAIN db'.pend \cap DOMAIN db'.disp = {}
           /\ \A i \in DOMAIN db'.pend : i \in DOMAIN db.pend /\ db'.pend[i] = db.pend[i]
           /\ \A i \in DOMAIN db'.disp :
                \/ i \in DOMAIN db.disp /\ db'.disp[i] = db.disp[i]
                \/ i \in DOMAIN db.pend /\ db'.disp[i] = db.pend[i]
<1>1. db \in Rows /\ DOMAIN db.pend \cap DOMAIN db.disp = {}
  BY Zenon DEF IndInv, Shape
<1>2. PICK i : i = Head(chan).ev.batch
  OBVIOUS
<1>3. CASE ~Dispatchable(i)
  BY <1>1, <1>2, <1>3, Zenon DEF on_batch_preconfirmed
<1>4. CASE Dispatchable(i)
  <2>1. i \in DOMAIN db.pend /\ db.pend \in Table /\ db.disp \in Table
    BY <1>1, <1>4, RowsFacts, Zenon DEF Dispatchable, Batches
  <2>2. i \in Nat /\ db.pend[i] \in Span
    BY <2>1, TableFacts, Zenon
  <2>3. PICK t, u : t = Drop(db.pend, i) /\ u = Put(db.disp, i, db.pend[i])
    BY Zenon
  <2>4. db' = [db EXCEPT !.disp = u, !.pend = t]
    BY <1>2, <1>4, <2>3, Zenon DEF on_batch_preconfirmed
  <2>5. /\ t \in Table /\ DOMAIN t = DOMAIN db.pend \ {i}
        /\ \A j \in DOMAIN db.pend \ {i} : t[j] = db.pend[j]
    BY <2>1, <2>3, DropFacts, ZenonT(60)
  <2>6. /\ u \in Table /\ DOMAIN u = DOMAIN db.disp \cup {i}
        /\ u[i] = db.pend[i] /\ \A j \in DOMAIN db.disp : j # i => u[j] = db.disp[j]
    <3>1. PICK p, r : p = db.disp /\ r = db.pend[i]
      BY Zenon
    <3>2. /\ Put(p, i, r) \in Table /\ DOMAIN Put(p, i, r) = DOMAIN p \cup {i}
          /\ Put(p, i, r)[i] = r /\ \A j \in DOMAIN p : j # i => Put(p, i, r)[j] = p[j]
      <4>1. p \in Table /\ r \in Span
        BY <2>1, <2>2, <3>1, Zenon
      <4> QED
        BY <2>2, <4>1, PutFacts, Zenon
    <3> QED
      BY <2>3, <3>1, <3>2, Zenon
  <2>7. db' \in Rows /\ db'.l1 = db.l1 /\ db'.disp = u /\ db'.pend = t
    BY <1>1, <2>4, <2>5, <2>6, Zenon DEF Rows
  <2> QED
    BY <1>1, <2>1, <2>5, <2>6, <2>7, Zenon
<1> QED
  BY <1>3, <1>4, Zenon

\* mark_dispatched_external.
LEMMA OnBatchPreconfirmed == ASSUME IndInv, on_batch_preconfirmed PROVE IndInv'
<1>1. Recv("preconfirmed") /\ applied' = applied \cup {Head(chan)}
  BY Zenon DEF on_batch_preconfirmed
<1> QED
  BY <1>1, PreconfirmedRows, EventStep, Zenon

\* A checkpoint comes out of the channel behind the events it covers: all of
\* them are handled.
LEMMA OnCheckpoint == ASSUME IndInv, on_checkpoint PROVE IndInv'
<1>1. /\ Running /\ chan # <<>> /\ Head(chan).ev.kind = "checkpoint" /\ chan' = Tail(chan)
      /\ UNCHANGED <<chain, head, proc, lst, base, applied>>
      /\ db' = [db EXCEPT !.l1 = Head(chan).at]
  BY Zenon DEF on_checkpoint, Recv
<1>2. Shape /\ Queued /\ NoneReverted /\ db \in Rows /\ DOMAIN db.pend \cap DOMAIN db.disp = {}
  BY Zenon DEF IndInv, Shape
<1>3. PICK m : m = chan[1]
  OBVIOUS
<1>4. m \in Message /\ m = Head(chan) /\ 1 \in 1..Len(chan)
  BY <1>1, <1>3, RecvFacts, Zenon
<1>5. m.at \in Nat
  BY <1>4, Zenon DEF Message
<1>6. ~Log(m)
  <2> SUFFICES ASSUME Log(m) PROVE FALSE
    OBVIOUS
  <2>1. PICK k, n : k = m.at /\ n = m.nr
    BY Zenon
  <2>2. k \in 1..Len(chain) /\ n \in DOMAIN chain[k] /\ m = Event(k, n)
    BY <1>2, <2>1, ScriptFacts DEF Log, Shape
  <2>3. m.ev = chain[k][n] /\ chain[k][n] \in Commitment \cup Notice
    BY <1>2, <2>2, MessageFacts, ScriptFacts
  <2> QED
    BY <1>1, <1>4, <2>3, EventFacts
<1>7. Mark(m) /\ SentTo(1, m.at)
  BY <1>2, <1>3, <1>4, <1>6, Zenon DEF Queued
<1>8. \A k \in base..Len(chain) : k <= m.at =>
          \A n \in DOMAIN chain[k] : Event(k, n) \in applied
  <2>1. \A q \in 1..Len(chan) : ~(q < 1)
    BY RecvFacts, <1>1
  <2> QED
    BY <1>7, <2>1, Zenon DEF SentTo, Sent
<1>9. db' \in Rows /\ db'.l1 = m.at /\ db'.pend = db.pend /\ db'.disp = db.disp
  BY <1>1, <1>2, <1>4, <1>5, L1Facts, ZenonT(60)
<1>10. NoEventSkipped'
  BY <1>1, <1>8, <1>9, Zenon DEF NoEventSkipped, Event
<1>11. Started'
  <2>1. base <= m.at + 1 /\ m.at <= Len(chain) + 1 /\ m.at # None
    BY <1>5, <1>7, ListenerAssumption DEF Mark
  <2> QED
    BY <1>1, <1>9, <2>1, Zenon DEF Started
<1>12. NoneReverted'
  BY <1>1, <1>2, Zenon DEF NoneReverted
<1>13. \A k \in 1..Len(chain) : \A n \in DOMAIN chain[k] : chan[1] # Event(k, n)
  <2>1. m.nr = 0
    BY <1>5, <1>7, MarkFacts DEF Mark
  <2>2. \A k \in 1..Len(chain) : \A n \in DOMAIN chain[k] : Event(k, n).nr # 0
    BY <1>2, ScriptFacts, MessageFacts
  <2> QED
    BY <1>3, <2>1, <2>2, Zenon
<1> QED
  BY <1>1, <1>2, <1>9, <1>10, <1>11, <1>12, <1>13, RecvStep, Zenon

\* The listener that is not running.
LEMMA OffFacts == Off \in Poller
BY ListenerAssumption DEF Off, Idle, Poller

\* BatchReverted: the tables are emptied, and the database starts two blocks
\* further.
LEMMA RevertedRows ==
    ASSUME IndInv, on_batch_reverted
    PROVE  /\ db' \in Rows /\ db'.l1 = Head(chan).at + 1
           /\ DOMAIN db'.pend = {} /\ DOMAIN db'.disp = {}
           /\ Head(chan).at \in 1..Len(chain)
<1>1. chan # <<>> /\ Head(chan).ev.kind = "reverted"
      /\ db' = Wiped(Head(chan).ev.batch, Head(chan).at + 1)
  BY Zenon DEF on_batch_reverted
<1>2. Head(chan).ev \in Commitment \cup Notice /\ Head(chan).at \in 1..Len(chain)
  BY <1>1, HeadFacts
<1>3. PICK i, c : i = Head(chan).ev.batch /\ c = Head(chan).at + 1
  BY Zenon
<1>4. i \in Nat /\ c \in Nat
  BY <1>2, <1>3, EventFacts
<1>5. db' = [ckpt |-> 0, l1 |-> c, id |-> i, lbe |-> None, pend |-> <<>>, disp |-> <<>>]
  BY <1>1, <1>3, Zenon DEF Wiped, EmptyDb
<1>6. PICK t : t = <<>> /\ t \in Table /\ DOMAIN t = {}
  BY EmptyFacts, Zenon
<1>7. db' = [ckpt |-> 0, l1 |-> c, id |-> i, lbe |-> None, pend |-> t, disp |-> t]
  BY <1>5, <1>6, Zenon
<1>8. db' \in Rows /\ db'.l1 = c /\ db'.pend = t /\ db'.disp = t
  BY <1>4, <1>6, <1>7 DEF Rows
<1> QED
  BY <1>2, <1>3, <1>6, <1>8, Zenon

\* wipe_for_revert and the shutdown behind it.
LEMMA OnBatchReverted == ASSUME IndInv, on_batch_reverted PROVE IndInv'
<1>1. /\ base' = Head(chan).at + 2 /\ applied' = {} /\ chan' = <<>> /\ lst' = Off
      /\ proc' = Booting /\ chain' = chain /\ head' = head
  BY Zenon DEF on_batch_reverted
<1>2. PICK k : k = Head(chan).at
  OBVIOUS
<1>3. /\ db' \in Rows /\ db'.l1 = k + 1 /\ k \in 1..Len(chain)
      /\ DOMAIN db'.pend = {} /\ DOMAIN db'.disp = {}
  BY <1>2, RevertedRows, Zenon
<1>4. Shape /\ Len(chain) \in Nat
  BY ScriptFacts DEF IndInv
<1>5. proc' \in Stage /\ proc'.at = "down"
  BY <1>1 DEF Booting, Stage
<1>6. base' \in Nat \ {0} /\ base' = k + 2 /\ db'.l1 # None
  BY <1>1, <1>2, <1>3, <1>4, ListenerAssumption
<1>7. chan' \in Seq(Message) /\ Len(chan') = 0 /\ 0 <= ChanCap
  BY <1>1, ListenerAssumption
<1>8. Shape'
  BY <1>1, <1>3, <1>4, <1>5, <1>6, <1>7, OffFacts, Zenon DEF Shape
<1>9. Stopped' /\ Resolved' /\ ~Running'
  BY <1>1, <1>5 DEF Stopped, Resolved, Running, Off, Idle
<1>10. Started' /\ NoEventSkipped'
  BY <1>1, <1>3, <1>4, <1>6 DEF Started, NoEventSkipped
<1>11. Queued' /\ NoneReverted'
  BY <1>1, <1>7 DEF Queued, NoneReverted
<1> QED
  BY <1>8, <1>9, <1>10, <1>11, Zenon DEF IndInv
-----------------------------------------------------------------------------
(* Boot, exit and the rest of the world.                                   *)

\* The fields of the boot's stage.
LEMMA StageFacts ==
    ASSUME NEW q \in Stage, NEW a \in {"down", "ckpt", "l1", "lbe", "start", "run"}, NEW r,
           r = [q EXCEPT !.at = a]
    PROVE  r \in Stage /\ r.at = a
BY DEF Stage

\* resolve_l2_start_checkpoint: the L2 checkpoint is written.
LEMMA BootResolve == ASSUME IndInv, boot_resolve PROVE IndInv'
<1>1. PICK k \in 1..head : \E n \in DOMAIN chain[k] :
         /\ resolve(StartId, k, n)
         /\ db' = [db EXCEPT !.ckpt = L2Checkpoint(chain[k][n].from)]
         /\ proc' = [at |-> "ckpt", fromDb |-> db.id # 0, event |-> k]
  BY Zenon DEF boot_resolve
<1>2. PICK n \in DOMAIN chain[k] :
         /\ resolve(StartId, k, n)
         /\ db' = [db EXCEPT !.ckpt = L2Checkpoint(chain[k][n].from)]
         /\ proc' = [at |-> "ckpt", fromDb |-> db.id # 0, event |-> k]
  BY <1>1, Zenon
<1>3. /\ Shape /\ proc.at = "down" /\ db \in Rows /\ DOMAIN db.pend \cap DOMAIN db.disp = {}
      /\ UNCHANGED <<chain, head, lst, chan, applied, base>>
  BY Zenon DEF IndInv, Shape, boot_resolve
<1>4. k \in 1..Len(chain) /\ Len(chain) \in Nat
  BY <1>3, ScriptFacts DEF Shape
<1>5. PICK c : c = L2Checkpoint(chain[k][n].from)
  OBVIOUS
<1>6. c \in Nat
  <2>1. chain[k][n] \in Commitment \cup Notice /\ chain[k][n].kind = "committed"
    BY <1>2, <1>3, <1>4, ScriptFacts, Zenon DEF resolve, Commits
  <2>2. chain[k][n].from \in Nat \ {0}
    BY <2>1, EventFacts, Zenon
  <2> QED
    BY <1>5, <2>2 DEF L2Checkpoint
<1>7. db' \in Rows /\ db'.l1 = db.l1 /\ db'.pend = db.pend /\ db'.disp = db.disp
  BY <1>2, <1>3, <1>5, <1>6, MetaFacts, ZenonT(60)
<1>8. /\ proc' \in Stage /\ proc'.at = "ckpt" /\ proc'.event = k
      /\ proc'.fromDb = (db.id # 0)
  BY <1>2, <1>4 DEF Stage
<1>9. ASSUME ~proc'.fromDb, NEW j \in 1..Len(chain), NEW m \in DOMAIN chain[j],
             Commits(EnvId, j, m)
      PROVE  k <= j
  <2>1. StartId = EnvId
    BY <1>8, <1>9, Zenon DEF StartId
  <2>2. ~(j < k)
    <3> SUFFICES ASSUME j < k PROVE FALSE
      OBVIOUS
    <3>1. j \in 1..k
      BY <1>4
    <3> QED
      BY <1>2, <1>9, <2>1, <3>1, Zenon DEF resolve, Later
  <2> QED
    BY <1>4, <2>2
<1>10. Resolved'
  BY <1>3, <1>4, <1>8, <1>9, Zenon DEF Resolved, Commits
<1>11. ~Running /\ ~Running'
  BY <1>3, <1>8 DEF Running
<1> QED
  BY <1>3, <1>7, <1>8, <1>10, <1>11, DbStep, Zenon

\* The L1 checkpoint is put before the resolved commit.
LEMMA BootL1Checkpoint == ASSUME IndInv, boot_l1_checkpoint PROVE IndInv'
<1>1. /\ Shape /\ Stopped /\ Resolved /\ proc.at = "ckpt" /\ proc \in Stage /\ db \in Rows
      /\ DOMAIN db.pend \cap DOMAIN db.disp = {} /\ NoneReverted
      /\ proc' = [proc EXCEPT !.at = "l1"]
      /\ UNCHANGED <<chain, head, lst, chan, applied>>
  BY Zenon DEF IndInv, Shape, boot_l1_checkpoint
<1>2. proc' \in Stage /\ proc'.at = "l1"
  BY <1>1, StageFacts, Zenon
<1>3. ~Running /\ ~Running' /\ Resolved'
  BY <1>1, <1>2 DEF Running, Resolved
<1>4. CASE proc.fromDb
  <2>1. db' = db /\ base' = base
    BY <1>4, Zenon DEF boot_l1_checkpoint
  <2> QED
    BY <1>1, <1>2, <1>3, <2>1, DbStep, Zenon
<1>5. CASE ~proc.fromDb
  <2>1. PICK v : v = proc.event
    OBVIOUS
  <2>2. v \in 1..Len(chain) /\ Len(chain) \in Nat
    BY <1>1, <2>1, ScriptFacts DEF Resolved
  <2>3. PICK c : c = v - 1
    OBVIOUS
  <2>4. c \in Nat /\ v \in Nat \ {0} /\ c # None /\ v <= c + 1 /\ c <= Len(chain) + 1
        /\ \A k \in v..Len(chain) : ~(k <= c)
    BY <2>2, <2>3, ListenerAssumption
  <2>5. db' = [db EXCEPT !.l1 = c] /\ base' = v
    BY <1>5, <2>1, <2>3, Zenon DEF boot_l1_checkpoint
  <2>6. db' \in Rows /\ db'.l1 = c /\ db'.pend = db.pend /\ db'.disp = db.disp
    BY <1>1, <2>4, <2>5, L1Facts, ZenonT(60)
  <2>7. Shape'
    BY <1>1, <1>2, <2>4, <2>5, <2>6, Zenon DEF Shape
  <2>8. lst = Off /\ chan = <<>>
    BY <1>1, <1>3, Zenon DEF Stopped
  <2>9. Stopped' /\ Queued' /\ NoneReverted'
    BY <1>1, <2>8 DEF Stopped, Queued, NoneReverted, Off, Idle
  <2>10. Started' /\ NoEventSkipped'
    BY <1>1, <2>4, <2>5, <2>6, Zenon DEF Started, NoEventSkipped
  <2> QED
    BY <1>3, <2>7, <2>9, <2>10, Zenon DEF IndInv
<1> QED
  BY <1>4, <1>5, Zenon

\* The two last writes of the boot.
LEMMA BootMarks ==
    ASSUME IndInv, boot_last_batch_end \/ boot_clear_id
    PROVE  IndInv' /\ db'.pend = db.pend /\ db'.disp = db.disp
<1>1. /\ proc \in Stage /\ db \in Rows /\ DOMAIN db.pend \cap DOMAIN db.disp = {}
      /\ UNCHANGED <<chain, head, lst, chan, applied, base>>
      /\ proc.at \in {"l1", "lbe"}
      /\ \/ proc' = [proc EXCEPT !.at = "lbe"]
         \/ proc' = [proc EXCEPT !.at = "start"]
      /\ \/ db' = db \/ db' = [db EXCEPT !.lbe = db.ckpt] \/ db' = [db EXCEPT !.id = 0]
  BY DEF IndInv, Shape, boot_last_batch_end, boot_clear_id
<1>2. proc' \in Stage /\ proc'.at \in {"lbe", "start"}
  BY <1>1, StageFacts
<1>3. ~Running /\ ~Running' /\ Resolved'
  BY <1>1, <1>2 DEF Running, Resolved
<1>4. db' \in Rows /\ db'.l1 = db.l1 /\ db'.pend = db.pend /\ db'.disp = db.disp
  <2>1. CASE db' = db
    BY <1>1, <2>1, Zenon
  <2>2. CASE db' = [db EXCEPT !.lbe = db.ckpt]
    <3>1. PICK c \in Nat : c = db.ckpt
      BY <1>1, RowsFacts, Zenon
    <3>2. db' = [db EXCEPT !.lbe = c]
      BY <2>2, <3>1, Zenon
    <3> QED
      BY <1>1, <3>2, MetaFacts
  <2>3. CASE db' = [db EXCEPT !.id = 0]
    <3>1. PICK c \in Nat : c = 0
      OBVIOUS
    <3>2. db' = [db EXCEPT !.id = c]
      BY <2>3, <3>1, Zenon
    <3> QED
      BY <1>1, <3>2, MetaFacts
  <2> QED
    BY <1>1, <2>1, <2>2, <2>3, Zenon
<1> QED
  BY <1>1, <1>2, <1>3, <1>4, DbStep, Zenon

\* The listener starts behind the L1 checkpoint, where everything is handled.
LEMMA BootStart ==
    ASSUME IndInv, boot_start
    PROVE  IndInv' /\ db'.pend = db.pend /\ db'.disp = db.disp
<1> DEFINE f == IF db.l1 = None THEN 1 ELSE db.l1 + 1
<1>1. /\ Shape /\ Stopped /\ Started /\ Queued /\ NoEventSkipped /\ NoneReverted
      /\ db \in Rows /\ DOMAIN db.pend \cap DOMAIN db.disp = {}
      /\ UNCHANGED <<chain, head, chan, applied, base>>
      /\ proc' = [Booting EXCEPT !.at = "run"] /\ lst' = Idle(f)
      /\ proc.at \in {"start", "down"}
  BY Zenon DEF IndInv, Shape, boot_start
<1>2. PICK c \in {db.ckpt} \cup {db.pend[i].from - 1 : i \in DOMAIN db.pend} :
         db' = [db EXCEPT !.ckpt = c]
  BY Zenon DEF boot_start
<1>3. c \in Nat
  <2>1. db.ckpt \in Nat /\ db.pend \in Table
    BY <1>1, RowsFacts
  <2>2. \A i \in DOMAIN db.pend : db.pend[i].from \in Nat \ {0}
    BY <2>1, TableFacts, RangeFacts, Zenon
  <2> QED
    BY <2>1, <2>2
<1>4. db' \in Rows /\ db'.l1 = db.l1 /\ db'.pend = db.pend /\ db'.disp = db.disp
  BY <1>1, <1>2, <1>3, MetaFacts, Zenon
<1>5. /\ f \in Nat \ {0} /\ f - 1 \in Nat /\ base <= (f - 1) + 1 /\ f - 1 <= Len(chain) + 1
      /\ (db.l1 = None => f - 1 = 0) /\ (db.l1 # None => f - 1 = db.l1)
  <2>1. base \in Nat /\ Len(chain) \in Nat /\ db.l1 \in Nat \cup {None}
    BY <1>1, ScriptFacts, RowsFacts DEF Shape
  <2> QED
    BY <1>1, <2>1 DEF Started
<1>6. lst' \in Poller /\ lst'.at = "idle" /\ lst'.from = f
  BY <1>1, <1>5, ListenerAssumption DEF Idle, Poller
<1>7. ~Running /\ chan = <<>> /\ Len(chan) = 0
  BY <1>1 DEF Running, Stopped
<1>8. proc' \in Stage /\ proc'.at = "run"
  BY <1>1, Zenon DEF Booting, Stage
<1>9. SentTo(Len(chan) + 1, f - 1)
  <2> SUFFICES ASSUME NEW k \in base..Len(chain), k <= f - 1, NEW n \in DOMAIN chain[k]
               PROVE  Event(k, n) \in applied
    BY Zenon DEF SentTo, Sent
  <2>1. db.l1 # None
    BY <1>1, <1>5 DEF Shape
  <2> QED
    BY <1>1, <1>5, <2>1, Zenon DEF NoEventSkipped
<1>10. head \in Nat /\ head' \in Nat /\ head <= head'
  BY <1>1, ScriptFacts
<1>11. Whole(f - 1)
  BY <1>5, <1>9, Zenon DEF Whole
<1>12. Polling'
  <2>1. PICK d : d = f - 1
    OBVIOUS
  <2>2. Whole(d)'
    BY <1>1, <1>10, <1>11, <2>1, SentKept, Zenon
  <2>3. lst'.from - 1 = d /\ lst'.from # 0
    BY <1>5, <1>6, <2>1
  <2> QED
    BY <1>6, <2>2, <2>3, Zenon DEF Polling
<1>13. Shape'
  BY <1>1, <1>4, <1>6, <1>8, Zenon DEF Shape
<1>14. Queued' /\ Stopped' /\ Resolved'
  BY <1>7, <1>1, <1>8 DEF Queued, Stopped, Resolved, Running
<1>15. NoEventSkipped' /\ Started' /\ NoneReverted'
  BY <1>1, <1>4, StandKept, Zenon
<1> QED
  BY <1>4, <1>12, <1>13, <1>14, <1>15, Zenon DEF IndInv

\* The ticker drops a dispatched row.
LEMMA Finalize ==
    ASSUME IndInv, finalize_dispatched
    PROVE  /\ IndInv' /\ db'.pend = db.pend
           /\ \A i \in DOMAIN db'.disp : i \in DOMAIN db.disp /\ db'.disp[i] = db.disp[i]
<1>1. /\ Resolved /\ proc \in Stage /\ db \in Rows /\ DOMAIN db.pend \cap DOMAIN db.disp = {}
      /\ UNCHANGED <<chain, head, proc, lst, chan, applied, base>>
  BY Zenon DEF IndInv, Shape, finalize_dispatched
<1>2. PICK i \in DOMAIN db.disp : db' = [db EXCEPT !.disp = Drop(@, i), !.lbe = db.disp[i].to]
  BY Zenon DEF finalize_dispatched, Batches
<1>3. db.disp \in Table
  BY <1>1, RowsFacts, Zenon
<1>4. PICK c : c = db.disp[i].to
  OBVIOUS
<1>5. c \in Nat
  BY <1>3, <1>4, TableFacts, RangeFacts, Zenon
<1>6. PICK t : t = Drop(db.disp, i)
  OBVIOUS
<1>7. /\ t \in Table /\ DOMAIN t = DOMAIN db.disp \ {i}
      /\ \A j \in DOMAIN db.disp \ {i} : t[j] = db.disp[j]
  BY <1>3, <1>6, DropFacts, Zenon
<1>8. db' = [db EXCEPT !.disp = t, !.lbe = c]
  BY <1>2, <1>4, <1>6
<1>9. db' \in Rows /\ db'.l1 = db.l1 /\ db'.pend = db.pend /\ db'.disp = t
  BY <1>1, <1>5, <1>7, <1>8, Zenon DEF Rows
<1>10. Resolved' /\ (Running' <=> Running)
  BY <1>1, ResolvedKept, Zenon DEF Running
<1>11. DOMAIN db'.pend \cap DOMAIN db'.disp = {}
  BY <1>1, <1>7, <1>9, Zenon
<1> QED
  BY <1>1, <1>7, <1>9, <1>10, <1>11, DbStep, Zenon

\* An L2 block is executed.
LEMMA Execute ==
    ASSUME IndInv, ExecuteBlock
    PROVE  IndInv' /\ db'.pend = db.pend /\ db'.disp = db.disp
<1>1. /\ Resolved /\ proc \in Stage /\ db \in Rows /\ DOMAIN db.pend \cap DOMAIN db.disp = {}
      /\ UNCHANGED <<chain, head, proc, lst, chan, applied, base>>
      /\ db' = [db EXCEPT !.ckpt = db.ckpt + 1]
  BY DEF IndInv, Shape, ExecuteBlock
<1>2. PICK c : c = db.ckpt + 1
  OBVIOUS
<1>3. c \in Nat
  BY <1>1, <1>2, RowsFacts
<1>4. db' \in Rows /\ db'.l1 = db.l1 /\ db'.pend = db.pend /\ db'.disp = db.disp
  BY <1>1, <1>2, <1>3, MetaFacts, ZenonT(60)
<1>5. Resolved' /\ (Running' <=> Running)
  BY <1>1, ResolvedKept, Zenon DEF Running
<1> QED
  BY <1>1, <1>4, <1>5, DbStep, Zenon

\* A crash forgets the channel and the listener, not the rows.
LEMMA ExitStep == ASSUME IndInv, Exit PROVE IndInv'
<1>1. /\ Shape /\ Started /\ NoEventSkipped /\ NoneReverted
      /\ UNCHANGED <<chain, head, db, applied, base>>
      /\ proc' = Booting /\ lst' = Off /\ chan' = <<>>
  BY Zenon DEF IndInv, Exit
<1>2. proc' \in Stage /\ proc'.at = "down"
  BY <1>1 DEF Booting, Stage
<1>3. chan' \in Seq(Message) /\ Len(chan') = 0 /\ 0 <= ChanCap
  BY <1>1, ListenerAssumption
<1>4. Shape'
  BY <1>1, <1>2, <1>3, OffFacts, Zenon DEF Shape
<1>5. Stopped' /\ Resolved' /\ ~Running' /\ Queued'
  BY <1>1, <1>2, <1>3 DEF Stopped, Resolved, Running, Queued, Off, Idle
<1>6. NoEventSkipped' /\ Started' /\ NoneReverted'
  BY <1>1, StandKept, Zenon
<1> QED
  BY <1>4, <1>5, <1>6, Zenon DEF IndInv

\* A new L1 block, or nothing.
LEMMA HeadStep ==
    ASSUME IndInv, UNCHANGED <<chain, db, proc, lst, chan, applied, base>>,
           head' \in 1..Len(chain), head <= head'
    PROVE  IndInv'
<1>1. /\ Shape /\ Stopped /\ Resolved /\ Started /\ Queued /\ NoEventSkipped /\ NoneReverted
      /\ (Running => Polling)
  BY Zenon DEF IndInv
<1>2. head' \in Nat
  BY <1>1, ScriptFacts
<1>3. Shape'
  BY <1>1, Zenon DEF Shape
<1>4. Stopped' /\ (Running' <=> Running)
  BY <1>1, Zenon DEF Stopped, Running, Off, Idle
<1>5. Queued' /\ (Running' => Polling')
  BY <1>1, <1>2, <1>4, SentKept, PollingKept, Zenon
<1>6. NoEventSkipped' /\ Started' /\ NoneReverted' /\ Resolved'
  BY <1>1, StandKept, ResolvedKept, Zenon
<1> QED
  BY <1>3, <1>4, <1>5, <1>6, Zenon DEF IndInv
-----------------------------------------------------------------------------
(* The invariant.                                                          *)

\* The initial states.
LEMMA InitInv == Init => IndInv
<1> SUFFICES ASSUME Init PROVE IndInv
  OBVIOUS
<1>1. /\ chain \in Scripts /\ head = 1 /\ db = EmptyDb /\ proc = Booting /\ lst = Off
      /\ chan = <<>> /\ applied = {} /\ base = 1
  BY Zenon DEF Init
<1>2. proc \in Stage /\ proc.at = "down"
  BY <1>1 DEF Booting, Stage
<1>3. PICK t : t = <<>> /\ t \in Table /\ DOMAIN t = {}
  BY EmptyFacts, Zenon
<1>4. db = [ckpt |-> 0, l1 |-> None, id |-> 0, lbe |-> None, pend |-> t, disp |-> t]
  BY <1>1, <1>3, Zenon DEF EmptyDb
<1>5. db \in Rows /\ db.l1 = None /\ db.pend = t /\ db.disp = t
  BY <1>3, <1>4 DEF Rows
<1>6. chan \in Seq(Message) /\ Len(chan) = 0 /\ 0 <= ChanCap
  BY <1>1, ListenerAssumption
<1>7. head \in 1..Len(chain)
  <2>1. chain \in Seq(Seq(Commitment \cup Notice)) /\ chain # <<>>
    BY <1>1, ScriptAssumption, Zenon
  <2> QED
    BY <1>1, <2>1
<1>8. Shape
  BY <1>1, <1>2, <1>3, <1>5, <1>6, <1>7, OffFacts DEF Shape
<1>9. Stopped /\ Resolved /\ ~Running /\ Queued /\ NoneReverted
  BY <1>1, <1>2, <1>6 DEF Stopped, Resolved, Running, Queued, NoneReverted
<1>10. Started /\ NoEventSkipped
  BY <1>1, <1>5, Zenon DEF Started, NoEventSkipped
<1> QED
  BY <1>8, <1>9, <1>10, Zenon DEF IndInv

\* Every step.
LEMMA NextInv == IndInv /\ [Next]_vars => IndInv'
<1> SUFFICES ASSUME IndInv, [Next]_vars PROVE IndInv'
  OBVIOUS
<1>1. CASE Boot
  BY <1>1, BootResolve, BootL1Checkpoint, BootMarks, BootStart, Zenon DEF Boot
<1>2. CASE Listen
  BY <1>2, PollOnce, PageLogs, PageTooMany, PageEmit, PageDone, PollDone, Zenon DEF Listen
<1>3. CASE on_l1_event
  BY <1>3, OnBatchCommitted, OnBatchSubmitted, OnBatchPreconfirmed, OnCheckpoint,
     OnBatchReverted, Zenon DEF on_l1_event
<1>4. CASE page_failed \/ finalize_dispatched \/ ExecuteBlock \/ Exit
  BY <1>4, PageFailed, Finalize, Execute, ExitStep, Zenon
<1>5. CASE NewL1Block
  <2>1. /\ UNCHANGED <<chain, db, proc, lst, chan, applied, base>>
        /\ head < Len(chain) /\ head' = head + 1 /\ Shape
    BY <1>5, Zenon DEF NewL1Block, IndInv
  <2>2. head' \in 1..Len(chain) /\ head <= head'
    BY <2>1, ScriptFacts
  <2> QED
    BY <2>1, <2>2, HeadStep, Zenon
<1>6. CASE UNCHANGED vars
  <2>1. UNCHANGED <<chain, head, db, proc, lst, chan, applied, base>> /\ Shape
    BY <1>6, Zenon DEF vars, IndInv
  <2>2. head' \in 1..Len(chain) /\ head <= head'
    BY <2>1, ScriptFacts DEF Shape
  <2> QED
    BY <2>1, <2>2, HeadStep, Zenon
<1> QED
  BY <1>1, <1>2, <1>3, <1>4, <1>5, <1>6, Zenon DEF Next

\* The inductive invariant: what was sent, handled and marked, page by page.
THEOREM InductiveInvariant == Spec => []IndInv
BY InitInv, NextInv, PTL DEF Spec

\* Rows stay in range, no batch is pending and dispatched at once, the page
\* size stays between MIN_PAGE and MAX_PAGE, and the channel within its capacity.
THEOREM TypeCorrect == Spec => []TypeOK
<1>1. IndInv => TypeOK
  <2> SUFFICES ASSUME IndInv PROVE TypeOK
    OBVIOUS
  <2>1. Shape /\ Started /\ db \in Rows /\ lst \in Poller
    BY Zenon DEF IndInv, Shape
  <2>2. /\ db.ckpt \in Nat /\ (db.lbe # None => db.lbe \in Nat) /\ db.l1 \in Nat \cup {None}
        /\ lst.page \in MinPage..MaxPage
    BY <2>1, RowsFacts, PollerFacts, Zenon
  <2>3. db.l1 # None => db.l1 \in 0..Len(chain) + 1
    BY <2>1, <2>2, ScriptFacts DEF Started
  <2> QED
    BY <2>1, <2>2, <2>3, Zenon DEF TypeOK, Shape, Batches
<1> QED
  BY <1>1, InductiveInvariant, PTL

\* No event of an L1 block at or below the stored checkpoint is skipped, through
\* failed and refused pages, crashes, restarts and reverts (poll_once,
\* process_page, L1Event::Checkpoint, save_l1_checkpoint).
THEOREM NoneSkipped == Spec => []NoEventSkipped
<1>1. IndInv => NoEventSkipped
  BY Zenon DEF IndInv
<1> QED
  BY <1>1, InductiveInvariant, PTL
-----------------------------------------------------------------------------
(* Ranges.                                                                 *)

\* A range stays backed while no revert ahead of the start gets behind it.
LEMMA BackedKept ==
    ASSUME Shape, chain' = chain, head' \in Nat, head <= head',
           \A j \in 1..Len(chain) : \A m \in DOMAIN chain[j] :
               chain[j][m].kind = "reverted" /\ base <= j => base' <= j,
           NEW i, NEW r, Backed(i, r)
    PROVE  Backed(i, r)'
<1>1. PICK k \in 1..head : \E n \in DOMAIN chain[k] :
        /\ Commits(i, k, n) /\ r = [from |-> chain[k][n].from, to |-> chain[k][n].to]
        /\ \A j \in 1..Len(chain) : \A m \in DOMAIN chain[j] :
             Withdraws(chain[j][m], chain[k][n]) /\ Later(k, n, j, m) => base <= j
  BY Zenon DEF Backed
<1>2. PICK n \in DOMAIN chain[k] :
        /\ Commits(i, k, n) /\ r = [from |-> chain[k][n].from, to |-> chain[k][n].to]
        /\ \A j \in 1..Len(chain) : \A m \in DOMAIN chain[j] :
             Withdraws(chain[j][m], chain[k][n]) /\ Later(k, n, j, m) => base <= j
  BY <1>1, Zenon
<1>3. k \in 1..head'
  BY ScriptFacts
<1>4. Commits(i, k, n)'
  BY <1>2, Zenon DEF Commits
<1>5. \A j \in 1..Len(chain) : \A m \in DOMAIN chain[j] :
        Withdraws(chain[j][m], chain[k][n]) /\ Later(k, n, j, m) => base' <= j
  BY <1>2, Zenon DEF Withdraws
<1> QED
  BY <1>2, <1>3, <1>4, <1>5, Zenon DEF Backed

\* Rows that stay or move stay backed.
LEMMA RowsKept ==
    ASSUME Shape, RowsBacked, chain' = chain, base' = base, head' \in Nat, head <= head',
           \A i \in DOMAIN db'.pend : i \in DOMAIN db.pend /\ db'.pend[i] = db.pend[i],
           \A i \in DOMAIN db'.disp :
               \/ i \in DOMAIN db.disp /\ db'.disp[i] = db.disp[i]
               \/ i \in DOMAIN db.pend /\ db'.disp[i] = db.pend[i]
    PROVE  RowsBacked'
<1>1. \A i, r : Backed(i, r) => Backed(i, r)'
  BY BackedKept, Zenon
<1> QED
  BY <1>1, Zenon DEF RowsBacked

\* set_batch adds a range whose commit is at or above the start.
LEMMA CommittedBacked ==
    ASSUME IndInv, RowsBacked, on_batch_committed
    PROVE  RowsBacked'
<1>1. /\ Shape /\ chan # <<>> /\ Head(chan).ev.kind = "committed"
      /\ UNCHANGED <<chain, head, base>>
  BY Zenon DEF IndInv, on_batch_committed, Recv
<1>2. head \in Nat /\ head' \in Nat /\ head <= head'
  BY <1>1, ScriptFacts
<1>3. \A i, r : Backed(i, r) => Backed(i, r)'
  BY <1>1, <1>2, BackedKept, Zenon
<1>4. PICK k, n, e : k = Head(chan).at /\ n = Head(chan).nr /\ e = Head(chan).ev
  BY Zenon
<1>5. /\ k \in 1..head /\ base <= k /\ k \in 1..Len(chain) /\ n \in DOMAIN chain[k]
      /\ e = chain[k][n]
  <2>1. /\ Log(Head(chan)) /\ k \in 1..Len(chain) /\ base <= k /\ n \in DOMAIN chain[k]
        /\ e = chain[k][n]
    BY <1>1, <1>4, HeadFacts
  <2>2. k \in base..head
    BY <1>4, <2>1 DEF Log
  <2> QED
    BY <1>2, <2>1, <2>2
<1>6. Backed(e.batch, [from |-> e.from, to |-> e.to])
  <2>1. ASSUME NEW j \in 1..Len(chain), NEW m \in DOMAIN chain[j], Later(k, n, j, m)
        PROVE  base <= j
    <3>1. base \in Nat /\ Len(chain) \in Nat
      BY <1>1, ScriptFacts DEF Shape
    <3> QED
      BY <1>5, <2>1, <3>1 DEF Later
  <2>2. Commits(e.batch, k, n)
    BY <1>1, <1>4, <1>5, Zenon DEF Commits
  <2> QED
    BY <1>5, <2>1, <2>2, Zenon DEF Backed
<1>7. \A i \in DOMAIN db'.pend : Backed(i, db'.pend[i])
  BY <1>4, <1>6, CommittedRows, Zenon DEF RowsBacked
<1>8. \A i \in DOMAIN db'.disp : Backed(i, db'.disp[i])
  BY CommittedRows, Zenon DEF RowsBacked
<1> QED
  BY <1>3, <1>7, <1>8, Zenon DEF RowsBacked

\* The first boot moves the start to the first commit of its batch, which no
\* revert precedes.
LEMMA BootBacked ==
    ASSUME StartsEarly, IndInv, RowsBacked, boot_l1_checkpoint
    PROVE  RowsBacked'
<1>1. /\ Shape /\ Resolved /\ proc.at = "ckpt" /\ db \in Rows /\ UNCHANGED <<chain, head>>
  BY Zenon DEF IndInv, Shape, boot_l1_checkpoint
<1>2. head \in Nat /\ head' \in Nat /\ head <= head' /\ Len(chain) \in Nat
      /\ DOMAIN chain = 1..Len(chain)
  BY <1>1, ScriptFacts
<1>3. CASE proc.fromDb
  <2>1. db' = db /\ base' = base
    BY <1>3, Zenon DEF boot_l1_checkpoint
  <2> QED
    BY <1>1, <1>2, <2>1, RowsKept, Zenon
<1>4. CASE ~proc.fromDb
  <2>1. db' = [db EXCEPT !.l1 = proc.event - 1] /\ base' = proc.event
    BY <1>4, Zenon DEF boot_l1_checkpoint
  <2>2. db'.pend = db.pend /\ db'.disp = db.disp
    BY <1>1, <2>1 DEF Rows
  <2>3. ASSUME NEW j \in 1..Len(chain), NEW m \in DOMAIN chain[j],
               chain[j][m].kind = "reverted"
        PROVE  base' <= j
    <3>1. PICK k \in 1..j : \E n \in DOMAIN chain[k] : Commits(EnvId, k, n)
      BY <1>1, <1>2, <2>3, Zenon DEF StartsEarly, Shape, Commits
    <3>2. k \in 1..Len(chain) /\ proc.event \in 1..Len(chain)
      BY <1>1, <1>2 DEF Resolved
    <3>3. proc.event <= k
      BY <1>1, <1>4, <3>1, <3>2, Zenon DEF Resolved
    <3> QED
      BY <1>2, <2>1, <3>2, <3>3
  <2>4. \A i, r : Backed(i, r) => Backed(i, r)'
    BY <1>1, <1>2, <2>3, BackedKept, Zenon
  <2> QED
    BY <2>2, <2>4, Zenon DEF RowsBacked
<1> QED
  BY <1>3, <1>4, Zenon

\* Every step.
LEMMA RowsStep ==
    ASSUME StartsEarly, IndInv, RowsBacked, [Next]_vars
    PROVE  RowsBacked'
<1>1. Shape /\ head \in Nat
  BY ScriptFacts DEF IndInv
<1>2. ASSUME UNCHANGED <<chain, base>>, head' \in Nat, head <= head',
             db'.pend = db.pend, db'.disp = db.disp
      PROVE  RowsBacked'
  BY <1>1, <1>2, RowsKept, Zenon
<1>3. CASE boot_resolve
  <2>1. db \in Rows
    BY Zenon DEF IndInv, Shape
  <2>2. PICK c : db' = [db EXCEPT !.ckpt = c]
    BY <1>3, Zenon DEF boot_resolve
  <2>3. db'.pend = db.pend /\ db'.disp = db.disp
    BY <2>1, <2>2 DEF Rows
  <2>4. chain' = chain /\ base' = base /\ head' = head
    BY <1>3, Zenon DEF boot_resolve
  <2> QED
    BY <1>1, <1>2, <2>3, <2>4
<1>4. CASE boot_l1_checkpoint
  BY <1>4, BootBacked, Zenon
<1>5. CASE boot_last_batch_end \/ boot_clear_id \/ boot_start
  <2>1. chain' = chain /\ base' = base /\ head' = head
    BY <1>5, Zenon DEF boot_last_batch_end, boot_clear_id, boot_start
  <2>2. db'.pend = db.pend /\ db'.disp = db.disp
    BY <1>5, BootMarks, BootStart, Zenon
  <2> QED
    BY <1>1, <1>2, <2>1, <2>2
<1>6. CASE Listen \/ page_failed
  <2>1. chain' = chain /\ base' = base /\ head' = head /\ db' = db
    BY <1>6, Zenon DEF Listen, poll_once, page_logs, page_too_many, page_emit, page_done,
                       poll_done, page_failed, Quiet
  <2> QED
    BY <1>1, <1>2, <2>1
<1>7. CASE on_batch_committed
  BY <1>7, CommittedBacked, Zenon
<1>8. CASE on_batch_submitted
  <2>1. chain' = chain /\ base' = base /\ head' = head /\ db' = db
    BY <1>8, Zenon DEF on_batch_submitted, Recv
  <2> QED
    BY <1>1, <1>2, <2>1
<1>9. CASE on_batch_preconfirmed
  <2>1. chain' = chain /\ base' = base /\ head' = head
    BY <1>9, Zenon DEF on_batch_preconfirmed, Recv
  <2>2. head' \in Nat /\ head <= head'
    BY <1>1, <2>1
  <2> QED
    BY <1>1, <1>9, <2>1, <2>2, PreconfirmedRows, RowsKept, Zenon
<1>10. CASE on_checkpoint
  <2>1. /\ chain' = chain /\ base' = base /\ head' = head /\ db \in Rows
        /\ db' = [db EXCEPT !.l1 = Head(chan).at]
    BY <1>1, <1>10, Zenon DEF on_checkpoint, Recv, Shape
  <2>2. db'.pend = db.pend /\ db'.disp = db.disp
    BY <2>1 DEF Rows
  <2> QED
    BY <1>1, <1>2, <2>1, <2>2
<1>11. CASE on_batch_reverted
  BY <1>11, RevertedRows, Zenon DEF RowsBacked
<1>12. CASE finalize_dispatched
  <2>1. chain' = chain /\ base' = base /\ head' = head
    BY <1>12, Zenon DEF finalize_dispatched
  <2>2. head' \in Nat /\ head <= head'
    BY <1>1, <2>1
  <2> QED
    BY <1>1, <1>12, <2>1, <2>2, Finalize, RowsKept, Zenon
<1>13. CASE ExecuteBlock
  <2>1. chain' = chain /\ base' = base /\ head' = head
    BY <1>13, Zenon DEF ExecuteBlock
  <2>2. db'.pend = db.pend /\ db'.disp = db.disp
    BY <1>13, Execute, Zenon
  <2> QED
    BY <1>1, <1>2, <2>1, <2>2
<1>14. CASE Exit \/ NewL1Block \/ UNCHANGED vars
  <2>1. chain' = chain /\ base' = base /\ db' = db /\ (head' = head \/ head' = head + 1)
    BY <1>14, Zenon DEF Exit, NewL1Block, vars
  <2> QED
    BY <1>1, <1>2, <2>1
<1> QED
  BY <1>3, <1>4, <1>5, <1>6, <1>7, <1>8, <1>9, <1>10, <1>11, <1>12, <1>13, <1>14, Zenon
     DEF Next, Boot, on_l1_event

\* A range whose batch was committed again was withdrawn in between, and that
\* revert is not handled yet: if it were, the tables would be empty.
LEMMA BackedCurrent ==
    ASSUME IndInv, NEW i, NEW r, Backed(i, r), ~LastRange(i, r)
    PROVE  RevertAhead(i)
<1>1. Shape /\ NoEventSkipped /\ NoneReverted /\ chain \in Scripts
  BY Zenon DEF IndInv, Shape
<1>2. PICK k \in 1..head : \E n \in DOMAIN chain[k] :
        /\ Commits(i, k, n) /\ r = [from |-> chain[k][n].from, to |-> chain[k][n].to]
        /\ \A j \in 1..Len(chain) : \A m \in DOMAIN chain[j] :
             Withdraws(chain[j][m], chain[k][n]) /\ Later(k, n, j, m) => base <= j
  BY Zenon DEF Backed
<1>3. PICK n \in DOMAIN chain[k] :
        /\ Commits(i, k, n) /\ r = [from |-> chain[k][n].from, to |-> chain[k][n].to]
        /\ \A j \in 1..Len(chain) : \A m \in DOMAIN chain[j] :
             Withdraws(chain[j][m], chain[k][n]) /\ Later(k, n, j, m) => base <= j
  BY <1>2, Zenon
<1>4. PICK j \in k..head : \E m \in DOMAIN chain[j] : Later(k, n, j, m) /\ Commits(i, j, m)
  BY <1>3, Zenon DEF LastRange
<1>5. PICK m \in DOMAIN chain[j] : Later(k, n, j, m) /\ Commits(i, j, m)
  BY <1>4, Zenon
<1>6. /\ Len(chain) \in Nat /\ head \in 1..Len(chain) /\ DOMAIN chain = 1..Len(chain)
      /\ base \in Nat \ {0}
  BY <1>1, ScriptFacts, Zenon DEF Shape
<1>7. k \in DOMAIN chain /\ j \in DOMAIN chain
  BY <1>6
<1>8. SameBatch(chain[k][n], chain[j][m])
  BY <1>3, <1>5, Zenon DEF Commits, SameBatch
<1>9. PICK x \in DOMAIN chain : \E o \in DOMAIN chain[x] :
        /\ Withdraws(chain[x][o], chain[k][n]) /\ Later(k, n, x, o) /\ Later(x, o, j, m)
  BY <1>1, <1>5, <1>7, <1>8, ScriptAssumption, Zenon
<1>10. PICK o \in DOMAIN chain[x] :
        /\ Withdraws(chain[x][o], chain[k][n]) /\ Later(k, n, x, o) /\ Later(x, o, j, m)
  BY <1>9, Zenon
<1>11. base <= x
  BY <1>3, <1>6, <1>10, Zenon
<1>12. x \in 1..head /\ x \in base..Len(chain)
  BY <1>6, <1>10, <1>11 DEF Later
<1>13. chain[x][o].kind = "reverted" /\ chain[x][o].batch <= i
  BY <1>3, <1>10, Zenon DEF Withdraws, Commits
<1>14. db.l1 # None => x > db.l1
  <2> SUFFICES ASSUME db.l1 # None, x <= db.l1 PROVE FALSE
    <3>1. db.l1 \in Nat \cup {None}
      BY <1>1, RowsFacts, Zenon DEF Shape
    <3> QED
      BY <1>12, <3>1
  <2>1. Event(x, o) \in applied
    BY <1>1, <1>10, <1>12, Zenon DEF NoEventSkipped
  <2>2. Event(x, o).ev = chain[x][o]
    BY <1>1, <1>6, <1>9, <1>10, MessageFacts, Zenon
  <2> QED
    BY <1>1, <1>13, <2>1, <2>2, Zenon DEF NoneReverted
<1> QED
  BY <1>10, <1>12, <1>13, <1>14, Zenon DEF RevertAhead

\* set_batch may ignore a second BatchCommitted: a tracked range is the one L1
\* has, or the revert that withdrew it is still to be read.
THEOREM RangesCurrent ==
    ASSUME StartsEarly
    PROVE  Spec => []RangeCurrent
<1>1. Init => RowsBacked
  <2> SUFFICES ASSUME Init PROVE RowsBacked
    OBVIOUS
  <2>1. db.pend = <<>> /\ db.disp = <<>>
    BY DEF Init, EmptyDb
  <2> QED
    BY <2>1, EmptyFacts, Zenon DEF RowsBacked
<1>2. IndInv /\ RowsBacked /\ [Next]_vars => RowsBacked'
  BY RowsStep, Zenon
<1>3. IndInv /\ RowsBacked => RangeCurrent
  <2> SUFFICES ASSUME IndInv, RowsBacked,
                      NEW i \in Batches(db.pend) \cup Batches(db.disp), NEW r,
                      r = IF i \in Batches(db.pend) THEN db.pend[i] ELSE db.disp[i]
               PROVE  LastRange(i, r) \/ RevertAhead(i)
    BY Zenon DEF RangeCurrent
  <2>1. Backed(i, r)
    BY Zenon DEF RowsBacked, Batches
  <2> QED
    BY <2>1, BackedCurrent, Zenon
<1> QED
  BY <1>1, <1>2, <1>3, InductiveInvariant, PTL DEF Spec
=============================================================================
