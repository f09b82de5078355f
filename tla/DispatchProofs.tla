--------------------------- MODULE DispatchProofs ---------------------------
(***************************************************************************)
(* Proofs about Dispatch, for every set of batches and of workers, any     *)
(* number of nonces, fee levels, faults, crashes and reorganisations.      *)
(***************************************************************************)
EXTENDS Dispatch, WellFoundedInduction, TLAPS

\* What the finalization task carries.
Cand == [batch : Batch, tx : TxOrNone, l1 : TxOrNone]
TickerOk ==
    ticker \in [phase : {"idle", "spawned", "query", "done"}, todo : SUBSET Cand,
                seen : SUBSET Observation]

\* A worker that runs has a batch; from its first broadcast on, or when it was
\* resumed, it has a nonce.
WorkerOk(w) ==
    /\ w.phase = "free" => w = Free
    /\ w.phase # "free" => w.batch # 0
    /\ w.resume \/ w.phase \in {"allocated", "built", "loop", "bumping"} => w.nonce # 0
WorkersOk == \A s \in Slot : WorkerOk(workers[s])

\* What was mined preconfirms a batch.
ChainOk == \A t \in chain : t.batch \in Batch

\* The nonce n is recorded for batch i, or its first broadcast waits to be.
Claim(i, n) ==
    \/ Own(rows, i) /\ rows[i].nonce = n
    \/ \E k \in DOMAIN bumpQ : /\ bumpQ[k].initial /\ bumpQ[k].batch = i
                               /\ bumpQ[k].tx.nonce = n

\* A nonce is claimed by one batch, a worker that has not broadcast yet has
\* one that nobody claims, and the allocator is past all of them.
ClaimsOk == \A i, j \in Batch, n \in Nonce : Claim(i, n) /\ Claim(j, n) => i = j
Unclaimed ==
    \A s \in Slot : workers[s].phase \in {"allocated", "built"} =>
                       \A i \in Batch : ~Claim(i, workers[s].nonce)
Below ==
    process = "up" => /\ next # 0
                      /\ \A s \in Slot : workers[s].nonce < next
                      /\ \A i \in Batch, n \in Nonce : Claim(i, n) => n < next

\* Nothing of a process that is down is left.
DownOk ==
    process = "down" => /\ \A s \in Slot : workers[s] = Free
                        /\ gate = 0 /\ doneQ = <<>> /\ bumpQ = <<>>

IndInv ==
    /\ TypeOK /\ TickerOk /\ WorkersOk /\ ChainOk /\ DownOk
    /\ ClaimsOk /\ Unclaimed /\ Below /\ NoncesDistinct /\ GateIsOwned
-----------------------------------------------------------------------------
(* Operators.                                                              *)

\* The least element of a set of numbers.
LEMMA MinFacts ==
    ASSUME NEW S \in SUBSET Nat, S # {}
    PROVE  Min(S) \in S /\ \A y \in S : Min(S) <= y
<1>1. \E n \in S : \A k \in S : ~(<<k, n>> \in OpToRel(<, Nat))
  BY NatLessThanWellFounded, WFMin, Zenon
<1>2. PICK n \in S : \A k \in S : ~(k < n)
  BY <1>1, Zenon DEF OpToRel
<1>3. n \in S /\ \A y \in S : n <= y
  BY <1>2
<1> QED
  BY <1>3, Zenon DEF Min

\* The greatest element of a set of numbers that has an upper bound.
LEMMA MaxFacts ==
    ASSUME NEW S \in SUBSET Nat, S # {}, NEW b \in Nat, \A x \in S : x <= b
    PROVE  Max(S) \in S /\ \A y \in S : y <= Max(S)
<1> DEFINE T == {b - x : x \in S}
<1>1. T \in SUBSET Nat
  OBVIOUS
<1>2. T # {}
  <2>1. PICK x \in S : TRUE
    BY Zenon
  <2>2. b - x \in T
    BY Zenon
  <2> QED
    BY <2>2, Zenon
<1>3. Min(T) \in T /\ \A y \in T : Min(T) <= y
  BY <1>1, <1>2, MinFacts, Zenon
<1>4. PICK m \in S : Min(T) = b - m
  BY <1>3, Zenon
<1>5. \A y \in S : m >= y
  <2> SUFFICES ASSUME NEW y \in S PROVE m >= y
    OBVIOUS
  <2>1. b - y \in T
    OBVIOUS
  <2>2. b - m <= b - y
    BY <2>1, <1>3, <1>4, Zenon
  <2>3. m \in Nat /\ y \in Nat
    OBVIOUS
  <2> HIDE DEF T
  <2> QED
    BY <2>2, <2>3
<1>6. m \in S /\ \A y \in S : m >= y
  BY <1>5, Zenon
<1>7. Max(S) \in S /\ \A y \in S : Max(S) >= y
  BY <1>6, Zenon DEF Max
<1> QED
  BY <1>7, Zenon

\* The greater of two numbers.
LEMMA MaxOfTwo ==
    ASSUME NEW a \in Nat, NEW b \in Nat
    PROVE  Max({a, b}) \in {a, b} /\ a <= Max({a, b}) /\ b <= Max({a, b})
<1>1. {a, b} \in SUBSET Nat /\ {a, b} # {} /\ a + b \in Nat /\ \A x \in {a, b} : x <= a + b
  OBVIOUS
<1>2. Max({a, b}) \in {a, b} /\ \A y \in {a, b} : y <= Max({a, b})
  BY <1>1, MaxFacts, Zenon
<1> QED
  BY <1>2, Zenon

\* The fields of a transaction.
LEMMA TxFacts ==
    /\ NoTx \in TxOrNone /\ OwnTx \subseteq TxOrNone
    /\ \A i \in Batch : ForeignTx(i) \in TxOrNone /\ ForeignTx(i).batch = i
    /\ \A t \in TxOrNone : t.nonce \in 0..MaxNonce /\ t.fee \in 0..MaxFee
    /\ \A t \in OwnTx : t.batch \in Batch /\ t.nonce \in Nonce /\ t.fee \in Fee
    /\ 0 \notin Batch
BY DispatchAssumption DEF TxOrNone, OwnTx, NoTx, ForeignTx, Nonce, Fee

\* bump_fees stays within the cap.
LEMMA BumpFacts ==
    ASSUME NEW f \in 0..MaxFee
    PROVE  bump_fees(f) \in Fee
<1>1. {f + 1, MaxFee} \in SUBSET Nat /\ {f + 1, MaxFee} # {}
  BY DispatchAssumption
<1>2. Min({f + 1, MaxFee}) \in {f + 1, MaxFee} /\ \A y \in {f + 1, MaxFee} : Min({f + 1, MaxFee}) <= y
  BY <1>1, MinFacts, Zenon
<1> QED
  BY <1>2, DispatchAssumption DEF bump_fees, Fee

\* The RPC reports a nonce within the range of the allocator.
LEMMA PendingFacts ==
    ASSUME pool \subseteq OwnTx, chain \subseteq TxOrNone
    PROVE  RpcPending \subseteq 1..(MaxNonce + 1)
<1> DEFINE S == {n \in 1..(MaxNonce + 1) : ~Consumed(n) /\ \A t \in pool : t.nonce # n}
<1>1. MaxNonce + 1 \in S
  BY TxFacts, DispatchAssumption DEF Consumed, Nonce
<1>2. S \in SUBSET Nat /\ S # {}
  BY <1>1
<1>3. Min(S) \in S
  BY <1>2, MinFacts, Zenon
<1>4. PendingNonce \in 1..(MaxNonce + 1)
  BY <1>3, Zenon DEF PendingNonce
<1> QED
  BY <1>4, DispatchAssumption DEF RpcPending
-----------------------------------------------------------------------------
(* The main loop.                                                          *)

\* try_dispatch_next_batch leaves the workers alone, or starts a fresh one for
\* the gate it takes.
Started(g) ==
    \/ gate' = g /\ UNCHANGED workers
    \/ \E i \in Batch, s \in Slot : /\ g = 0 /\ gate' = i /\ workers[s] = Free
                                    /\ workers' = [workers EXCEPT ![s] = Fresh(i)]

\* What try_dispatch_next_batch does with the gate and the workers.
LEMMA TryDispatch ==
    ASSUME NEW r, NEW g, NEW b, NEW k, try_dispatch_next_batch(r, g, b, k)
    PROVE  Started(g)
<1> DEFINE ready == first_sequential_signed(r)
           free == {s \in Slot : workers[s] = Free}
<1>1. CASE g = 0 /\ ~b /\ ~k /\ ready # {}
  <2>1. /\ free # {} /\ gate' = Min(ready)
        /\ workers' = [workers EXCEPT ![Min(free)] = Fresh(Min(ready))]
    BY <1>1, Zenon DEF try_dispatch_next_batch
  <2>2. ready \in SUBSET Nat /\ free \in SUBSET Nat /\ ready \subseteq Batch /\ free \subseteq Slot
    BY DispatchAssumption, Zenon DEF first_sequential_signed
  <2>3. Min(ready) \in ready /\ Min(free) \in free
    BY <1>1, <2>1, <2>2, MinFacts, Zenon
  <2> QED
    BY <1>1, <2>1, <2>2, <2>3, Zenon DEF Started
<1>2. CASE ~(g = 0 /\ ~b /\ ~k /\ ready # {})
  BY <1>2, Zenon DEF try_dispatch_next_batch, Started
<1> QED
  BY <1>1, <1>2, Zenon

\* The shape of a worker that just started.
LEMMA FreshFacts ==
    /\ Free \in Worker /\ WorkerOk(Free)
    /\ \A i \in Batch : /\ Fresh(i) \in Worker /\ WorkerOk(Fresh(i)) /\ Fresh(i).batch = i
                        /\ Fresh(i).nonce = 0 /\ Fresh(i).phase = "preflight"
    /\ Free.phase = "free" /\ Free.batch = 0 /\ Free.nonce = 0
<1>1. NoTx \in TxOrNone /\ 0 \notin Batch /\ MaxNonce \in Nat /\ MaxFee \in Nat
  BY TxFacts, DispatchAssumption, Zenon
<1>2. Free.phase = "free" /\ Free.batch = 0 /\ Free.nonce = 0 /\ Free.resume = FALSE
  BY Zenon DEF Free
<1>3. Free \in Worker
  BY <1>1 DEF Free, Worker
<1>4. WorkerOk(Free)
  BY <1>2, Zenon DEF WorkerOk
<1>5. ASSUME NEW i \in Batch
      PROVE  /\ Fresh(i) \in Worker /\ Fresh(i).batch = i /\ Fresh(i).nonce = 0
             /\ Fresh(i).phase = "preflight" /\ Fresh(i).resume = FALSE
  BY <1>1 DEF Fresh, Worker
<1>6. \A i \in Batch : WorkerOk(Fresh(i))
  BY <1>1, <1>5, Zenon DEF WorkerOk
<1> QED
  BY <1>2, <1>3, <1>4, <1>5, <1>6, Zenon

\* The workers after try_dispatch_next_batch.
LEMMA StartedFacts ==
    ASSUME NEW g \in Batch \cup {0}, workers \in [Slot -> Worker], Started(g)
    PROVE  /\ workers' \in [Slot -> Worker] /\ gate' \in Batch \cup {0}
           /\ \A s \in Slot : \/ workers'[s] = workers[s]
                              \/ /\ workers[s] = Free /\ workers'[s].phase = "preflight"
                                 /\ workers'[s].nonce = 0 /\ WorkerOk(workers'[s])
<1>1. CASE gate' = g /\ UNCHANGED workers
  BY <1>1, Zenon
<1>2. CASE \E i \in Batch, s \in Slot : /\ g = 0 /\ gate' = i /\ workers[s] = Free
                                        /\ workers' = [workers EXCEPT ![s] = Fresh(i)]
  BY <1>2, FreshFacts
<1> QED
  BY <1>1, <1>2, Zenon DEF Started

\* A handler of the main loop adds no claim, keeps the allocator, and may start
\* a fresh worker; a gate it keeps has its worker or its report.
LEMMA LoopStep ==
    ASSUME IndInv, NEW g \in Batch \cup {0}, Started(g),
           process = "up", UNCHANGED <<process, next, pool, chain, okay, final>>,
           rows' \in [Batch -> Row], backoff' \in BOOLEAN, keyCheck' \in BOOLEAN,
           doneQ' \in Seq(Outcome), bumpQ' \in Seq(Bump), TickerOk',
           \A i \in Batch, n \in Nonce : Claim(i, n)' => Claim(i, n),
           g # 0 => Live(g) # {} \/ Reported(g)'
    PROVE  IndInv'
<1>1. /\ workers' \in [Slot -> Worker] /\ gate' \in Batch \cup {0}
      /\ \A s \in Slot : \/ workers'[s] = workers[s]
                         \/ /\ workers[s] = Free /\ workers'[s].phase = "preflight"
                            /\ workers'[s].nonce = 0 /\ WorkerOk(workers'[s])
  BY StartedFacts, Zenon DEF IndInv, TypeOK
<1>2. TypeOK'
  BY <1>1, Zenon DEF IndInv, TypeOK, TickerOk
<1>3. WorkersOk'
  BY <1>1, Zenon DEF IndInv, WorkersOk
<1>4. ChainOk' /\ DownOk'
  BY Zenon DEF IndInv, ChainOk, DownOk
<1>5. ClaimsOk'
  BY Zenon DEF IndInv, ClaimsOk
<1>6. Unclaimed'
  <2> SUFFICES ASSUME NEW s \in Slot, workers'[s].phase \in {"allocated", "built"},
                      NEW i \in Batch
               PROVE  ~Claim(i, workers[s].nonce)'
    BY Zenon DEF Unclaimed
  <2>1. workers'[s] = workers[s] /\ workers[s].nonce \in Nonce
    BY <1>1 DEF IndInv, TypeOK, WorkersOk, WorkerOk, Worker, Nonce
  <2> QED
    BY <2>1, Zenon DEF IndInv, Unclaimed
<1>7. Below'
  <2>1. next \in Nat /\ next # 0 /\ \A s \in Slot : workers[s].nonce < next
    BY DEF IndInv, Below, TypeOK
  <2>2. \A s \in Slot : workers'[s].nonce < next
    BY <1>1, <2>1
  <2> QED
    BY <2>1, <2>2, Zenon DEF IndInv, Below
<1>8. NoncesDistinct'
  BY <1>1, FreshFacts DEF IndInv, NoncesDistinct
<1>9. GateIsOwned'
  <2>1. CASE gate' = g /\ UNCHANGED workers
    BY <2>1, Zenon DEF GateIsOwned, Live
  <2>2. ASSUME NEW i \in Batch, NEW s \in Slot, gate' = i,
               workers' = [workers EXCEPT ![s] = Fresh(i)]
        PROVE  GateIsOwned'
    <3>1. workers'[s].batch = i
      BY <2>2, FreshFacts, Zenon DEF IndInv, TypeOK
    <3> QED
      BY <2>2, <3>1, Zenon DEF GateIsOwned, Live
  <2> QED
    BY <2>1, <2>2, Zenon DEF Started
<1> QED
  BY <1>2, <1>3, <1>4, <1>5, <1>6, <1>7, <1>8, <1>9, Zenon DEF IndInv

-----------------------------------------------------------------------------
(* Rows.                                                                   *)

\* The rows r hold no nonce that the rows q do not.
Fewer(r, q) == \A j \in Batch : Own(r, j) => Own(q, j) /\ r[j].nonce = q[j].nonce

\* The fields of a row.
LEMMA RowFacts ==
    /\ NewRow \in Row /\ NewRow.st = "unsigned"
    /\ [NewRow EXCEPT !.st = "signed"] \in Row /\ [NewRow EXCEPT !.st = "signed"].st = "signed"
    /\ [NewRow EXCEPT !.st = "done"] \in Row /\ [NewRow EXCEPT !.st = "done"].st = "done"
<1>1. NoTx \in TxOrNone /\ MaxNonce \in Nat
  BY TxFacts, DispatchAssumption, Zenon
<1>2. NewRow \in Row /\ NewRow.st = "unsigned"
  BY <1>1 DEF NewRow, Row
<1> QED
  BY <1>2, Zenon DEF Row

\* One row changes, and holds the nonce it held, or none.
LEMMA OneRow ==
    ASSUME NEW r \in [Batch -> Row], NEW i \in Batch, NEW x \in Row,
           x.st # "dispatched" \/ x.nonce = 0 \/ (Own(r, i) /\ x.nonce = r[i].nonce)
    PROVE  [r EXCEPT ![i] = x] \in [Batch -> Row] /\ Fewer([r EXCEPT ![i] = x], r)
<1> DEFINE q == [r EXCEPT ![i] = x]
<1>1. q \in [Batch -> Row] /\ q[i] = x /\ \A j \in Batch : j # i => q[j] = r[j]
  OBVIOUS
<1> HIDE DEF q
<1>2. Fewer(q, r)
  BY <1>1, Zenon DEF Fewer, Own, Dispatched
<1> QED
  BY <1>1, <1>2, Zenon DEF q

\* What the accumulator's operations on a row do to the nonces.
LEMMA RowSteps ==
    ASSUME NEW r \in [Batch -> Row], NEW i \in Batch, NEW t \in TxOrNone
    PROVE  /\ r[i].st = "unsigned" => /\ [r EXCEPT ![i].st = "signed"] \in [Batch -> Row]
                                      /\ Fewer([r EXCEPT ![i].st = "signed"], r)
           /\ mark_dispatched_external(r, i, t) \in [Batch -> Row]
           /\ Fewer(mark_dispatched_external(r, i, t), r)
           /\ record_rbf_bump(r, i, t) \in [Batch -> Row]
           /\ Fewer(record_rbf_bump(r, i, t), r)
           /\ record_dispatched_l1_block(r, i, t) \in [Batch -> Row]
           /\ Fewer(record_dispatched_l1_block(r, i, t), r)
           /\ undispatch(r, i) \in [Batch -> Row] /\ Fewer(undispatch(r, i), r)
           /\ finalize_dispatched(r, i) \in [Batch -> Row] /\ Fewer(finalize_dispatched(r, i), r)
<1>0. r \in [Batch -> Row] /\ Fewer(r, r)
  BY Zenon DEF Fewer
<1>1. r[i] \in Row
  OBVIOUS
<1>2. r[i].st = "unsigned" => /\ [r EXCEPT ![i].st = "signed"] \in [Batch -> Row]
                              /\ Fewer([r EXCEPT ![i].st = "signed"], r)
  <2> DEFINE x == [r[i] EXCEPT !.st = "signed"]
  <2>1. x \in Row /\ x.st # "dispatched"
    BY <1>1, Zenon DEF Row
  <2>2. [r EXCEPT ![i].st = "signed"] = [r EXCEPT ![i] = x]
    OBVIOUS
  <2> HIDE DEF x
  <2>3. [r EXCEPT ![i] = x] \in [Batch -> Row] /\ Fewer([r EXCEPT ![i] = x], r)
    BY <2>1, OneRow, Zenon
  <2> QED
    BY <2>2, <2>3, Zenon
<1>3. /\ mark_dispatched_external(r, i, t) \in [Batch -> Row]
      /\ Fewer(mark_dispatched_external(r, i, t), r)
  <2> DEFINE x == [st |-> "dispatched", tx |-> t, nonce |-> 0, l1 |-> t]
  <2>1. x \in Row /\ x.nonce = 0
    BY DispatchAssumption DEF Row
  <2> HIDE DEF x
  <2>2. [r EXCEPT ![i] = x] \in [Batch -> Row] /\ Fewer([r EXCEPT ![i] = x], r)
    BY <2>1, OneRow, Zenon
  <2> QED
    BY <1>0, <2>2, Zenon DEF x, mark_dispatched_external
<1>4. record_rbf_bump(r, i, t) \in [Batch -> Row] /\ Fewer(record_rbf_bump(r, i, t), r)
  <2> DEFINE x == [r[i] EXCEPT !.tx = t]
  <2>1. x \in Row /\ x.nonce = r[i].nonce /\ x.st = r[i].st /\ r[i].nonce \in Nat
    BY <1>1, DispatchAssumption DEF Row
  <2>2. [r EXCEPT ![i].tx = t] = [r EXCEPT ![i] = x]
    OBVIOUS
  <2> HIDE DEF x
  <2>3. [r EXCEPT ![i] = x] \in [Batch -> Row] /\ Fewer([r EXCEPT ![i] = x], r)
    BY <2>1, OneRow, Zenon DEF Own, Dispatched
  <2> QED
    BY <1>0, <2>2, <2>3, Zenon DEF record_rbf_bump
<1>5. /\ record_dispatched_l1_block(r, i, t) \in [Batch -> Row]
      /\ Fewer(record_dispatched_l1_block(r, i, t), r)
  <2> DEFINE x == [r[i] EXCEPT !.l1 = t]
  <2>1. x \in Row /\ x.nonce = r[i].nonce /\ x.st = r[i].st /\ r[i].nonce \in Nat
    BY <1>1, DispatchAssumption DEF Row
  <2>2. [r EXCEPT ![i].l1 = t] = [r EXCEPT ![i] = x]
    OBVIOUS
  <2> HIDE DEF x
  <2>3. [r EXCEPT ![i] = x] \in [Batch -> Row] /\ Fewer([r EXCEPT ![i] = x], r)
    BY <2>1, OneRow, Zenon DEF Own, Dispatched
  <2> QED
    BY <1>0, <2>2, <2>3, Zenon DEF record_dispatched_l1_block
<1>6. undispatch(r, i) \in [Batch -> Row] /\ Fewer(undispatch(r, i), r)
  <2> DEFINE x == [NewRow EXCEPT !.st = "signed"]
  <2>1. x \in Row /\ x.st # "dispatched"
    BY RowFacts, Zenon
  <2> HIDE DEF x
  <2>2. [r EXCEPT ![i] = x] \in [Batch -> Row] /\ Fewer([r EXCEPT ![i] = x], r)
    BY <2>1, OneRow, Zenon
  <2> QED
    BY <1>0, <2>2, Zenon DEF x, undispatch
<1>7. finalize_dispatched(r, i) \in [Batch -> Row] /\ Fewer(finalize_dispatched(r, i), r)
  <2> DEFINE x == [NewRow EXCEPT !.st = "done"]
  <2>1. x \in Row /\ x.st # "dispatched"
    BY RowFacts, Zenon
  <2> HIDE DEF x
  <2>2. [r EXCEPT ![i] = x] \in [Batch -> Row] /\ Fewer([r EXCEPT ![i] = x], r)
    BY <2>1, OneRow, Zenon
  <2> QED
    BY <1>0, <2>2, Zenon DEF x, finalize_dispatched
<1> QED
  BY <1>2, <1>3, <1>4, <1>5, <1>6, <1>7, Zenon

\* What the ticker saw takes rows back or cleans them up.
LEMMA ApplyFacts ==
    ASSUME NEW r \in [Batch -> Row], NEW seen \in SUBSET Observation
    PROVE  /\ apply_finalization_changes(r, seen) \in [Batch -> Row]
           /\ Fewer(apply_finalization_changes(r, seen), r)
<1> DEFINE q == apply_finalization_changes(r, seen)
<1>1. ASSUME NEW i \in Batch
      PROVE  q[i] \in Row /\ (Own(q, i) => Own(r, i) /\ q[i].nonce = r[i].nonce)
  <2>1. CASE ~\E o \in seen : o.batch = i
    <3>1. q[i] = r[i]
      BY <2>1, Zenon DEF apply_finalization_changes
    <3> QED
      BY <3>1, Zenon DEF Own, Dispatched
  <2>2. CASE \E o \in seen : o.batch = i
    <3> DEFINE o == CHOOSE o \in seen : o.batch = i
    <3>1. o \in seen /\ o.batch = i
      BY <2>2, Zenon
    <3>2. q[i] = Applied(r, o)[i]
      BY <2>2, Zenon DEF apply_finalization_changes
    <3> HIDE DEF o, q
    <3>3. Applied(r, o) \in {finalize_dispatched(r, i), undispatch(r, i), r}
      BY <3>1, Zenon DEF Applied
    <3>4. /\ undispatch(r, i) \in [Batch -> Row] /\ Fewer(undispatch(r, i), r)
          /\ finalize_dispatched(r, i) \in [Batch -> Row] /\ Fewer(finalize_dispatched(r, i), r)
      BY TxFacts, RowSteps, Zenon
    <3>5. Fewer(r, r)
      BY Zenon DEF Fewer
    <3>6. Applied(r, o) \in [Batch -> Row] /\ Fewer(Applied(r, o), r)
      BY <3>3, <3>4, <3>5, Zenon
    <3> QED
      BY <3>2, <3>6, Zenon DEF Fewer, Own, Dispatched
  <2> QED
    BY <2>1, <2>2, Zenon
<1>2. q = [i \in Batch |-> q[i]]
  BY Zenon DEF apply_finalization_changes
<1> HIDE DEF q
<1>3. q \in [Batch -> Row]
  BY <1>1, <1>2, Zenon
<1> QED
  BY <1>1, <1>3, Zenon DEF q, Fewer

-----------------------------------------------------------------------------
(* Steps of the main loop.                                                 *)

\* Rows with fewer nonces, and a channel that is kept or read: no new claim.
LEMMA FewerClaims ==
    ASSUME bumpQ \in Seq(Bump), bumpQ' = bumpQ \/ (bumpQ # <<>> /\ bumpQ' = Tail(bumpQ)),
           Fewer(rows', rows), NEW i \in Batch, NEW n \in Nonce, Claim(i, n)'
    PROVE  Claim(i, n)
<1>1. CASE Own(rows, i)' /\ rows'[i].nonce = n
  BY <1>1, Zenon DEF Fewer, Claim, Own, Dispatched
<1>2. CASE \E k \in DOMAIN bumpQ' : /\ bumpQ'[k].initial /\ bumpQ'[k].batch = i
                                    /\ bumpQ'[k].tx.nonce = n
  <2>1. PICK k \in DOMAIN bumpQ' : /\ bumpQ'[k].initial /\ bumpQ'[k].batch = i
                                   /\ bumpQ'[k].tx.nonce = n
    BY <1>2, Zenon
  <2>2. \E m \in DOMAIN bumpQ : bumpQ[m] = bumpQ'[k]
    <3>1. CASE bumpQ # <<>> /\ bumpQ' = Tail(bumpQ)
      <4>1. k + 1 \in DOMAIN bumpQ /\ bumpQ[k + 1] = bumpQ'[k]
        BY <3>1
      <4> QED
        BY <4>1, Zenon
    <3> QED
      BY <3>1, Zenon
  <2> QED
    BY <2>1, <2>2, Zenon DEF Claim
<1> QED
  BY <1>1, <1>2, Zenon DEF Claim

\* The gate that on_dispatch_done leaves has its worker or another report.
LEMMA GateAfterFacts ==
    ASSUME IndInv, doneQ # <<>>, doneQ' = Tail(doneQ), NEW g, g = GateAfter(Head(doneQ).batch)
    PROVE  g \in Batch \cup {0} /\ (g # 0 => Live(g) # {} \/ Reported(g)')
<1>1. g \in {gate, 0} /\ gate \in Batch \cup {0} /\ doneQ \in Seq(Outcome)
  BY Zenon DEF IndInv, TypeOK, GateAfter
<1>2. g # 0 => g = gate /\ Head(doneQ).batch # gate
  BY Zenon DEF GateAfter
<1>3. ASSUME g # 0, Reported(gate) PROVE Reported(g)'
  <2>1. PICK k \in DOMAIN doneQ : doneQ[k].batch = gate
    BY <1>3, Zenon DEF Reported
  <2>2. k # 1
    <3>1. Head(doneQ) = doneQ[1]
      BY <1>1
    <3> QED
      BY <1>2, <1>3, <2>1, <3>1, Zenon
  <2>3. k - 1 \in DOMAIN doneQ' /\ doneQ'[k - 1] = doneQ[k]
    BY <1>1, <2>2
  <2> QED
    BY <1>2, <1>3, <2>1, <2>3, Zenon DEF Reported
<1> QED
  BY <1>1, <1>2, <1>3, Zenon DEF IndInv, GateIsOwned

\* A handler that leaves through Handle or NoDispatch.
LEMMA HandlerStep ==
    ASSUME IndInv, NEW r \in [Batch -> Row], NEW b \in BOOLEAN, NEW g \in Batch \cup {0},
           Handle(r, b, g) \/ NoDispatch(r, b, g),
           doneQ' \in Seq(Outcome), bumpQ' \in Seq(Bump), TickerOk',
           \A i \in Batch, n \in Nonce : Claim(i, n)' => Claim(i, n),
           g # 0 => Live(g) # {} \/ Reported(g)'
    PROVE  IndInv'
<1>1. /\ process = "up" /\ rows' = r /\ backoff' = b
      /\ UNCHANGED <<process, keyCheck, next, pool, chain, okay, final>>
  BY Zenon DEF Handle, NoDispatch, l1Vars
<1>2. Started(g)
  BY TryDispatch, Zenon DEF Handle, NoDispatch, Started
<1>3. keyCheck' \in BOOLEAN
  BY <1>1, Zenon DEF IndInv, TypeOK
<1> QED
  BY <1>1, <1>2, <1>3, LoopStep, Zenon

\* What happens outside of the main loop and the workers: L1, and the ticker's
\* task.
LEMMA OutsideStep ==
    ASSUME IndInv, UNCHANGED <<rows, process, gate, next, workers, doneQ, bumpQ>>,
           backoff' \in BOOLEAN, keyCheck' \in BOOLEAN,
           pool' \subseteq OwnTx, chain' \subseteq TxOrNone, okay' \subseteq chain',
           final' \subseteq chain', TickerOk', ChainOk'
    PROVE  IndInv'
<1>1. TypeOK' /\ WorkersOk' /\ DownOk'
  BY Zenon DEF IndInv, TypeOK, TickerOk, WorkersOk, DownOk
<1>2. \A i \in Batch, n \in Nonce : Claim(i, n)' <=> Claim(i, n)
  BY Zenon DEF Claim
<1>3. \A s \in Slot, i \in Batch : Claim(i, workers[s].nonce)' <=> Claim(i, workers[s].nonce)
  BY Zenon DEF Claim
<1>4. ClaimsOk' /\ Below'
  BY <1>2, Zenon DEF IndInv, ClaimsOk, Below
<1>5. Unclaimed'
  BY <1>3, Zenon DEF IndInv, Unclaimed
<1>6. NoncesDistinct' /\ GateIsOwned'
  BY Zenon DEF IndInv, NoncesDistinct, GateIsOwned, Live, Reported
<1> QED
  BY <1>1, <1>4, <1>5, <1>6, Zenon DEF IndInv

\* L1 mines, finalizes, or loses a block.
LEMMA L1Step ==
    ASSUME IndInv,
           \/ \E t \in pool : Mine(t)
           \/ \E t \in chain : L1Finalize(t)
           \/ \E t \in chain : Reorg(t)
           \/ \E i \in Batch : ForeignPreconfirm(i)
    PROVE  IndInv'
<1>0. /\ pool \subseteq OwnTx /\ chain \subseteq TxOrNone /\ okay \subseteq chain
      /\ final \subseteq chain /\ backoff \in BOOLEAN /\ keyCheck \in BOOLEAN
      /\ TickerOk /\ ChainOk
  BY Zenon DEF IndInv, TypeOK
<1>1. OwnTx \subseteq TxOrNone /\ \A t \in OwnTx : t.batch \in Batch
  BY TxFacts, Zenon
<1>2. ASSUME NEW t \in pool, Mine(t) PROVE IndInv'
  <2>1. /\ pool' \subseteq pool /\ chain' = chain \cup {t} /\ okay' \subseteq okay \cup {t}
        /\ UNCHANGED <<final, loopVars, next, workers, doneQ, bumpQ>>
    BY <1>2, Zenon DEF Mine
  <2>2. ChainOk'
    BY <1>0, <1>1, <2>1, Zenon DEF ChainOk
  <2> QED
    BY <1>0, <1>1, <2>1, <2>2, OutsideStep, Zenon DEF loopVars, TickerOk
<1>3. ASSUME NEW t \in chain, L1Finalize(t) PROVE IndInv'
  <2>1. final' = final \cup {t} /\ UNCHANGED <<pool, chain, okay, loopVars, next, workers, doneQ, bumpQ>>
    BY <1>3, Zenon DEF L1Finalize
  <2>2. ChainOk'
    BY <1>0, <2>1, Zenon DEF ChainOk
  <2> QED
    BY <1>0, <2>1, <2>2, OutsideStep, Zenon DEF loopVars, TickerOk
<1>4. ASSUME NEW t \in chain, Reorg(t) PROVE IndInv'
  <2>1. /\ t \in OwnTx /\ t \notin final /\ chain' = chain \ {t} /\ okay' = okay \ {t}
        /\ pool' = pool \cup {t} /\ UNCHANGED <<final, loopVars, next, workers, doneQ, bumpQ>>
    BY <1>4, Zenon DEF Reorg
  <2>2. ChainOk'
    BY <1>0, <2>1, Zenon DEF ChainOk
  <2> QED
    BY <1>0, <2>1, <2>2, OutsideStep, Zenon DEF loopVars, TickerOk
<1>5. ASSUME NEW i \in Batch, ForeignPreconfirm(i) PROVE IndInv'
  <2>1. /\ chain' = chain \cup {ForeignTx(i)} /\ okay' = okay \cup {ForeignTx(i)}
        /\ UNCHANGED <<pool, final, loopVars, next, workers, doneQ, bumpQ>>
    BY <1>5, Zenon DEF ForeignPreconfirm
  <2>2. ForeignTx(i) \in TxOrNone /\ ForeignTx(i).batch = i
    BY TxFacts, Zenon
  <2>3. ChainOk'
    BY <1>0, <2>1, <2>2, Zenon DEF ChainOk
  <2> QED
    BY <1>0, <2>1, <2>2, <2>3, OutsideStep, Zenon DEF loopVars, TickerOk
<1> QED
  BY <1>2, <1>3, <1>4, <1>5, Zenon

\* A receipt names the candidate it was asked for.
LEMMA ReceiptFacts ==
    ASSUME NEW c \in Cand
    PROVE  /\ ReceiptOf(c) \in Observation
           /\ ReceiptOf(c).batch = c.batch /\ ReceiptOf(c).tx = c.tx
           /\ ReceiptOf(c).ok <=> c.tx \in okay
<1>1. ReceiptOf(c) \in Observation
  <2>1. c.batch \in Batch /\ c.tx \in TxOrNone
    BY Zenon DEF Cand
  <2> QED
    BY <2>1 DEF Observation, ReceiptOf
<1>2. ReceiptOf(c).batch = c.batch /\ ReceiptOf(c).tx = c.tx
  BY Zenon DEF ReceiptOf
<1>3. ReceiptOf(c).ok <=> c.tx \in okay
  BY Zenon DEF ReceiptOf
<1> QED
  BY <1>1, <1>2, <1>3, Zenon

\* The snapshot of the dispatched rows.
LEMMA SnapshotFacts ==
    ASSUME rows \in [Batch -> Row]
    PROVE  dispatched_snapshot \subseteq Cand
<1>1. \A i \in Batch : rows[i].tx \in TxOrNone /\ rows[i].l1 \in TxOrNone
  BY Zenon DEF Row
<1> QED
  BY <1>1 DEF dispatched_snapshot, Cand

\* The ticker's task works on its own copy.
LEMMA TickerTaskStep ==
    ASSUME IndInv,
           \/ try_start_finalization
           \/ check_finalized_batches_query_head
           \/ check_finalized_batches_query_receipt
           \/ check_finalized_batches_query_fail
    PROVE  IndInv'
<1>0. /\ pool \subseteq OwnTx /\ chain \subseteq TxOrNone /\ okay \subseteq chain
      /\ final \subseteq chain /\ backoff \in BOOLEAN /\ keyCheck \in BOOLEAN
      /\ rows \in [Batch -> Row] /\ TickerOk /\ ChainOk
  BY Zenon DEF IndInv, TypeOK
<1>1. ASSUME TickerOk', UNCHANGED <<rows, process, gate, backoff, keyCheck, next, workers, doneQ,
                                    bumpQ, l1Vars>>
      PROVE  IndInv'
  <2>1. ChainOk'
    BY <1>0, <1>1, Zenon DEF ChainOk, l1Vars
  <2> QED
    BY <1>0, <1>1, <2>1, OutsideStep, Zenon DEF l1Vars
<1>2. ASSUME NEW p \in {"idle", "spawned", "query", "done"}, NEW todo \in SUBSET Cand,
             NEW seen \in SUBSET Observation,
             ticker' = [phase |-> p, todo |-> todo, seen |-> seen]
      PROVE  TickerOk'
  BY <1>2, Zenon DEF TickerOk
<1>3. /\ ticker.todo \in SUBSET Cand /\ ticker.seen \in SUBSET Observation
  BY <1>0, Zenon DEF TickerOk
<1>4. ASSUME try_start_finalization PROVE IndInv'
  <2>1. dispatched_snapshot \in SUBSET Cand
    BY <1>0, SnapshotFacts, Zenon
  <2>2. TickerOk'
    BY <1>2, <1>4, <2>1, Zenon DEF try_start_finalization
  <2> QED
    BY <1>1, <1>4, <2>2, Zenon DEF try_start_finalization
<1>5. ASSUME check_finalized_batches_query_head PROVE IndInv'
  <2> DEFINE cs == {c \in ticker.todo : Candidate(c)}
             p == IF cs = {} THEN "done" ELSE "query"
  <2>1. TickerStep([ticker EXCEPT !.phase = p, !.todo = cs], faults)
    BY <1>5, Zenon DEF check_finalized_batches_query_head
  <2>2. cs \in SUBSET Cand /\ p \in {"idle", "spawned", "query", "done"}
    BY <1>3, Zenon
  <2> HIDE DEF cs, p
  <2>3. TickerOk'
    BY <1>0, <2>1, <2>2, Zenon DEF TickerStep, TickerOk
  <2> QED
    BY <1>1, <2>1, <2>3, Zenon DEF TickerStep
<1>6. ASSUME check_finalized_batches_query_receipt PROVE IndInv'
  <2>1. PICK c \in ticker.todo :
               LET rest == ticker.todo \ {c}
                   seen == IF c.tx \in chain THEN {ReceiptOf(c)} ELSE {}
               IN  TickerStep([phase |-> IF rest = {} THEN "done" ELSE "query",
                               todo |-> rest, seen |-> ticker.seen \cup seen], faults)
    BY <1>6, Zenon DEF check_finalized_batches_query_receipt
  <2> DEFINE rest == ticker.todo \ {c}
             seen == ticker.seen \cup (IF c.tx \in chain THEN {ReceiptOf(c)} ELSE {})
             p == IF rest = {} THEN "done" ELSE "query"
  <2>2. TickerStep([phase |-> p, todo |-> rest, seen |-> seen], faults)
    BY <2>1, Zenon
  <2>3. ReceiptOf(c) \in Observation
    BY <1>3, ReceiptFacts, Zenon
  <2>4. rest \in SUBSET Cand /\ seen \in SUBSET Observation /\ p \in {"idle", "spawned", "query", "done"}
    BY <1>3, <2>3, Zenon
  <2> HIDE DEF rest, seen, p
  <2>5. TickerOk'
    BY <1>2, <2>2, <2>4, Zenon DEF TickerStep
  <2> QED
    BY <1>1, <2>2, <2>5, Zenon DEF TickerStep
<1>7. ASSUME check_finalized_batches_query_fail PROVE IndInv'
  <2>1. CASE TickerStep([phase |-> "done", todo |-> {}, seen |-> {}], faults + 1)
    <3>1. TickerOk'
      BY <1>2, <2>1, Zenon DEF TickerStep
    <3> QED
      BY <1>1, <2>1, <3>1, Zenon DEF TickerStep
  <2>2. ASSUME NEW c \in ticker.todo, NEW p \in {"done", "query"},
               TickerStep([ticker EXCEPT !.phase = p, !.todo = ticker.todo \ {c}], faults + 1)
        PROVE  IndInv'
    <3>1. ticker.todo \ {c} \in SUBSET Cand /\ p \in {"idle", "spawned", "query", "done"}
      BY <1>3, Zenon
    <3>2. TickerOk'
      BY <1>0, <2>2, <3>1, Zenon DEF TickerStep, TickerOk
    <3> QED
      BY <1>1, <2>2, <3>2, Zenon DEF TickerStep
  <2> QED
    BY <1>7, <2>1, <2>2, Zenon DEF check_finalized_batches_query_fail
<1> QED
  BY <1>4, <1>5, <1>6, <1>7, Zenon

\* The handlers of the main loop that leave the channels alone.
LEMMA QuietHandlers ==
    ASSUME IndInv,
           \/ \E i \in Batch : on_sign_done(i)
           \/ \E i \in Batch : on_sign_done_invalid(i)
           \/ key_check_registered
           \/ \E t \in okay : on_l1_event_preconfirmed(t)
           \/ on_block_result \/ BackoffExpires \/ on_finalization_done
    PROVE  IndInv'
<1>0. /\ rows \in [Batch -> Row] /\ backoff \in BOOLEAN /\ keyCheck \in BOOLEAN
      /\ gate \in Batch \cup {0} /\ doneQ \in Seq(Outcome) /\ bumpQ \in Seq(Bump)
      /\ chain \subseteq TxOrNone /\ okay \subseteq chain /\ TickerOk /\ ChainOk
      /\ pool \subseteq OwnTx /\ final \subseteq chain
      /\ gate # 0 => Live(gate) # {} \/ Reported(gate)
  BY Zenon DEF IndInv, TypeOK, GateIsOwned
<1>1. ASSUME NEW r \in [Batch -> Row], Fewer(r, rows), NEW b \in BOOLEAN,
             Handle(r, b, gate) \/ NoDispatch(r, b, gate), UNCHANGED <<doneQ, bumpQ>>, TickerOk'
      PROVE  IndInv'
  <2>1. rows' = r
    BY <1>1, Zenon DEF Handle, NoDispatch
  <2>2. \A i \in Batch, n \in Nonce : Claim(i, n)' => Claim(i, n)
    BY <1>0, <1>1, <2>1, FewerClaims, Zenon
  <2>3. PICK g \in Batch \cup {0} : g = gate
    BY <1>0, Zenon
  <2>4. g # 0 => Live(g) # {} \/ Reported(g)'
    BY <1>0, <1>1, <2>3, Zenon DEF Reported
  <2>5. doneQ' \in Seq(Outcome) /\ bumpQ' \in Seq(Bump)
    BY <1>0, <1>1, Zenon
  <2>6. Handle(r, b, g) \/ NoDispatch(r, b, g)
    BY <1>1, <2>3, Zenon
  <2> QED
    BY <1>1, <2>2, <2>4, <2>5, <2>6, HandlerStep, Zenon
<1>2. UNCHANGED ticker => TickerOk'
  BY <1>0, Zenon DEF TickerOk
<1>3. Fewer(rows, rows) /\ NoTx \in TxOrNone
  BY TxFacts, Zenon DEF Fewer
<1>4. ASSUME NEW i \in Batch, on_sign_done(i) PROVE IndInv'
  <2>1. /\ [rows EXCEPT ![i].st = "signed"] \in [Batch -> Row]
        /\ Fewer([rows EXCEPT ![i].st = "signed"], rows)
    BY <1>0, <1>3, <1>4, RowSteps, Zenon DEF on_sign_done
  <2> QED
    BY <1>0, <1>1, <1>2, <1>4, <2>1, Zenon DEF on_sign_done
<1>5. ASSUME NEW i \in Batch, on_sign_done_invalid(i) PROVE IndInv'
  <2>1. ChainOk'
    BY <1>0, <1>5, Zenon DEF ChainOk, on_sign_done_invalid, l1Vars
  <2> QED
    BY <1>0, <1>2, <1>5, <2>1, OutsideStep, Zenon DEF on_sign_done_invalid, l1Vars
<1>6. ASSUME key_check_registered PROVE IndInv'
  <2>1. PICK g \in Batch \cup {0} : g = gate
    BY <1>0, Zenon
  <2>2. /\ process = "up" /\ try_dispatch_next_batch(rows, g, backoff, FALSE)
        /\ keyCheck' = FALSE
        /\ UNCHANGED <<rows, process, backoff, ticker, next, doneQ, bumpQ, pool, chain, okay, final>>
    BY <1>6, <2>1, Zenon DEF key_check_registered, l1Vars
  <2>3. Started(g)
    BY <2>2, TryDispatch, Zenon
  <2>4. \A i \in Batch, n \in Nonce : Claim(i, n)' => Claim(i, n)
    BY <1>0, <1>3, <2>2, FewerClaims, Zenon
  <2>5. g # 0 => Live(g) # {} \/ Reported(g)'
    BY <1>0, <2>1, <2>2, Zenon DEF Reported
  <2> QED
    BY <1>0, <1>2, <2>2, <2>3, <2>4, <2>5, LoopStep, Zenon
<1>7. ASSUME NEW t \in okay, on_l1_event_preconfirmed(t) PROVE IndInv'
  <2>1. t \in TxOrNone /\ t.batch \in Batch
    BY <1>0, Zenon DEF ChainOk
  <2>2. /\ mark_dispatched_external(rows, t.batch, t) \in [Batch -> Row]
        /\ Fewer(mark_dispatched_external(rows, t.batch, t), rows)
    BY <1>0, <2>1, RowSteps, Zenon
  <2> QED
    BY <1>1, <1>2, <1>7, <2>2, Zenon DEF on_l1_event_preconfirmed
<1>8. ASSUME on_block_result PROVE IndInv'
  BY <1>0, <1>1, <1>2, <1>3, <1>8, Zenon DEF on_block_result
<1>9. ASSUME BackoffExpires PROVE IndInv'
  <2>1. ChainOk'
    BY <1>0, <1>9, Zenon DEF ChainOk, BackoffExpires, l1Vars
  <2> QED
    BY <1>0, <1>2, <1>9, <2>1, OutsideStep, Zenon DEF BackoffExpires, l1Vars
<1>10. ASSUME on_finalization_done PROVE IndInv'
  <2> DEFINE r == apply_finalization_changes(rows, ticker.seen)
  <2>1. ticker.seen \in SUBSET Observation
    BY <1>0, Zenon DEF TickerOk
  <2>2. r \in [Batch -> Row] /\ Fewer(r, rows)
    BY <1>0, <2>1, ApplyFacts, Zenon
  <2>3. TickerOk'
    BY <1>10, Zenon DEF on_finalization_done, IdleTicker, TickerOk
  <2>4. /\ NoDispatch(rows, backoff, gate) \/ Handle(r, backoff, gate) \/ Handle(r, TRUE, gate)
        /\ UNCHANGED <<doneQ, bumpQ>>
    BY <1>10, Zenon DEF on_finalization_done
  <2> QED
    BY <1>0, <1>1, <1>3, <2>2, <2>3, <2>4, Zenon
<1> QED
  BY <1>4, <1>5, <1>6, <1>7, <1>8, <1>9, <1>10, Zenon

\* A worker's report clears its gate, and records or takes back its dispatch.
LEMMA DispatchDone ==
    ASSUME IndInv, on_dispatch_done
    PROVE  IndInv'
<1>0. /\ rows \in [Batch -> Row] /\ backoff \in BOOLEAN /\ doneQ \in Seq(Outcome)
      /\ bumpQ \in Seq(Bump) /\ TickerOk
  BY Zenon DEF IndInv, TypeOK
<1> DEFINE h == Head(doneQ)
<1>1. /\ doneQ # <<>> /\ doneQ' = Tail(doneQ) /\ UNCHANGED <<bumpQ, ticker>>
  BY Zenon DEF on_dispatch_done
<1>2. h \in Outcome /\ doneQ' \in Seq(Outcome)
  BY <1>0, <1>1
<1>3. h.batch \in Batch /\ h.tx \in TxOrNone
  BY <1>2, Zenon DEF Outcome
<1>4. h.kind \in {"submitted", "already", "oog", "logic", "failed"}
  BY <1>2, Zenon DEF Outcome
<1>5. PICK g : g = GateAfter(h.batch)
  OBVIOUS
<1>6. g \in Batch \cup {0} /\ (g # 0 => Live(g) # {} \/ Reported(g)')
  BY <1>1, <1>5, GateAfterFacts, Zenon
<1>7. \/ Handle(record_dispatched_l1_block(rows, h.batch, h.tx), FALSE, g)
      \/ Handle(mark_dispatched_external(rows, h.batch, h.tx), FALSE, g)
      \/ Handle(undispatch(rows, h.batch), backoff, g)
      \/ NoDispatch(undispatch(rows, h.batch), TRUE, g)
  <2>1. CASE h.kind = "submitted"
    BY <1>5, <2>1, Zenon DEF on_dispatch_done
  <2>2. CASE h.kind = "already"
    BY <1>5, <2>2, Zenon DEF on_dispatch_done
  <2>3. CASE h.kind = "oog"
    BY <1>5, <2>3, Zenon DEF on_dispatch_done
  <2>4. CASE h.kind \in {"logic", "failed"}
    BY <1>5, <2>4, Zenon DEF on_dispatch_done
  <2> QED
    BY <1>4, <2>1, <2>2, <2>3, <2>4, Zenon
<1> HIDE DEF h
<1>8. ASSUME NEW r \in [Batch -> Row], Fewer(r, rows), NEW b \in BOOLEAN,
             Handle(r, b, g) \/ NoDispatch(r, b, g)
      PROVE  IndInv'
  <2>1. rows' = r
    BY <1>8, Zenon DEF Handle, NoDispatch
  <2>2. \A i \in Batch, n \in Nonce : Claim(i, n)' => Claim(i, n)
    BY <1>0, <1>1, <1>8, <2>1, FewerClaims, Zenon
  <2>3. bumpQ' \in Seq(Bump) /\ TickerOk'
    BY <1>0, <1>1, Zenon DEF TickerOk
  <2> QED
    BY <1>2, <1>6, <1>8, <2>2, <2>3, HandlerStep, Zenon
<1>9. /\ record_dispatched_l1_block(rows, h.batch, h.tx) \in [Batch -> Row]
      /\ Fewer(record_dispatched_l1_block(rows, h.batch, h.tx), rows)
      /\ mark_dispatched_external(rows, h.batch, h.tx) \in [Batch -> Row]
      /\ Fewer(mark_dispatched_external(rows, h.batch, h.tx), rows)
      /\ undispatch(rows, h.batch) \in [Batch -> Row] /\ Fewer(undispatch(rows, h.batch), rows)
  BY <1>0, <1>3, RowSteps, Zenon
<1> QED
  BY <1>0, <1>7, <1>8, <1>9, Zenon

\* The row of a broadcast takes over the claim of its message.
LEMMA RbfBump ==
    ASSUME IndInv, on_rbf_bump
    PROVE  IndInv'
<1>0. /\ rows \in [Batch -> Row] /\ backoff \in BOOLEAN /\ doneQ \in Seq(Outcome)
      /\ bumpQ \in Seq(Bump) /\ TickerOk /\ gate \in Batch \cup {0}
      /\ gate # 0 => Live(gate) # {} \/ Reported(gate)
  BY Zenon DEF IndInv, TypeOK, GateIsOwned
<1> DEFINE e == Head(bumpQ)
<1>1. /\ bumpQ # <<>> /\ bumpQ' = Tail(bumpQ) /\ UNCHANGED <<doneQ, ticker>>
  BY Zenon DEF on_rbf_bump
<1>2. e \in Bump /\ bumpQ' \in Seq(Bump) /\ e = bumpQ[1] /\ 1 \in DOMAIN bumpQ
  BY <1>0, <1>1
<1>3. PICK g \in Batch \cup {0} : g = gate
  BY <1>0, Zenon
<1>4. \/ e.initial /\ NoDispatch(mark_dispatched(rows, e.batch, e.tx), FALSE, g)
      \/ ~e.initial /\ NoDispatch(record_rbf_bump(rows, e.batch, e.tx), backoff, g)
  BY <1>3, Zenon DEF on_rbf_bump
<1>5. e.batch \in Batch /\ e.tx \in OwnTx /\ e.tx \in TxOrNone /\ e.tx.nonce \in 0..MaxNonce
  BY <1>2, TxFacts, Zenon DEF Bump
<1> HIDE DEF e
<1>6. ASSUME NEW r \in [Batch -> Row], NEW b \in BOOLEAN, NoDispatch(r, b, g),
             \A i \in Batch, n \in Nonce : Claim(i, n)' => Claim(i, n)
      PROVE  IndInv'
  <2>1. TickerOk' /\ doneQ' \in Seq(Outcome) /\ (g # 0 => Live(g) # {} \/ Reported(g)')
    BY <1>0, <1>1, <1>3, Zenon DEF TickerOk, Reported
  <2> QED
    BY <1>2, <1>6, <2>1, HandlerStep, Zenon
<1>7. CASE ~e.initial /\ NoDispatch(record_rbf_bump(rows, e.batch, e.tx), backoff, g)
  <2> DEFINE r == record_rbf_bump(rows, e.batch, e.tx)
  <2>1. r \in [Batch -> Row] /\ Fewer(r, rows)
    BY <1>0, <1>5, RowSteps, Zenon
  <2>2. rows' = r
    BY <1>7, Zenon DEF NoDispatch
  <2> HIDE DEF r
  <2>3. \A i \in Batch, n \in Nonce : Claim(i, n)' => Claim(i, n)
    BY <1>0, <1>1, <2>1, <2>2, FewerClaims, Zenon
  <2> QED
    BY <1>0, <1>6, <1>7, <2>1, <2>3, Zenon DEF r
<1>8. CASE e.initial /\ NoDispatch(mark_dispatched(rows, e.batch, e.tx), FALSE, g)
  <2> DEFINE x == [st |-> "dispatched", tx |-> e.tx, nonce |-> e.tx.nonce, l1 |-> NoTx]
             r == mark_dispatched(rows, e.batch, e.tx)
  <2>1. x \in Row /\ x.nonce = e.tx.nonce
    BY <1>5, TxFacts, Zenon DEF Row
  <2>2. r \in {[rows EXCEPT ![e.batch] = x], rows} /\ rows' = r
    BY <1>8, Zenon DEF mark_dispatched, NoDispatch
  <2> HIDE DEF x, r
  <2>3. r \in [Batch -> Row]
    BY <1>0, <1>5, <2>1, <2>2, Zenon
  <2>4. CASE r = rows
    <3>1. Fewer(rows', rows)
      BY <2>2, <2>4, Zenon DEF Fewer
    <3>2. \A i \in Batch, n \in Nonce : Claim(i, n)' => Claim(i, n)
      BY <1>0, <1>1, <3>1, FewerClaims, Zenon
    <3> QED
      BY <1>6, <1>8, <2>3, <3>2, Zenon DEF r
  <2>5. CASE r = [rows EXCEPT ![e.batch] = x]
    <3>1. Claim(e.batch, e.tx.nonce)
      BY <1>2, <1>8, Zenon DEF Claim
    <3>2. ASSUME NEW i \in Batch, NEW n \in Nonce, Claim(i, n)' PROVE Claim(i, n)
      <4>1. CASE Own(rows, i)' /\ rows'[i].nonce = n
        <5>1. CASE i = e.batch
          <6>1. n = e.tx.nonce
            BY <1>0, <1>5, <2>1, <2>2, <2>5, <4>1, <5>1, Zenon
          <6> QED
            BY <3>1, <5>1, <6>1, Zenon
        <5>2. CASE i # e.batch
          <6>1. rows'[i] = rows[i]
            BY <1>0, <1>5, <2>2, <2>5, <5>2, Zenon
          <6> QED
            BY <4>1, <6>1, Zenon DEF Claim, Own, Dispatched
        <5> QED
          BY <5>1, <5>2, Zenon
      <4>2. CASE \E k \in DOMAIN bumpQ' : /\ bumpQ'[k].initial /\ bumpQ'[k].batch = i
                                          /\ bumpQ'[k].tx.nonce = n
        <5>1. PICK k \in DOMAIN bumpQ' : /\ bumpQ'[k].initial /\ bumpQ'[k].batch = i
                                         /\ bumpQ'[k].tx.nonce = n
          BY <4>2, Zenon
        <5>2. k + 1 \in DOMAIN bumpQ /\ bumpQ[k + 1] = bumpQ'[k]
          BY <1>0, <1>1
        <5> QED
          BY <5>1, <5>2, Zenon DEF Claim
      <4> QED
        BY <3>2, <4>1, <4>2, Zenon DEF Claim
    <3> QED
      BY <1>6, <1>8, <2>3, <3>2, Zenon DEF r
  <2> QED
    BY <2>2, <2>4, <2>5, Zenon
<1> QED
  BY <1>4, <1>7, <1>8, Zenon

-----------------------------------------------------------------------------
(* Steps of the workers.                                                   *)

Phase == {"free", "preflight", "ready", "allocated", "built", "loop", "bumping"}

\* The worker v goes on for the batch of w with its nonce.
GoesOn(v, w) == v.batch = w.batch /\ v.resume = w.resume /\ v.nonce = w.nonce

\* The fields of a worker.
LEMMA WorkerFacts ==
    ASSUME IndInv, NEW s \in Slot, workers[s].phase # "free"
    PROVE  /\ workers[s] \in Worker /\ process = "up"
           /\ workers[s].batch \in Batch /\ workers[s].resume \in BOOLEAN
           /\ workers[s].nonce \in 0..MaxNonce /\ workers[s].nonce \in Nat
           /\ workers[s].tx \in TxOrNone /\ workers[s].fee \in 0..MaxFee
           /\ \/ workers[s].resume
              \/ workers[s].phase \in {"allocated", "built", "loop", "bumping"}
              => workers[s].nonce \in Nonce
<1>1. workers[s] \in Worker
  BY Zenon DEF IndInv, TypeOK
<1>2. process = "up"
  BY FreshFacts, Zenon DEF IndInv, TypeOK, DownOk
<1>3. WorkerOk(workers[s])
  BY Zenon DEF IndInv, WorkersOk
<1> QED
  BY <1>1, <1>2, <1>3, DispatchAssumption DEF Worker, WorkerOk, Nonce

\* What a step of the worker s, which becomes w, leaves as it was.
LEMMA WorkerFrame ==
    ASSUME IndInv, NEW s \in Slot, workers[s].phase # "free",
           NEW w \in Worker, WorkerOk(w), WorkerStep(s, w),
           pool' \subseteq OwnTx, bumpQ' \in Seq(Bump), next' \in 0..MaxNonce + 1,
           \/ w.batch = workers[s].batch /\ UNCHANGED doneQ
           \/ \E o \in Outcome : o.batch = workers[s].batch /\ doneQ' = Append(doneQ, o)
    PROVE  /\ process = "up" /\ process' = "up" /\ rows' = rows
           /\ workers'[s] = w /\ \A u \in Slot : u # s => workers'[u] = workers[u]
           /\ TypeOK' /\ TickerOk' /\ WorkersOk' /\ ChainOk' /\ DownOk' /\ GateIsOwned'
<1>1. /\ process = "up" /\ workers \in [Slot -> Worker] /\ doneQ \in Seq(Outcome)
      /\ gate \in Batch \cup {0}
  BY WorkerFacts, Zenon DEF IndInv, TypeOK
<1>2. /\ workers' = [workers EXCEPT ![s] = w]
      /\ UNCHANGED <<rows, process, gate, backoff, keyCheck, ticker, chain, okay, final>>
  BY Zenon DEF WorkerStep, loopVars
<1>3. /\ workers' \in [Slot -> Worker] /\ workers'[s] = w
      /\ \A u \in Slot : u # s => workers'[u] = workers[u]
  BY <1>1, <1>2, Zenon
<1>4. doneQ' \in Seq(Outcome)
  BY <1>1
<1>5. TypeOK' /\ TickerOk'
  BY <1>2, <1>3, <1>4, Zenon DEF IndInv, TypeOK, TickerOk
<1>6. WorkersOk'
  BY <1>3, Zenon DEF IndInv, WorkersOk
<1>7. ChainOk' /\ DownOk'
  BY <1>1, <1>2, Zenon DEF IndInv, ChainOk, DownOk
<1>8. GateIsOwned'
  <2> SUFFICES ASSUME gate # 0 PROVE Live(gate)' # {} \/ Reported(gate)'
    BY <1>2, Zenon DEF GateIsOwned
  <2>1. CASE Reported(gate)
    <3>1. PICK k \in DOMAIN doneQ : doneQ[k].batch = gate
      BY <2>1, Zenon DEF Reported
    <3>2. k \in DOMAIN doneQ' /\ doneQ'[k] = doneQ[k]
      BY <1>1
    <3> QED
      BY <1>2, <3>1, <3>2, Zenon DEF Reported
  <2>2. ASSUME NEW u \in Slot, workers[u].batch = gate PROVE Live(gate)' # {} \/ Reported(gate)'
    <3>1. CASE u # s
      BY <1>2, <1>3, <2>2, <3>1, Zenon DEF Live
    <3>2. CASE u = s /\ w.batch = workers[s].batch
      BY <1>2, <1>3, <2>2, <3>2, Zenon DEF Live
    <3>3. ASSUME u = s, NEW o \in Outcome, o.batch = workers[s].batch, doneQ' = Append(doneQ, o)
          PROVE  Reported(gate)'
      <4>1. Len(doneQ) + 1 \in DOMAIN doneQ' /\ doneQ'[Len(doneQ) + 1] = o
        BY <1>1, <3>3
      <4> QED
        BY <1>2, <2>2, <3>3, <4>1, Zenon DEF Reported
    <3> QED
      BY <3>1, <3>2, <3>3, Zenon
  <2> QED
    BY <2>1, <2>2, Zenon DEF IndInv, GateIsOwned, Live
<1> QED
  BY <1>1, <1>2, <1>3, <1>5, <1>6, <1>7, <1>8, Zenon

\* A step that claims no new nonce and gives none back to the allocator.
LEMMA KeepStep ==
    ASSUME IndInv, NEW s \in Slot, workers[s].phase # "free",
           NEW w \in Worker, WorkerOk(w), WorkerStep(s, w),
           pool' \subseteq OwnTx, bumpQ' \in Seq(Bump), next' \in 0..MaxNonce + 1,
           \/ w.batch = workers[s].batch /\ UNCHANGED doneQ
           \/ \E o \in Outcome : o.batch = workers[s].batch /\ doneQ' = Append(doneQ, o),
           next <= next', w.nonce \in {0, workers[s].nonce},
           w.phase \in {"allocated", "built"} =>
              workers[s].phase \in {"allocated", "built"} /\ w.nonce = workers[s].nonce,
           \A i \in Batch, n \in Nonce : Claim(i, n)' => Claim(i, n)
    PROVE  IndInv'
<1>1. /\ process = "up" /\ process' = "up" /\ rows' = rows
      /\ workers'[s] = w /\ \A u \in Slot : u # s => workers'[u] = workers[u]
      /\ TypeOK' /\ TickerOk' /\ WorkersOk' /\ ChainOk' /\ DownOk' /\ GateIsOwned'
  BY WorkerFrame, Zenon
<1>2. ClaimsOk'
  BY Zenon DEF IndInv, ClaimsOk
<1>3. Unclaimed'
  <2> SUFFICES ASSUME NEW u \in Slot, workers'[u].phase \in {"allocated", "built"}, NEW i \in Batch
               PROVE  ~Claim(i, workers[u].nonce)'
    BY Zenon DEF Unclaimed
  <2>1. workers'[u].nonce = workers[u].nonce /\ workers[u].phase \in {"allocated", "built"}
    BY <1>1, Zenon
  <2>2. workers[u].nonce \in Nonce
    BY <2>1, WorkerFacts, Zenon
  <2> QED
    BY <2>1, <2>2, Zenon DEF IndInv, Unclaimed
<1>4. Below'
  <2>0. \A u \in Slot : workers[u].nonce \in Nat
    BY DispatchAssumption DEF IndInv, TypeOK, Worker
  <2>1. /\ next \in Nat /\ next' \in Nat /\ next # 0 /\ \A u \in Slot : workers[u].nonce < next
        /\ \A i \in Batch, n \in Nonce : Claim(i, n) => n < next
    <3>1. next \in Nat /\ next' \in Nat
      BY DispatchAssumption DEF IndInv, TypeOK
    <3> QED
      BY <1>1, <3>1, Zenon DEF IndInv, Below
  <2>2. next' # 0 /\ \A i \in Batch, n \in Nonce : Claim(i, n)' => n < next'
    BY <2>1, DispatchAssumption DEF Nonce
  <2>3. \A u \in Slot : workers'[u].nonce < next'
    BY <1>1, <2>0, <2>1
  <2> QED
    BY <2>2, <2>3, Zenon DEF Below
<1>5. NoncesDistinct'
  BY <1>1 DEF IndInv, NoncesDistinct
<1> QED
  BY <1>1, <1>2, <1>3, <1>4, <1>5, Zenon DEF IndInv

\* A report of the worker s.
LEMMA ReportFacts ==
    ASSUME IndInv, NEW s \in Slot, workers[s].phase # "free",
           NEW kind \in {"submitted", "oog", "logic", "already", "failed"}, NEW t \in TxOrNone,
           Finish(s, kind, t)
    PROVE  /\ WorkerStep(s, Free) /\ rows' = rows
           /\ \E o \in Outcome : o.batch = workers[s].batch /\ doneQ' = Append(doneQ, o)
<1> DEFINE o == [batch |-> workers[s].batch, tx |-> t, kind |-> kind]
<1>1. workers[s].batch \in Batch
  BY WorkerFacts, Zenon
<1>2. o \in Outcome /\ o.batch = workers[s].batch
  BY <1>1, Zenon DEF Outcome
<1>3. WorkerStep(s, Free) /\ doneQ' = Append(doneQ, o) /\ rows' = rows
  BY Zenon DEF Finish, WorkerStep, loopVars
<1> HIDE DEF o
<1> QED
  BY <1>2, <1>3, Zenon

\* Unchanged rows and channel: no new claim.
LEMMA SameClaims ==
    ASSUME rows' = rows, bumpQ' = bumpQ, NEW i \in Batch, NEW n, Claim(i, n)'
    PROVE  Claim(i, n)
BY Zenon DEF Claim

\* A worker ends; the allocator keeps its place or moves on.
LEMMA FinishStep ==
    ASSUME IndInv, NEW s \in Slot, workers[s].phase # "free",
           NEW kind \in {"submitted", "oog", "logic", "already", "failed"}, NEW t \in TxOrNone,
           Finish(s, kind, t), pool' \subseteq OwnTx, bumpQ' = bumpQ,
           next' \in 0..MaxNonce + 1, next <= next'
    PROVE  IndInv'
<1>1. /\ WorkerStep(s, Free) /\ rows' = rows
      /\ \E o \in Outcome : o.batch = workers[s].batch /\ doneQ' = Append(doneQ, o)
  BY ReportFacts, Zenon
<1>2. \A i \in Batch, n \in Nonce : Claim(i, n)' => Claim(i, n)
  BY <1>1, SameClaims, Zenon
<1>3. /\ Free \in Worker /\ WorkerOk(Free) /\ Free.nonce = 0
      /\ Free.phase \notin {"allocated", "built"} /\ bumpQ' \in Seq(Bump)
  BY FreshFacts, Zenon DEF IndInv, TypeOK
<1> QED
  BY <1>1, <1>2, <1>3, KeepStep, Zenon

\* A worker ends and gives its nonce back, if that was the last one allocated.
LEMMA ReleaseStep ==
    ASSUME IndInv, NEW s \in Slot, HasNonce(workers[s]) \/ workers[s].phase = "built",
           Finish(s, "failed", NoTx), release(workers[s]), pool' \subseteq OwnTx, bumpQ' = bumpQ
    PROVE  IndInv'
<1> DEFINE m == workers[s].nonce
<1>0. next \in 0..MaxNonce + 1 /\ next \in Nat /\ NoTx \in TxOrNone
  BY TxFacts, DispatchAssumption DEF IndInv, TypeOK
<1>1. workers[s].phase # "free" /\ m \in Nonce /\ m \in Nat
  BY WorkerFacts, DispatchAssumption, Zenon DEF HasNonce, Nonce
<1>2. CASE next' = next
  BY <1>0, <1>1, <1>2, FinishStep
<1>3. CASE ~workers[s].resume /\ next = m + 1 /\ next' = m
  <2>1. /\ WorkerStep(s, Free) /\ rows' = rows
        /\ \E o \in Outcome : o.batch = workers[s].batch /\ doneQ' = Append(doneQ, o)
    BY <1>0, <1>1, ReportFacts, Zenon
  <2>2. /\ Free \in Worker /\ WorkerOk(Free) /\ bumpQ' \in Seq(Bump) /\ next' \in 0..MaxNonce + 1
        /\ Free.nonce = 0 /\ Free.phase = "free"
    BY <1>0, <1>1, <1>3, FreshFacts, DispatchAssumption DEF IndInv, TypeOK, Nonce
  <2>3. /\ process = "up" /\ process' = "up"
        /\ workers'[s] = Free /\ \A u \in Slot : u # s => workers'[u] = workers[u]
        /\ TypeOK' /\ TickerOk' /\ WorkersOk' /\ ChainOk' /\ DownOk' /\ GateIsOwned'
    BY <1>1, <2>1, <2>2, WorkerFrame, Zenon
  <2>4. workers[s].phase \in {"allocated", "built"}
    BY <1>3, Zenon DEF HasNonce
  <2>5. /\ \A u \in Slot : workers[u].nonce \in Nat /\ workers[u].nonce < m + 1
        /\ \A i \in Batch, n \in Nonce : Claim(i, n) => n < m + 1
    <3>1. \A u \in Slot : workers[u].nonce \in Nat
      BY DispatchAssumption DEF IndInv, TypeOK, Worker
    <3> QED
      BY <1>3, <2>3, <3>1, Zenon DEF IndInv, Below
  <2>6. ClaimsOk'
    BY <2>1, SameClaims, Zenon DEF IndInv, ClaimsOk
  <2>7. Unclaimed'
    <3> SUFFICES ASSUME NEW u \in Slot, workers'[u].phase \in {"allocated", "built"},
                        NEW i \in Batch
                 PROVE  ~Claim(i, workers[u].nonce)'
      BY Zenon DEF Unclaimed
    <3>1. workers'[u] = workers[u]
      BY <2>2, <2>3, Zenon
    <3> QED
      BY <2>1, <3>1, SameClaims, Zenon DEF IndInv, Unclaimed
  <2>8. Below'
    <3>1. ASSUME NEW i \in Batch, NEW n \in Nonce, Claim(i, n)' PROVE n < m
      <4>1. Claim(i, n) /\ n \in Nat
        BY <2>1, <3>1, SameClaims DEF Nonce
      <4>2. n # m
        BY <2>4, <4>1, Zenon DEF IndInv, Unclaimed
      <4> QED
        BY <1>1, <2>5, <4>1, <4>2
    <3>2. ASSUME NEW u \in Slot PROVE workers'[u].nonce < m
      <4>1. CASE u = s
        BY <1>1, <2>2, <2>3, <4>1, DispatchAssumption DEF Nonce
      <4>2. CASE u # s
        <5>1. workers[u].nonce # m
          BY <1>1, <4>2 DEF IndInv, NoncesDistinct, Nonce
        <5> QED
          BY <1>1, <2>3, <2>5, <4>2, <5>1
      <4> QED
        BY <4>1, <4>2, Zenon
    <3>3. next' = m /\ m # 0
      BY <1>1, <1>3 DEF Nonce
    <3> QED
      BY <3>1, <3>2, <3>3, Zenon DEF Below
  <2>9. NoncesDistinct'
    BY <2>2, <2>3, Zenon DEF IndInv, NoncesDistinct
  <2> QED
    BY <2>3, <2>6, <2>7, <2>8, <2>9, Zenon DEF IndInv
<1> QED
  BY <1>2, <1>3, Zenon DEF release

\* A worker goes on with the nonce it has; what it sends is not a first
\* broadcast.
LEMMA GoOnStep ==
    ASSUME IndInv, NEW s \in Slot, workers[s].phase # "free",
           NEW w \in Worker, w.phase # "free", GoesOn(w, workers[s]), WorkerStep(s, w),
           w.phase \in {"loop", "bumping"} => workers[s].nonce # 0,
           w.phase \in {"allocated", "built"} => workers[s].phase \in {"allocated", "built"},
           pool' \subseteq OwnTx, UNCHANGED <<next, doneQ>>,
           \/ UNCHANGED bumpQ
           \/ \E e \in Bump : ~e.initial /\ bumpQ' = Append(bumpQ, e)
    PROVE  IndInv'
<1>1. /\ bumpQ \in Seq(Bump) /\ next \in 0..MaxNonce + 1 /\ rows' = rows
      /\ WorkerOk(workers[s]) /\ workers[s].batch \in Batch /\ next \in Nat
  BY WorkerFacts, DispatchAssumption DEF IndInv, TypeOK, WorkersOk, WorkerStep, loopVars
<1>2. WorkerOk(w)
  BY <1>1, TxFacts, Zenon DEF WorkerOk, GoesOn
<1>3. bumpQ' \in Seq(Bump)
  BY <1>1
<1>4. ASSUME NEW i \in Batch, NEW n \in Nonce, Claim(i, n)' PROVE Claim(i, n)
  <2>1. CASE Own(rows, i)' /\ rows'[i].nonce = n
    BY <1>1, <2>1, Zenon DEF Claim, Own, Dispatched
  <2>2. ASSUME NEW k \in DOMAIN bumpQ', bumpQ'[k].initial, bumpQ'[k].batch = i,
               bumpQ'[k].tx.nonce = n
        PROVE  Claim(i, n)
    <3>1. k \in DOMAIN bumpQ /\ bumpQ'[k] = bumpQ[k]
      BY <1>1, <2>2
    <3> QED
      BY <2>2, <3>1, Zenon DEF Claim
  <2> QED
    BY <1>4, <2>1, <2>2, Zenon DEF Claim
<1>5. next <= next' /\ next' \in 0..MaxNonce + 1
  BY <1>1
<1>6. /\ w.batch = workers[s].batch /\ w.nonce \in {0, workers[s].nonce}
      /\ w.phase \in {"allocated", "built"} =>
           workers[s].phase \in {"allocated", "built"} /\ w.nonce = workers[s].nonce
  BY Zenon DEF GoesOn
<1> QED
  BY <1>2, <1>3, <1>4, <1>5, <1>6, KeepStep, Zenon

\* A fresh nonce is above every nonce held or claimed.
LEMMA AllocateStep ==
    ASSUME IndInv, NEW s \in Slot, allocate(s)
    PROVE  IndInv'
<1> DEFINE w == [workers[s] EXCEPT !.phase = "allocated", !.nonce = next, !.fee = 1]
<1>0. /\ workers[s].phase = "ready" /\ ~workers[s].resume /\ next <= MaxNonce /\ next' = next + 1
      /\ WorkerStep(s, w) /\ UNCHANGED <<pool, doneQ, bumpQ>>
  BY Zenon DEF allocate
<1>1. /\ workers[s] \in Worker /\ process = "up" /\ workers[s].batch \in Batch
      /\ pool \subseteq OwnTx /\ bumpQ \in Seq(Bump) /\ next \in Nat
  BY <1>0, WorkerFacts, DispatchAssumption DEF IndInv, TypeOK
<1>2. /\ next # 0 /\ \A u \in Slot : workers[u].nonce < next
      /\ \A i \in Batch, n \in Nonce : Claim(i, n) => n < next
  BY <1>1, Zenon DEF IndInv, Below
<1>3. /\ next \in 0..MaxNonce /\ next \in Nonce /\ next' \in 0..MaxNonce + 1
      /\ 1 \in 0..MaxFee /\ "allocated" \in Phase
  BY <1>0, <1>1, <1>2, DispatchAssumption DEF Nonce, Phase
<1> HIDE DEF w
<1>4. /\ w \in Worker /\ w.phase = "allocated" /\ w.nonce = next
      /\ w.batch = workers[s].batch /\ w.resume = workers[s].resume
  <2>1. w = [workers[s] EXCEPT !.phase = "allocated", !.nonce = next, !.fee = 1]
    BY Zenon DEF w
  <2> QED
    BY <1>1, <1>3, <2>1, Zenon DEF Worker, Phase
<1>5. WorkerOk(w)
  BY <1>1, <1>2, <1>4, TxFacts, Zenon DEF WorkerOk
<1>6. /\ process' = "up" /\ rows' = rows
      /\ workers'[s] = w /\ \A u \in Slot : u # s => workers'[u] = workers[u]
      /\ TypeOK' /\ TickerOk' /\ WorkersOk' /\ ChainOk' /\ DownOk' /\ GateIsOwned'
  BY <1>0, <1>1, <1>3, <1>4, <1>5, WorkerFrame, Zenon
<1>7. ClaimsOk'
  BY <1>0, <1>6, SameClaims, Zenon DEF IndInv, ClaimsOk
<1>8. Unclaimed'
  <2> SUFFICES ASSUME NEW u \in Slot, workers'[u].phase \in {"allocated", "built"}, NEW i \in Batch,
                      Claim(i, workers[u].nonce)'
               PROVE  FALSE
    BY Zenon DEF Unclaimed
  <2>1. CASE u = s
    <3>1. Claim(i, next)
      BY <1>0, <1>4, <1>6, <2>1, SameClaims, Zenon
    <3> QED
      BY <1>1, <1>2, <1>3, <3>1
  <2>2. CASE u # s
    <3>1. Claim(i, workers[u].nonce) /\ workers[u].phase \in {"allocated", "built"}
      BY <1>0, <1>6, <2>2, SameClaims, Zenon
    <3> QED
      BY <3>1, Zenon DEF IndInv, Unclaimed
  <2> QED
    BY <2>1, <2>2, Zenon
<1>9. Below'
  <2>1. \A i \in Batch, n \in Nonce : Claim(i, n)' => n < next'
    <3> SUFFICES ASSUME NEW i \in Batch, NEW n \in Nonce, Claim(i, n)' PROVE n < next'
      OBVIOUS
    <3>1. n < next /\ n \in Nat
      BY <1>0, <1>2, <1>6, SameClaims DEF Nonce
    <3> QED
      BY <1>0, <1>1, <3>1
  <2>2. \A u \in Slot : workers[u].nonce \in Nat
    BY DispatchAssumption DEF IndInv, TypeOK, Worker
  <2>3. \A u \in Slot : workers'[u].nonce < next'
    BY <1>0, <1>1, <1>2, <1>4, <1>6, <2>2
  <2>4. next' # 0
    BY <1>0, <1>1
  <2> QED
    BY <2>1, <2>3, <2>4, Zenon DEF Below
<1>10. NoncesDistinct'
  <2>1. \A u \in Slot : workers[u].nonce \in Nat
    BY DispatchAssumption DEF IndInv, TypeOK, Worker
  <2>2. \A u \in Slot : workers[u].nonce # next
    BY <1>1, <1>2, <2>1
  <2> QED
    BY <1>4, <1>6, <2>2 DEF IndInv, NoncesDistinct
<1> QED
  BY <1>6, <1>7, <1>8, <1>9, <1>10, Zenon DEF IndInv

\* The transaction a worker sends.
LEMMA TxOfFacts ==
    ASSUME NEW w, w.batch \in Batch, w.nonce \in Nonce, NEW f \in Fee
    PROVE  /\ TxOf(w, f) \in OwnTx /\ TxOf(w, f).nonce = w.nonce /\ TxOf(w, f).batch = w.batch
           /\ TxOf(w, f).fee = f
BY Zenon DEF TxOf, OwnTx

\* The first broadcast claims the nonce, which no batch had.
LEMMA InitialStep ==
    ASSUME IndInv, NEW s \in Slot, broadcast_initial(s)
    PROVE  IndInv'
<1> DEFINE t == TxOf(workers[s], 1)
           w == [workers[s] EXCEPT !.phase = "loop", !.tx = t, !.fee = t.fee]
           e == [batch |-> t.batch, tx |-> t, initial |-> TRUE]
<1>0. /\ workers[s].phase = "built" /\ pool' = pool \cup {t} /\ WorkerStep(s, w)
      /\ bumpQ' = Append(bumpQ, e) /\ UNCHANGED <<next, doneQ>>
  BY Zenon DEF broadcast_initial, Broadcast
<1>1. /\ workers[s] \in Worker /\ process = "up" /\ workers[s].batch \in Batch
      /\ workers[s].nonce \in Nonce
      /\ pool \subseteq OwnTx /\ bumpQ \in Seq(Bump) /\ next \in 0..MaxNonce + 1
  BY <1>0, WorkerFacts, Zenon DEF IndInv, TypeOK
<1>2. 1 \in Fee
  BY DispatchAssumption DEF Fee
<1>3. t \in OwnTx /\ t.nonce = workers[s].nonce /\ t.batch = workers[s].batch
  BY <1>1, <1>2, TxOfFacts, Zenon
<1> HIDE DEF t
<1>4. t \in TxOrNone /\ t.fee \in 0..MaxFee /\ "loop" \in Phase /\ workers[s].nonce \in 0..MaxNonce
  BY <1>1, <1>3, TxFacts, Zenon DEF Phase, Nonce
<1>5. w \in Worker /\ w.phase = "loop" /\ GoesOn(w, workers[s])
  <2> HIDE DEF w
  <2>1. w = [workers[s] EXCEPT !.phase = "loop", !.tx = t, !.fee = t.fee]
    BY Zenon DEF w
  <2> QED
    BY <1>1, <1>4, <2>1, Zenon DEF Worker, Phase, GoesOn
<1>6. /\ e \in Bump /\ e.batch = workers[s].batch /\ e.tx.nonce = workers[s].nonce
  BY <1>1, <1>3, Zenon DEF Bump
<1> HIDE DEF w, e
<1>7. WorkerOk(w)
  BY <1>1, <1>5, TxFacts, DispatchAssumption DEF WorkerOk, GoesOn, Nonce
<1>8. /\ process' = "up" /\ rows' = rows
      /\ workers'[s] = w /\ \A u \in Slot : u # s => workers'[u] = workers[u]
      /\ TypeOK' /\ TickerOk' /\ WorkersOk' /\ ChainOk' /\ DownOk' /\ GateIsOwned'
  <2>1. pool' \subseteq OwnTx /\ bumpQ' \in Seq(Bump) /\ next' \in 0..MaxNonce + 1
    BY <1>0, <1>1, <1>3, <1>6
  <2> QED
    BY <1>0, <1>5, <1>7, <2>1, WorkerFrame, Zenon DEF GoesOn
<1>9. ASSUME NEW i \in Batch, NEW n \in Nonce, Claim(i, n)'
      PROVE  Claim(i, n) \/ (i = workers[s].batch /\ n = workers[s].nonce)
  <2>1. CASE Own(rows, i)' /\ rows'[i].nonce = n
    BY <1>8, <2>1, Zenon DEF Claim, Own, Dispatched
  <2>2. ASSUME NEW k \in DOMAIN bumpQ', bumpQ'[k].initial, bumpQ'[k].batch = i,
               bumpQ'[k].tx.nonce = n
        PROVE  Claim(i, n) \/ (i = workers[s].batch /\ n = workers[s].nonce)
    <3>1. bumpQ'[k] = e \/ (k \in DOMAIN bumpQ /\ bumpQ'[k] = bumpQ[k])
      BY <1>0, <1>1, <1>6, <2>2
    <3> QED
      BY <1>6, <2>2, <3>1, Zenon DEF Claim
  <2> QED
    BY <1>9, <2>1, <2>2, Zenon DEF Claim
<1>10. \A i \in Batch : ~Claim(i, workers[s].nonce)
  BY <1>0, Zenon DEF IndInv, Unclaimed
<1>11. ClaimsOk'
  BY <1>9, <1>10, Zenon DEF IndInv, ClaimsOk
<1>12. Unclaimed'
  <2> SUFFICES ASSUME NEW u \in Slot, workers'[u].phase \in {"allocated", "built"}, NEW i \in Batch,
                      Claim(i, workers[u].nonce)'
               PROVE  FALSE
    BY Zenon DEF Unclaimed
  <2>1. u # s /\ workers'[u] = workers[u]
    BY <1>5, <1>8, Zenon
  <2>2. workers[u].nonce \in Nonce
    BY <2>1, WorkerFacts, Zenon
  <2>3. workers[u].nonce # workers[s].nonce
    BY <1>1, <2>1 DEF IndInv, NoncesDistinct, Nonce
  <2>4. Claim(i, workers[u].nonce)
    BY <1>9, <2>1, <2>2, <2>3, Zenon
  <2> QED
    BY <2>1, <2>4, Zenon DEF IndInv, Unclaimed
<1>13. Below'
  <2>1. /\ next' = next /\ next # 0 /\ \A u \in Slot : workers[u].nonce < next
        /\ \A i \in Batch, n \in Nonce : Claim(i, n) => n < next
    BY <1>0, <1>1, Zenon DEF IndInv, Below
  <2>2. \A u \in Slot : workers'[u].nonce < next'
    BY <1>5, <1>8, <2>1, Zenon DEF GoesOn
  <2> QED
    BY <1>9, <2>1, <2>2, Zenon DEF Below
<1>14. NoncesDistinct'
  BY <1>5, <1>8 DEF IndInv, NoncesDistinct, GoesOn
<1> QED
  BY <1>8, <1>11, <1>12, <1>13, <1>14, Zenon DEF IndInv

\* Steps in which a worker ends.
LEMMA EndSteps ==
    ASSUME IndInv, NEW s \in Slot,
           \/ preflight_preconfirmed(s) \/ preflight_fails(s) \/ task_panics(s)
           \/ build_preconfirm_tx_fails(s) \/ broadcast_initial_fails(s)
           \/ broadcast_initial_too_low(s) \/ poll_receipt(s) \/ stuck_at_cap(s)
           \/ bump_too_low(s)
    PROVE  IndInv'
<1>0. /\ pool \subseteq OwnTx /\ chain \subseteq TxOrNone /\ okay \subseteq chain
      /\ next \in 0..MaxNonce + 1 /\ next \in Nat /\ NoTx \in TxOrNone
      /\ workers[s] \in Worker /\ WorkerOk(workers[s])
  BY TxFacts, DispatchAssumption DEF IndInv, TypeOK, WorkersOk
<1>1. ASSUME workers[s].phase # "free",
             NEW kind \in {"submitted", "oog", "logic", "already", "failed"}, NEW t \in TxOrNone,
             Finish(s, kind, t), UNCHANGED <<pool, next, bumpQ>>
      PROVE  IndInv'
  <2>1. pool' \subseteq OwnTx /\ bumpQ' = bumpQ /\ next' \in 0..MaxNonce + 1 /\ next <= next'
    BY <1>0, <1>1
  <2> QED
    BY <1>1, <2>1, FinishStep, Zenon
<1>2. ASSUME preflight_preconfirmed(s) PROVE IndInv'
  <2>1. PICK t \in Preconfirming(workers[s].batch) :
               IF t \in final THEN Finish(s, "already", t) ELSE Finish(s, "failed", NoTx)
    BY <1>2, Zenon DEF preflight_preconfirmed
  <2>2. t \in TxOrNone
    BY <1>0, Zenon DEF Preconfirming
  <2>3. workers[s].phase # "free" /\ UNCHANGED <<pool, next, bumpQ>>
    BY <1>2, Zenon DEF preflight_preconfirmed
  <2> QED
    BY <1>0, <1>1, <2>1, <2>2, <2>3, Zenon
<1>3. ASSUME preflight_fails(s) PROVE IndInv'
  <2>1. workers[s].phase # "free" /\ Finish(s, "failed", NoTx) /\ UNCHANGED <<pool, next, bumpQ>>
    BY <1>3, Zenon DEF preflight_fails
  <2> QED
    BY <1>0, <1>1, <2>1, Zenon
<1>4. ASSUME task_panics(s) PROVE IndInv'
  <2>1. workers[s].phase # "free" /\ Finish(s, "failed", NoTx) /\ UNCHANGED <<pool, next, bumpQ>>
    BY <1>0, <1>4, Zenon DEF task_panics, WorkerOk
  <2> QED
    BY <1>0, <1>1, <2>1, Zenon
<1>5. ASSUME build_preconfirm_tx_fails(s) PROVE IndInv'
  <2>1. /\ HasNonce(workers[s]) /\ Finish(s, "failed", NoTx) /\ release(workers[s])
        /\ pool' = pool /\ bumpQ' = bumpQ
    BY <1>5, Zenon DEF build_preconfirm_tx_fails
  <2> QED
    BY <1>0, <2>1, ReleaseStep, Zenon
<1>6. ASSUME broadcast_initial_fails(s) PROVE IndInv'
  <2> DEFINE t == TxOf(workers[s], 1)
  <2>1. /\ workers[s].phase = "built" /\ Finish(s, "failed", NoTx) /\ release(workers[s])
        /\ bumpQ' = bumpQ /\ BroadcastLost(t)
    BY <1>6, Zenon DEF broadcast_initial_fails
  <2>2. workers[s].batch \in Batch /\ workers[s].nonce \in Nonce /\ 1 \in Fee
    BY <2>1, WorkerFacts, DispatchAssumption DEF Fee
  <2>3. t \in OwnTx
    BY <2>2, TxOfFacts, Zenon
  <2> HIDE DEF t
  <2>4. pool' \subseteq OwnTx
    BY <1>0, <2>1, <2>3, Zenon DEF BroadcastLost
  <2> QED
    BY <2>1, <2>4, ReleaseStep, Zenon
<1>7. ASSUME broadcast_initial_too_low(s) PROVE IndInv'
  <2>1. /\ workers[s].phase = "built" /\ Finish(s, "failed", NoTx)
        /\ pool' = pool /\ bumpQ' = bumpQ
    BY <1>7, Zenon DEF broadcast_initial_too_low
  <2>2. PICK n \in RpcPending : next' = Max({n, next})
    BY <1>7, Zenon DEF broadcast_initial_too_low
  <2>3. n \in 1..MaxNonce + 1 /\ n \in Nat
    BY <1>0, PendingFacts, DispatchAssumption
  <2>4. next' \in {n, next} /\ next <= next'
    BY <1>0, <2>2, <2>3, MaxOfTwo, Zenon
  <2>5. next' \in 0..MaxNonce + 1
    BY <1>0, <2>3, <2>4
  <2> QED
    BY <1>0, <2>1, <2>4, <2>5, FinishStep, Zenon
<1>8. ASSUME workers[s].phase # "free", Landed(s) PROVE IndInv'
  <2>1. /\ workers[s].tx \in TxOrNone /\ UNCHANGED <<pool, next, bumpQ>>
        /\ \E kind \in {"submitted", "oog", "logic"} : Finish(s, kind, workers[s].tx)
    BY <1>0, <1>8, Zenon DEF Landed
  <2> QED
    BY <1>1, <1>8, <2>1, Zenon
<1>9. ASSUME poll_receipt(s) PROVE IndInv'
  BY <1>8, <1>9, Zenon DEF poll_receipt, Awake
<1>10. ASSUME stuck_at_cap(s) PROVE IndInv'
  <2>1. workers[s].phase # "free" /\ Finish(s, "failed", NoTx) /\ UNCHANGED <<pool, next, bumpQ>>
    BY <1>10, Zenon DEF stuck_at_cap
  <2> QED
    BY <1>0, <1>1, <2>1, Zenon
<1>11. ASSUME bump_too_low(s) PROVE IndInv'
  <2>1. /\ workers[s].phase # "free"
        /\ Landed(s) \/ (Finish(s, "failed", NoTx) /\ UNCHANGED <<pool, next, bumpQ>>)
    BY <1>11, Zenon DEF bump_too_low
  <2> QED
    BY <1>0, <1>1, <1>8, <2>1, Zenon
<1> QED
  BY <1>2, <1>3, <1>4, <1>5, <1>6, <1>7, <1>9, <1>10, <1>11, Zenon

\* Steps in which a worker goes on.
LEMMA GoOnSteps ==
    ASSUME IndInv, NEW s \in Slot,
           \/ preflight_submitted(s) \/ build_preconfirm_tx(s) \/ poll_none(s)
           \/ bump(s) \/ bump_fails(s)
    PROVE  IndInv'
<1>0. workers[s] \in Worker /\ pool \subseteq OwnTx
  BY Zenon DEF IndInv, TypeOK
<1>1. ASSUME workers[s].phase # "free", NEW p \in Phase, p # "free",
             p \in {"loop", "bumping"} => workers[s].nonce # 0,
             p \in {"allocated", "built"} => workers[s].phase \in {"allocated", "built"},
             WorkerStep(s, [workers[s] EXCEPT !.phase = p]), UNCHANGED <<pool, next, doneQ, bumpQ>>
      PROVE  IndInv'
  <2>1. PICK w : w = [workers[s] EXCEPT !.phase = p]
    BY Zenon
  <2>2. w \in Worker /\ w.phase = p /\ GoesOn(w, workers[s])
    BY <1>0, <1>1, <2>1, Zenon DEF Worker, Phase, GoesOn
  <2>3. WorkerStep(s, w) /\ pool' \subseteq OwnTx /\ UNCHANGED <<next, doneQ, bumpQ>>
    BY <1>0, <1>1, <2>1, Zenon
  <2> QED
    BY <1>1, <2>2, <2>3, GoOnStep, Zenon
<1>2. ASSUME preflight_submitted(s) PROVE IndInv'
  BY <1>1, <1>2, Zenon DEF preflight_submitted, Phase
<1>3. ASSUME build_preconfirm_tx(s) PROVE IndInv'
  <2> DEFINE p == IF workers[s].phase = "ready" THEN "loop" ELSE "built"
  <2>1. /\ HasNonce(workers[s]) /\ UNCHANGED <<pool, next, doneQ, bumpQ>>
        /\ WorkerStep(s, [workers[s] EXCEPT !.phase = p])
    BY <1>3, Zenon DEF build_preconfirm_tx
  <2>2. workers[s].phase # "free" /\ workers[s].nonce # 0
    BY <2>1, WorkerFacts, DispatchAssumption DEF HasNonce, Nonce
  <2>3. /\ p \in Phase /\ p # "free"
        /\ p \in {"allocated", "built"} => workers[s].phase \in {"allocated", "built"}
    BY <2>1, Zenon DEF HasNonce, Phase
  <2> HIDE DEF p
  <2> QED
    BY <1>1, <2>1, <2>2, <2>3, Zenon
<1>4. ASSUME poll_none(s) PROVE IndInv'
  <2>1. /\ workers[s].phase = "loop" /\ UNCHANGED <<pool, next, doneQ, bumpQ>>
        /\ WorkerStep(s, [workers[s] EXCEPT !.phase = "bumping"])
    BY <1>4, Zenon DEF poll_none, Awake
  <2>2. workers[s].nonce # 0
    BY <2>1, WorkerFacts, DispatchAssumption DEF Nonce
  <2> QED
    BY <1>1, <2>1, <2>2, Zenon DEF Phase
<1>5. ASSUME workers[s].phase = "bumping"
      PROVE  LET f == bump_fees(workers[s].fee)
             IN  /\ TxOf(workers[s], f) \in OwnTx /\ TxOf(workers[s], f) \in TxOrNone
                 /\ TxOf(workers[s], f).fee = f /\ f \in 0..MaxFee
                 /\ workers[s].nonce # 0 /\ TxOf(workers[s], f).batch \in Batch
  <2> DEFINE f == bump_fees(workers[s].fee)
  <2>1. /\ workers[s].fee \in 0..MaxFee /\ workers[s].batch \in Batch
        /\ workers[s].nonce \in Nonce
    BY <1>5, WorkerFacts, Zenon
  <2>2. f \in Fee
    BY <2>1, BumpFacts, Zenon
  <2> HIDE DEF f
  <2>3. /\ TxOf(workers[s], f) \in OwnTx /\ TxOf(workers[s], f).fee = f
        /\ TxOf(workers[s], f).batch \in Batch
    BY <2>1, <2>2, TxOfFacts, Zenon
  <2>4. f \in 0..MaxFee /\ workers[s].nonce # 0
    BY <2>1, <2>2, DispatchAssumption DEF Fee, Nonce
  <2> QED
    BY <2>3, <2>4, TxFacts, Zenon DEF f
<1>6. ASSUME bump(s) PROVE IndInv'
  <2> DEFINE f == bump_fees(workers[s].fee)
             t == TxOf(workers[s], f)
             e == [batch |-> t.batch, tx |-> t, initial |-> FALSE]
  <2>1. /\ workers[s].phase = "bumping" /\ pool' = pool \cup {t}
        /\ WorkerStep(s, [workers[s] EXCEPT !.phase = "loop", !.tx = t, !.fee = t.fee])
        /\ bumpQ' = Append(bumpQ, e) /\ UNCHANGED <<next, doneQ>>
    BY <1>6, Zenon DEF bump, Broadcast
  <2>2. t \in OwnTx /\ t \in TxOrNone /\ t.fee \in 0..MaxFee /\ workers[s].nonce # 0 /\ t.batch \in Batch
    BY <1>5, <2>1, Zenon
  <2> HIDE DEF f, t
  <2>3. PICK w : w = [workers[s] EXCEPT !.phase = "loop", !.tx = t, !.fee = t.fee]
    BY Zenon
  <2>4. w \in Worker /\ w.phase = "loop" /\ GoesOn(w, workers[s])
    BY <1>0, <2>2, <2>3, Zenon DEF Worker, GoesOn
  <2>5. e \in Bump /\ ~e.initial
    BY <2>2, Zenon DEF Bump
  <2> HIDE DEF e
  <2>6. WorkerStep(s, w) /\ pool' \subseteq OwnTx /\ UNCHANGED <<next, doneQ>>
    BY <1>0, <2>1, <2>2, <2>3, Zenon
  <2> QED
    BY <2>1, <2>2, <2>4, <2>5, <2>6, GoOnStep, Zenon
<1>7. ASSUME bump_fails(s) PROVE IndInv'
  <2> DEFINE f == bump_fees(workers[s].fee)
             t == TxOf(workers[s], f)
  <2>1. /\ workers[s].phase = "bumping" /\ BroadcastLost(t)
        /\ WorkerStep(s, [workers[s] EXCEPT !.phase = "loop", !.fee = f])
        /\ UNCHANGED <<next, doneQ, bumpQ>>
    BY <1>7, Zenon DEF bump_fails
  <2>2. t \in OwnTx /\ f \in 0..MaxFee /\ workers[s].nonce # 0
    BY <1>5, <2>1, Zenon
  <2> HIDE DEF f, t
  <2>3. PICK w : w = [workers[s] EXCEPT !.phase = "loop", !.fee = f]
    BY Zenon
  <2>4. w \in Worker /\ w.phase = "loop" /\ GoesOn(w, workers[s])
    BY <1>0, <2>2, <2>3, Zenon DEF Worker, GoesOn
  <2>5. WorkerStep(s, w) /\ pool' \subseteq OwnTx
    BY <1>0, <2>1, <2>2, <2>3, Zenon DEF BroadcastLost
  <2> QED
    BY <2>1, <2>2, <2>4, <2>5, GoOnStep, Zenon
<1> QED
  BY <1>2, <1>3, <1>4, <1>6, <1>7, Zenon

-----------------------------------------------------------------------------
(* Crash and restart.                                                      *)

\* The seed of the allocator is past the nonce of every own row.
LEMMA FloorFacts ==
    ASSUME NEW r \in [Batch -> Row]
    PROVE  /\ StoredFloor(r) \in 0..MaxNonce + 1
           /\ \A i \in Batch : Own(r, i) => r[i].nonce < StoredFloor(r)
<1> DEFINE S == {r[i].nonce + 1 : i \in {j \in Batch : Own(r, j)}} \cup {0}
<1>0. MaxNonce \in Nat /\ \A i \in Batch : r[i].nonce \in 0..MaxNonce
  BY DispatchAssumption, Zenon DEF Row
<1>1. S \in SUBSET Nat /\ S # {} /\ MaxNonce + 1 \in Nat /\ \A x \in S : x <= MaxNonce + 1
  BY <1>0
<1>2. \A i \in Batch : Own(r, i) => r[i].nonce + 1 \in S
  OBVIOUS
<1> HIDE DEF S
<1>3. Max(S) \in S /\ \A y \in S : y <= Max(S)
  BY <1>1, MaxFacts, Zenon
<1>4. StoredFloor(r) = Max(S)
  BY Zenon DEF StoredFloor, S
<1>5. StoredFloor(r) \in 0..MaxNonce + 1
  <2>1. Max(S) \in Nat /\ Max(S) <= MaxNonce + 1
    BY <1>1, <1>3, Zenon
  <2> QED
    BY <1>1, <1>4, <2>1
<1>6. ASSUME NEW i \in Batch, Own(r, i) PROVE r[i].nonce < StoredFloor(r)
  <2>1. r[i].nonce + 1 <= StoredFloor(r)
    BY <1>2, <1>3, <1>4, <1>6, Zenon
  <2> QED
    BY <1>0, <1>5, <2>1
<1> QED
  BY <1>5, <1>6, Zenon

\* A worker resumed from an own row.
LEMMA ResumeFacts ==
    ASSUME NEW r \in [Batch -> Row], NEW i \in Batch, Own(r, i)
    PROVE  /\ Resume(r, i) \in Worker /\ WorkerOk(Resume(r, i))
           /\ Resume(r, i).nonce = r[i].nonce /\ Resume(r, i).phase = "preflight"
<1>1. /\ r[i].tx \in TxOrNone /\ r[i].nonce \in 0..MaxNonce
  BY Zenon DEF Row
<1>2. r[i].tx.fee \in 0..MaxFee /\ r[i].nonce # 0 /\ i # 0
  BY <1>1, TxFacts, Zenon DEF Own
<1>3. Resume(r, i) \in Worker
  BY <1>1, <1>2, Zenon DEF Resume, Worker
<1>4. /\ Resume(r, i).nonce = r[i].nonce /\ Resume(r, i).phase = "preflight"
      /\ Resume(r, i).batch = i
  BY Zenon DEF Resume
<1> QED
  BY <1>2, <1>3, <1>4, Zenon DEF WorkerOk

\* The process is gone; the rows stay.
LEMMA CrashStep ==
    ASSUME IndInv, Crash
    PROVE  IndInv'
<1>1. /\ process' = "down" /\ gate' = 0 /\ backoff' = FALSE /\ keyCheck' = FALSE /\ next' = 0
      /\ workers' = [s \in Slot |-> Free] /\ doneQ' = <<>> /\ bumpQ' = <<>>
      /\ ticker' = IdleTicker /\ UNCHANGED <<rows, pool, chain, okay, final>>
  BY Zenon DEF Crash, l1Vars
<1>2. /\ workers' \in [Slot -> Worker] /\ \A s \in Slot : workers'[s] = Free
  BY <1>1, FreshFacts, Zenon
<1>3. TickerOk' /\ ticker'.phase = "idle" /\ ticker'.seen = {}
  BY <1>1, Zenon DEF TickerOk, IdleTicker
<1>4. TypeOK'
  <2>1. doneQ' \in Seq(Outcome) /\ bumpQ' \in Seq(Bump) /\ next' \in 0..MaxNonce + 1
    BY <1>1, DispatchAssumption
  <2>2. ticker'.phase \in {"idle", "spawned", "query", "done"} /\ ticker'.seen \subseteq Observation
    BY <1>3, Zenon
  <2> QED
    BY <1>1, <1>2, <2>1, <2>2, Zenon DEF IndInv, TypeOK
<1>5. WorkersOk' /\ ChainOk' /\ DownOk'
  BY <1>1, <1>2, FreshFacts, Zenon DEF IndInv, WorkersOk, ChainOk, DownOk
<1>6. \A i \in Batch, n \in Nonce : Claim(i, n)' => Claim(i, n)
  BY <1>1 DEF Claim
<1>7. ClaimsOk'
  BY <1>6, Zenon DEF IndInv, ClaimsOk
<1>8. Unclaimed' /\ NoncesDistinct'
  BY <1>2, FreshFacts, Zenon DEF Unclaimed, NoncesDistinct
<1>9. Below' /\ GateIsOwned'
  BY <1>1, Zenon DEF Below, GateIsOwned
<1> QED
  BY <1>3, <1>4, <1>5, <1>7, <1>8, <1>9, Zenon DEF IndInv

\* The rows after the check of a restart.
LEMMA RestartRows ==
    ASSUME rows \in [Batch -> Row], restart
    PROVE  rows' \in [Batch -> Row] /\ Fewer(rows', rows)
<1>1. PICK cs \in SUBSET dispatched_snapshot :
               rows' = apply_finalization_changes(rows, {ReceiptOf(c) : c \in cs})
  BY Zenon DEF restart
<1>2. {ReceiptOf(c) : c \in cs} \in SUBSET Observation
  <2>1. \A c \in cs : c \in Cand
    BY SnapshotFacts, Zenon
  <2> QED
    BY <2>1, ReceiptFacts, Zenon
<1> QED
  BY <1>1, <1>2, ApplyFacts, Zenon

\* The nonces are seeded past every own row, and each own row has its own.
LEMMA RestartStep ==
    ASSUME IndInv, restart
    PROVE  IndInv'
<1>0. /\ rows \in [Batch -> Row] /\ pool \subseteq OwnTx /\ chain \subseteq TxOrNone
      /\ process = "down" /\ bumpQ = <<>> /\ gate = 0
  BY Zenon DEF IndInv, TypeOK, DownOk, restart
<1>1. rows' \in [Batch -> Row] /\ Fewer(rows', rows)
  BY <1>0, RestartRows, Zenon
<1>2. PICK n \in RpcPending : next' = Max({n, StoredFloor(rows')})
  BY Zenon DEF restart
<1>3. /\ workers' = [s \in Slot |-> IF s \in Batch /\ Own(rows', s) THEN Resume(rows', s) ELSE Free]
      /\ process' = "up"
      /\ UNCHANGED <<gate, backoff, keyCheck, ticker, doneQ, bumpQ, pool, chain, okay, final>>
  BY Zenon DEF restart, l1Vars
<1>4. /\ StoredFloor(rows') \in 0..MaxNonce + 1
      /\ \A i \in Batch : Own(rows', i) => rows'[i].nonce < StoredFloor(rows')
  BY <1>1, FloorFacts, Zenon
<1>5. next' \in 0..MaxNonce + 1 /\ next' # 0 /\ StoredFloor(rows') <= next'
  <2>1. n \in 1..MaxNonce + 1 /\ n \in Nat /\ StoredFloor(rows') \in Nat
    BY <1>0, <1>4, PendingFacts, DispatchAssumption
  <2>2. next' \in {n, StoredFloor(rows')} /\ n <= next' /\ StoredFloor(rows') <= next'
    BY <1>2, <2>1, MaxOfTwo, Zenon
  <2> QED
    BY <1>4, <2>1, <2>2
<1>6. ASSUME NEW s \in Slot
      PROVE  /\ workers'[s] \in Worker /\ WorkerOk(workers'[s])
             /\ workers'[s].phase \in {"free", "preflight"}
             /\ \/ workers'[s].nonce = 0
                \/ s \in Batch /\ Own(rows', s) /\ workers'[s].nonce = rows'[s].nonce
  <2>1. CASE s \in Batch /\ Own(rows', s)
    <3>1. workers'[s] = Resume(rows', s)
      BY <1>3, <2>1, Zenon
    <3> QED
      BY <1>1, <2>1, <3>1, ResumeFacts, Zenon
  <2>2. CASE ~(s \in Batch /\ Own(rows', s))
    <3>1. workers'[s] = Free
      BY <1>3, <2>2, Zenon
    <3> QED
      BY <3>1, FreshFacts, Zenon
  <2> QED
    BY <2>1, <2>2, Zenon
<1>7. workers' \in [Slot -> Worker]
  BY <1>3, <1>6, Zenon
<1>8. TypeOK' /\ TickerOk'
  BY <1>1, <1>3, <1>5, <1>7, Zenon DEF IndInv, TypeOK, TickerOk
<1>9. WorkersOk' /\ ChainOk' /\ DownOk'
  BY <1>3, <1>6, Zenon DEF IndInv, WorkersOk, ChainOk, DownOk
<1>10. ASSUME NEW i \in Batch, NEW m \in Nonce, Claim(i, m)'
       PROVE  /\ Own(rows', i) /\ rows'[i].nonce = m
              /\ Claim(i, m)
  BY <1>0, <1>1, <1>3, <1>10 DEF Claim, Fewer, Own, Dispatched
<1>11. ClaimsOk'
  BY <1>10, Zenon DEF IndInv, ClaimsOk
<1>12. Unclaimed'
  BY <1>6, Zenon DEF Unclaimed
<1>13. Below'
  <2>0. StoredFloor(rows') \in Nat /\ next' \in Nat
    BY <1>4, <1>5, DispatchAssumption
  <2>1. \A i \in Batch, m \in Nonce : Claim(i, m)' => m < next'
    <3> SUFFICES ASSUME NEW i \in Batch, NEW m \in Nonce, Claim(i, m)' PROVE m < next'
      OBVIOUS
    <3>1. m < StoredFloor(rows') /\ m \in Nat
      BY <1>4, <1>10 DEF Nonce
    <3> QED
      BY <1>5, <2>0, <3>1
  <2>2. ASSUME NEW s \in Slot PROVE workers'[s].nonce < next'
    <3>0. workers'[s].nonce \in Nat
      BY <1>6, DispatchAssumption DEF Worker
    <3>1. workers'[s].nonce = 0 \/ workers'[s].nonce < StoredFloor(rows')
      BY <1>4, <1>6, Zenon
    <3> QED
      BY <1>5, <2>0, <3>0, <3>1
  <2> QED
    BY <1>5, <2>1, <2>2, Zenon DEF Below
<1>14. NoncesDistinct'
  <2> SUFFICES ASSUME NEW s \in Slot, NEW u \in Slot, workers'[s].nonce # 0,
                      workers'[s].nonce = workers'[u].nonce
               PROVE  s = u
    BY Zenon DEF NoncesDistinct
  <2>1. /\ s \in Batch /\ Own(rows', s) /\ u \in Batch /\ Own(rows', u)
        /\ rows'[s].nonce = rows'[u].nonce /\ rows'[s].nonce \in Nonce
    BY <1>1, <1>6, DispatchAssumption DEF Row, Own, Nonce
  <2>2. Claim(s, rows'[s].nonce) /\ Claim(u, rows'[s].nonce)
    BY <1>1, <2>1, Zenon DEF Fewer, Claim
  <2> QED
    BY <2>1, <2>2, Zenon DEF IndInv, ClaimsOk
<1>15. GateIsOwned'
  BY <1>0, <1>3, Zenon DEF GateIsOwned
<1> QED
  BY <1>8, <1>9, <1>11, <1>12, <1>13, <1>14, <1>15, Zenon DEF IndInv

-----------------------------------------------------------------------------
(* The invariant.                                                          *)

\* Nothing is dispatched yet.
LEMMA InitInv == Init => IndInv
<1> SUFFICES ASSUME Init PROVE IndInv
  OBVIOUS
<1>1. /\ pool = {} /\ chain = {} /\ okay = {} /\ final = {} /\ rows = [i \in Batch |-> NewRow]
      /\ process = "up" /\ gate = 0 /\ backoff = FALSE /\ keyCheck = FALSE /\ next = 1
      /\ workers = [s \in Slot |-> Free] /\ doneQ = <<>> /\ bumpQ = <<>> /\ ticker = IdleTicker
  BY Zenon DEF Init
<1>2. workers \in [Slot -> Worker] /\ \A s \in Slot : workers[s] = Free
  BY <1>1, FreshFacts, Zenon
<1>3. TickerOk /\ ticker.phase = "idle" /\ ticker.seen = {}
  BY <1>1, Zenon DEF TickerOk, IdleTicker
<1>4. /\ rows \in [Batch -> Row] /\ \A i \in Batch : rows[i].st = "unsigned"
  BY <1>1, RowFacts, Zenon
<1>5. TypeOK
  <2>1. doneQ \in Seq(Outcome) /\ bumpQ \in Seq(Bump) /\ next \in 0..MaxNonce + 1
    BY <1>1, DispatchAssumption
  <2>2. ticker.phase \in {"idle", "spawned", "query", "done"} /\ ticker.seen \subseteq Observation
    BY <1>3, Zenon
  <2> QED
    BY <1>1, <1>2, <1>4, <2>1, <2>2, Zenon DEF TypeOK
<1>6. WorkersOk /\ ChainOk /\ DownOk
  BY <1>1, <1>2, FreshFacts, Zenon DEF WorkersOk, ChainOk, DownOk
<1>7. \A i \in Batch, n \in Nonce : ~Claim(i, n)
  BY <1>1, <1>4 DEF Claim, Own, Dispatched
<1>8. ClaimsOk /\ Unclaimed /\ NoncesDistinct /\ GateIsOwned
  BY <1>1, <1>2, <1>7, FreshFacts, Zenon DEF ClaimsOk, Unclaimed, NoncesDistinct, GateIsOwned
<1>9. Below
  BY <1>1, <1>2, <1>7, FreshFacts DEF Below
<1> QED
  BY <1>3, <1>5, <1>6, <1>8, <1>9, Zenon DEF IndInv

\* No step that changes nothing breaks the invariant.
LEMMA StutterInv ==
    ASSUME IndInv, UNCHANGED vars
    PROVE  IndInv'
<1>1. /\ UNCHANGED <<rows, process, gate, next, workers, doneQ, bumpQ>>
      /\ UNCHANGED <<backoff, keyCheck, ticker, pool, chain, okay, final>>
  BY Zenon DEF vars, loopVars, l1Vars
<1>2. TickerOk' /\ ChainOk'
  BY <1>1, Zenon DEF IndInv, TickerOk, ChainOk
<1>3. /\ backoff' \in BOOLEAN /\ keyCheck' \in BOOLEAN
      /\ pool' \subseteq OwnTx /\ chain' \subseteq TxOrNone /\ okay' \subseteq chain'
      /\ final' \subseteq chain'
  BY <1>1, Zenon DEF IndInv, TypeOK
<1> QED
  BY <1>1, <1>2, <1>3, OutsideStep, Zenon

\* Every step keeps the invariant.
LEMMA NextInv == IndInv /\ [Next]_vars => IndInv'
<1> SUFFICES ASSUME IndInv, [Next]_vars PROVE IndInv'
  OBVIOUS
<1>1. ASSUME NEW s \in Slot, WorkerNext(s) PROVE IndInv'
  BY <1>1, AllocateStep, InitialStep, EndSteps, GoOnSteps, Zenon DEF WorkerNext
<1>2. ASSUME NEW s \in Slot, preflight_fails(s) \/ task_panics(s) \/ stuck_at_cap(s) PROVE IndInv'
  BY <1>2, EndSteps, Zenon
<1>3. ASSUME TickerNext \/ check_finalized_batches_query_fail PROVE IndInv'
  BY <1>3, TickerTaskStep, QuietHandlers, Zenon DEF TickerNext
<1>4. CASE \/ \E t \in pool : Mine(t)
           \/ \E t \in chain : L1Finalize(t)
           \/ \E t \in chain : Reorg(t)
           \/ \E i \in Batch : ForeignPreconfirm(i)
  BY <1>4, L1Step, Zenon
<1>5. CASE \/ \E i \in Batch : on_sign_done(i)
           \/ \E i \in Batch : on_sign_done_invalid(i)
           \/ key_check_registered
           \/ \E t \in okay : on_l1_event_preconfirmed(t)
           \/ on_block_result \/ BackoffExpires \/ on_finalization_done
  BY <1>5, QuietHandlers, Zenon
<1>6. CASE on_dispatch_done \/ on_rbf_bump
  BY <1>6, DispatchDone, RbfBump, Zenon
<1>7. CASE Crash \/ restart
  BY <1>7, CrashStep, RestartStep, Zenon
<1>8. CASE UNCHANGED vars
  BY <1>8, StutterInv, Zenon
<1> QED
  BY <1>1, <1>2, <1>3, <1>4, <1>5, <1>6, <1>7, <1>8, Zenon DEF Next

\* The inductive invariant holds throughout.
THEOREM InductiveInvariant == Spec => []IndInv
<1> QED
  BY InitInv, NextInv, PTL DEF Spec

\* Rows, workers, channels and L1 keep their shape (the fields of the rows in
\* the accumulator; bump_fees; NonceAllocator).
THEOREM TypeCorrect == Spec => []TypeOK
<1>1. IndInv => TypeOK
  BY Zenon DEF IndInv
<1> QED
  BY <1>1, InductiveInvariant, PTL

\* No two live workers hold the same nonce: fresh ones take it from the
\* allocator, which a release, a resync and the seeding of a restart never put
\* at or below a nonce that is held or recorded.
THEOREM NoncesNeverShared == Spec => []NoncesDistinct
<1>1. IndInv => NoncesDistinct
  BY Zenon DEF IndInv
<1> QED
  BY <1>1, InductiveInvariant, PTL

\* The dispatch gate is never left set behind a worker that is gone: every end
\* of a worker reports, and only the report of the guarded batch clears it.
THEOREM GateNeverOrphaned == Spec => []GateIsOwned
<1>1. IndInv => GateIsOwned
  BY Zenon DEF IndInv
<1> QED
  BY <1>1, InductiveInvariant, PTL
-----------------------------------------------------------------------------
(* The rows that Dispatch cleans up and takes back, while L1 loses no      *)
(* block (MaxReorg = 0): the orchestrator treats a row whose block is not  *)
(* known yet as final, so a reorganisation may undo the block such a row   *)
(* was cleaned up for.                                                     *)

\* A row, a report and what the ticker saw name a transaction of their batch;
\* a receipt it saw is still what L1 says; no nonce is both mined and pending.
RowNames(r) == \A i \in Batch : Dispatched(r, i) => r[i].tx.batch = i
ChannelNames ==
    /\ \A k \in DOMAIN bumpQ : bumpQ[k].tx.batch = bumpQ[k].batch
    /\ \A k \in DOMAIN doneQ : doneQ[k].kind = "already" => doneQ[k].tx.batch = doneQ[k].batch
TodoNames == \A c \in ticker.todo : c.tx.batch = c.batch
Seen(o) == o.tx.batch = o.batch /\ o.tx \in chain /\ (o.ok <=> o.tx \in okay)
SeenOk == \A o \in ticker.seen : Seen(o)
PoolOk == \A t \in pool, u \in chain : t.nonce # u.nonce

HistoryInv ==
    /\ RowNames(rows) /\ ChannelNames /\ TodoNames /\ SeenOk /\ PoolOk
    /\ DoneMeansPreconfirmed /\ reorgs \in Nat

\* The rows r clean up no batch that the rows q did not.
NoneDone(r, q) == \A i \in Batch : r[i].st = "done" => q[i].st = "done"
-----------------------------------------------------------------------------
(* Rows.                                                                   *)

\* One row changes, and names a transaction of its batch.
LEMMA OneName ==
    ASSUME NEW r \in [Batch -> Row], RowNames(r), NEW i \in Batch, NEW x \in Row,
           x.st = "dispatched" => x.tx.batch = i, x.st # "done"
    PROVE  RowNames([r EXCEPT ![i] = x]) /\ NoneDone([r EXCEPT ![i] = x], r)
<1> DEFINE q == [r EXCEPT ![i] = x]
<1>1. q[i] = x /\ \A j \in Batch : j # i => q[j] = r[j]
  OBVIOUS
<1> HIDE DEF q
<1>2. RowNames(q) /\ NoneDone(q, r)
  BY <1>1, Zenon DEF RowNames, NoneDone, Dispatched
<1> QED
  BY <1>2, Zenon DEF q

\* What the operations on a row name.
LEMMA NameSteps ==
    ASSUME NEW r \in [Batch -> Row], RowNames(r), NEW i \in Batch, NEW t \in TxOrNone
    PROVE  /\ LET q == [r EXCEPT ![i].st = "signed"]
              IN  r[i].st = "unsigned" => RowNames(q) /\ NoneDone(q, r)
           /\ LET q == mark_dispatched_external(r, i, t)
              IN  t.batch = i => RowNames(q) /\ NoneDone(q, r)
           /\ LET q == mark_dispatched(r, i, t)
              IN  t.batch = i => RowNames(q) /\ NoneDone(q, r)
           /\ LET q == record_rbf_bump(r, i, t)
              IN  t.batch = i => RowNames(q) /\ NoneDone(q, r)
           /\ LET q == record_dispatched_l1_block(r, i, t)
              IN  RowNames(q) /\ NoneDone(q, r)
           /\ LET q == undispatch(r, i) IN RowNames(q) /\ NoneDone(q, r)
<1>0. RowNames(r) /\ NoneDone(r, r) /\ r[i] \in Row
  BY Zenon DEF NoneDone
<1>1. LET q == [r EXCEPT ![i].st = "signed"]
      IN  r[i].st = "unsigned" => RowNames(q) /\ NoneDone(q, r)
  <2> DEFINE x == [r[i] EXCEPT !.st = "signed"]
  <2>1. x \in Row /\ x.st = "signed"
    BY <1>0, Zenon DEF Row
  <2>2. [r EXCEPT ![i].st = "signed"] = [r EXCEPT ![i] = x]
    OBVIOUS
  <2> HIDE DEF x
  <2>3. x.st # "done" /\ x.st # "dispatched"
    BY <2>1, Zenon
  <2>4. RowNames([r EXCEPT ![i] = x]) /\ NoneDone([r EXCEPT ![i] = x], r)
    BY <1>0, <2>1, <2>3, OneName, Zenon
  <2> QED
    BY <2>2, <2>4, Zenon
<1>2. LET q == mark_dispatched_external(r, i, t)
      IN  t.batch = i => RowNames(q) /\ NoneDone(q, r)
  <2> DEFINE x == [st |-> "dispatched", tx |-> t, nonce |-> 0, l1 |-> t]
  <2>1. x \in Row /\ x.tx = t /\ x.st # "done"
    BY DispatchAssumption DEF Row
  <2> HIDE DEF x
  <2>2. t.batch = i => RowNames([r EXCEPT ![i] = x]) /\ NoneDone([r EXCEPT ![i] = x], r)
    BY <1>0, <2>1, OneName, Zenon
  <2> QED
    BY <1>0, <2>2, Zenon DEF x, mark_dispatched_external
<1>3. LET q == mark_dispatched(r, i, t)
      IN  t.batch = i => RowNames(q) /\ NoneDone(q, r)
  <2> DEFINE x == [st |-> "dispatched", tx |-> t, nonce |-> t.nonce, l1 |-> NoTx]
  <2>1. NoTx \in TxOrNone /\ t.nonce \in 0..MaxNonce
    BY TxFacts, Zenon
  <2>2. x \in Row /\ x.tx = t /\ x.st # "done"
    BY <2>1, Zenon DEF Row
  <2> HIDE DEF x
  <2>3. t.batch = i => RowNames([r EXCEPT ![i] = x]) /\ NoneDone([r EXCEPT ![i] = x], r)
    BY <1>0, <2>2, OneName, Zenon
  <2> QED
    BY <1>0, <2>3, Zenon DEF x, mark_dispatched
<1>4. LET q == record_rbf_bump(r, i, t)
      IN  t.batch = i => RowNames(q) /\ NoneDone(q, r)
  <2> DEFINE x == [r[i] EXCEPT !.tx = t]
  <2>1. x \in Row /\ x.tx = t /\ x.st = r[i].st
    BY <1>0, Zenon DEF Row
  <2>2. [r EXCEPT ![i].tx = t] = [r EXCEPT ![i] = x]
    OBVIOUS
  <2> HIDE DEF x
  <2>3. Dispatched(r, i) => x.st = "dispatched" /\ x.st # "done"
    BY <2>1, Zenon DEF Dispatched
  <2>4. t.batch = i /\ Dispatched(r, i) =>
           RowNames([r EXCEPT ![i] = x]) /\ NoneDone([r EXCEPT ![i] = x], r)
    BY <1>0, <2>1, <2>3, OneName, Zenon
  <2> QED
    BY <1>0, <2>2, <2>4, Zenon DEF record_rbf_bump
<1>5. LET q == record_dispatched_l1_block(r, i, t)
      IN  RowNames(q) /\ NoneDone(q, r)
  <2> DEFINE x == [r[i] EXCEPT !.l1 = t]
  <2>1. x \in Row /\ x.tx = r[i].tx /\ x.st = r[i].st
    BY <1>0, Zenon DEF Row
  <2>2. [r EXCEPT ![i].l1 = t] = [r EXCEPT ![i] = x]
    OBVIOUS
  <2> HIDE DEF x
  <2>3. Dispatched(r, i) => x.tx.batch = i /\ x.st # "done"
    BY <1>0, <2>1, Zenon DEF Dispatched, RowNames
  <2>4. Dispatched(r, i) => RowNames([r EXCEPT ![i] = x]) /\ NoneDone([r EXCEPT ![i] = x], r)
    BY <1>0, <2>1, <2>3, OneName, Zenon
  <2> QED
    BY <1>0, <2>2, <2>4, Zenon DEF record_dispatched_l1_block
<1>6. LET q == undispatch(r, i) IN RowNames(q) /\ NoneDone(q, r)
  <2> DEFINE x == [NewRow EXCEPT !.st = "signed"]
  <2>1. x \in Row /\ x.st # "dispatched" /\ x.st # "done"
    BY RowFacts, Zenon
  <2> HIDE DEF x
  <2>2. RowNames([r EXCEPT ![i] = x]) /\ NoneDone([r EXCEPT ![i] = x], r)
    BY <1>0, <2>1, OneName, Zenon
  <2> QED
    BY <1>0, <2>2, Zenon DEF x, undispatch
<1> QED
  BY <1>1, <1>2, <1>3, <1>4, <1>5, <1>6, Zenon

\* A batch is cleaned up for a receipt of one of its transactions that
\* succeeded, and taken back for one that did not, of the transaction in its
\* row.
LEMMA ApplyNames ==
    ASSUME NEW r \in [Batch -> Row], RowNames(r), NEW seen \in SUBSET Observation,
           \A o \in seen : Seen(o), NEW q, q = apply_finalization_changes(r, seen)
    PROVE  /\ RowNames(q)
           /\ \A i \in Batch : q[i].st = "done" => r[i].st = "done" \/ IsPreconfirmed(i)
           /\ \A i \in Batch : Own(r, i) /\ q[i].st = "signed" => r[i].tx \in chain \ okay
<1>1. ASSUME NEW i \in Batch
      PROVE  /\ Dispatched(q, i) => q[i].tx.batch = i
             /\ q[i].st = "done" => r[i].st = "done" \/ IsPreconfirmed(i)
             /\ Own(r, i) /\ q[i].st = "signed" => r[i].tx \in chain \ okay
  <2>1. CASE ~\E o \in seen : o.batch = i
    <3>1. q[i] = r[i]
      BY <2>1, Zenon DEF apply_finalization_changes
    <3> QED
      BY <3>1, Zenon DEF Own, Dispatched, RowNames
  <2>2. CASE \E o \in seen : o.batch = i
    <3> DEFINE o == CHOOSE o \in seen : o.batch = i
    <3>1. o \in seen /\ o.batch = i
      BY <2>2, Zenon
    <3>2. q[i] = Applied(r, o)[i]
      BY <2>2, Zenon DEF apply_finalization_changes
    <3> HIDE DEF o
    <3>3. o.tx.batch = i /\ o.tx \in chain /\ (o.ok <=> o.tx \in okay)
      BY <3>1, Zenon DEF Seen
    <3>4. CASE Dispatched(r, i) /\ o.ok
      <4>1. Applied(r, o) = [r EXCEPT ![i] = [NewRow EXCEPT !.st = "done"]]
        BY <3>1, <3>4, Zenon DEF Applied, finalize_dispatched
      <4>2. q[i].st = "done"
        BY <3>2, <4>1, RowFacts, Zenon
      <4>3. IsPreconfirmed(i)
        BY <3>3, <3>4, Zenon DEF IsPreconfirmed, Preconfirming
      <4> QED
        BY <4>2, <4>3, Zenon DEF Dispatched
    <3>5. CASE Own(r, i) /\ ~o.ok /\ r[i].tx = o.tx
      <4>1. Applied(r, o) = [r EXCEPT ![i] = [NewRow EXCEPT !.st = "signed"]]
        BY <3>1, <3>5, Zenon DEF Applied, undispatch
      <4>2. q[i].st = "signed"
        BY <3>2, <4>1, RowFacts, Zenon
      <4> QED
        BY <3>3, <3>5, <4>2, Zenon DEF Dispatched
    <3>6. CASE ~(Dispatched(r, i) /\ o.ok) /\ ~(Own(r, i) /\ ~o.ok /\ r[i].tx = o.tx)
      <4>1. Applied(r, o) = r
        BY <3>1, <3>6, Zenon DEF Applied, undispatch, finalize_dispatched
      <4>2. q[i] = r[i]
        BY <3>2, <4>1, Zenon
      <4> QED
        BY <4>2, Zenon DEF Own, Dispatched, RowNames
    <3> QED
      BY <3>4, <3>5, <3>6, Zenon
  <2> QED
    BY <2>1, <2>2, Zenon
<1> QED
  BY <1>1, Zenon DEF RowNames
-----------------------------------------------------------------------------
(* Steps.                                                                  *)

\* What L1 does not lose stays preconfirmed.
LEMMA StillPreconfirmed ==
    ASSUME okay \subseteq okay', NEW i, IsPreconfirmed(i)
    PROVE  IsPreconfirmed(i)'
BY Zenon DEF IsPreconfirmed, Preconfirming

\* A channel that is read names what it named.
LEMMA TailNames ==
    ASSUME NEW q \in Seq(Bump), NEW d \in Seq(Outcome),
           bumpQ = q, doneQ = d, ChannelNames,
           bumpQ' = q \/ (q # <<>> /\ bumpQ' = Tail(q)),
           doneQ' = d \/ (d # <<>> /\ doneQ' = Tail(d))
    PROVE  ChannelNames'
<1>1. ASSUME NEW k \in DOMAIN bumpQ' PROVE bumpQ'[k].tx.batch = bumpQ'[k].batch
  <2>1. \E m \in DOMAIN q : q[m] = bumpQ'[k]
    <3>1. CASE q # <<>> /\ bumpQ' = Tail(q)
      <4>1. k + 1 \in DOMAIN q /\ q[k + 1] = bumpQ'[k]
        BY <3>1
      <4> QED
        BY <4>1, Zenon
    <3> QED
      BY <3>1, Zenon
  <2> QED
    BY <2>1, Zenon DEF ChannelNames
<1>2. ASSUME NEW k \in DOMAIN doneQ', doneQ'[k].kind = "already"
      PROVE  doneQ'[k].tx.batch = doneQ'[k].batch
  <2>1. \E m \in DOMAIN d : d[m] = doneQ'[k]
    <3>1. CASE d # <<>> /\ doneQ' = Tail(d)
      <4>1. k + 1 \in DOMAIN d /\ d[k + 1] = doneQ'[k]
        BY <3>1
      <4> QED
        BY <4>1, Zenon
    <3> QED
      BY <3>1, Zenon
  <2> QED
    BY <1>2, <2>1, Zenon DEF ChannelNames
<1> QED
  BY <1>1, <1>2, Zenon DEF ChannelNames

\* A step of the main loop, whose rows are named and cleaned up for a
\* preconfirmation.
LEMMA LoopNames ==
    ASSUME IndInv, HistoryInv, RowNames(rows'),
           \A i \in Batch : rows'[i].st = "done" => rows[i].st = "done" \/ IsPreconfirmed(i),
           UNCHANGED <<pool, chain, okay, reorgs>>,
           ticker'.todo \subseteq ticker.todo, ticker'.seen \subseteq ticker.seen,
           bumpQ' = bumpQ \/ (bumpQ # <<>> /\ bumpQ' = Tail(bumpQ)),
           doneQ' = doneQ \/ (doneQ # <<>> /\ doneQ' = Tail(doneQ))
    PROVE  HistoryInv'
<1>1. bumpQ \in Seq(Bump) /\ doneQ \in Seq(Outcome)
  BY Zenon DEF IndInv, TypeOK
<1>2. ChannelNames'
  BY <1>1, TailNames, Zenon DEF HistoryInv
<1>3. TodoNames' /\ SeenOk' /\ PoolOk' /\ reorgs' \in Nat
  BY Zenon DEF HistoryInv, TodoNames, SeenOk, Seen, PoolOk
<1>4. DoneMeansPreconfirmed'
  BY StillPreconfirmed, Zenon DEF HistoryInv, DoneMeansPreconfirmed
<1> QED
  BY <1>2, <1>3, <1>4, Zenon DEF HistoryInv

\* A handler of the main loop that cleans up no batch.
LEMMA HandlerNames ==
    ASSUME IndInv, HistoryInv, NEW r, RowNames(r), NoneDone(r, rows), NEW b, NEW g,
           Handle(r, b, g) \/ NoDispatch(r, b, g), UNCHANGED ticker,
           bumpQ' = bumpQ \/ (bumpQ # <<>> /\ bumpQ' = Tail(bumpQ)),
           doneQ' = doneQ \/ (doneQ # <<>> /\ doneQ' = Tail(doneQ))
    PROVE  HistoryInv'
<1>1. rows' = r /\ UNCHANGED <<pool, chain, okay, reorgs>>
  BY Zenon DEF Handle, NoDispatch, l1Vars
<1>2. \A i \in Batch : rows'[i].st = "done" => rows[i].st = "done" \/ IsPreconfirmed(i)
  BY <1>1, Zenon DEF NoneDone
<1>3. ticker'.todo \subseteq ticker.todo /\ ticker'.seen \subseteq ticker.seen
  OBVIOUS
<1> QED
  BY <1>1, <1>2, <1>3, LoopNames, Zenon

\* The handlers of the main loop but the one of the ticker's result.
LEMMA HandlersKeep ==
    ASSUME IndInv, HistoryInv,
           \/ \E i \in Batch : on_sign_done(i)
           \/ \E i \in Batch : on_sign_done_invalid(i)
           \/ key_check_registered
           \/ \E t \in okay : on_l1_event_preconfirmed(t)
           \/ on_block_result \/ BackoffExpires \/ on_dispatch_done \/ on_rbf_bump
    PROVE  HistoryInv' /\ (ticker' = ticker)
<1>0. /\ rows \in [Batch -> Row] /\ RowNames(rows) /\ NoneDone(rows, rows) /\ NoTx \in TxOrNone
      /\ doneQ \in Seq(Outcome) /\ bumpQ \in Seq(Bump) /\ okay \subseteq TxOrNone
      /\ \A t \in okay : t.batch \in Batch
  BY TxFacts, Zenon DEF IndInv, TypeOK, HistoryInv, NoneDone, ChainOk
<1>1. ASSUME NEW i \in Batch, on_sign_done(i) PROVE HistoryInv'
  <2> DEFINE r == [rows EXCEPT ![i].st = "signed"]
  <2>1. RowNames(r) /\ NoneDone(r, rows)
    BY <1>0, <1>1, NameSteps, Zenon DEF on_sign_done
  <2>2. Handle(r, backoff, gate) /\ UNCHANGED <<doneQ, bumpQ, ticker>>
    BY <1>1, Zenon DEF on_sign_done
  <2> HIDE DEF r
  <2> QED
    BY <2>1, <2>2, HandlerNames, Zenon
<1>2. ASSUME UNCHANGED <<rows, pool, chain, okay, reorgs, ticker, bumpQ, doneQ>> PROVE HistoryInv'
  <2>1. ticker'.todo \subseteq ticker.todo /\ ticker'.seen \subseteq ticker.seen
    BY <1>2, Zenon
  <2> QED
    BY <1>0, <1>2, <2>1, LoopNames, Zenon
<1>3. ASSUME NEW i \in Batch, on_sign_done_invalid(i) PROVE HistoryInv'
  BY <1>2, <1>3, Zenon DEF on_sign_done_invalid, l1Vars
<1>4. ASSUME key_check_registered PROVE HistoryInv'
  BY <1>2, <1>4, Zenon DEF key_check_registered, l1Vars
<1>5. ASSUME NEW t \in okay, on_l1_event_preconfirmed(t) PROVE HistoryInv'
  <2> DEFINE r == mark_dispatched_external(rows, t.batch, t)
  <2>1. RowNames(r) /\ NoneDone(r, rows)
    BY <1>0, NameSteps, Zenon
  <2>2. Handle(r, FALSE, gate) /\ UNCHANGED <<doneQ, bumpQ, ticker>>
    BY <1>5, Zenon DEF on_l1_event_preconfirmed
  <2> HIDE DEF r
  <2> QED
    BY <2>1, <2>2, HandlerNames, Zenon
<1>6. ASSUME on_block_result PROVE HistoryInv'
  <2>1. Handle(rows, backoff, gate) /\ UNCHANGED <<doneQ, bumpQ, ticker>>
    BY <1>6, Zenon DEF on_block_result
  <2> QED
    BY <1>0, <2>1, HandlerNames, Zenon
<1>7. ASSUME BackoffExpires PROVE HistoryInv'
  BY <1>2, <1>7, Zenon DEF BackoffExpires, l1Vars
<1>8. ASSUME on_dispatch_done PROVE HistoryInv'
  <2> DEFINE h == Head(doneQ)
  <2>1. doneQ # <<>> /\ doneQ' = Tail(doneQ) /\ UNCHANGED <<bumpQ, ticker>>
    BY <1>8, Zenon DEF on_dispatch_done
  <2>2. h \in Outcome /\ h = doneQ[1] /\ 1 \in DOMAIN doneQ
    BY <1>0, <2>1
  <2>3. /\ h.batch \in Batch /\ h.tx \in TxOrNone
        /\ h.kind \in {"submitted", "already", "oog", "logic", "failed"}
    BY <2>2, Zenon DEF Outcome
  <2>4. h.kind = "already" => h.tx.batch = h.batch
    BY <2>2, Zenon DEF HistoryInv, ChannelNames
  <2>5. CASE h.kind = "submitted"
    <3>1. \E b, g : Handle(record_dispatched_l1_block(rows, h.batch, h.tx), b, g)
      BY <1>8, <2>5, Zenon DEF on_dispatch_done
    <3>2. PICK r : r = record_dispatched_l1_block(rows, h.batch, h.tx)
      BY Zenon
    <3>3. RowNames(r) /\ NoneDone(r, rows)
      BY <1>0, <2>3, <3>2, NameSteps, Zenon
    <3> QED
      BY <2>1, <3>1, <3>2, <3>3, HandlerNames, Zenon
  <2>6. CASE h.kind = "already"
    <3>1. \E b, g : Handle(mark_dispatched_external(rows, h.batch, h.tx), b, g)
      BY <1>8, <2>6, Zenon DEF on_dispatch_done
    <3>2. PICK r : r = mark_dispatched_external(rows, h.batch, h.tx)
      BY Zenon
    <3>3. RowNames(r) /\ NoneDone(r, rows)
      BY <1>0, <2>3, <2>4, <2>6, <3>2, NameSteps, Zenon
    <3> QED
      BY <2>1, <3>1, <3>2, <3>3, HandlerNames, Zenon
  <2>7. CASE h.kind \in {"oog", "logic", "failed"}
    <3>1. \E b, g : \/ Handle(undispatch(rows, h.batch), b, g)
                    \/ NoDispatch(undispatch(rows, h.batch), b, g)
      <4>1. CASE h.kind = "oog"
        BY <1>8, <4>1, Zenon DEF on_dispatch_done
      <4>2. CASE h.kind \in {"logic", "failed"}
        BY <1>8, <4>2, Zenon DEF on_dispatch_done
      <4> QED
        BY <2>7, <4>1, <4>2, Zenon
    <3>2. PICK r : r = undispatch(rows, h.batch)
      BY Zenon
    <3>3. RowNames(r) /\ NoneDone(r, rows)
      BY <1>0, <2>3, <3>2, NameSteps, Zenon
    <3> QED
      BY <2>1, <3>1, <3>2, <3>3, HandlerNames, Zenon
  <2> QED
    BY <2>3, <2>5, <2>6, <2>7, Zenon
<1>9. ASSUME on_rbf_bump PROVE HistoryInv'
  <2> DEFINE e == Head(bumpQ)
  <2>1. bumpQ # <<>> /\ bumpQ' = Tail(bumpQ) /\ UNCHANGED <<doneQ, ticker>>
    BY <1>9, Zenon DEF on_rbf_bump
  <2>2. e \in Bump /\ e = bumpQ[1] /\ 1 \in DOMAIN bumpQ
    BY <1>0, <2>1
  <2>3. e.batch \in Batch /\ e.tx \in TxOrNone
    BY <2>2, TxFacts, Zenon DEF Bump
  <2>4. e.tx.batch = e.batch
    BY <2>2, Zenon DEF HistoryInv, ChannelNames
  <2>5. PICK r \in {mark_dispatched(rows, e.batch, e.tx), record_rbf_bump(rows, e.batch, e.tx)} :
               \E b, g : NoDispatch(r, b, g)
    BY <1>9, Zenon DEF on_rbf_bump
  <2>6. RowNames(r) /\ NoneDone(r, rows)
    BY <1>0, <2>3, <2>4, <2>5, NameSteps, Zenon
  <2> QED
    BY <2>1, <2>5, <2>6, HandlerNames, Zenon
<1>10. UNCHANGED ticker
  BY Zenon DEF on_sign_done, on_sign_done_invalid, key_check_registered, on_l1_event_preconfirmed,
               on_block_result, BackoffExpires, on_dispatch_done, on_rbf_bump
<1> QED
  BY <1>1, <1>3, <1>4, <1>5, <1>6, <1>7, <1>8, <1>9, <1>10, Zenon

\* The ticker's result: rows are cleaned up or taken back for what it saw.
LEMMA FinalizationKeeps ==
    ASSUME IndInv, HistoryInv, on_finalization_done
    PROVE  HistoryInv' /\ TickerUndoStep
<1>0. /\ rows \in [Batch -> Row] /\ RowNames(rows) /\ ticker.seen \in SUBSET Observation
      /\ \A o \in ticker.seen : Seen(o)
  BY Zenon DEF IndInv, TypeOK, HistoryInv, SeenOk
<1>1. PICK q : q = apply_finalization_changes(rows, ticker.seen)
  BY Zenon
<1>2. /\ RowNames(q)
      /\ \A i \in Batch : q[i].st = "done" => rows[i].st = "done" \/ IsPreconfirmed(i)
      /\ \A i \in Batch : Own(rows, i) /\ q[i].st = "signed" => rows[i].tx \in chain \ okay
  BY <1>0, <1>1, ApplyNames, Zenon
<1>3. /\ \/ q = rows /\ NoDispatch(rows, backoff, gate)
         \/ \E b : Handle(q, b, gate)
      /\ ticker' = IdleTicker /\ UNCHANGED <<doneQ, bumpQ>>
  BY <1>1, Zenon DEF on_finalization_done
<1>4. rows' = q /\ UNCHANGED <<pool, chain, okay, reorgs>>
  BY <1>3, Zenon DEF Handle, NoDispatch, l1Vars
<1>5. ticker'.todo = {} /\ ticker'.seen = {}
  BY <1>3, Zenon DEF IdleTicker
<1>6. HistoryInv'
  BY <1>2, <1>3, <1>4, <1>5, LoopNames, Zenon
<1>7. TickerUndoStep
  BY <1>2, <1>4, Zenon DEF TickerUndoStep
<1> QED
  BY <1>6, <1>7, Zenon

\* The ticker's task: the receipts it reads are of rows it was given.
LEMMA TaskKeeps ==
    ASSUME IndInv, HistoryInv,
           \/ try_start_finalization
           \/ check_finalized_batches_query_head
           \/ check_finalized_batches_query_receipt
           \/ check_finalized_batches_query_fail
    PROVE  HistoryInv' /\ rows' = rows
<1>0. TickerOk /\ rows \in [Batch -> Row]
  BY Zenon DEF IndInv, TypeOK
<1>1. ASSUME UNCHANGED <<rows, pool, chain, okay, reorgs, bumpQ, doneQ>>, TodoNames',
             \A o \in ticker'.seen : Seen(o)
      PROVE  HistoryInv' /\ rows' = rows
  <2>1. SeenOk' /\ PoolOk' /\ ChannelNames' /\ RowNames(rows') /\ reorgs' \in Nat
    BY <1>1, Zenon DEF HistoryInv, SeenOk, Seen, PoolOk, ChannelNames
  <2>2. DoneMeansPreconfirmed'
    BY <1>1, StillPreconfirmed, Zenon DEF HistoryInv, DoneMeansPreconfirmed
  <2> QED
    BY <1>1, <2>1, <2>2, Zenon DEF HistoryInv
<1>2. /\ \A o \in ticker.seen : Seen(o)
      /\ \A c \in ticker.todo : c.tx.batch = c.batch /\ c \in Cand
  BY <1>0, Zenon DEF HistoryInv, SeenOk, TodoNames, TickerOk
<1>3. ASSUME try_start_finalization PROVE HistoryInv' /\ rows' = rows
  <2>1. /\ ticker'.todo = dispatched_snapshot /\ ticker'.seen = {}
        /\ UNCHANGED <<rows, pool, chain, okay, reorgs, bumpQ, doneQ>>
    BY <1>3, Zenon DEF try_start_finalization, l1Vars
  <2>2. \A c \in dispatched_snapshot : c.tx.batch = c.batch
    BY DEF HistoryInv, RowNames, dispatched_snapshot
  <2> QED
    BY <1>1, <2>1, <2>2, Zenon DEF TodoNames
<1>4. ASSUME NEW u, NEW f, TickerStep(u, f), u.todo \subseteq ticker.todo,
             \A o \in u.seen : Seen(o)
      PROVE  HistoryInv' /\ rows' = rows
  <2>1. ticker' = u /\ UNCHANGED <<rows, pool, chain, okay, reorgs, bumpQ, doneQ>>
    BY <1>4, Zenon DEF TickerStep, l1Vars
  <2> QED
    BY <1>1, <1>2, <1>4, <2>1, Zenon DEF TodoNames
<1>5. ASSUME check_finalized_batches_query_head PROVE HistoryInv' /\ rows' = rows
  <2> DEFINE cs == {c \in ticker.todo : Candidate(c)}
             p == IF cs = {} THEN "done" ELSE "query"
  <2>1. TickerStep([ticker EXCEPT !.phase = p, !.todo = cs], faults)
    BY <1>5, Zenon DEF check_finalized_batches_query_head
  <2>2. cs \subseteq ticker.todo
    OBVIOUS
  <2> HIDE DEF cs, p
  <2>3. PICK u : u = [ticker EXCEPT !.phase = p, !.todo = cs]
    BY Zenon
  <2>4. u.todo = cs /\ u.seen = ticker.seen
    BY <1>0, <2>3, Zenon DEF TickerOk
  <2> QED
    BY <1>2, <1>4, <2>1, <2>2, <2>3, <2>4, Zenon
<1>6. ASSUME check_finalized_batches_query_receipt PROVE HistoryInv' /\ rows' = rows
  <2>1. PICK c \in ticker.todo :
               LET rest == ticker.todo \ {c}
                   seen == IF c.tx \in chain THEN {ReceiptOf(c)} ELSE {}
               IN  TickerStep([phase |-> IF rest = {} THEN "done" ELSE "query",
                               todo |-> rest, seen |-> ticker.seen \cup seen], faults)
    BY <1>6, Zenon DEF check_finalized_batches_query_receipt
  <2> DEFINE seen == ticker.seen \cup (IF c.tx \in chain THEN {ReceiptOf(c)} ELSE {})
             u == [phase |-> IF ticker.todo \ {c} = {} THEN "done" ELSE "query",
                   todo |-> ticker.todo \ {c}, seen |-> seen]
  <2>2. TickerStep(u, faults)
    BY <2>1, Zenon
  <2>3. c.tx \in chain => Seen(ReceiptOf(c))
    BY <1>2, ReceiptFacts, Zenon DEF Seen
  <2>4. \A o \in seen : Seen(o)
    BY <1>2, <2>3, Zenon
  <2>5. u.seen = seen /\ u.todo \subseteq ticker.todo
    OBVIOUS
  <2> HIDE DEF u, seen
  <2> QED
    BY <1>4, <2>2, <2>4, <2>5, Zenon
<1>7. ASSUME check_finalized_batches_query_fail PROVE HistoryInv' /\ rows' = rows
  <2>1. CASE TickerStep([phase |-> "done", todo |-> {}, seen |-> {}], faults + 1)
    <3> DEFINE u == [phase |-> "done", todo |-> {}, seen |-> {}]
    <3>1. u.todo = {} /\ u.seen = {}
      OBVIOUS
    <3>2. TickerStep(u, faults + 1)
      BY <2>1, Zenon
    <3> HIDE DEF u
    <3> QED
      BY <1>4, <3>1, <3>2, Zenon
  <2>2. ASSUME NEW c \in ticker.todo, NEW p,
               TickerStep([ticker EXCEPT !.phase = p, !.todo = ticker.todo \ {c}], faults + 1)
        PROVE  HistoryInv' /\ rows' = rows
    <3>1. PICK u : u = [ticker EXCEPT !.phase = p, !.todo = ticker.todo \ {c}]
      BY Zenon
    <3>2. u.todo = ticker.todo \ {c} /\ u.seen = ticker.seen
      BY <1>0, <3>1, Zenon DEF TickerOk
    <3>3. TickerStep(u, faults + 1)
      BY <2>2, <3>1, Zenon
    <3> QED
      BY <1>2, <1>4, <3>2, <3>3, Zenon
  <2> QED
    BY <1>7, <2>1, <2>2, Zenon DEF check_finalized_batches_query_fail
<1> QED
  BY <1>3, <1>5, <1>6, <1>7, Zenon

\* L1 mines and finalizes, and loses nothing.
LEMMA L1Keeps ==
    ASSUME MaxReorg = 0, IndInv, HistoryInv,
           \/ \E t \in pool : Mine(t)
           \/ \E t \in chain : L1Finalize(t)
           \/ \E t \in chain : Reorg(t)
           \/ \E i \in Batch : ForeignPreconfirm(i)
    PROVE  HistoryInv' /\ ticker' = ticker
<1>0. /\ pool \subseteq OwnTx /\ okay \subseteq chain
  BY Zenon DEF IndInv, TypeOK
<1>1. ASSUME NEW t, t \notin chain, chain' = chain \cup {t}, okay' \in {okay, okay \cup {t}},
             PoolOk', UNCHANGED <<rows, reorgs, ticker, doneQ, bumpQ>>
      PROVE  HistoryInv' /\ ticker' = ticker
  <2>1. SeenOk'
    BY <1>0, <1>1 DEF HistoryInv, SeenOk, Seen
  <2>2. TodoNames' /\ ChannelNames' /\ RowNames(rows') /\ reorgs' \in Nat
    BY <1>1, Zenon DEF HistoryInv, TodoNames, ChannelNames
  <2>3. DoneMeansPreconfirmed'
    BY <1>1, StillPreconfirmed, Zenon DEF HistoryInv, DoneMeansPreconfirmed
  <2> QED
    BY <1>1, <2>1, <2>2, <2>3, Zenon DEF HistoryInv
<1>2. ASSUME NEW t \in pool, Mine(t) PROVE HistoryInv' /\ ticker' = ticker
  <2>1. /\ chain' = chain \cup {t} /\ okay' \in {okay, okay \cup {t}}
        /\ pool' = {u \in pool : u.nonce # t.nonce}
        /\ UNCHANGED <<rows, reorgs, ticker, doneQ, bumpQ>>
    BY <1>2, Zenon DEF Mine, loopVars
  <2>2. t \notin chain
    BY Zenon DEF HistoryInv, PoolOk
  <2>3. PoolOk'
    BY <2>1, Zenon DEF HistoryInv, PoolOk
  <2> QED
    BY <1>1, <2>1, <2>2, <2>3, Zenon
<1>3. ASSUME NEW t \in chain, L1Finalize(t) PROVE HistoryInv' /\ ticker' = ticker
  <2>1. UNCHANGED <<rows, pool, chain, okay, reorgs, ticker, doneQ, bumpQ>>
    BY <1>3, Zenon DEF L1Finalize, loopVars
  <2>2. ticker'.todo \subseteq ticker.todo /\ ticker'.seen \subseteq ticker.seen
    BY <2>1, Zenon
  <2>3. RowNames(rows')
    BY <2>1, Zenon DEF HistoryInv
  <2> QED
    BY <2>1, <2>2, <2>3, LoopNames, Zenon
<1>4. ASSUME NEW t \in chain, Reorg(t) PROVE FALSE
  BY <1>4 DEF Reorg, HistoryInv
<1>5. ASSUME NEW i \in Batch, ForeignPreconfirm(i) PROVE HistoryInv' /\ ticker' = ticker
  <2> DEFINE t == ForeignTx(i)
  <2>1. /\ t \notin chain /\ chain' = chain \cup {t} /\ okay' = okay \cup {t} /\ pool' = pool
        /\ UNCHANGED <<rows, reorgs, ticker, doneQ, bumpQ>>
    BY <1>5, Zenon DEF ForeignPreconfirm, loopVars
  <2>2. t.nonce = 0
    BY Zenon DEF ForeignTx
  <2> HIDE DEF t
  <2>3. \A u \in pool : u.nonce # 0
    BY <1>0, TxFacts DEF Nonce
  <2>4. PoolOk'
    BY <2>1, <2>2, <2>3, Zenon DEF HistoryInv, PoolOk
  <2> QED
    BY <1>1, <2>1, <2>4, Zenon
<1> QED
  BY <1>2, <1>3, <1>4, <1>5, Zenon

\* A step of a worker: what it broadcasts has a nonce that is not mined, and
\* what it reports names its batch.
LEMMA WorkerKeeps ==
    ASSUME IndInv, HistoryInv, NEW s, NEW w, WorkerStep(s, w),
           \A t \in pool' : t \in pool \/ ~Consumed(t.nonce),
           \/ bumpQ' = bumpQ
           \/ \E e \in Bump : e.tx.batch = e.batch /\ bumpQ' = Append(bumpQ, e),
           \/ doneQ' = doneQ
           \/ \E o \in Outcome : /\ o.kind = "already" => o.tx.batch = o.batch
                                 /\ doneQ' = Append(doneQ, o)
    PROVE  HistoryInv' /\ ticker' = ticker
<1>1. UNCHANGED <<rows, ticker, chain, okay, reorgs>>
  BY Zenon DEF WorkerStep, loopVars
<1>2. PoolOk'
  BY <1>1, Zenon DEF HistoryInv, PoolOk, Consumed
<1>3. bumpQ \in Seq(Bump) /\ doneQ \in Seq(Outcome)
  BY Zenon DEF IndInv, TypeOK
<1>4. ChannelNames'
  <2>1. ASSUME NEW k \in DOMAIN bumpQ' PROVE bumpQ'[k].tx.batch = bumpQ'[k].batch
    <3>1. \/ k \in DOMAIN bumpQ /\ bumpQ'[k] = bumpQ[k]
          \/ bumpQ'[k].tx.batch = bumpQ'[k].batch
      BY <1>3, <2>1
    <3> QED
      BY <3>1, Zenon DEF HistoryInv, ChannelNames
  <2>2. ASSUME NEW k \in DOMAIN doneQ', doneQ'[k].kind = "already"
        PROVE  doneQ'[k].tx.batch = doneQ'[k].batch
    <3>1. \/ k \in DOMAIN doneQ /\ doneQ'[k] = doneQ[k]
          \/ doneQ'[k].tx.batch = doneQ'[k].batch
      BY <1>3, <2>2
    <3> QED
      BY <2>2, <3>1, Zenon DEF HistoryInv, ChannelNames
  <2> QED
    BY <2>1, <2>2, Zenon DEF ChannelNames
<1>5. TodoNames' /\ SeenOk' /\ RowNames(rows') /\ reorgs' \in Nat
  BY <1>1, Zenon DEF HistoryInv, TodoNames, SeenOk, Seen
<1>6. DoneMeansPreconfirmed'
  BY <1>1, StillPreconfirmed, Zenon DEF HistoryInv, DoneMeansPreconfirmed
<1> QED
  BY <1>1, <1>2, <1>4, <1>5, <1>6, Zenon DEF HistoryInv

\* A worker that ends.
LEMMA FinishKeeps ==
    ASSUME IndInv, HistoryInv, NEW s \in Slot, workers[s].phase # "free",
           NEW kind \in {"submitted", "oog", "logic", "already", "failed"}, NEW t \in TxOrNone,
           Finish(s, kind, t), kind = "already" => t.batch = workers[s].batch, bumpQ' = bumpQ,
           \A u \in pool' : u \in pool \/ ~Consumed(u.nonce)
    PROVE  HistoryInv' /\ ticker' = ticker
<1> DEFINE o == [batch |-> workers[s].batch, tx |-> t, kind |-> kind]
<1>1. workers[s].batch \in Batch
  BY WorkerFacts, Zenon
<1>2. o \in Outcome /\ o.batch = workers[s].batch /\ o.tx = t /\ o.kind = kind
  BY <1>1, Zenon DEF Outcome
<1>3. WorkerStep(s, Free) /\ doneQ' = Append(doneQ, o)
  BY Zenon DEF Finish
<1> HIDE DEF o
<1> QED
  BY <1>2, <1>3, WorkerKeeps, Zenon

\* A worker that broadcasts.
LEMMA BroadcastKeeps ==
    ASSUME IndInv, HistoryInv, NEW s \in Slot, NEW t \in OwnTx, NEW initial \in BOOLEAN,
           Broadcast(s, t, initial)
    PROVE  HistoryInv' /\ ticker' = ticker
<1> DEFINE e == [batch |-> t.batch, tx |-> t, initial |-> initial]
<1>1. e \in Bump /\ e.tx.batch = e.batch
  <2>1. t.batch \in Batch
    BY TxFacts, Zenon
  <2> QED
    BY <2>1, Zenon DEF Bump
<1>2. /\ ~Consumed(t.nonce) /\ pool' = pool \cup {t} /\ bumpQ' = Append(bumpQ, e)
      /\ \E w : WorkerStep(s, w)
      /\ doneQ' = doneQ
  BY Zenon DEF Broadcast, Accepts
<1> HIDE DEF e
<1> QED
  BY <1>1, <1>2, WorkerKeeps, Zenon

\* Every step of a worker.
LEMMA WorkersKeep ==
    ASSUME IndInv, HistoryInv, NEW s \in Slot,
           WorkerNext(s) \/ preflight_fails(s) \/ task_panics(s) \/ stuck_at_cap(s)
    PROVE  HistoryInv' /\ ticker' = ticker
<1>0. /\ okay \subseteq TxOrNone /\ NoTx \in TxOrNone /\ workers[s] \in Worker
      /\ WorkerOk(workers[s])
  BY TxFacts, Zenon DEF IndInv, TypeOK, WorkersOk
<1>1. ASSUME NEW w, WorkerStep(s, w), UNCHANGED <<pool, bumpQ, doneQ>>
      PROVE  HistoryInv' /\ ticker' = ticker
  BY <1>1, WorkerKeeps, Zenon
<1>2. ASSUME workers[s].phase # "free", Finish(s, "failed", NoTx), bumpQ' = bumpQ,
             \A u \in pool' : u \in pool \/ ~Consumed(u.nonce)
      PROVE  HistoryInv' /\ ticker' = ticker
  BY <1>0, <1>2, FinishKeeps, Zenon
<1>3. ASSUME workers[s].phase # "free", Finish(s, "failed", NoTx), UNCHANGED <<pool, bumpQ>>
      PROVE  HistoryInv' /\ ticker' = ticker
  BY <1>2, <1>3, Zenon
<1>4. ASSUME preflight_submitted(s) \/ allocate(s) \/ build_preconfirm_tx(s) \/ poll_none(s)
      PROVE  HistoryInv' /\ ticker' = ticker
  BY <1>1, <1>4, Zenon DEF preflight_submitted, allocate, build_preconfirm_tx, poll_none
<1>5. ASSUME \/ preflight_fails(s) \/ stuck_at_cap(s)
             \/ build_preconfirm_tx_fails(s) \/ broadcast_initial_too_low(s)
      PROVE  HistoryInv' /\ ticker' = ticker
  <2>1. workers[s].phase # "free"
    BY <1>5, Zenon DEF preflight_fails, stuck_at_cap, build_preconfirm_tx_fails,
                broadcast_initial_too_low, HasNonce
  <2>2. Finish(s, "failed", NoTx) /\ UNCHANGED <<pool, bumpQ>>
    BY <1>5, Zenon DEF preflight_fails, stuck_at_cap, build_preconfirm_tx_fails,
                broadcast_initial_too_low
  <2> QED
    BY <1>3, <2>1, <2>2, Zenon
<1>6. ASSUME task_panics(s) PROVE HistoryInv' /\ ticker' = ticker
  <2>1. workers[s].phase # "free" /\ Finish(s, "failed", NoTx) /\ UNCHANGED <<pool, bumpQ>>
    BY <1>0, <1>6, Zenon DEF task_panics, WorkerOk
  <2> QED
    BY <1>3, <2>1, Zenon
<1>7. ASSUME preflight_preconfirmed(s) PROVE HistoryInv' /\ ticker' = ticker
  <2>1. PICK t \in Preconfirming(workers[s].batch) :
               IF t \in final THEN Finish(s, "already", t) ELSE Finish(s, "failed", NoTx)
    BY <1>7, Zenon DEF preflight_preconfirmed
  <2>2. t \in TxOrNone /\ t.batch = workers[s].batch
    BY <1>0, Zenon DEF Preconfirming
  <2>3. workers[s].phase # "free" /\ UNCHANGED <<pool, bumpQ>>
    BY <1>7, Zenon DEF preflight_preconfirmed
  <2>4. CASE t \in final
    BY <2>1, <2>2, <2>3, <2>4, FinishKeeps, Zenon
  <2>5. CASE t \notin final
    BY <1>3, <2>1, <2>3, <2>5, Zenon
  <2> QED
    BY <2>4, <2>5, Zenon
<1>8. ASSUME workers[s].phase # "free", Landed(s) PROVE HistoryInv' /\ ticker' = ticker
  <2>1. workers[s].tx \in TxOrNone /\ UNCHANGED <<pool, bumpQ>>
    BY <1>8, WorkerFacts, Zenon DEF Landed
  <2>2. PICK kind \in {"submitted", "oog", "logic"} : Finish(s, kind, workers[s].tx)
    BY <1>8, Zenon DEF Landed
  <2>3. kind \in {"submitted", "oog", "logic", "already", "failed"} /\ kind # "already"
    BY <2>2, Zenon
  <2>4. \A u \in pool' : u \in pool
    BY <2>1, Zenon
  <2> QED
    BY <1>8, <2>1, <2>2, <2>3, <2>4, FinishKeeps, Zenon
<1>9. ASSUME poll_receipt(s) \/ bump_too_low(s) PROVE HistoryInv' /\ ticker' = ticker
  <2>1. /\ workers[s].phase # "free"
        /\ Landed(s) \/ (Finish(s, "failed", NoTx) /\ UNCHANGED <<pool, bumpQ>>)
    BY <1>9, Zenon DEF poll_receipt, Awake, bump_too_low
  <2> QED
    BY <1>3, <1>8, <2>1, Zenon
<1>10. ASSUME NEW t, BroadcastLost(t), NEW u \in pool' PROVE u \in pool \/ ~Consumed(u.nonce)
  BY <1>10, Zenon DEF BroadcastLost, Accepts
<1>11. ASSUME broadcast_initial(s) PROVE HistoryInv' /\ ticker' = ticker
  <2>1. workers[s].phase = "built" /\ Broadcast(s, TxOf(workers[s], 1), TRUE)
    BY <1>11, Zenon DEF broadcast_initial
  <2>2. workers[s].batch \in Batch /\ workers[s].nonce \in Nonce /\ 1 \in Fee
    BY <2>1, WorkerFacts, DispatchAssumption DEF Fee
  <2>3. TxOf(workers[s], 1) \in OwnTx
    BY <2>2, TxOfFacts, Zenon
  <2> QED
    BY <2>1, <2>3, BroadcastKeeps, Zenon
<1>12. ASSUME broadcast_initial_fails(s) PROVE HistoryInv' /\ ticker' = ticker
  <2>1. /\ workers[s].phase # "free" /\ BroadcastLost(TxOf(workers[s], 1))
        /\ Finish(s, "failed", NoTx) /\ bumpQ' = bumpQ
    BY <1>12, Zenon DEF broadcast_initial_fails
  <2> QED
    BY <1>2, <1>10, <2>1, Zenon
<1>13. ASSUME bump(s) PROVE HistoryInv' /\ ticker' = ticker
  <2> DEFINE f == bump_fees(workers[s].fee)
  <2>1. workers[s].phase = "bumping" /\ Broadcast(s, TxOf(workers[s], f), FALSE)
    BY <1>13, Zenon DEF bump
  <2>2. /\ workers[s].batch \in Batch /\ workers[s].nonce \in Nonce
        /\ workers[s].fee \in 0..MaxFee
    BY <2>1, WorkerFacts, Zenon
  <2>3. f \in Fee
    BY <2>2, BumpFacts, Zenon
  <2> HIDE DEF f
  <2>4. TxOf(workers[s], f) \in OwnTx
    BY <2>2, <2>3, TxOfFacts, Zenon
  <2> QED
    BY <2>1, <2>4, BroadcastKeeps, Zenon
<1>14. ASSUME bump_fails(s) PROVE HistoryInv' /\ ticker' = ticker
  <2>1. /\ \E t : BroadcastLost(t)
        /\ \E w : WorkerStep(s, w)
        /\ UNCHANGED <<doneQ, bumpQ>>
    BY <1>14, Zenon DEF bump_fails
  <2>2. \A u \in pool' : u \in pool \/ ~Consumed(u.nonce)
    BY <1>10, <2>1, Zenon
  <2> QED
    BY <2>1, <2>2, WorkerKeeps, Zenon
<1> QED
  BY <1>4, <1>5, <1>6, <1>7, <1>9, <1>11, <1>12, <1>13, <1>14, Zenon DEF WorkerNext

\* A crash drops the channels and what the ticker saw.
LEMMA CrashKeeps ==
    ASSUME HistoryInv, Crash
    PROVE  HistoryInv' /\ rows' = rows
<1>1. /\ doneQ' = <<>> /\ bumpQ' = <<>> /\ ticker' = IdleTicker
      /\ UNCHANGED <<rows, pool, chain, okay, reorgs>>
  BY Zenon DEF Crash, l1Vars
<1>2. ticker'.todo = {} /\ ticker'.seen = {}
  BY <1>1, Zenon DEF IdleTicker
<1>3. ChannelNames' /\ TodoNames' /\ SeenOk'
  BY <1>1, <1>2 DEF ChannelNames, TodoNames, SeenOk
<1>4. RowNames(rows') /\ PoolOk' /\ reorgs' \in Nat
  BY <1>1, Zenon DEF HistoryInv, PoolOk
<1>5. DoneMeansPreconfirmed'
  BY <1>1, StillPreconfirmed, Zenon DEF HistoryInv, DoneMeansPreconfirmed
<1> QED
  BY <1>1, <1>3, <1>4, <1>5, Zenon DEF HistoryInv

\* A restart cleans up and takes back for the receipts it reads.
LEMMA RestartKeeps ==
    ASSUME IndInv, HistoryInv, restart
    PROVE  HistoryInv' /\ ticker' = ticker
<1>0. rows \in [Batch -> Row] /\ RowNames(rows)
  BY Zenon DEF IndInv, TypeOK, HistoryInv
<1>1. PICK cs \in SUBSET {c \in dispatched_snapshot : Candidate(c) /\ c.tx \in chain} :
               rows' = apply_finalization_changes(rows, {ReceiptOf(c) : c \in cs})
  BY Zenon DEF restart
<1>2. UNCHANGED <<ticker, doneQ, bumpQ, pool, chain, okay, reorgs>>
  BY Zenon DEF restart, l1Vars
<1>3. \A c \in cs : c \in Cand /\ c.tx \in chain /\ c.tx.batch = c.batch
  <2>1. dispatched_snapshot \subseteq Cand
    BY <1>0, SnapshotFacts, Zenon
  <2>2. \A c \in dispatched_snapshot : c.tx.batch = c.batch
    BY <1>0 DEF RowNames, dispatched_snapshot
  <2> QED
    BY <2>1, <2>2, Zenon
<1>4. PICK seen : seen = {ReceiptOf(c) : c \in cs}
  BY Zenon
<1>5. seen \in SUBSET Observation /\ \A o \in seen : Seen(o)
  <2>1. \A c \in cs : ReceiptOf(c) \in Observation /\ Seen(ReceiptOf(c))
    BY <1>3, ReceiptFacts, Zenon DEF Seen
  <2> QED
    BY <1>4, <2>1, Zenon
<1>6. /\ RowNames(rows')
      /\ \A i \in Batch : rows'[i].st = "done" => rows[i].st = "done" \/ IsPreconfirmed(i)
  BY <1>0, <1>1, <1>4, <1>5, ApplyNames, Zenon
<1>7. ticker'.todo \subseteq ticker.todo /\ ticker'.seen \subseteq ticker.seen
  BY <1>2, Zenon
<1> QED
  BY <1>2, <1>6, <1>7, LoopNames, Zenon
-----------------------------------------------------------------------------
(* Theorems.                                                               *)

\* Nothing is dispatched yet.
LEMMA InitHistory == Init => HistoryInv
<1> SUFFICES ASSUME Init PROVE HistoryInv
  OBVIOUS
<1>1. /\ pool = {} /\ chain = {} /\ rows = [i \in Batch |-> NewRow]
      /\ doneQ = <<>> /\ bumpQ = <<>> /\ ticker = IdleTicker /\ reorgs = 0
  BY Zenon DEF Init
<1>2. \A i \in Batch : rows[i].st = "unsigned"
  BY <1>1, RowFacts, Zenon
<1>3. RowNames(rows) /\ DoneMeansPreconfirmed
  BY <1>2, Zenon DEF RowNames, Dispatched, DoneMeansPreconfirmed
<1>4. ticker.todo = {} /\ ticker.seen = {}
  BY <1>1, Zenon DEF IdleTicker
<1>5. ChannelNames /\ TodoNames /\ SeenOk /\ PoolOk
  BY <1>1, <1>4 DEF ChannelNames, TodoNames, SeenOk, PoolOk
<1> QED
  BY <1>1, <1>3, <1>5, Zenon DEF HistoryInv

\* Every step keeps it, and takes back only what reverted.
LEMMA NextHistory ==
    ASSUME MaxReorg = 0
    PROVE  IndInv /\ HistoryInv /\ [Next]_vars => HistoryInv' /\ TickerUndoStep
<1> SUFFICES ASSUME IndInv, HistoryInv, [Next]_vars PROVE HistoryInv' /\ TickerUndoStep
  OBVIOUS
<1>0. \A i \in Batch : ~(Own(rows, i) /\ rows[i].st = "signed")
  BY Zenon DEF Own, Dispatched
<1>1. ticker' = ticker \/ rows' = rows => TickerUndoStep
  BY <1>0, Zenon DEF TickerUndoStep
<1>2. CASE \/ \E t \in pool : Mine(t)
           \/ \E t \in chain : L1Finalize(t)
           \/ \E t \in chain : Reorg(t)
           \/ \E i \in Batch : ForeignPreconfirm(i)
  BY <1>1, <1>2, L1Keeps, Zenon
<1>3. CASE \/ \E i \in Batch : on_sign_done(i)
           \/ \E i \in Batch : on_sign_done_invalid(i)
           \/ key_check_registered
           \/ \E t \in okay : on_l1_event_preconfirmed(t)
           \/ on_block_result \/ BackoffExpires \/ on_dispatch_done \/ on_rbf_bump
  BY <1>1, <1>3, HandlersKeep, Zenon
<1>4. CASE TickerNext \/ check_finalized_batches_query_fail
  BY <1>1, <1>4, TaskKeeps, FinalizationKeeps, Zenon DEF TickerNext
<1>5. ASSUME NEW s \in Slot,
             WorkerNext(s) \/ preflight_fails(s) \/ task_panics(s) \/ stuck_at_cap(s)
      PROVE  HistoryInv' /\ TickerUndoStep
  BY <1>1, <1>5, WorkersKeep, Zenon
<1>6. CASE Crash \/ restart
  BY <1>1, <1>6, CrashKeeps, RestartKeeps, Zenon
<1>7. CASE UNCHANGED vars
  <2>1. UNCHANGED <<rows, pool, chain, okay, reorgs, ticker, doneQ, bumpQ>>
    BY <1>7, Zenon DEF vars, loopVars, l1Vars
  <2>2. ticker'.todo \subseteq ticker.todo /\ ticker'.seen \subseteq ticker.seen
    BY <2>1, Zenon
  <2>3. RowNames(rows')
    BY <2>1, Zenon DEF HistoryInv
  <2> QED
    BY <1>1, <2>1, <2>2, <2>3, LoopNames, Zenon
<1> QED
  BY <1>2, <1>3, <1>4, <1>5, <1>6, <1>7, Zenon DEF Next

\* A batch is cleaned up only if some preconfirmation of it succeeded, through
\* stale snapshots, replaced transactions, crashes and restarts
\* (apply_finalization_changes), while L1 loses no block.
THEOREM CleanedUpMeansPreconfirmed ==
    ASSUME MaxReorg = 0
    PROVE  Spec => []DoneMeansPreconfirmed
<1>1. IndInv /\ HistoryInv /\ [Next]_vars => HistoryInv'
  BY NextHistory, Zenon
<1>2. HistoryInv => DoneMeansPreconfirmed
  BY Zenon DEF HistoryInv
<1> QED
  BY <1>1, <1>2, InitHistory, InductiveInvariant, PTL DEF Spec

\* The ticker takes back a dispatch only if the transaction that the row holds
\* now reverted (the hash check before undispatch), while L1 loses no block.
THEOREM OnlyRevertedUndone ==
    ASSUME MaxReorg = 0
    PROVE  Spec => TickerUndoesReverted
<1>1. IndInv /\ HistoryInv /\ [Next]_vars => HistoryInv' /\ TickerUndoStep
  BY NextHistory, Zenon
<1>2. IndInv /\ HistoryInv /\ [Next]_vars => [TickerUndoStep]_vars
  BY <1>1, Zenon
<1> QED
  BY <1>1, <1>2, InitHistory, InductiveInvariant, PTL DEF Spec, TickerUndoesReverted
=============================================================================
