--------------------------- MODULE ProxyInvariant ---------------------------
(***************************************************************************)
(* The inductive invariant of Proxy and of the Enclave behind it, and the  *)
(* proof that the calls, the key, the jobs and the store of the enclave    *)
(* keep it: for every set of clients, blocks and provers, any number of    *)
(* keys, requests and faults, and any size of worker pool and block store. *)
(* Then what is left of the jobs and the calls when threads go away.       *)
(***************************************************************************)
EXTENDS Proxy, FiniteSetTheorems, TLAPS

Job == [to : Thread \cup {Nobody}, key : Key, input : Inputs]

\* A thread and a proof loop have the fields of Calm and Off.
CallShape ==
    /\ DOMAIN call = Thread
    /\ \A c \in Thread : DOMAIN call[c] = {"at", "stage", "msg", "ans"}
TaskShape ==
    /\ DOMAIN task = Loop
    /\ \A k \in Loop : DOMAIN task[k] = {"at", "black"}

\* What TypeOK leaves out: the sets are finite, the jobs are jobs.
Shape ==
    /\ store \subseteq Inputs /\ IsFiniteSet(store)
    /\ queue \in Seq(Job)
    /\ work \subseteq Job /\ IsFiniteSet(work)
    /\ left \in [attests : BOOLEAN, calls : Nat, challenges : {0, 1}, faults : Nat]
    /\ expired \subseteq 1..made
    /\ twice = FALSE /\ starved \in BOOLEAN

\* A message the proxy sends; a batch carries only responses that some life
\* of the enclave gave.
MsgOk(m) ==
    /\ m.kind \in {"none", "ExecuteBlock", "SubmitBatch"}
    /\ m.kind = "ExecuteBlock" => m.input \in Inputs
    /\ m.kind = "SubmitBatch" => /\ m.from \in Nat /\ m.to \in Nat
                                 /\ m.responses \subseteq executed
                                 /\ m.blobs \in Blobs
CallsOk ==
    \A c \in Thread :
        /\ MsgOk(call[c].msg)
        /\ call[c].at = "answer" /\ call[c].ans.kind = "ExecutionResult"
              => call[c].ans.resp \in executed

\* Nothing of an earlier life of the enclave is left in its memory: the jobs
\* and the stored blocks belong to the key of the process.
MemoryOk ==
    /\ ident = 0 => store = {} /\ queue = <<>> /\ work = {}
    /\ \A k \in 1..Len(queue) : queue[k].key = ident
    /\ \A j \in work : j.key = ident
    /\ \A e \in store : [nr |-> e.nr, hash |-> e.hash, key |-> ident] \in executed

\* A job answers the thread that waits for it, and no other job does.
JobsOk ==
    /\ \A k \in 1..Len(queue) : queue[k].to # Nobody =>
          /\ call[queue[k].to].at = "queued"
          /\ \A l \in 1..Len(queue) : l # k => queue[l].to # queue[k].to
          /\ \A j \in work : j.to # queue[k].to
    /\ \A j \in work : j.to # Nobody =>
          /\ call[j.to].at = "queued"
          /\ \A i \in work : i # j => i.to # j.to

Announced(c) == call[c].at = "answer" /\ call[c].ans.kind = "KeyGenerated"

\* A key is announced once, to a handshake, and has neither a row nor a loop
\* then.
AnnouncedOk ==
    \A c \in Thread : Announced(c) =>
        /\ call[c].stage = "handshake" /\ call[c].ans.key \in 1..made
        /\ rows[call[c].ans.key] = "none" /\ task[call[c].ans.key].at = "off"
        /\ \A d \in Thread : d # c /\ Announced(d) => call[d].ans.key # call[c].ans.key

\* A key with a row was generated, a loop has a row, a challenge is neither
\* resumed nor submitted, and no request outlives the process.
LoopsOk ==
    /\ \A k \in Key : /\ rows[k] # "none" => k <= made
                      /\ task[k].at # "off" => rows[k] # "none"
    /\ task[Chal].at \in {"off", "fresh", "wait"}
DownOk == proc = "down" => \A c \in Thread : call[c].at = "idle"

\* The blacklist of a loop is shorter than the list of HA provers.
BlacklistsOk ==
    \A k \in Loop : /\ task[k].black \subseteq Provers
                    /\ ~starved => Cardinality(task[k].black) < Cardinality(HaProvers)

\* All but what is said of the signatures.
BaseInv ==
    /\ TypeOK /\ CallShape /\ TaskShape /\ Shape
    /\ CallsOk /\ MemoryOk /\ JobsOk /\ AnnouncedOk /\ LoopsOk /\ DownOk /\ BlacklistsOk
    /\ KeyTracked

IndInv == BaseInv /\ SignedBatchSound
-----------------------------------------------------------------------------
(* Finite sets, from the library.                                          *)

\* The number of elements of a finite set is a number, 0 for the empty set only.
LEMMA CardinalityFacts ==
    ASSUME NEW S, IsFiniteSet(S)
    PROVE  /\ Cardinality(S) \in Nat
           /\ Cardinality(S) = 0 <=> S = {}
BY FS_CardinalityType, FS_EmptySet

\* The empty set.
LEMMA EmptyFacts == IsFiniteSet({}) /\ Cardinality({}) = 0
BY FS_EmptySet, Zenon

\* A subset of a finite set is finite and no larger.
LEMMA SubsetFacts ==
    ASSUME NEW S, IsFiniteSet(S), NEW T \in SUBSET S
    PROVE  /\ IsFiniteSet(T) /\ Cardinality(T) \in Nat
           /\ Cardinality(T) <= Cardinality(S)
           /\ Cardinality(T) = Cardinality(S) => T = S
BY FS_Subset, FS_CardinalityType

\* One element more.
LEMMA AddFacts ==
    ASSUME NEW S, IsFiniteSet(S), NEW x
    PROVE  /\ IsFiniteSet(S \cup {x}) /\ Cardinality(S \cup {x}) \in Nat
           /\ Cardinality(S \cup {x}) <= Cardinality(S) + 1
<1>1. /\ IsFiniteSet(S \cup {x})
      /\ Cardinality(S \cup {x}) = IF x \in S THEN Cardinality(S) ELSE Cardinality(S) + 1
  BY FS_AddElement, Zenon
<1>2. Cardinality(S) \in Nat
  BY FS_CardinalityType
<1> QED
  BY <1>1, <1>2

\* One element less.
LEMMA RemoveFacts ==
    ASSUME NEW S, IsFiniteSet(S), NEW x \in S
    PROVE  /\ IsFiniteSet(S \ {x}) /\ Cardinality(S \ {x}) \in Nat
           /\ Cardinality(S \ {x}) = Cardinality(S) - 1
<1>1. /\ IsFiniteSet(S \ {x})
      /\ Cardinality(S \ {x}) = IF x \in S THEN Cardinality(S) - 1 ELSE Cardinality(S)
  BY FS_RemoveElement
<1>2. Cardinality(S \ {x}) \in Nat
  BY <1>1, FS_CardinalityType, Zenon
<1> QED
  BY <1>1, <1>2, Zenon

\* The image of a finite set is finite and no larger.
LEMMA ImageFacts ==
    ASSUME NEW S, IsFiniteSet(S), NEW f
    PROVE  /\ IsFiniteSet({f[x] : x \in S}) /\ Cardinality({f[x] : x \in S}) \in Nat
           /\ Cardinality({f[x] : x \in S}) <= Cardinality(S)
<1> DEFINE T == {f[x] : x \in S}
           g == [x \in S |-> f[x]]
<1>1. g \in Surjection(S, T)
  BY Zenon DEF Surjection
<1>2. IsFiniteSet(T) /\ Cardinality(T) <= Cardinality(S)
  BY <1>1, FS_Surjection
<1>3. Cardinality(T) \in Nat
  BY <1>2, FS_CardinalityType, Zenon
<1> QED
  BY <1>2, <1>3

\* A set of numbers that is not empty has a least element.
LEMMA LeastFacts ==
    ASSUME NEW N \in SUBSET Nat, N # {}
    PROVE  \E n \in N : \A k \in N : n <= k
<1>1. \E n \in N : \A k \in N : ~(<<k, n>> \in OpToRel(<, Nat))
  BY NatLessThanWellFounded, WFMin, Zenon
<1>2. PICK n \in N : \A k \in N : ~(k < n)
  BY <1>1, Zenon DEF OpToRel
<1> QED
  BY <1>2
-----------------------------------------------------------------------------
(* What a step does not touch.                                             *)

\* What is said of the enclave and of the calls reads these variables only.
LEMMA EnclaveFrame ==
    ASSUME BaseInv, UNCHANGED <<proc, ident, store, queue, work, call, executed>>
    PROVE  CallShape' /\ CallsOk' /\ MemoryOk' /\ JobsOk' /\ DownOk'
<1>1. CallShape'
  BY Zenon DEF BaseInv, CallShape
<1>2. CallsOk'
  BY Zenon DEF BaseInv, CallsOk, MsgOk
<1>3. MemoryOk'
  BY Zenon DEF BaseInv, MemoryOk
<1>4. JobsOk'
  BY Zenon DEF BaseInv, JobsOk
<1>5. DownOk'
  BY Zenon DEF BaseInv, DownOk
<1> QED
  BY <1>1, <1>2, <1>3, <1>4, <1>5, Zenon

\* What is said of the rows and of the loops reads these variables only.
LEMMA LoopFrame ==
    ASSUME BaseInv, UNCHANGED <<made, call, rows, task, starved>>
    PROVE  TaskShape' /\ AnnouncedOk' /\ LoopsOk' /\ BlacklistsOk'
<1>1. TaskShape'
  BY Zenon DEF BaseInv, TaskShape
<1>2. AnnouncedOk'
  BY Zenon DEF BaseInv, AnnouncedOk, Announced
<1>3. LoopsOk'
  BY Zenon DEF BaseInv, LoopsOk
<1>4. BlacklistsOk'
  BY Zenon DEF BaseInv, BlacklistsOk
<1> QED
  BY <1>1, <1>2, <1>3, <1>4, Zenon

\* No key is announced that was not, and what was said of the others stays.
LEMMA AnnouncedFrame ==
    ASSUME BaseInv, UNCHANGED <<made, rows, task>>,
           \A c \in Thread : Announced(c)' => call'[c] = call[c]
    PROVE  AnnouncedOk'
<1>1. \A c \in Thread : Announced(c)' => Announced(c) /\ call'[c] = call[c]
  BY Zenon DEF Announced
<1> SUFFICES ASSUME NEW c \in Thread, Announced(c)'
             PROVE  /\ call'[c].stage = "handshake" /\ call'[c].ans.key \in 1..made
                    /\ rows[call'[c].ans.key] = "none" /\ task[call'[c].ans.key].at = "off"
                    /\ \A d \in Thread : d # c /\ Announced(d)' =>
                          call'[d].ans.key # call'[c].ans.key
  BY Zenon DEF AnnouncedOk
<1>2. Announced(c) /\ call'[c] = call[c]
  BY <1>1, Zenon
<1>3. /\ call[c].stage = "handshake" /\ call[c].ans.key \in 1..made
      /\ rows[call[c].ans.key] = "none" /\ task[call[c].ans.key].at = "off"
      /\ \A d \in Thread : d # c /\ Announced(d) => call[d].ans.key # call[c].ans.key
  BY <1>2, Zenon DEF BaseInv, AnnouncedOk
<1>4. \A d \in Thread : d # c /\ Announced(d)' => call'[d].ans.key # call[c].ans.key
  BY <1>1, <1>3, Zenon
<1> QED
  BY <1>2, <1>3, <1>4, Zenon

\* A key stays tracked where it is on L1 or its row and its loop stay, unless
\* the proxy ends, and its announcement stays or the key is orphaned.
LEMMA TrackedFrame ==
    ASSUME BaseInv, made' = made,
           proc' = "down" \/ (proc' = proc /\ left'.attests = left.attests),
           onL1 \subseteq onL1', orphan \subseteq orphan',
           \A k \in 1..made : \/ k \in onL1'
                             \/ /\ rows'[k] = rows[k]
                                /\ proc' = "down" \/ task'[k] = task[k],
           \A c \in Thread : Announced(c) => call'[c] = call[c] \/ call[c].ans.key \in orphan'
    PROVE  KeyTracked'
<1> SUFFICES ASSUME NEW k \in 1..made, k \notin onL1', k \notin orphan'
             PROVE  \/ rows'[k] # "none" /\ (Attests' /\ proc' # "down" => task'[k].at # "off")
                    \/ \E c \in Thread : /\ Answered(c, {"handshake"}, {"KeyGenerated"})'
                                         /\ call'[c].ans.key = k
  BY Zenon DEF KeyTracked
<1>1. CASE rows[k] # "none" /\ (Attests /\ proc # "down" => task[k].at # "off")
  BY <1>1, Zenon DEF Attests
<1>2. CASE \E c \in Thread : /\ Answered(c, {"handshake"}, {"KeyGenerated"})
                             /\ call[c].ans.key = k
  <2>1. PICK c \in Thread : /\ Answered(c, {"handshake"}, {"KeyGenerated"})
                            /\ call[c].ans.key = k
    BY <1>2, Zenon
  <2>2. call'[c] = call[c]
    BY <2>1, Zenon DEF Answered, Announced
  <2> QED
    BY <2>1, <2>2, Zenon DEF Answered
<1> QED
  BY <1>1, <1>2, Zenon DEF BaseInv, KeyTracked

-----------------------------------------------------------------------------
(* Calls.                                                                  *)

\* What waits in the queue of execute_enqueue, and what the workers took from
\* it, are jobs; a job without Nobody has a thread to answer.
LEMMA JobFacts ==
    ASSUME Shape
    PROVE  /\ Len(queue) \in Nat
           /\ \A k \in 1..Len(queue) : queue[k] \in Job
           /\ \A k \in 1..Len(queue) : queue[k].to # Nobody => queue[k].to \in Thread
           /\ \A j \in work : j \in Job /\ (j.to # Nobody => j.to \in Thread)
<1>1. queue \in Seq(Job)
  BY Zenon DEF Shape
<1>2. ASSUME NEW k \in 1..Len(queue)
      PROVE  queue[k] \in Job
  BY <1>1
<1>3. Len(queue) \in Nat
  BY <1>1
<1> QED
  BY <1>2, <1>3, Zenon DEF Shape, Job

\* A step of one thread c that takes no job of the enclave, announces no key
\* and gives no response keeps the invariant: every call the proxy makes or
\* ends and every refusal of the enclave is one.
LEMMA CallStep ==
    ASSUME BaseInv, NEW c \in Thread, CallShape',
           \A d \in Thread : d # c => call'[d] = call[d],
           call[c].at # "queued", ~Announced(c), call'[c].at # "queued",
           call'[c].at = "answer" => call'[c].ans.kind \notin {"KeyGenerated", "ExecutionResult"},
           MsgOk(call'[c].msg),
           proc # "down", proc' # "down",
           UNCHANGED <<ident, made, store, queue, work, executed>>,
           UNCHANGED <<rows, task, row, onL1, expired, orphan, twice, starved>>,
           left' \in [attests : BOOLEAN, calls : Nat, challenges : {0, 1}, faults : Nat],
           left'.attests = left.attests, delivered' \subseteq executed
    PROVE  BaseInv'
<1> USE DEF BaseInv
<1>1. TypeOK'
  BY Zenon DEF TypeOK, Response
<1>2. TaskShape' /\ Shape'
  BY Zenon DEF TaskShape, Shape
<1>3. CallsOk'
  BY DEF CallsOk, MsgOk
<1>4. MemoryOk'
  BY Zenon DEF MemoryOk
<1>5. JobsOk'
  BY JobFacts DEF JobsOk
<1>6. AnnouncedOk'
  BY DEF AnnouncedOk, Announced
<1>7. LoopsOk' /\ DownOk' /\ BlacklistsOk'
  BY Zenon DEF LoopsOk, DownOk, BlacklistsOk
<1>8. KeyTracked'
  BY DEF KeyTracked, Attests, Answered, AnnouncedOk, Announced
<1> QED
  BY <1>1, <1>2, <1>3, <1>4, <1>5, <1>6, <1>7, <1>8
-----------------------------------------------------------------------------
(* The updates of a call, field by field.                                  *)

\* Reply (the enclave's answer) changes at and ans of the call of c only.
LEMMA ReplyFacts ==
    ASSUME CallShape, NEW c \in Thread, NEW a, Reply(c, a)
    PROVE  /\ CallShape'
           /\ \A d \in Thread : d # c => call'[d] = call[d]
           /\ call'[c].at = "answer" /\ call'[c].ans = a
           /\ call'[c].stage = call[c].stage /\ call'[c].msg = call[c].msg
BY Zenon DEF CallShape, Reply

\* Hang (the end of a request) makes the call of c Calm.
LEMMA HangFacts ==
    ASSUME CallShape, NEW c \in Thread, Hang(c)
    PROVE  /\ CallShape'
           /\ \A d \in Thread : d # c => call'[d] = call[d]
           /\ call'[c].at = "idle" /\ call'[c].msg.kind = "none"
BY Zenon DEF CallShape, Hang, Calm

\* Proceed (the end of ensure_handshake) sends the request of c again, or ends
\* the call of main.
LEMMA ProceedFacts ==
    ASSUME CallShape, NEW c \in Thread, Proceed(c)
    PROVE  /\ CallShape'
           /\ \A d \in Thread : d # c => call'[d] = call[d]
           /\ call'[c].at \in {"idle", "wire"}
           /\ call'[c].msg = call[c].msg \/ call'[c].msg.kind = "none"
           /\ proc' \in {proc, "up"}
<1>1. CASE c = Boot
  BY <1>1, HangFacts, Zenon DEF Proceed
<1>2. CASE c # Boot
  <2>1. /\ call' = [call EXCEPT ![c] = [@ EXCEPT !.at = "wire", !.stage = "retry",
                                                 !.ans = Calm.ans]]
        /\ proc' = proc
    BY <1>2, Zenon DEF Proceed
  <2> QED
    BY <2>1, Zenon DEF CallShape
<1> QED
  BY <1>1, <1>2, Zenon

\* A call that does something belongs to a proxy that runs.
LEMMA BusyMeansUp ==
    ASSUME BaseInv, NEW c \in Thread, call[c].at # "idle"
    PROVE  proc # "down"
BY Zenon DEF BaseInv, DownOk

\* An answer of the enclave that changes nothing but the call.
LEMMA RefusalStep ==
    ASSUME BaseInv, NEW c \in Thread, NEW a, call[c].at = "wire", Reply(c, a),
           a.kind \notin {"KeyGenerated", "ExecutionResult"},
           UNCHANGED <<ident, made, store, queue, work, executed>>,
           UNCHANGED proxyVars \/ FaultOnly
    PROVE  BaseInv'
<1>1. proc # "down"
  BY BusyMeansUp, Zenon
<1>2. MsgOk(call[c].msg)
  BY Zenon DEF BaseInv, CallsOk
<1>3. /\ UNCHANGED <<proc, rows, task, row, onL1, expired, delivered, orphan, twice, starved>>
      /\ left' \in [attests : BOOLEAN, calls : Nat, challenges : {0, 1}, faults : Nat]
      /\ left'.attests = left.attests
  BY DEF proxyVars, FaultOnly, Fault, BaseInv, Shape
<1>4. delivered' \subseteq executed
  BY <1>3, Zenon DEF BaseInv, TypeOK
<1> QED
  BY <1>1, <1>2, <1>3, <1>4, ReplyFacts, CallStep DEF BaseInv, Announced

\* The refusals and the answers of the accept loop that leave its state alone.
LEMMA RefusalActions ==
    ASSUME BaseInv, NEW c \in Thread, UNCHANGED proxyVars \/ FaultOnly,
           \/ generate_key_failed(c) \/ already_initialized(c) \/ not_initialized(c)
           \/ execute_busy(c) \/ submit_batch(c)
    PROVE  BaseInv'
<1>1. CASE generate_key_failed(c)
  BY <1>1, RefusalStep, Zenon DEF generate_key_failed, Received
<1>2. CASE already_initialized(c)
  BY <1>2, RefusalStep, Zenon DEF already_initialized, Received
<1>3. CASE not_initialized(c)
  BY <1>3, RefusalStep, Zenon DEF not_initialized, Received
<1>4. CASE execute_busy(c)
  BY <1>4, RefusalStep, Zenon DEF execute_busy, Received
<1>5. CASE submit_batch(c)
  <2>1. handle_submit_batch(call[c].msg).kind \in {"Error", "InvalidSignatures", "SubmitBatchResult"}
    BY DEF handle_submit_batch
  <2> QED
    BY <1>5, <2>1, RefusalStep, Zenon DEF submit_batch, Received
<1> QED
  BY <1>1, <1>2, <1>3, <1>4, <1>5, Zenon

\* A request of the orchestrator: sign_block_execution or sign_batch_root.
LEMMA BeginStep ==
    ASSUME BaseInv, NEW c \in Client, sign_block_execution(c) \/ sign_batch_root(c)
    PROVE  BaseInv'
<1>1. PICK m : MsgOk(m) /\ Begin(c, m)
  <2>1. CASE sign_block_execution(c)
    BY <2>1, Zenon DEF sign_block_execution, MsgOk
  <2>2. CASE sign_batch_root(c)
    <3>1. PICK from \in {i.nr : i \in Inputs}, to \in {i.nr : i \in Inputs},
               R \in SUBSET delivered, b \in Blobs :
                 Begin(c, [kind |-> "SubmitBatch", from |-> from, to |-> to,
                           responses |-> R, blobs |-> b])
      BY <2>2, Zenon DEF sign_batch_root
    <3>2. from \in Nat /\ to \in Nat /\ R \subseteq executed
      BY EnclaveAssumption DEF BaseInv, TypeOK
    <3> QED
      BY <3>1, <3>2 DEF MsgOk
  <2> QED
    BY <2>1, <2>2
<1>2. /\ c \in Thread
      /\ call' = [call EXCEPT ![c] = [Calm EXCEPT !.at = "wire", !.msg = m]]
      /\ proc = "up" /\ call[c].at = "idle"
  BY <1>1, Zenon DEF Begin, Thread
<1>3. /\ CallShape' /\ call'[c].at = "wire" /\ call'[c].msg = m
      /\ \A d \in Thread : d # c => call'[d] = call[d]
  BY <1>2 DEF BaseInv, CallShape, Calm
<1>4. /\ UNCHANGED <<ident, made, store, queue, work, executed>>
      /\ UNCHANGED <<proc, rows, task, row, onL1, expired, delivered, orphan, twice, starved>>
      /\ left' = [left EXCEPT !.calls = @ - 1] /\ left.calls > 0
  BY <1>1, Zenon DEF Begin
<1>5. /\ left' \in [attests : BOOLEAN, calls : Nat, challenges : {0, 1}, faults : Nat]
      /\ left'.attests = left.attests
  BY <1>4 DEF BaseInv, Shape
<1>6. delivered' \subseteq executed
  BY <1>4, Zenon DEF BaseInv, TypeOK
<1> QED
  BY <1>1, <1>2, <1>3, <1>4, <1>5, <1>6, CallStep DEF Announced

\* The proxy's side of a call: the reply to the orchestrator, the way into the
\* handshake and out of it without a new key.
LEMMA ThreadActions ==
    ASSUME BaseInv, NEW c \in Thread,
           \/ reply(c) \/ reply_error(c) \/ reply_not_initialized(c)
           \/ handshake_lock(c) \/ handshake_known(c)
           \/ handshake_failed(c) /\ c # Boot
    PROVE  BaseInv'
<1>1. /\ CallShape /\ MsgOk(call[c].msg) /\ delivered \subseteq executed
      /\ left \in [attests : BOOLEAN, calls : Nat, challenges : {0, 1}, faults : Nat]
  BY Zenon DEF BaseInv, CallsOk, TypeOK, Shape
<1>2. \A m : m.kind = "none" => MsgOk(m)
  BY Zenon DEF MsgOk
<1>3. call[c].at \in {"answer", "lock"} => proc # "down"
  BY BusyMeansUp, Zenon
<1>4. CASE reply(c)
  <2>1. /\ call[c].at = "answer" /\ call[c].ans.kind # "KeyGenerated"
        /\ Hang(c) /\ UNCHANGED <<ident, made, store, queue, work, executed>>
        /\ UNCHANGED <<proc, rows, task, row, onL1, expired, orphan, twice, starved, left>>
    BY <1>4, Zenon DEF reply, Answered, SameEnclave
  <2>2. delivered' \subseteq executed
    BY <1>1, <1>4 DEF reply, Answered, BaseInv, CallsOk
  <2> QED
    BY <1>1, <1>2, <1>3, <2>1, <2>2, HangFacts, CallStep DEF Announced
<1>5. CASE reply_error(c)
  <2>1. /\ call[c].at = "answer" /\ call[c].ans.kind # "KeyGenerated"
        /\ Hang(c) /\ UNCHANGED <<ident, made, store, queue, work, executed>>
        /\ UNCHANGED <<proc, rows, task, row, onL1, expired, delivered, orphan, twice,
                       starved, left>>
    BY <1>5 DEF reply_error, Answered, SameEnclave, proxyVars
  <2> QED
    BY <1>1, <1>2, <1>3, <2>1, HangFacts, CallStep DEF Announced
<1>6. CASE reply_not_initialized(c)
  <2>1. /\ call[c].at = "answer" /\ call[c].ans.kind # "KeyGenerated"
        /\ call' = [call EXCEPT ![c].at = "lock", ![c].stage = "handshake",
                                ![c].ans = Calm.ans]
        /\ UNCHANGED <<ident, made, store, queue, work, executed>>
        /\ UNCHANGED <<proc, rows, task, row, onL1, expired, delivered, orphan, twice,
                       starved, left>>
    BY <1>6 DEF reply_not_initialized, Answered, SameEnclave, proxyVars
  <2>2. /\ CallShape' /\ call'[c].at = "lock" /\ call'[c].msg = call[c].msg
        /\ \A d \in Thread : d # c => call'[d] = call[d]
    BY <1>1, <2>1 DEF CallShape
  <2> QED
    BY <1>1, <1>3, <2>1, <2>2, CallStep, Zenon DEF Announced
<1>7. CASE handshake_lock(c)
  <2>1. /\ call[c].at = "lock" /\ call' = [call EXCEPT ![c].at = "wire"]
        /\ UNCHANGED <<ident, made, store, queue, work, executed>>
        /\ UNCHANGED <<proc, rows, task, row, onL1, expired, delivered, orphan, twice,
                       starved, left>>
    BY <1>7 DEF handshake_lock, SameEnclave
  <2>2. /\ CallShape' /\ call'[c].at = "wire" /\ call'[c].msg = call[c].msg
        /\ \A d \in Thread : d # c => call'[d] = call[d]
    BY <1>1, <2>1, Zenon DEF CallShape
  <2> QED
    BY <1>1, <1>3, <2>1, <2>2, CallStep DEF Announced
<1>8. CASE handshake_known(c)
  <2>1. /\ call[c].at = "answer" /\ call[c].ans.kind # "KeyGenerated" /\ Proceed(c)
        /\ UNCHANGED <<ident, made, store, queue, work, executed>>
        /\ UNCHANGED <<rows, task, row, onL1, expired, delivered, orphan, twice,
                       starved, left>>
    BY <1>8, Zenon DEF handshake_known, Answered, SameEnclave
  <2>2. /\ CallShape' /\ call'[c].at \in {"idle", "wire"} /\ MsgOk(call'[c].msg)
        /\ \A d \in Thread : d # c => call'[d] = call[d]
        /\ proc' # "down"
    BY <1>1, <1>2, <1>3, <2>1, ProceedFacts
  <2> QED
    BY <1>1, <1>3, <2>1, <2>2, CallStep DEF Announced
<1>9. CASE handshake_failed(c) /\ c # Boot
  <2>1. /\ call[c].at = "answer" /\ call[c].ans.kind # "KeyGenerated"
        /\ Hang(c) /\ UNCHANGED <<ident, made, store, queue, work, executed>>
        /\ UNCHANGED <<proc, rows, task, row, onL1, expired, delivered, orphan, twice,
                       starved, left>>
    BY <1>9, Zenon DEF handshake_failed, Answered, SameEnclave
  <2> QED
    BY <1>1, <1>2, <1>3, <2>1, HangFacts, CallStep, Zenon DEF Announced
<1> QED
  BY <1>4, <1>5, <1>6, <1>7, <1>8, <1>9
-----------------------------------------------------------------------------
(* The enclave.                                                            *)

\* generate_key: the new key is above every other, and the memory of the
\* enclave is empty.
LEMMA GenerateKey ==
    ASSUME BaseInv, NEW c \in Thread, generate_key(c), UNCHANGED proxyVars
    PROVE  BaseInv'
<1>1. /\ call[c].at = "wire" /\ Message(c).kind = "handshake" /\ ident = 0 /\ made < MaxKey
      /\ made' = made + 1 /\ ident' = made + 1
      /\ Reply(c, [kind |-> "KeyGenerated", key |-> made + 1])
      /\ UNCHANGED <<store, queue, work, executed>>
      /\ UNCHANGED <<proc, rows, task, row, onL1, expired, delivered, orphan, twice,
                     starved, left>>
  BY Zenon DEF generate_key, Received, proxyVars
<1>2. /\ CallShape' /\ \A d \in Thread : d # c => call'[d] = call[d]
      /\ call'[c].at = "answer" /\ call'[c].stage = call[c].stage
      /\ call'[c].msg = call[c].msg
      /\ call'[c].ans.kind = "KeyGenerated" /\ call'[c].ans.key = made + 1
  BY <1>1, ReplyFacts DEF BaseInv
<1>3. made \in Nat /\ MaxKey \in Nat /\ made + 1 \in Key
  BY <1>1, EnclaveAssumption DEF BaseInv, TypeOK, Key
<1>4. call[c].stage = "handshake"
  BY <1>1, Zenon DEF Message, BaseInv, CallsOk, MsgOk
<1>5. proc # "down"
  BY <1>1, BusyMeansUp, Zenon
<1>6. TypeOK'
  BY <1>1, <1>3 DEF BaseInv, TypeOK, Response
<1>7. TaskShape' /\ Shape'
  BY <1>1, <1>3 DEF BaseInv, TaskShape, Shape
<1>8. CallsOk'
  BY <1>1, <1>2 DEF BaseInv, CallsOk, MsgOk
<1>9. store = {} /\ queue = <<>> /\ work = {}
  BY <1>1, Zenon DEF BaseInv, MemoryOk
<1>10. MemoryOk'
  BY <1>1, <1>3, <1>9, Len(<<>>) = 0 DEF MemoryOk
<1>11. JobsOk'
  BY <1>1, <1>9, Len(<<>>) = 0 DEF JobsOk
<1>12. rows[made + 1] = "none" /\ task[made + 1].at = "off"
  BY <1>3 DEF BaseInv, LoopsOk
<1>13. AnnouncedOk'
  BY <1>1, <1>2, <1>3, <1>4, <1>12 DEF BaseInv, AnnouncedOk, Announced
<1>14. LoopsOk'
  BY <1>1, <1>3 DEF BaseInv, LoopsOk, Key
<1>16. DownOk' /\ BlacklistsOk'
  BY <1>1, <1>5, Zenon DEF BaseInv, DownOk, BlacklistsOk
<1>15. KeyTracked'
  <2> SUFFICES ASSUME NEW k \in 1..(made + 1)
               PROVE  \/ k \in onL1 \/ k \in orphan
                      \/ rows[k] # "none" /\ (Attests /\ proc # "down" => task[k].at # "off")
                      \/ \E d \in Thread : /\ Answered(d, {"handshake"}, {"KeyGenerated"})'
                                           /\ call'[d].ans.key = k
    BY <1>1, Zenon DEF KeyTracked, Attests
  <2>1. CASE k = made + 1
    BY <2>1, <1>2, <1>4 DEF Answered
  <2>2. CASE k \in 1..made
    BY <2>2, <1>1, <1>2 DEF BaseInv, KeyTracked, Answered
  <2> QED
    BY <2>1, <2>2, <1>3
<1> QED
  BY <1>2, <1>6, <1>7, <1>8, <1>10, <1>11, <1>13, <1>14, <1>15, <1>16 DEF BaseInv

\* execute_enqueue: the job is the only one that answers c, which was waiting
\* for nothing.
LEMMA ExecuteEnqueue ==
    ASSUME BaseInv, NEW c \in Thread, execute_enqueue(c), UNCHANGED proxyVars
    PROVE  BaseInv'
<1> DEFINE j == [to |-> c, key |-> ident, input |-> call[c].msg.input]
<1>1. /\ call[c].at = "wire" /\ Message(c).kind = "ExecuteBlock" /\ ident # 0
      /\ Len(queue) # Pool
      /\ queue' = Append(queue, j) /\ call' = [call EXCEPT ![c].at = "queued"]
      /\ UNCHANGED <<ident, made, store, work, executed>>
      /\ UNCHANGED <<proc, rows, task, row, onL1, expired, delivered, orphan, twice,
                     starved, left>>
  BY Zenon DEF execute_enqueue, Received, QueueFull, proxyVars
<1>2. /\ CallShape' /\ \A d \in Thread : d # c => call'[d] = call[d]
      /\ call'[c].at = "queued" /\ call'[c].msg = call[c].msg
  BY <1>1, Zenon DEF BaseInv, CallShape
<1>3. j \in Job
  <2>1. call[c].msg.kind = "ExecuteBlock"
    BY <1>1, Zenon DEF Message
  <2>2. call[c].msg.input \in Inputs /\ ident \in Key
    BY <1>1, <2>1 DEF BaseInv, CallsOk, MsgOk, TypeOK, Key
  <2> QED
    BY <2>2, Zenon DEF Job
<1>4. /\ queue \in Seq(Job) /\ queue' \in Seq(Job) /\ Len(queue) \in Nat
      /\ Len(queue') = Len(queue) + 1
      /\ \A k \in 1..Len(queue) : queue'[k] = queue[k]
      /\ queue'[Len(queue) + 1] = j
  <2>1. queue \in Seq(Job) /\ Len(queue) \in Nat
    BY JobFacts, Zenon DEF BaseInv, Shape
  <2> QED
    BY <1>1, <1>3, <2>1
<1>5. c # Nobody /\ j.to = c /\ j.key = ident
  BY EnclaveAssumption, Zenon
<1> HIDE DEF j
<1>6. proc # "down"
  BY <1>1, BusyMeansUp
<1>7. TypeOK'
  BY <1>1, <1>4, EnclaveAssumption DEF BaseInv, TypeOK, Response
<1>8. TaskShape' /\ Shape'
  BY <1>1, <1>4 DEF BaseInv, TaskShape, Shape
<1>9. CallsOk'
  BY <1>1, <1>2 DEF BaseInv, CallsOk, MsgOk
<1>10. MemoryOk'
  BY <1>1, <1>4, <1>5 DEF BaseInv, MemoryOk
<1>11. /\ \A k \in 1..Len(queue) : queue[k].to # c
       /\ \A i \in work : i.to # c
  BY <1>1, <1>5, Zenon DEF BaseInv, JobsOk
<1>12. JobsOk'
  <2>1. /\ \A k \in 1..Len(queue) : queue[k].to # Nobody => queue[k].to \in Thread
        /\ \A i \in work : i.to # Nobody => i.to \in Thread
    BY JobFacts DEF BaseInv
  <2>2. \A k \in 1..Len(queue') : k = Len(queue) + 1 \/ k \in 1..Len(queue)
    BY <1>4
  <2>3. ASSUME NEW k \in 1..Len(queue'), queue'[k].to # Nobody
        PROVE  /\ call'[queue'[k].to].at = "queued"
               /\ \A l \in 1..Len(queue') : l # k => queue'[l].to # queue'[k].to
               /\ \A i \in work' : i.to # queue'[k].to
    <3>1. CASE k = Len(queue) + 1
      BY <3>1, <2>2, <1>1, <1>2, <1>4, <1>5, <1>11
    <3>2. CASE k \in 1..Len(queue)
      BY <3>2, <2>1, <2>2, <2>3, <1>1, <1>2, <1>4, <1>5, <1>11 DEF BaseInv, JobsOk
    <3> QED
      BY <3>1, <3>2, <2>2
  <2>4. ASSUME NEW i \in work', i.to # Nobody
        PROVE  /\ call'[i.to].at = "queued"
               /\ \A h \in work' : h # i => h.to # i.to
    BY <2>1, <2>4, <1>1, <1>2, <1>11 DEF BaseInv, JobsOk
  <2> QED
    BY <2>3, <2>4, Zenon DEF JobsOk
<1>13. AnnouncedOk'
  BY <1>1, <1>2 DEF BaseInv, AnnouncedOk, Announced
<1>14. LoopsOk' /\ DownOk' /\ BlacklistsOk'
  BY <1>1, <1>6 DEF BaseInv, LoopsOk, DownOk, BlacklistsOk
<1>15. KeyTracked'
  BY <1>1, <1>2 DEF BaseInv, KeyTracked, Answered, Attests
<1> QED
  BY <1>2, <1>7, <1>8, <1>9, <1>10, <1>12, <1>13, <1>14, <1>15 DEF BaseInv

\* worker_recv: the head of the queue goes to the workers.
LEMMA WorkerRecv ==
    ASSUME BaseInv, worker_recv, UNCHANGED proxyVars
    PROVE  BaseInv'
<1>1. /\ queue # <<>> /\ Cardinality(work) < Pool
      /\ work' = work \cup {Head(queue)} /\ queue' = Tail(queue)
      /\ UNCHANGED <<ident, made, store, call, executed>>
      /\ UNCHANGED <<proc, rows, task, row, onL1, expired, delivered, orphan, twice,
                     starved, left>>
  BY Zenon DEF worker_recv, proxyVars
<1>2. /\ queue \in Seq(Job) /\ Len(queue) \in Nat /\ queue' \in Seq(Job)
      /\ Head(queue) \in Job /\ Head(queue) = queue[1] /\ Len(queue) > 0
      /\ Len(queue') = Len(queue) - 1
      /\ \A k \in 1..Len(queue') : queue'[k] = queue[k + 1]
  <2>1. queue \in Seq(Job) /\ Len(queue) \in Nat
    BY JobFacts, Zenon DEF BaseInv, Shape
  <2>2. Len(queue) > 0
    BY <1>1, <2>1
  <2> QED
    BY <1>1, <2>1, <2>2
<1> DEFINE h == Head(queue)
<1>3. /\ h \in Job /\ h = queue[1] /\ work' = work \cup {h}
      /\ \A k \in 1..Len(queue') : k + 1 \in 1..Len(queue) /\ k + 1 # 1
  BY <1>1, <1>2
<1> HIDE DEF h
<1>4. /\ IsFiniteSet(work') /\ Cardinality(work) \in Nat
      /\ Cardinality(work') <= Cardinality(work) + 1
  <2>1. IsFiniteSet(work)
    BY Zenon DEF BaseInv, Shape
  <2> QED
    BY <1>3, <2>1, AddFacts, CardinalityFacts, Zenon
<1>5. TypeOK'
  <2>1. Cardinality(work') <= Pool /\ Len(queue') <= Pool
    <3>1. Pool \in Nat /\ Cardinality(work') \in Nat /\ Len(queue) <= Pool
      BY <1>4, CardinalityFacts, EnclaveAssumption DEF BaseInv, TypeOK
    <3> QED
      BY <3>1, <1>1, <1>2, <1>4
  <2> QED
    BY <1>1, <2>1 DEF BaseInv, TypeOK, Response
<1>6. CallShape' /\ TaskShape' /\ Shape'
  BY <1>1, <1>2, <1>3, <1>4 DEF BaseInv, CallShape, TaskShape, Shape
<1>7. CallsOk'
  BY <1>1, Zenon DEF BaseInv, CallsOk, MsgOk
<1>8. MemoryOk'
  BY <1>1, <1>2, <1>3 DEF BaseInv, MemoryOk
<1>9. JobsOk'
  <2>1. 1 \in 1..Len(queue)
    BY <1>2
  <2>2. ASSUME NEW k \in 1..Len(queue'), queue'[k].to # Nobody
        PROVE  /\ call'[queue'[k].to].at = "queued"
               /\ \A l \in 1..Len(queue') : l # k => queue'[l].to # queue'[k].to
               /\ \A i \in work' : i.to # queue'[k].to
    BY <1>1, <1>2, <1>3, <2>1, <2>2 DEF BaseInv, JobsOk
  <2>3. ASSUME NEW i \in work', i.to # Nobody
        PROVE  /\ call'[i.to].at = "queued"
               /\ \A g \in work' : g # i => g.to # i.to
    BY <1>1, <1>3, <2>1, <2>3 DEF BaseInv, JobsOk
  <2> QED
    BY <2>2, <2>3 DEF JobsOk
<1>10. AnnouncedOk' /\ LoopsOk' /\ DownOk' /\ BlacklistsOk'
  BY <1>1 DEF BaseInv, AnnouncedOk, Announced, LoopsOk, DownOk, BlacklistsOk
<1>11. KeyTracked'
  BY <1>1 DEF BaseInv, KeyTracked, Answered, Attests
<1> QED
  BY <1>5, <1>6, <1>7, <1>8, <1>9, <1>10, <1>11, Zenon DEF BaseInv

\* BlockStore::insert keeps the store within its capacity and with one entry
\* per number; it adds the new entry at most.
LEMMA InsertFacts ==
    ASSUME BaseInv, NEW e \in Inputs
    PROVE  /\ Insert(e) \subseteq store \cup {e} /\ IsFiniteSet(Insert(e))
           /\ Cardinality(Insert(e)) <= StoreCap
           /\ \A x, y \in Insert(e) : x.nr = y.nr => x = y
<1> DEFINE kept == {x \in store : x.nr # e.nr}
           s == kept \cup {e}
           rest == {x \in s : \E y \in s : y.nr < x.nr}
<1>1. /\ store \subseteq Inputs /\ IsFiniteSet(store) /\ Cardinality(store) <= StoreCap
      /\ \A x, y \in store : x.nr = y.nr => x = y
  BY Zenon DEF BaseInv, Shape, TypeOK
<1>2. \A i \in Inputs : i.nr \in Nat
  BY EnclaveAssumption, Zenon
<1>3. /\ IsFiniteSet(kept) /\ Cardinality(kept) \in Nat /\ Cardinality(store) \in Nat
      /\ Cardinality(kept) <= Cardinality(store)
  BY <1>1, SubsetFacts, CardinalityFacts
<1>4. /\ IsFiniteSet(s) /\ Cardinality(s) \in Nat
      /\ Cardinality(s) <= StoreCap + 1
  <2> HIDE DEF kept
  <2>1. /\ IsFiniteSet(kept \cup {e}) /\ Cardinality(kept \cup {e}) \in Nat
        /\ Cardinality(kept \cup {e}) <= Cardinality(kept) + 1
    BY <1>3, AddFacts, Zenon
  <2> QED
    BY <1>1, <1>3, <2>1, EnclaveAssumption
<1>5. /\ s \subseteq store \cup {e}
      /\ \A x, y \in s : x.nr = y.nr => x = y
  BY <1>1
<1>6. PICK m \in s : \A y \in s : ~(y.nr < m.nr)
  <2> DEFINE N == {x.nr : x \in s}
  <2>1. N \subseteq Nat /\ N # {}
    BY <1>1, <1>2, Zenon
  <2>2. PICK n \in N : \A k \in N : n <= k
    BY <2>1, LeastFacts, Zenon
  <2>3. PICK m \in s : m.nr = n
    BY <2>2, Zenon
  <2>4. \A y \in s : y.nr \in Nat /\ m.nr \in Nat /\ m.nr <= y.nr
    BY <2>1, <2>2, <2>3
  <2> QED
    BY <2>4
<1>7. /\ rest \subseteq s \ {m} /\ IsFiniteSet(s \ {m})
      /\ Cardinality(s \ {m}) = Cardinality(s) - 1
  BY <1>4, <1>6, RemoveFacts
<1>8. IsFiniteSet(rest) /\ Cardinality(rest) \in Nat /\ Cardinality(rest) <= StoreCap
  BY <1>4, <1>7, SubsetFacts, CardinalityFacts, EnclaveAssumption
<1>9. Insert(e) = IF Cardinality(s) <= StoreCap THEN s ELSE rest
  BY Zenon DEF Insert
<1> HIDE DEF s
<1> QED
  BY <1>4, <1>5, <1>8, <1>9

\* A job that is done leaves the others to their threads.
LEMMA JobLeaves ==
    ASSUME BaseInv, NEW j \in work, work' = work \ {j}, queue' = queue,
           \A d \in Thread : d # j.to => call'[d] = call[d]
    PROVE  JobsOk'
<1>1. \A k \in 1..Len(queue) : queue[k].to # Nobody =>
          queue[k].to \in Thread /\ queue[k].to # j.to
  BY JobFacts, Zenon DEF BaseInv, JobsOk
<1>2. \A i \in work' : i \in work /\ (i.to # Nobody => i.to \in Thread /\ i.to # j.to)
  BY JobFacts DEF BaseInv, JobsOk
<1>3. \A k \in 1..Len(queue) : queue[k].to # Nobody => call'[queue[k].to] = call[queue[k].to]
  BY <1>1, Zenon
<1>4. \A i \in work' : i.to # Nobody => call'[i.to] = call[i.to]
  BY <1>2, Zenon
<1> QED
  BY <1>2, <1>3, <1>4 DEF BaseInv, JobsOk

\* The end of a job: only the thread that waits for it, if any, gets an answer.
LEMMA JobDone ==
    ASSUME BaseInv, NEW j \in work, work' = work \ {j},
           NEW a, Respond(j, a), a.kind # "KeyGenerated",
           a.kind = "ExecutionResult" => a.resp \in executed',
           executed \subseteq executed', executed' \subseteq Response,
           store' \subseteq Inputs, IsFiniteSet(store'), Cardinality(store') <= StoreCap,
           \A x, y \in store' : x.nr = y.nr => x = y,
           \A e \in store' : [nr |-> e.nr, hash |-> e.hash, key |-> ident] \in executed',
           UNCHANGED <<ident, made, queue>>, UNCHANGED proxyVars \/ FaultOnly
    PROVE  BaseInv'
<1>1. /\ UNCHANGED <<proc, rows, task, row, onL1, expired, delivered, orphan, twice, starved>>
      /\ left' \in [attests : BOOLEAN, calls : Nat, challenges : {0, 1}, faults : Nat]
      /\ left'.attests = left.attests
  BY DEF proxyVars, FaultOnly, Fault, BaseInv, Shape
<1>2. /\ CallShape' /\ \A d \in Thread : d # j.to => call'[d] = call[d]
      /\ j.to \in Thread => /\ call'[j.to].at = "answer" /\ call'[j.to].ans = a
                            /\ call'[j.to].msg = call[j.to].msg
                            /\ call[j.to].at = "queued"
  <2>1. CallShape /\ j.to \in Thread \cup {Nobody}
    BY Zenon DEF BaseInv, Shape, Job
  <2>2. CASE j.to = Nobody
    <3>1. call' = call
      BY <2>2, Zenon DEF Respond
    <3> QED
      BY <3>1, <2>1, <2>2, EnclaveAssumption DEF CallShape
  <2>3. CASE j.to # Nobody
    <3>1. j.to \in Thread /\ Reply(j.to, a)
      BY <2>1, <2>3, Zenon DEF Respond
    <3>2. call[j.to].at = "queued"
      BY <2>3 DEF BaseInv, JobsOk
    <3> QED
      BY <3>1, <3>2, <2>1, ReplyFacts
  <2> QED
    BY <2>2, <2>3
<1>3. IsFiniteSet(work') /\ Cardinality(work') <= Pool
  <2>1. IsFiniteSet(work) /\ Cardinality(work) \in Nat /\ Cardinality(work) <= Pool
    BY CardinalityFacts, Zenon DEF BaseInv, Shape, TypeOK
  <2>2. IsFiniteSet(work \ {j}) /\ Cardinality(work \ {j}) = Cardinality(work) - 1
    BY <2>1, RemoveFacts
  <2> QED
    BY <2>1, <2>2, EnclaveAssumption
<1>4. TypeOK'
  BY <1>1, <1>3 DEF BaseInv, TypeOK
<1>5. TaskShape' /\ Shape'
  <2>1. work' \subseteq Job
    BY Zenon DEF BaseInv, Shape
  <2> QED
    BY <1>1, <1>3, <2>1, Zenon DEF BaseInv, TaskShape, Shape
<1>6. CallsOk'
  BY <1>2 DEF BaseInv, CallsOk, MsgOk
<1>7. ident # 0
  BY Zenon DEF BaseInv, MemoryOk
<1>8. MemoryOk'
  BY <1>7, Zenon DEF BaseInv, MemoryOk
<1>9. JobsOk'
  BY <1>2, JobLeaves, Zenon
<1>10. AnnouncedOk'
  <2>1. \A c \in Thread : Announced(c)' => call'[c] = call[c]
    BY <1>2, Zenon DEF Announced
  <2> QED
    BY <1>1, <2>1, AnnouncedFrame, Zenon
<1>11. LoopsOk' /\ BlacklistsOk'
  BY <1>1, Zenon DEF BaseInv, LoopsOk, BlacklistsOk
<1>12. DownOk'
  <2>1. \A c \in Thread : call[c].at = "idle" => call'[c] = call[c]
    BY <1>2, Zenon
  <2> QED
    BY <1>1, <2>1, Zenon DEF BaseInv, DownOk
<1>13. KeyTracked'
  <2>1. \A c \in Thread : Announced(c) => call'[c] = call[c]
    BY <1>2, Zenon DEF Announced
  <2> QED
    BY <1>1, <2>1, TrackedFrame, Zenon
<1> QED
  BY <1>2, <1>4, <1>5, <1>6, <1>8, <1>9, <1>10, <1>11, <1>12, <1>13, Zenon DEF BaseInv

\* execute_block adds what it executed to the store and to the history, under
\* the key of the process.
LEMMA ExecuteBlock ==
    ASSUME BaseInv, NEW j \in work, execute_block(j), UNCHANGED proxyVars
    PROVE  BaseInv' /\ executed \subseteq executed'
<1> DEFINE r == [nr |-> j.input.nr, hash |-> j.input.hash, key |-> j.key]
           a == [kind |-> "ExecutionResult", resp |-> r]
<1>1. /\ work' = work \ {j} /\ store' = Insert(j.input)
      /\ executed' = executed \cup {r} /\ Respond(j, a)
      /\ UNCHANGED <<ident, made, queue>>
  BY Zenon DEF execute_block
<1>2. j.input \in Inputs /\ j.key \in Key /\ j.key = ident
  BY DEF BaseInv, Shape, Job, MemoryOk
<1>3. r \in Response /\ executed \subseteq Response
  BY <1>2 DEF Response, BaseInv, TypeOK
<1>4. a.kind = "ExecutionResult" /\ a.resp = r
  OBVIOUS
<1>5. /\ store' \subseteq store \cup {j.input} /\ IsFiniteSet(store')
      /\ Cardinality(store') <= StoreCap
      /\ \A x, y \in store' : x.nr = y.nr => x = y
  BY <1>1, <1>2, InsertFacts
<1>6. store' \subseteq Inputs
  BY <1>2, <1>5 DEF BaseInv, Shape
<1>7. \A e \in store' : [nr |-> e.nr, hash |-> e.hash, key |-> ident] \in executed'
  BY <1>1, <1>2, <1>5 DEF BaseInv, MemoryOk
<1> HIDE DEF r, a
<1> QED
  BY <1>1, <1>3, <1>4, <1>5, <1>6, <1>7, JobDone, Zenon

\* execute_block_failed answers with an error.
LEMMA ExecuteBlockFailed ==
    ASSUME BaseInv, NEW j \in work, execute_block_failed(j), FaultOnly
    PROVE  BaseInv'
<1>1. /\ work' = work \ {j} /\ Respond(j, [kind |-> "Error"])
      /\ UNCHANGED <<ident, made, store, queue, executed>>
  BY Zenon DEF execute_block_failed
<1>2. /\ executed \subseteq Response /\ store \subseteq Inputs /\ IsFiniteSet(store)
      /\ Cardinality(store) <= StoreCap
      /\ \A x, y \in store : x.nr = y.nr => x = y
      /\ \A e \in store : [nr |-> e.nr, hash |-> e.hash, key |-> ident] \in executed
  BY Zenon DEF BaseInv, TypeOK, Shape, MemoryOk
<1>3. [kind |-> "Error"].kind = "Error"
  OBVIOUS
<1> QED
  BY <1>1, <1>2, <1>3, JobDone

\* RestartEnclave: the memory of the enclave is gone, and the calls it breaks
\* are answered with an error; an announced key stays announced.
LEMMA Restart ==
    ASSUME BaseInv, RestartEnclave, FaultOnly
    PROVE  BaseInv'
<1>1. /\ ident' = 0 /\ store' = {} /\ queue' = <<>> /\ work' = {}
      /\ UNCHANGED <<made, executed>>
  BY Zenon DEF RestartEnclave
<1>2. /\ UNCHANGED <<proc, rows, task, row, onL1, expired, delivered, orphan, twice, starved>>
      /\ left' \in [attests : BOOLEAN, calls : Nat, challenges : {0, 1}, faults : Nat]
      /\ left'.attests = left.attests
  BY DEF FaultOnly, Fault, BaseInv, Shape
<1>3. /\ CallShape'
      /\ \A c \in Thread :
            \/ call'[c] = call[c]
            \/ /\ call[c].at \in {"wire", "queued"} /\ call'[c].at = "answer"
               /\ call'[c].ans.kind = "Error" /\ call'[c].msg = call[c].msg
  <2>1. PICK broken \in SUBSET {c \in Thread : call[c].at = "wire"} :
         call' = [c \in Thread |->
                    IF call[c].at = "queued" \/ c \in broken
                    THEN [call[c] EXCEPT !.at = "answer", !.ans = [kind |-> "Error"]]
                    ELSE call[c]]
    BY Zenon DEF RestartEnclave
  <2> QED
    BY <2>1, Zenon DEF BaseInv, CallShape
<1>4. /\ IsFiniteSet({}) /\ Cardinality({}) = 0 /\ Len(<<>>) = 0 /\ <<>> \in Seq(Job)
  BY EmptyFacts
<1>5. TypeOK'
  BY <1>1, <1>2, <1>4, EnclaveAssumption DEF BaseInv, TypeOK, Response
<1>6. TaskShape' /\ Shape'
  BY <1>1, <1>2, <1>4, Zenon DEF BaseInv, TaskShape, Shape
<1>7. CallsOk'
  BY <1>1, <1>3 DEF BaseInv, CallsOk, MsgOk
<1>8. MemoryOk' /\ JobsOk'
  BY <1>1, <1>4 DEF MemoryOk, JobsOk
<1>9. AnnouncedOk'
  <2>1. \A c \in Thread : Announced(c)' => call'[c] = call[c]
    BY <1>3, Zenon DEF Announced
  <2> QED
    BY <1>1, <1>2, <2>1, AnnouncedFrame, Zenon
<1>10. LoopsOk' /\ BlacklistsOk'
  BY <1>1, <1>2, Zenon DEF BaseInv, LoopsOk, BlacklistsOk
<1>11. DownOk'
  BY <1>2, <1>3 DEF BaseInv, DownOk
<1>12. KeyTracked'
  <2>1. \A c \in Thread : Announced(c) => call'[c] = call[c]
    BY <1>3, Zenon DEF Announced
  <2> QED
    BY <1>1, <1>2, <2>1, TrackedFrame, Zenon
<1> QED
  BY <1>3, <1>5, <1>6, <1>7, <1>8, <1>9, <1>10, <1>11, <1>12 DEF BaseInv
-----------------------------------------------------------------------------
(* Threads that are gone.                                                  *)

Orphaned(j, T) == IF j.to \in T THEN [j EXCEPT !.to = Nobody] ELSE j

\* A job without its reader is the same job.
LEMMA OrphanedFacts ==
    ASSUME NEW j \in Job, NEW T
    PROVE  /\ Orphaned(j, T) \in Job
           /\ Orphaned(j, T).key = j.key /\ Orphaned(j, T).input = j.input
           /\ Orphaned(j, T).to = IF j.to \in T THEN Nobody ELSE j.to
BY Zenon DEF Orphaned, Job

\* Dropped keeps the queue a queue: same length, same jobs but for readers.
LEMMA DroppedQueue ==
    ASSUME BaseInv, NEW T, Dropped(T)
    PROVE  /\ queue' \in Seq(Job) /\ Len(queue') = Len(queue)
           /\ \A k \in 1..Len(queue) : queue'[k] = Orphaned(queue[k], T)
<1>1. queue \in Seq(Job) /\ Len(queue) \in Nat /\ \A k \in 1..Len(queue) : queue[k] \in Job
  BY JobFacts, Zenon DEF BaseInv, Shape
<1>2. DOMAIN queue = 1..Len(queue)
  BY <1>1
<1>3. queue' = [k \in 1..Len(queue) |-> Orphaned(queue[k], T)]
  BY <1>2, Zenon DEF Dropped, Orphaned
<1>4. \A k \in 1..Len(queue) : Orphaned(queue[k], T) \in Job
  BY <1>1, OrphanedFacts, Zenon
<1>5. queue' \in [1..Len(queue) -> Job]
  BY <1>3, <1>4
<1>6. queue' \in Seq(Job)
  BY <1>1, <1>5
<1>8. Len(queue') = Len(queue)
  BY <1>1, <1>5, <1>6
<1> QED
  BY <1>3, <1>6, <1>8, Zenon

\* Dropped gives the workers no more jobs than they had.
LEMMA DroppedWork ==
    ASSUME BaseInv, NEW T, Dropped(T)
    PROVE  /\ work' = {Orphaned(j, T) : j \in work} /\ work' \subseteq Job
           /\ IsFiniteSet(work') /\ Cardinality(work') <= Pool
<1>1. work' = {Orphaned(j, T) : j \in work}
  BY Zenon DEF Dropped, Orphaned
<1>2. work \subseteq Job /\ IsFiniteSet(work) /\ Cardinality(work) <= Pool
  BY DEF BaseInv, Shape, TypeOK
<1>3. work' \subseteq Job
  BY <1>1, <1>2, OrphanedFacts
<1> DEFINE f == [j \in work |-> Orphaned(j, T)]
<1>4. work' = {f[j] : j \in work}
  BY <1>1, Zenon
<1>5. /\ IsFiniteSet(work') /\ Cardinality(work') <= Cardinality(work)
      /\ Cardinality(work) \in Nat /\ Cardinality(work') \in Nat
  <2> HIDE DEF f
  <2>1. /\ IsFiniteSet({f[j] : j \in work}) /\ Cardinality({f[j] : j \in work}) \in Nat
        /\ Cardinality({f[j] : j \in work}) <= Cardinality(work)
    BY <1>2, ImageFacts, Zenon
  <2> QED
    BY <1>2, <1>4, <2>1, CardinalityFacts
<1> QED
  BY <1>1, <1>2, <1>3, <1>5, EnclaveAssumption

\* What Dropped leaves of the calls, the jobs and the announcements.
LEMMA DroppedFacts ==
    ASSUME BaseInv, NEW T \in SUBSET Thread, Dropped(T)
    PROVE  /\ CallShape' /\ CallsOk' /\ MemoryOk' /\ JobsOk'
           /\ \A c \in Thread : IF c \in T THEN call'[c].at = "idle" ELSE call'[c] = call[c]
           /\ orphan \subseteq orphan' /\ orphan' \subseteq Key
           /\ \A c \in T : Announced(c) => call[c].ans.key \in orphan'
<1>1. /\ call' = [c \in Thread |-> IF c \in T THEN Calm ELSE call[c]]
      /\ orphan' = orphan \cup {call[c].ans.key : c \in {c \in T : Announced(c)}}
      /\ UNCHANGED <<ident, made, store, executed>>
  BY Zenon DEF Dropped, Announced
<1>2. /\ CallShape'
      /\ \A c \in Thread : IF c \in T THEN call'[c] = Calm ELSE call'[c] = call[c]
  BY <1>1, Zenon DEF BaseInv, CallShape, Calm
<1>3. Calm.at = "idle" /\ Calm.msg.kind = "none"
  BY Zenon DEF Calm
<1>4. CallsOk'
  BY <1>1, <1>2, <1>3 DEF BaseInv, CallsOk, MsgOk
<1>5. /\ orphan \subseteq orphan' /\ orphan' \subseteq Key
      /\ \A c \in T : Announced(c) => call[c].ans.key \in orphan'
  <2>1. \A c \in T : Announced(c) => call[c].ans.key \in Key
    BY EnclaveAssumption DEF BaseInv, AnnouncedOk, TypeOK, Key
  <2> QED
    BY <1>1, <2>1 DEF BaseInv, TypeOK
<1>6. /\ Len(queue') = Len(queue) /\ Len(queue) \in Nat
      /\ \A k \in 1..Len(queue) :
            /\ queue'[k].key = queue[k].key
            /\ queue'[k].to = IF queue[k].to \in T THEN Nobody ELSE queue[k].to
            /\ queue[k].to \in Thread \cup {Nobody}
  BY DroppedQueue, JobFacts, OrphanedFacts DEF BaseInv
<1>7. \A i \in work' : \E j \in work :
          /\ i = Orphaned(j, T) /\ i.key = j.key
          /\ i.to = IF j.to \in T THEN Nobody ELSE j.to
          /\ j.to \in Thread \cup {Nobody}
  BY DroppedWork, JobFacts, OrphanedFacts DEF BaseInv
<1>8. Nobody \notin T
  BY EnclaveAssumption, Zenon
<1>9. MemoryOk'
  <2>1. ident = 0 => queue' = <<>> /\ work' = {}
    <3>1. ident = 0 => Len(queue') = 0 /\ work' = {}
      BY <1>6, <1>7, Len(<<>>) = 0 DEF BaseInv, MemoryOk
    <3> QED
      BY <3>1, DroppedQueue
  <2> QED
    BY <1>1, <1>6, <1>7, <2>1, Zenon DEF BaseInv, MemoryOk
<1>10. JobsOk'
  <2>1. ASSUME NEW k \in 1..Len(queue'), queue'[k].to # Nobody
        PROVE  /\ call'[queue'[k].to].at = "queued"
               /\ \A l \in 1..Len(queue') : l # k => queue'[l].to # queue'[k].to
               /\ \A i \in work' : i.to # queue'[k].to
    <3>1. /\ k \in 1..Len(queue) /\ queue[k].to = queue'[k].to /\ queue[k].to \in Thread \ T
      BY <1>6, <2>1
    <3> QED
      BY <3>1, <2>1, <1>2, <1>6, <1>7 DEF BaseInv, JobsOk
  <2>2. ASSUME NEW i \in work', i.to # Nobody
        PROVE  /\ call'[i.to].at = "queued"
               /\ \A h \in work' : h # i => h.to # i.to
    <3>1. PICK j \in work : i = Orphaned(j, T) /\ i.to = j.to /\ j.to \in Thread \ T
      BY <1>7, <2>2, Zenon
    <3> QED
      BY <3>1, <2>2, <1>2, <1>7 DEF BaseInv, JobsOk
  <2> QED
    BY <2>1, <2>2 DEF JobsOk
<1> QED
  BY <1>2, <1>3, <1>4, <1>5, <1>9, <1>10

\* The empty blacklist is short enough: there are HA provers.
LEMMA NoneBlacklisted ==
    /\ Cardinality({}) < Cardinality(HaProvers)
    /\ IsFiniteSet(HaProvers) /\ Cardinality(HaProvers) \in Nat
<1>1. HaProvers \subseteq Provers /\ HaProvers # {} /\ IsFiniteSet(Provers)
  BY ProxyAssumption, Zenon
<1>2. IsFiniteSet(HaProvers) /\ Cardinality(HaProvers) \in Nat
  BY <1>1, SubsetFacts, CardinalityFacts
<1>3. Cardinality(HaProvers) # 0
  BY <1>1, <1>2, CardinalityFacts, Zenon
<1> QED
  BY <1>2, <1>3, EmptyFacts
=============================================================================
