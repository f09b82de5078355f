------------------------------ MODULE Enclave ------------------------------
(***************************************************************************)
(* The Nitro enclave (bin/client/src/nitro/mod.rs): its accept loop with   *)
(* the three messages of EnclaveIncoming, the signing key it generates     *)
(* once per life, the bounded queue and the pool of execution workers, the *)
(* in-memory BlockStore, and the signing of a batch.                       *)
(*                                                                         *)
(* A connection is the thread of the proxy that opened it.  A key is its   *)
(* number; a signature is the key with what it signs, so that a response   *)
(* verifies under its own key only.  A block is its number and its hash:   *)
(* the leaf is a function of them.  A root stands for its sequence of      *)
(* leaves and the blobs for the block hashes they decode to (BatchCodec).  *)
(***************************************************************************)
EXTENDS Naturals, Sequences, FiniteSets

CONSTANTS Client,    \* handlers of the proxy's HTTP server
          Boot,      \* the proxy's main
          Inputs,    \* blocks that execute: records [nr, hash]
          Pool,      \* EXECUTE_WORKER_COUNT
          StoreCap,  \* MAX_ENTRIES
          MaxKey,    \* bound: keys generated, one per life of the enclave
          Nobody     \* the connection of a thread that is gone

Thread == Client \cup {Boot}
Key == 1..MaxKey
Response == [nr : {i.nr : i \in Inputs}, hash : {i.hash : i \in Inputs}, key : Key]

ASSUME EnclaveAssumption ==
    /\ Boot \notin Client /\ Nobody \notin Thread
    /\ \A i \in Inputs : i.nr \in Nat /\ i = [nr |-> i.nr, hash |-> i.hash]
    /\ Pool \in Nat \ {0} /\ StoreCap \in Nat \ {0} /\ MaxKey \in Nat \ {0}

VARIABLES
    ident,    \* identity: the key, 0 for None
    made,     \* history: keys generated
    store,    \* block_store
    queue,    \* the sync_channel of ExecuteJobs
    work,     \* jobs in the workers' hands
    call,     \* the threads of the proxy, with the connection each one holds
    executed, \* history: blocks each key executed
    signed    \* history: batch signatures

enclaveVars == <<ident, made, store, queue, work, call, executed, signed>>

\* at: "wire" a message is sent, "queued" a job is accepted, "answer" the
\* reply is there; stage: which of the three messages a request takes.
Calm == [at |-> "idle", stage |-> "first", msg |-> [kind |-> "none"],
         ans |-> [kind |-> "none"]]
Message(c) == IF call[c].stage = "handshake" THEN [kind |-> "handshake"]
              ELSE call[c].msg
Received(c, kind) == call[c].at = "wire" /\ Message(c).kind = kind

Reply(c, a) == call' = [call EXCEPT ![c].at = "answer", ![c].ans = a]
-----------------------------------------------------------------------------
(* Handshake.                                                              *)

generate_key(c) ==
    /\ Received(c, "handshake") /\ ident = 0 /\ made < MaxKey
    /\ made' = made + 1 /\ ident' = made + 1
    /\ Reply(c, [kind |-> "KeyGenerated", key |-> made + 1])
    /\ UNCHANGED <<store, queue, work, executed, signed>>

\* KMS or the NSM failed.
generate_key_failed(c) ==
    /\ Received(c, "handshake") /\ ident = 0
    /\ Reply(c, [kind |-> "Error"])
    /\ UNCHANGED <<ident, made, store, queue, work, executed, signed>>

already_initialized(c) ==
    /\ Received(c, "handshake") /\ ident # 0
    /\ Reply(c, [kind |-> "AlreadyInitialized", key |-> ident])
    /\ UNCHANGED <<ident, made, store, queue, work, executed, signed>>

not_initialized(c) ==
    /\ Received(c, "ExecuteBlock") \/ Received(c, "SubmitBatch")
    /\ ident = 0
    /\ Reply(c, [kind |-> "NotInitialized"])
    /\ UNCHANGED <<ident, made, store, queue, work, executed, signed>>
-----------------------------------------------------------------------------
(* Block execution: try_send into a queue as long as the pool is wide.     *)

QueueFull_mut == FALSE
QueueFull == Len(queue) = Pool

execute_enqueue(c) ==
    /\ Received(c, "ExecuteBlock") /\ ident # 0 /\ ~QueueFull
    /\ queue' = Append(queue, [to |-> c, key |-> ident, input |-> call[c].msg.input])
    /\ call' = [call EXCEPT ![c].at = "queued"]
    /\ UNCHANGED <<ident, made, store, work, executed, signed>>

execute_busy_mut(c) ==
    /\ Received(c, "ExecuteBlock") /\ ident # 0 /\ QueueFull
    /\ call' = [call EXCEPT ![c].at = "queued"]
    /\ UNCHANGED <<ident, made, store, queue, work, executed, signed>>
execute_busy(c) ==
    /\ Received(c, "ExecuteBlock") /\ ident # 0 /\ QueueFull
    /\ Reply(c, [kind |-> "Error"])
    /\ UNCHANGED <<ident, made, store, queue, work, executed, signed>>

worker_recv ==
    /\ queue # <<>> /\ Cardinality(work) < Pool
    /\ work' = work \cup {Head(queue)}
    /\ queue' = Tail(queue)
    /\ UNCHANGED <<ident, made, store, call, executed, signed>>

\* BlockStore::insert: the entry of the number is replaced, the lowest evicted.
Insert(e) ==
    LET s == {x \in store : x.nr # e.nr} \cup {e}
    IN IF Cardinality(s) <= StoreCap THEN s
       ELSE {x \in s : \E y \in s : y.nr < x.nr}

Respond(j, a) ==
    IF j.to = Nobody THEN UNCHANGED call ELSE Reply(j.to, a)

execute_block(j) ==
    /\ j \in work
    /\ work' = work \ {j}
    /\ store' = Insert(j.input)
    /\ LET r == [nr |-> j.input.nr, hash |-> j.input.hash, key |-> j.key]
       IN executed' = executed \cup {r} /\ Respond(j, [kind |-> "ExecutionResult", resp |-> r])
    /\ UNCHANGED <<ident, made, queue, signed>>

\* The execution failed, or panicked and was caught.
execute_block_failed(j) ==
    /\ j \in work
    /\ work' = work \ {j}
    /\ Respond(j, [kind |-> "Error"])
    /\ UNCHANGED <<ident, made, store, queue, executed, signed>>
-----------------------------------------------------------------------------
(* Batch signing.                                                          *)

verify_response_mut(r) == TRUE
verify_response(r) == r.key = ident

\* handle_submit_batch: a response that was sent decides, and only without
\* one the snapshot of the store.
Sent(m, n) == {r \in m.responses : r.nr = n}
Trusted(m, n) ==
    IF Sent(m, n) # {} THEN {r.hash : r \in {r \in Sent(m, n) : verify_response(r)}}
    ELSE {e.hash : e \in {e \in store : e.nr = n}}
Twice(m) == \E r, s \in m.responses : r # s /\ r.nr = s.nr
invalid_blocks(m) == {n \in m.from..m.to : Trusted(m, n) = {}}
Leaves(m) == [k \in 1..m.to - m.from + 1 |->
                 CHOOSE h \in Trusted(m, m.from + k - 1) : TRUE]

\* The walk over the blob's blocks in step with the trusted hashes.
verify_blobs(blobs, hashes) ==
    /\ Len(blobs) >= Len(hashes)
    /\ \A k \in DOMAIN hashes : blobs[k] = hashes[k]
    /\ Len(blobs) <= Len(hashes)

handle_submit_batch(m) ==
    IF m.from > m.to \/ Twice(m) THEN [kind |-> "Error"]
    ELSE IF invalid_blocks(m) # {}
         THEN [kind |-> "InvalidSignatures", blocks |-> invalid_blocks(m)]
    ELSE IF ~verify_blobs(m.blobs, Leaves(m)) THEN [kind |-> "Error"]
    ELSE [kind |-> "SubmitBatchResult",
          sig |-> [key |-> ident, from |-> m.from, root |-> Leaves(m),
                   blobs |-> m.blobs]]

submit_batch(c) ==
    /\ Received(c, "SubmitBatch") /\ ident # 0
    /\ LET a == handle_submit_batch(call[c].msg)
       IN /\ Reply(c, a)
          /\ signed' = IF a.kind = "SubmitBatchResult" THEN signed \cup {a.sig} ELSE signed
    /\ UNCHANGED <<ident, made, store, queue, work, executed>>
-----------------------------------------------------------------------------
\* The enclave dies and is started again.  Accepted connections break, one not
\* yet accepted may.
RestartEnclave ==
    /\ ident # 0 /\ made < MaxKey
    /\ ident' = 0 /\ store' = {} /\ queue' = <<>> /\ work' = {}
    /\ \E broken \in SUBSET {c \in Thread : call[c].at = "wire"} :
         call' = [c \in Thread |->
                    IF call[c].at = "queued" \/ c \in broken
                    THEN [call[c] EXCEPT !.at = "answer", !.ans = [kind |-> "Error"]]
                    ELSE call[c]]
    /\ UNCHANGED <<made, executed, signed>>

EnclaveInit ==
    /\ ident = 0 /\ made = 0 /\ store = {} /\ queue = <<>> /\ work = {}
    /\ call = [c \in Thread |-> Calm] /\ executed = {} /\ signed = {}

\* One turn of the accept loop for the connection of c, faults apart.
Accept(c) ==
    \/ generate_key(c) \/ already_initialized(c) \/ not_initialized(c)
    \/ execute_enqueue(c) \/ execute_busy(c) \/ submit_batch(c)
=============================================================================
