------------------------------- MODULE Proxy -------------------------------
(***************************************************************************)
(* The proxy (bin/proxy/src) in front of the enclave: the signing          *)
(* endpoints with their handshake and retry (enclave.rs), the attestation  *)
(* of every enclave key on L1 (attestation/driver.rs, network.rs), SP1     *)
(* challenges (challenge.rs), the SQLite tables behind them (db.rs) and    *)
(* the start-up of main.rs.                                                *)
(*                                                                         *)
(* The SP1 network answers a proof request with a proof or an error, and   *)
(* the NitroVerifier contract accepts a proof, again if need be, while the *)
(* attestation is fresh: both are external.                                *)
(***************************************************************************)
EXTENDS Enclave

CONSTANTS Blobs,      \* what the blobs of a batch may decode to
          Provers,    \* provers of the SP1 network
          HaProvers,  \* the high-availability ones among them
          Setups      \* whether AttestationConfig is there, with bounds: signing
                      \* requests, challenges, and failed calls, exits, restarts

ASSUME ProxyAssumption ==
    /\ HaProvers \subseteq Provers /\ HaProvers # {}
    /\ IsFiniteSet(Provers)
    /\ \A b \in Blobs : b \in Seq({b[k] : k \in DOMAIN b})
    /\ Setups \subseteq [attests : BOOLEAN, calls : Nat, challenges : {0, 1}, faults : Nat]

VARIABLES
    proc,     \* how far main has come
    lock,     \* holder of HANDSHAKE_LOCK
    rows,     \* pending_attestation: "none", or whether request_id is set
    task,     \* the proof loop of each key and of the challenge
    row,      \* status of the row in challenges
    onL1,     \* verifiedPubkeys of NitroVerifier
    expired,  \* keys whose attestation is too old for the contract
    delivered,\* responses the orchestrator holds
    orphan,   \* history: keys whose KeyGenerated nobody received
    twice,    \* history: a second loop was spawned for a key
    starved,  \* history: a count of HA provers failed
    left      \* the setup, and what is left of its bounds

proxyVars == <<proc, lock, rows, task, row, onL1, expired, delivered, orphan, twice,
               starved, left>>
vars == <<enclaveVars, proxyVars>>

Chal == MaxKey + 1
Loop == Key \cup {Chal}
Off == [at |-> "off", black |-> {}]
Attests == left.attests
Fault == left.faults > 0 /\ left' = [left EXCEPT !.faults = @ - 1]
-----------------------------------------------------------------------------
(* Signing requests.                                                       *)

Begin(c, m) ==
    /\ proc = "up" /\ call[c].at = "idle" /\ left.calls > 0
    /\ left' = [left EXCEPT !.calls = @ - 1]
    /\ call' = [call EXCEPT ![c] = [Calm EXCEPT !.at = "wire", !.msg = m]]
    /\ UNCHANGED <<ident, made, store, queue, work, executed, signed>>
    /\ UNCHANGED <<proc, lock, rows, task, row, onL1, expired, delivered, orphan, twice,
                   starved>>

sign_block_execution(c) ==
    \E i \in Inputs : Begin(c, [kind |-> "ExecuteBlock", input |-> i])

\* An empty range or no blobs are refused before the enclave is asked.
sign_batch_root(c) ==
    \E from, to \in {i.nr : i \in Inputs}, R \in SUBSET delivered, b \in Blobs :
        /\ from <= to /\ b # <<>>
        /\ R \subseteq {r \in delivered : r.nr \in from..to}
        /\ Begin(c, [kind |-> "SubmitBatch", from |-> from, to |-> to,
                     responses |-> R, blobs |-> b])

\* The reply of execute_block_inner and submit_batch_inner.
Answered(c, stages, kinds) ==
    /\ call[c].at = "answer" /\ call[c].stage \in stages /\ call[c].ans.kind \in kinds
Hang(c) == call' = [call EXCEPT ![c] = Calm]
SameEnclave == UNCHANGED <<ident, made, store, queue, work, executed, signed>>

reply(c) ==
    /\ Answered(c, {"first", "retry"}, {"ExecutionResult", "SubmitBatchResult", "InvalidSignatures"})
    /\ delivered' = IF call[c].ans.kind = "ExecutionResult"
                    THEN delivered \cup {call[c].ans.resp} ELSE delivered
    /\ Hang(c) /\ SameEnclave
    /\ UNCHANGED <<proc, lock, rows, task, row, onL1, expired, orphan, twice, starved,
                   left>>

\* An error, and on the retry also a second NotInitialized.
reply_error(c) ==
    /\ \/ Answered(c, {"first", "retry"}, {"Error"})
       \/ Answered(c, {"retry"}, {"NotInitialized"})
    /\ Hang(c) /\ SameEnclave /\ UNCHANGED proxyVars

reply_not_initialized(c) ==
    /\ Answered(c, {"first"}, {"NotInitialized"})
    /\ call' = [call EXCEPT ![c].at = "lock", ![c].stage = "handshake",
                            ![c].ans = Calm.ans]
    /\ SameEnclave /\ UNCHANGED proxyVars
-----------------------------------------------------------------------------
(* ensure_handshake, under HANDSHAKE_LOCK.                                 *)

handshake_lock(c) ==
    /\ call[c].at = "lock" /\ lock = Nobody
    /\ lock' = c
    /\ call' = [call EXCEPT ![c].at = "wire"]
    /\ SameEnclave
    /\ UNCHANGED <<proc, rows, task, row, onL1, expired, delivered, orphan, twice, starved,
                   left>>

\* The lock is released; a request is sent again, main goes on to serve.
Proceed(c) ==
    /\ lock' = Nobody
    /\ IF c = Boot THEN proc' = "up" /\ Hang(c)
       ELSE /\ call' = [call EXCEPT ![c] = [@ EXCEPT !.at = "wire", !.stage = "retry",
                                                     !.ans = Calm.ans]]
            /\ UNCHANGED proc

\* prove_and_submit_for_key first looks for a saved request_id.
Started(k) == [Off EXCEPT !.at = IF rows[k] = "requested" THEN "saved" ELSE "fresh"]
Spawn(k) ==
    IF Attests
    THEN /\ task' = [task EXCEPT ![k] = Started(k)]
         /\ twice' = (twice \/ task[k].at # "off")
    ELSE UNCHANGED <<task, twice>>

\* insert_pending_attestation does nothing for a key that has a row.
InsertPending(k) == rows' = IF rows[k] = "none" THEN [rows EXCEPT ![k] = "new"] ELSE rows

handshake_new(c) ==
    /\ Answered(c, {"handshake"}, {"KeyGenerated"})
    /\ InsertPending(call[c].ans.key) /\ Spawn(call[c].ans.key) /\ Proceed(c)
    /\ SameEnclave
    /\ UNCHANGED <<row, onL1, expired, delivered, orphan, starved, left>>

handshake_known_mut(c) ==
    /\ Answered(c, {"handshake"}, {"AlreadyInitialized"})
    /\ InsertPending(call[c].ans.key) /\ Spawn(call[c].ans.key) /\ Proceed(c)
    /\ SameEnclave
    /\ UNCHANGED <<row, onL1, expired, delivered, orphan, starved, left>>
handshake_known(c) ==
    /\ Answered(c, {"handshake"}, {"AlreadyInitialized"})
    /\ Proceed(c) /\ SameEnclave
    /\ UNCHANGED <<rows, task, row, onL1, expired, delivered, orphan, twice, starved, left>>

\* What is gone with the connections of the threads in T: their jobs go on
\* without a reader, and a key on its way is never heard of again.  A message
\* the enclave accepts after this has the effect of one accepted before it.
Dropped(T) ==
    /\ call' = [c \in Thread |-> IF c \in T THEN Calm ELSE call[c]]
    /\ queue' = [k \in DOMAIN queue |->
                   IF queue[k].to \in T THEN [queue[k] EXCEPT !.to = Nobody] ELSE queue[k]]
    /\ work' = {IF j.to \in T THEN [j EXCEPT !.to = Nobody] ELSE j : j \in work}
    /\ orphan' = orphan \cup {call[c].ans.key :
                    c \in {c \in T : call[c].at = "answer" /\ call[c].ans.kind = "KeyGenerated"}}
    /\ lock' = IF lock \in T THEN Nobody ELSE lock
    /\ UNCHANGED <<ident, made, store, executed, signed>>

\* The process ends: tasks and requests are lost, the tables stay.
Stop ==
    /\ proc' = "down" /\ Dropped(Thread)
    /\ task' = [k \in Loop |-> Off]
    /\ UNCHANGED <<rows, row, onL1, expired, delivered, twice, starved>>

\* An error fails the request; main returns it and the process ends.
handshake_failed(c) ==
    /\ Answered(c, {"handshake"}, {"Error"})
    /\ IF c = Boot THEN Stop
       ELSE /\ Hang(c) /\ lock' = Nobody /\ SameEnclave
            /\ UNCHANGED <<proc, rows, task, row, onL1, expired, delivered, orphan, twice,
                           starved>>
    /\ UNCHANGED left

\* The orchestrator's timeout closes the connection, and the handler is
\* dropped wherever it waits.
client_gone(c) ==
    /\ Fault /\ call[c].at # "idle"
    /\ Dropped({c})
    /\ UNCHANGED <<proc, rows, task, row, onL1, expired, delivered, twice, starved>>
-----------------------------------------------------------------------------
(* main.                                                                   *)

resume_all_pending_mut ==
    /\ proc = "down"
    /\ task' = [k \in Loop |-> IF Attests /\ k \in Key /\ rows[k] = "requested"
                               THEN Started(k) ELSE Off]
    /\ proc' = "handshake"
    /\ call' = [call EXCEPT ![Boot] = [Calm EXCEPT !.at = "lock", !.stage = "handshake"]]
    /\ SameEnclave
    /\ UNCHANGED <<lock, rows, row, onL1, expired, delivered, orphan, twice, starved, left>>
resume_all_pending ==
    /\ proc = "down"
    /\ task' = [k \in Loop |-> IF Attests /\ k \in Key /\ rows[k] # "none"
                               THEN Started(k) ELSE Off]
    /\ proc' = "handshake"
    /\ call' = [call EXCEPT ![Boot] = [Calm EXCEPT !.at = "lock", !.stage = "handshake"]]
    /\ SameEnclave
    /\ UNCHANGED <<lock, rows, row, onL1, expired, delivered, orphan, twice, starved, left>>

Crash == proc # "down" /\ Fault /\ Stop
-----------------------------------------------------------------------------
(* Proof loops: run_prove_loop with prove_and_submit_for_key for a key,    *)
(* run_challenge_proof for the challenge.                                  *)

At(k, a) == task' = [task EXCEPT ![k].at = a]
SetId(k, v) == rows' = IF k \in Key THEN [rows EXCEPT ![k] = v] ELSE rows
Others == UNCHANGED <<proc, lock, onL1, expired, delivered, orphan, twice>>

\* The endpoint answers once the row is there and the loop is spawned.
challenge_sp1_request ==
    /\ proc = "up" /\ row = "none" /\ left.challenges > 0
    /\ row' = "pending" /\ At(Chal, "fresh")
    /\ left' = [left EXCEPT !.challenges = 0]
    /\ Others /\ UNCHANGED <<rows, starved>>

StatusAnswer == CASE row = "none" -> "404" [] row = "completed" -> "200"
                  [] row = "failed" -> "500" [] OTHER -> "202"

wait_saved(k) ==
    /\ task[k].at = "saved" /\ At(k, "submit")
    /\ Others /\ UNCHANGED <<rows, row, starved, left>>

wait_saved_failed(k) ==
    /\ task[k].at = "saved" /\ Fault
    /\ SetId(k, "new") /\ At(k, "fresh")
    /\ Others /\ UNCHANGED <<row, starved>>

Whitelist(k) == Provers \ task[k].black

request(k) ==
    /\ task[k].at = "fresh" /\ Whitelist(k) # {}
    /\ SetId(k, "requested") /\ At(k, "wait")
    /\ Others /\ UNCHANGED <<row, starved, left>>

\* The loop of a key sleeps and starts over; a challenge has failed.
GiveUp(k) ==
    IF k \in Key THEN At(k, "sleep") /\ UNCHANGED row
    ELSE At(k, "off") /\ row' = "failed"

request_failed(k) ==
    /\ task[k].at = "fresh"
    /\ IF Whitelist(k) = {} THEN UNCHANGED left ELSE Fault
    /\ GiveUp(k)
    /\ Others /\ UNCHANGED <<rows, starved>>

wait_proof(k) ==
    /\ task[k].at = "wait"
    /\ IF k \in Key THEN At(k, "submit") /\ UNCHANGED row
       ELSE At(k, "off") /\ row' = "completed"
    /\ Others /\ UNCHANGED <<rows, starved, left>>

\* The fulfiller, when it is known, is blacklisted; the list is emptied when
\* it is as long as there are HA provers.  A failed count is a count of 0.
Blacklisted_mut(B, count) == B
Blacklisted(B, count) == IF count > 0 /\ Cardinality(B) >= count THEN {} ELSE B

Retried_mut(k, f, count) == IF k = Chal THEN Off ELSE
    [at |-> "fresh", black |-> Blacklisted(task[k].black \cup f, count)]
Retried(k, f, count) ==
    [at |-> "fresh", black |-> Blacklisted(task[k].black \cup f, count)]

wait_retriable(k) ==
    /\ task[k].at = "wait" /\ Fault
    /\ \E f \in {{}} \cup {{p} : p \in Whitelist(k)}, count \in {0, Cardinality(HaProvers)} :
         /\ task' = [task EXCEPT ![k] = Retried(k, f, count)]
         /\ starved' = (starved \/ count = 0)
    /\ SetId(k, "new")
    /\ Others /\ UNCHANGED row

Cleared_mut(k) == SetId(k, "none")
Cleared(k) == SetId(k, "new")
wait_fatal(k) ==
    /\ task[k].at = "wait" /\ Fault
    /\ Cleared(k) /\ GiveUp(k)
    /\ Others /\ UNCHANGED starved

\* submit_proof_to_l1: the row goes when the receipt is there.
submit_attestation(k) ==
    /\ task[k].at = "submit" /\ k \notin expired
    /\ onL1' = onL1 \cup {k}
    /\ rows' = [rows EXCEPT ![k] = "none"] /\ At(k, "off")
    /\ UNCHANGED <<proc, lock, row, expired, delivered, orphan, twice, starved, left>>

\* The transaction is mined and its receipt never comes.
submit_receipt_lost(k) ==
    /\ task[k].at = "submit" /\ k \notin expired /\ Fault
    /\ onL1' = onL1 \cup {k} /\ At(k, "sleep")
    /\ UNCHANGED <<proc, lock, rows, row, expired, delivered, orphan, twice, starved>>

submit_failed(k) ==
    /\ task[k].at = "submit"
    /\ IF k \in expired THEN UNCHANGED left ELSE Fault
    /\ At(k, "sleep")
    /\ Others /\ UNCHANGED <<rows, row, starved>>

prove_retry(k) ==
    /\ task[k].at = "sleep" /\ task' = [task EXCEPT ![k] = Started(k)]
    /\ Others /\ UNCHANGED <<rows, row, starved, left>>

Expire ==
    /\ Fault
    /\ \E k \in 1..made \ expired : expired' = expired \cup {k}
    /\ UNCHANGED <<proc, lock, rows, task, row, onL1, delivered, orphan, twice, starved>>
-----------------------------------------------------------------------------
Init ==
    /\ EnclaveInit
    /\ proc = "down" /\ lock = Nobody /\ rows = [k \in Key |-> "none"]
    /\ task = [k \in Loop |-> Off] /\ row = "none" /\ onL1 = {} /\ expired = {}
    /\ delivered = {} /\ orphan = {} /\ twice = FALSE /\ starved = FALSE
    /\ left \in Setups

\* What an enclave step leaves alone.
FaultOnly ==
    /\ Fault
    /\ UNCHANGED <<proc, lock, rows, task, row, onL1, expired, delivered, orphan, twice,
                   starved>>

EnclaveStep(c) == Accept(c) /\ UNCHANGED proxyVars
PoolStep == (worker_recv \/ \E j \in work : execute_block(j)) /\ UNCHANGED proxyVars
ThreadStep(c) == \/ reply(c) \/ reply_error(c) \/ reply_not_initialized(c)
                 \/ handshake_lock(c) \/ handshake_new(c) \/ handshake_known(c)
                 \/ handshake_failed(c)
LoopStep(k) ==
    /\ \/ wait_saved(k) \/ request(k) \/ wait_proof(k)
       \/ submit_attestation(k) \/ prove_retry(k)
       \/ wait_saved_failed(k) \/ request_failed(k) \/ wait_retriable(k) \/ wait_fatal(k)
       \/ submit_receipt_lost(k) \/ submit_failed(k)
    /\ UNCHANGED enclaveVars

Next ==
    \/ \E c \in Client : sign_block_execution(c) \/ sign_batch_root(c) \/ client_gone(c)
    \/ \E c \in Thread : EnclaveStep(c) \/ ThreadStep(c)
    \/ \E c \in Thread : generate_key_failed(c) /\ FaultOnly
    \/ \E j \in work : execute_block_failed(j) /\ FaultOnly
    \/ PoolStep
    \/ RestartEnclave /\ FaultOnly
    \/ resume_all_pending \/ Crash
    \/ challenge_sp1_request /\ UNCHANGED enclaveVars
    \/ \E k \in Loop : LoopStep(k)
    \/ Expire /\ UNCHANGED enclaveVars

Spec == Init /\ [][Next]_vars

\* Every task of the two processes is scheduled, the supervisor restarts the
\* proxy, the accept loop takes every connection, and the SP1 network and L1
\* answer what they are asked.
Fairness ==
    /\ WF_vars(\E c \in Thread : EnclaveStep(c)) /\ WF_vars(\E c \in Thread : ThreadStep(c))
    /\ WF_vars(PoolStep) /\ WF_vars(resume_all_pending)
    /\ \A k \in Loop : WF_vars(LoopStep(k))
FairSpec == Spec /\ Fairness
-----------------------------------------------------------------------------
\* Rows stay in range, the block store and the execution queue keep to their
\* capacity (BlockStore::insert, try_send), and the store has one entry per number.
TypeOK ==
    /\ ident \in 0..MaxKey /\ made \in 0..MaxKey /\ ident <= made
    /\ Cardinality(store) <= StoreCap /\ \A e, f \in store : e.nr = f.nr => e = f
    /\ Len(queue) <= Pool /\ Cardinality(work) <= Pool
    /\ executed \subseteq Response /\ delivered \subseteq executed
    /\ rows \in [Key -> {"none", "new", "requested"}]
    /\ row \in {"none", "pending", "completed", "failed"}
    /\ onL1 \subseteq Key /\ expired \subseteq Key /\ orphan \subseteq Key

\* A batch signature covers, for every block of its range, a block that the
\* enclave holding the signing key executed itself, and blobs of just these
\* blocks (handle_submit_batch): neither a response of an earlier key nor a
\* store that survived it gets in, whatever the orchestrator sends.
SignedBatchSound ==
    \A s \in signed :
        /\ \A k \in DOMAIN s.root :
             [nr |-> s.from + k - 1, hash |-> s.root[k], key |-> s.key] \in executed
        /\ s.blobs = s.root

\* No key is forgotten: it is registered on L1, or it has its row in
\* pending_attestation and, while the proxy runs, a loop that works on it, or
\* the answer that announces it is being handled.  The exception is the key
\* whose answer was lost with its reader: AlreadyInitialized inserts no row.
KeyTracked ==
    \A k \in 1..made :
        \/ k \in onL1 \/ k \in orphan
        \/ rows[k] # "none" /\ (Attests /\ proc # "down" => task[k].at # "off")
        \/ \E c \in Thread : /\ Answered(c, {"handshake"}, {"KeyGenerated"})
                             /\ call[c].ans.key = k

\* "Spawn-dedup is inherent" (ensure_handshake): no key has two proof loops,
\* through concurrent handshakes, restarts and the resumption of old rows.
OneLoopPerKey == ~twice

\* A new proof request always has a prover left to be sent to, since the
\* blacklist is emptied in time, unless a count of the HA provers failed.
ProversLeft ==
    ~starved => \A k \in Loop : task[k].at = "fresh" => Whitelist(k) # {}

\* Every key is registered and its row deleted in the end, unless the key was
\* orphaned, its attestation expired before the proof arrived, or the proxy
\* runs without AttestationConfig.
KeysSettle ==
    \A k \in Key :
        made >= k /\ Attests ~> \/ k \in onL1 /\ rows[k] = "none"
                     \/ k \in orphan \/ k \in expired

\* Every signing request is answered, through busy queues, restarts of the
\* enclave, the handshake lock and the retry.
RequestsAnswered ==
    \A c \in Client : call[c].at # "idle" ~> call[c].at = "idle"

\* A challenge that is accepted leaves 202 for a proof or an error in the end,
\* unless the proxy goes down: its loop is not resumed.
ChallengeSettles ==
    task[Chal].at # "off" ~> StatusAnswer \in {"200", "500"} \/ proc = "down"
=============================================================================
