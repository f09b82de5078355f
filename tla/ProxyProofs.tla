---------------------------- MODULE ProxyProofs -----------------------------
(***************************************************************************)
(* What is proved of Proxy: the end of the proxy and of a client, the      *)
(* handshake, the loops that restart with the proxy, the attestation loops *)
(* and the signature of a batch keep the invariant of ProxyInvariant, and  *)
(* the theorems follow from it.                                            *)
(***************************************************************************)
EXTENDS ProxyInvariant

-----------------------------------------------------------------------------
(* The end of the proxy and of a client.                                   *)

\* The end of the proxy: no call, no loop and no announcement is left, and a
\* key that was announced is orphaned.
LEMMA StopStep ==
    ASSUME BaseInv, Stop,
           left' \in [attests : BOOLEAN, calls : Nat, challenges : {0, 1}, faults : Nat]
    PROVE  BaseInv'
<1>1. /\ proc' = "down" /\ Dropped(Thread) /\ task' = [k \in Loop |-> Off]
      /\ UNCHANGED <<rows, row, onL1, expired, delivered, twice, starved>>
      /\ UNCHANGED <<ident, made, store, executed>>
  BY DEF Stop, Dropped
<1>2. /\ CallShape' /\ CallsOk' /\ MemoryOk' /\ JobsOk'
      /\ \A c \in Thread : call'[c].at = "idle"
      /\ orphan \subseteq orphan' /\ orphan' \subseteq Key
      /\ \A c \in Thread : Announced(c) => call[c].ans.key \in orphan'
  BY <1>1, DroppedFacts, Zenon
<1>3. /\ queue' \in Seq(Job) /\ Len(queue') = Len(queue)
      /\ work' \subseteq Job /\ IsFiniteSet(work') /\ Cardinality(work') <= Pool
  BY <1>1, DroppedQueue, DroppedWork
<1>4. TypeOK'
  BY <1>1, <1>2, <1>3 DEF BaseInv, TypeOK, Response
<1>5. Shape'
  BY <1>1, <1>3 DEF BaseInv, Shape
<1>6. \A k \in Loop : task'[k].at = "off" /\ task'[k].black = {}
  BY <1>1, Zenon DEF Off
<1>7. TaskShape'
  BY <1>1 DEF TaskShape, Off
<1>8. AnnouncedOk' /\ DownOk'
  BY <1>2, Zenon DEF AnnouncedOk, Announced, DownOk
<1>9. LoopsOk'
  BY <1>1, <1>6 DEF BaseInv, LoopsOk, Loop
<1>10. BlacklistsOk'
  BY <1>1, <1>6, NoneBlacklisted DEF BlacklistsOk
<1>11. KeyTracked'
  BY <1>1, <1>2, TrackedFrame, Zenon
<1> QED
  BY <1>2, <1>4, <1>5, <1>7, <1>8, <1>9, <1>10, <1>11 DEF BaseInv

\* The handler of a client that hung up: the others go on.
LEMMA ClientGone ==
    ASSUME BaseInv, NEW c \in Client, client_gone(c)
    PROVE  BaseInv'
<1>1. /\ Dropped({c}) /\ call[c].at # "idle" /\ c \in Thread
      /\ UNCHANGED <<proc, rows, task, row, onL1, expired, delivered, twice, starved>>
      /\ UNCHANGED <<ident, made, store, executed>>
      /\ left' \in [attests : BOOLEAN, calls : Nat, challenges : {0, 1}, faults : Nat]
      /\ left'.attests = left.attests
  <2>1. /\ Dropped({c}) /\ call[c].at # "idle" /\ c \in Thread /\ Fault
        /\ UNCHANGED <<proc, rows, task, row, onL1, expired, delivered, twice, starved>>
        /\ UNCHANGED <<ident, made, store, executed>>
    BY Zenon DEF client_gone, Dropped, Thread
  <2> QED
    BY <2>1 DEF Fault, BaseInv, Shape
<1>2. /\ CallShape' /\ CallsOk' /\ MemoryOk' /\ JobsOk'
      /\ call'[c].at = "idle" /\ \A d \in Thread : d # c => call'[d] = call[d]
      /\ orphan \subseteq orphan' /\ orphan' \subseteq Key
      /\ Announced(c) => call[c].ans.key \in orphan'
  BY <1>1, DroppedFacts
<1>3. /\ queue' \in Seq(Job) /\ Len(queue') = Len(queue)
      /\ work' \subseteq Job /\ IsFiniteSet(work') /\ Cardinality(work') <= Pool
  BY <1>1, DroppedQueue, DroppedWork, Zenon
<1>4. TypeOK'
  BY <1>1, <1>2, <1>3, Zenon DEF BaseInv, TypeOK, Response
<1>5. TaskShape' /\ Shape'
  BY <1>1, <1>3 DEF BaseInv, TaskShape, Shape
<1>6. AnnouncedOk'
  BY <1>1, <1>2 DEF BaseInv, AnnouncedOk, Announced
<1>7. LoopsOk' /\ BlacklistsOk'
  BY <1>1, Zenon DEF BaseInv, LoopsOk, BlacklistsOk
<1>8. DownOk'
  BY <1>1, <1>2 DEF BaseInv, DownOk
<1>9. KeyTracked'
  BY <1>1, <1>2, TrackedFrame, Zenon
<1> QED
  BY <1>2, <1>4, <1>5, <1>6, <1>7, <1>8, <1>9 DEF BaseInv
-----------------------------------------------------------------------------
(* Proof loops.                                                            *)

\* A loop that is started has an empty blacklist and something to do.
LEMMA StartedFacts ==
    ASSUME NEW k
    PROVE  /\ DOMAIN Started(k) = {"at", "black"}
           /\ Started(k).at \in {"saved", "fresh"} /\ Started(k).black = {}
BY Zenon DEF Started, Off

\* ensure_handshake with a new key: the key gets its row and its first loop.
LEMMA HandshakeNew ==
    ASSUME BaseInv, NEW c \in Thread, handshake_new(c)
    PROVE  BaseInv'
<1> DEFINE n == call[c].ans.key
<1>1. /\ call[c].at = "answer" /\ call[c].ans.kind = "KeyGenerated"
      /\ InsertPending(n) /\ Spawn(n) /\ Proceed(c)
      /\ UNCHANGED <<ident, made, store, queue, work, executed>>
      /\ UNCHANGED <<row, onL1, expired, delivered, orphan, starved, left>>
  BY Zenon DEF handshake_new, Answered, SameEnclave
<1>2. /\ CallShape' /\ \A d \in Thread : d # c => call'[d] = call[d]
      /\ call'[c].at \in {"idle", "wire"}
      /\ call'[c].msg = call[c].msg \/ call'[c].msg.kind = "none"
      /\ proc' \in {proc, "up"}
  BY <1>1, ProceedFacts DEF BaseInv
<1>3. /\ n \in 1..made /\ rows[n] = "none" /\ task[n].at = "off"
      /\ \A d \in Thread : d # c /\ Announced(d) => call[d].ans.key # n
  BY <1>1, Zenon DEF BaseInv, AnnouncedOk, Announced
<1>4. n \in Key /\ n \in Loop /\ n # Chal /\ Chal \in Loop
  BY <1>3, EnclaveAssumption DEF BaseInv, TypeOK, Key, Loop, Chal
<1> HIDE DEF n
<1>5. proc # "down"
  BY <1>1, BusyMeansUp
<1>6. rows' = [rows EXCEPT ![n] = "new"] /\ rows \in [Key -> {"none", "new", "requested"}]
  BY <1>1, <1>3 DEF InsertPending, BaseInv, TypeOK
<1>7. /\ twice' = twice /\ TaskShape'
      /\ \A k \in Loop : k # n => task'[k] = task[k]
      /\ IF Attests THEN task'[n].at # "off" /\ task'[n].black = {} ELSE task'[n] = task[n]
  <2>1. CASE Attests
    <3>1. task' = [task EXCEPT ![n] = Started(n)] /\ twice' = (twice \/ task[n].at # "off")
      BY <1>1, <2>1, Zenon DEF Spawn
    <3>2. DOMAIN Started(n) = {"at", "black"} /\ Started(n).at # "off" /\ Started(n).black = {}
      BY StartedFacts
    <3>3. twice' = twice
      BY <3>1, <1>3, Zenon DEF BaseInv, Shape
    <3> QED
      BY <3>1, <3>2, <3>3, <2>1, <1>4 DEF BaseInv, TaskShape
  <2>2. CASE ~Attests
    BY <1>1, <2>2 DEF Spawn, BaseInv, TaskShape
  <2> QED
    BY <2>1, <2>2
<1>8. TypeOK'
  BY <1>1, <1>4, <1>6 DEF BaseInv, TypeOK, Response
<1>9. Shape'
  BY <1>1, <1>7 DEF BaseInv, Shape
<1>10. CallsOk'
  BY <1>1, <1>2 DEF BaseInv, CallsOk, MsgOk
<1>11. MemoryOk'
  BY <1>1, Zenon DEF BaseInv, MemoryOk
<1>12. JobsOk'
  BY <1>1, <1>2, JobFacts DEF BaseInv, JobsOk
<1>13. AnnouncedOk'
  <2> SUFFICES ASSUME NEW d \in Thread, Announced(d)'
               PROVE  /\ call'[d].stage = "handshake" /\ call'[d].ans.key \in 1..made'
                      /\ rows'[call'[d].ans.key] = "none" /\ task'[call'[d].ans.key].at = "off"
                      /\ \A e \in Thread : e # d /\ Announced(e)' =>
                            call'[e].ans.key # call'[d].ans.key
    BY Zenon DEF AnnouncedOk
  <2>1. d # c /\ call'[d] = call[d] /\ Announced(d) /\ call[d].ans.key # n
    BY <1>2, <1>3, Zenon DEF Announced
  <2>2. call[d].ans.key \in 1..made /\ call[d].ans.key \in Key
    BY <2>1, EnclaveAssumption DEF BaseInv, AnnouncedOk, TypeOK, Key
  <2>3. rows'[call[d].ans.key] = "none" /\ task'[call[d].ans.key].at = "off"
    BY <2>1, <2>2, <1>6, <1>7, Zenon DEF BaseInv, AnnouncedOk, Loop
  <2>4. \A e \in Thread : Announced(e)' => Announced(e) /\ call'[e] = call[e]
    BY <1>2, Zenon DEF Announced
  <2> QED
    BY <1>1, <2>1, <2>2, <2>3, <2>4 DEF BaseInv, AnnouncedOk
<1>14. LoopsOk'
  <2>1. \A k \in Key : rows'[k] = IF k = n THEN "new" ELSE rows[k]
    BY <1>6
  <2>2. /\ \A k \in Key : k # n => task'[k] = task[k]
        /\ task'[Chal] = task[Chal]
    BY <1>4, <1>7 DEF Loop
  <2>3. n <= made /\ made' = made
    BY <1>1, <1>3
  <2> QED
    BY <2>1, <2>2, <2>3 DEF BaseInv, LoopsOk
<1>15. DownOk'
  BY <1>2, <1>5 DEF DownOk
<1>16. BlacklistsOk'
  BY <1>1, <1>4, <1>7, NoneBlacklisted, Zenon DEF BaseInv, BlacklistsOk
<1>17. KeyTracked'
  <2> SUFFICES ASSUME NEW k \in 1..made, k \notin onL1, k \notin orphan
               PROVE  \/ rows'[k] # "none" /\ (Attests => task'[k].at # "off")
                      \/ \E d \in Thread : /\ Answered(d, {"handshake"}, {"KeyGenerated"})'
                                           /\ call'[d].ans.key = k
    BY <1>1, Zenon DEF KeyTracked, Attests
  <2>1. k \in Key /\ k \in Loop
    BY EnclaveAssumption DEF BaseInv, TypeOK, Key, Loop
  <2>2. CASE k = n
    BY <2>2, <1>4, <1>6, <1>7
  <2>3. CASE k # n /\ \E d \in Thread : Announced(d) /\ call[d].ans.key = k
    <3>1. PICK d \in Thread : Announced(d) /\ call[d].ans.key = k
      BY <2>3, Zenon
    <3>2. d # c /\ call'[d] = call[d] /\ call[d].stage = "handshake"
      BY <3>1, <2>3, <1>2 DEF BaseInv, AnnouncedOk, n
    <3> QED
      BY <3>1, <3>2 DEF Answered, Announced
  <2>4. CASE k # n /\ ~\E d \in Thread : Announced(d) /\ call[d].ans.key = k
    <3>1. rows[k] # "none" /\ (Attests => task[k].at # "off")
      BY <2>4, <1>5 DEF BaseInv, KeyTracked, Answered, Announced
    <3> QED
      BY <3>1, <2>1, <2>4, <1>6, <1>7, Zenon
  <2> QED
    BY <2>2, <2>3, <2>4
<1> QED
  BY <1>2, <1>7, <1>8, <1>9, <1>10, <1>11, <1>12, <1>13, <1>14, <1>15, <1>16, <1>17, Zenon DEF BaseInv

\* resume_all_pending: every key with a row gets one loop.
LEMMA ResumeAllPending ==
    ASSUME BaseInv, resume_all_pending
    PROVE  BaseInv'
<1>1. /\ proc = "down" /\ proc' = "handshake"
      /\ task' = [k \in Loop |-> IF Attests /\ k \in Key /\ rows[k] # "none"
                                 THEN Started(k) ELSE Off]
      /\ call' = [call EXCEPT ![Boot] = [Calm EXCEPT !.at = "lock", !.stage = "handshake"]]
      /\ UNCHANGED <<ident, made, store, queue, work, executed>>
      /\ UNCHANGED <<rows, row, onL1, expired, delivered, orphan, twice, starved, left>>
  BY DEF resume_all_pending, SameEnclave
<1>2. Boot \in Thread /\ \A c \in Thread : call[c].at = "idle"
  BY <1>1, Zenon DEF BaseInv, DownOk, Thread
<1>3. /\ CallShape' /\ \A c \in Thread : c # Boot => call'[c] = call[c]
      /\ call'[Boot].at = "lock" /\ call'[Boot].msg.kind = "none"
  BY <1>1, <1>2 DEF BaseInv, CallShape, Calm
<1>4. TaskShape'
  BY <1>1, StartedFacts DEF TaskShape, Off
<1>5. /\ \A k \in Loop : task'[k].black = {}
      /\ \A k \in Key : task'[k].at # "off" <=> Attests /\ rows[k] # "none"
      /\ task'[Chal].at = "off"
  <2>1. Key \subseteq Loop /\ Chal \in Loop /\ Chal \notin Key
    BY EnclaveAssumption DEF Loop, Chal, Key
  <2>2. Off.at = "off" /\ Off.black = {}
    BY DEF Off
  <2> QED
    BY <1>1, <2>1, <2>2, StartedFacts
<1>6. TypeOK'
  BY <1>1, Zenon DEF BaseInv, TypeOK, Response
<1>7. Shape'
  BY <1>1 DEF BaseInv, Shape
<1>8. CallsOk'
  BY <1>1, <1>3 DEF BaseInv, CallsOk, MsgOk
<1>9. MemoryOk'
  BY <1>1, Zenon DEF BaseInv, MemoryOk
<1>10. JobsOk'
  BY <1>1, <1>2, <1>3, JobFacts DEF BaseInv, JobsOk
<1>11. \A c \in Thread : ~Announced(c) /\ ~Announced(c)'
  BY <1>2, <1>3 DEF Announced
<1>12. AnnouncedOk' /\ DownOk'
  BY <1>1, <1>11 DEF AnnouncedOk, DownOk
<1>13. LoopsOk'
  BY <1>1, <1>5, Zenon DEF BaseInv, LoopsOk
<1>14. BlacklistsOk'
  BY <1>1, <1>5, NoneBlacklisted, Zenon DEF BlacklistsOk
<1>15. KeyTracked'
  <2>1. 1..made \subseteq Key
    BY EnclaveAssumption DEF BaseInv, TypeOK, Key
  <2>2. \A k \in 1..made : k \in onL1 \/ k \in orphan \/ rows[k] # "none"
    BY <1>11, Zenon DEF BaseInv, KeyTracked, Answered, Announced
  <2> QED
    BY <1>1, <1>5, <2>1, <2>2 DEF KeyTracked, Attests
<1> QED
  BY <1>3, <1>4, <1>6, <1>7, <1>8, <1>9, <1>10, <1>12, <1>13, <1>14, <1>15 DEF BaseInv

\* A step of the loop k that keeps its key pending: the row stays a row, the
\* loop of a key goes on, the one of the challenge may end.
LEMMA LoopKeeps ==
    ASSUME BaseInv, NEW k \in Loop, UNCHANGED enclaveVars, TaskShape',
           \A l \in Loop : l # k => task'[l] = task[l],
           k \in Key => task[k].at # "off" /\ task'[k].at # "off",
           k = Chal => task'[k].at \in {"off", "fresh", "wait"},
           rows' \in [Key -> {"none", "new", "requested"}],
           \A l \in Key : rows'[l] # rows[l] => l = k /\ rows'[l] # "none",
           task'[k].black \subseteq Provers, starved' \in BOOLEAN, starved => starved',
           ~starved' => Cardinality(task'[k].black) < Cardinality(HaProvers),
           row' \in {"none", "pending", "completed", "failed"},
           onL1 \subseteq onL1', onL1' \subseteq Key,
           UNCHANGED <<proc, expired, delivered, orphan, twice>>,
           left' \in [attests : BOOLEAN, calls : Nat, challenges : {0, 1}, faults : Nat],
           left'.attests = left.attests
    PROVE  BaseInv'
<1>1. UNCHANGED <<ident, made, store, queue, work, call, executed>>
  BY Zenon DEF enclaveVars
<1>2. Key \subseteq Loop /\ Chal \in Loop /\ Chal \notin Key /\ 1..made \subseteq Key
  BY EnclaveAssumption DEF Loop, Chal, Key, BaseInv, TypeOK
<1>3. TypeOK'
  BY <1>1, Zenon DEF BaseInv, TypeOK, Response
<1>4. Shape'
  BY <1>1, Zenon DEF BaseInv, Shape
<1>5. CallShape' /\ CallsOk' /\ MemoryOk' /\ JobsOk' /\ DownOk'
  BY <1>1, EnclaveFrame, Zenon
<1>6. AnnouncedOk'
  <2>1. \A c \in Thread : Announced(c) => call[c].ans.key \in Key /\ call[c].ans.key # k
    BY <1>2 DEF BaseInv, AnnouncedOk
  <2> QED
    BY <1>1, <1>2, <2>1 DEF BaseInv, AnnouncedOk, Announced
<1>7. LoopsOk'
  BY <1>1, <1>2 DEF BaseInv, LoopsOk
<1>8. BlacklistsOk'
  BY Zenon DEF BaseInv, BlacklistsOk
<1>9. KeyTracked'
  BY <1>1, <1>2 DEF BaseInv, KeyTracked, Answered, Attests
<1> QED
  BY <1>3, <1>4, <1>5, <1>6, <1>7, <1>8, <1>9 DEF BaseInv

-----------------------------------------------------------------------------
(* The attestation loops.                                                  *)

\* The updates of a loop and of its row, field by field.
LEMMA AtFacts ==
    ASSUME TaskShape, NEW k \in Loop, NEW a, At(k, a)
    PROVE  /\ TaskShape' /\ \A l \in Loop : l # k => task'[l] = task[l]
           /\ task'[k].at = a /\ task'[k].black = task[k].black
BY Zenon DEF TaskShape, At

\* SetId writes one row, and never removes it.
LEMMA SetIdFacts ==
    ASSUME rows \in [Key -> {"none", "new", "requested"}], NEW k \in Loop,
           NEW v \in {"new", "requested"}, SetId(k, v) \/ UNCHANGED rows
    PROVE  /\ rows' \in [Key -> {"none", "new", "requested"}]
           /\ \A l \in Key : rows'[l] # rows[l] => l = k /\ rows'[l] # "none"
BY Zenon DEF SetId

\* Loops that only move on: at changes, the blacklist does not.
LEMMA LoopMoves ==
    ASSUME BaseInv, NEW k \in Loop, UNCHANGED enclaveVars, NEW a, At(k, a),
           task[k].at # "off" \/ k = Chal,
           k \in Key => a # "off", k = Chal => a \in {"off", "fresh", "wait"},
           NEW v \in {"new", "requested"}, SetId(k, v) \/ UNCHANGED rows,
           UNCHANGED starved, row' \in {"none", "pending", "completed", "failed"},
           onL1 \subseteq onL1', onL1' \subseteq Key,
           UNCHANGED <<proc, expired, delivered, orphan, twice>>,
           left' \in [attests : BOOLEAN, calls : Nat, challenges : {0, 1}, faults : Nat],
           left'.attests = left.attests
    PROVE  BaseInv'
<1>1. TaskShape /\ rows \in [Key -> {"none", "new", "requested"}] /\ starved \in BOOLEAN
  BY DEF BaseInv, TypeOK, Shape
<1>2. /\ TaskShape' /\ \A l \in Loop : l # k => task'[l] = task[l]
      /\ task'[k].at = a /\ task'[k].black = task[k].black
  BY <1>1, AtFacts
<1>3. /\ rows' \in [Key -> {"none", "new", "requested"}]
      /\ \A l \in Key : rows'[l] # rows[l] => l = k /\ rows'[l] # "none"
  BY <1>1, SetIdFacts
<1>4. /\ task'[k].black \subseteq Provers
      /\ ~starved' => Cardinality(task'[k].black) < Cardinality(HaProvers)
  BY <1>2, Zenon DEF BaseInv, BlacklistsOk
<1>5. k \in Key => k # Chal
  BY EnclaveAssumption DEF Key, Chal
<1> QED
  BY <1>1, <1>2, <1>3, <1>4, <1>5, LoopKeeps

\* One step per action of a loop that keeps the key pending.
LEMMA LoopActions ==
    ASSUME BaseInv, NEW k \in Loop, UNCHANGED enclaveVars,
           \/ wait_saved(k) \/ request(k) \/ wait_proof(k) \/ wait_saved_failed(k)
           \/ request_failed(k) \/ wait_fatal(k) \/ submit_receipt_lost(k) \/ submit_failed(k)
    PROVE  BaseInv'
<1>1. /\ row \in {"none", "pending", "completed", "failed"} /\ onL1 \subseteq Key
      /\ left \in [attests : BOOLEAN, calls : Nat, challenges : {0, 1}, faults : Nat]
  BY Zenon DEF BaseInv, TypeOK, Shape
<1>2. Fault => /\ left' \in [attests : BOOLEAN, calls : Nat, challenges : {0, 1}, faults : Nat]
               /\ left'.attests = left.attests
  BY <1>1 DEF Fault
<1>3. k \in Key \/ (k = Chal /\ k \notin Key /\ task[k].at \in {"off", "fresh", "wait"})
  BY EnclaveAssumption, Zenon DEF BaseInv, LoopsOk, Loop, Chal, Key
<1>4. k \in Key => k # Chal
  BY EnclaveAssumption DEF Key, Chal
<1>5. CASE wait_saved(k)
  BY <1>1, <1>3, <1>4, <1>5, LoopMoves, Zenon DEF wait_saved, Others
<1>6. CASE request(k)
  BY <1>1, <1>3, <1>4, <1>6, LoopMoves, Zenon DEF request, Others
<1>7. CASE wait_proof(k)
  BY <1>1, <1>3, <1>4, <1>7, LoopMoves, Zenon DEF wait_proof, Others
<1>8. CASE wait_saved_failed(k)
  BY <1>1, <1>2, <1>3, <1>4, <1>8, LoopMoves, Zenon DEF wait_saved_failed, Others
<1>9. CASE request_failed(k)
  BY <1>1, <1>2, <1>3, <1>4, <1>9, LoopMoves DEF request_failed, GiveUp, Others
<1>10. CASE wait_fatal(k)
  BY <1>1, <1>2, <1>3, <1>4, <1>10, LoopMoves DEF wait_fatal, Cleared, GiveUp, Others
<1>11. CASE submit_receipt_lost(k)
  BY <1>1, <1>2, <1>3, <1>4, <1>11, LoopMoves, Zenon DEF submit_receipt_lost
<1>12. CASE submit_failed(k)
  BY <1>1, <1>2, <1>3, <1>4, <1>12, LoopMoves, Zenon DEF submit_failed, Others
<1> QED
  BY <1>5, <1>6, <1>7, <1>8, <1>9, <1>10, <1>11, <1>12

\* A challenge that is accepted starts its loop.
LEMMA ChallengeRequest ==
    ASSUME BaseInv, challenge_sp1_request, UNCHANGED enclaveVars
    PROVE  BaseInv'
<1>1. /\ row' = "pending" /\ At(Chal, "fresh") /\ left' = [left EXCEPT !.challenges = 0]
      /\ UNCHANGED <<proc, onL1, expired, delivered, orphan, twice, rows, starved>>
  BY Zenon DEF challenge_sp1_request, Others
<1>2. /\ left' \in [attests : BOOLEAN, calls : Nat, challenges : {0, 1}, faults : Nat]
      /\ left'.attests = left.attests
  BY <1>1 DEF BaseInv, Shape
<1>3. Chal \in Loop /\ Chal \notin Key /\ onL1 \subseteq Key
  BY EnclaveAssumption DEF Loop, Chal, Key, BaseInv, TypeOK
<1> QED
  BY <1>1, <1>2, <1>3, LoopMoves

\* A retriable failure: the blacklist is emptied before it holds every prover.
LEMMA WaitRetriable ==
    ASSUME BaseInv, NEW k \in Loop, wait_retriable(k), UNCHANGED enclaveVars
    PROVE  BaseInv'
<1>1. /\ task[k].at = "wait" /\ Fault /\ SetId(k, "new")
      /\ UNCHANGED <<proc, onL1, expired, delivered, orphan, twice, row>>
  BY Zenon DEF wait_retriable, Others
<1>2. PICK f \in {{}} \cup {{p} : p \in Whitelist(k)}, count \in {0, Cardinality(HaProvers)} :
         /\ task' = [task EXCEPT ![k] = Retried(k, f, count)]
         /\ starved' = (starved \/ count = 0)
  BY Zenon DEF wait_retriable
<1> DEFINE B == task[k].black \cup f
<1>3. B \subseteq Provers /\ starved \in BOOLEAN
  BY Zenon DEF Whitelist, BaseInv, BlacklistsOk, Shape
<1>4. IsFiniteSet(B) /\ Cardinality(B) \in Nat
  BY <1>3, ProxyAssumption, SubsetFacts, CardinalityFacts, Zenon
<1>5. /\ Retried(k, f, count) = [at |-> "fresh", black |-> Blacklisted(B, count)]
      /\ Blacklisted(B, count) = IF count > 0 /\ Cardinality(B) >= count THEN {} ELSE B
  BY DEF Retried, Blacklisted
<1> HIDE DEF B
<1>6. /\ TaskShape' /\ \A l \in Loop : l # k => task'[l] = task[l]
      /\ task'[k].at = "fresh" /\ task'[k].black = Blacklisted(B, count)
  BY <1>2, <1>5 DEF BaseInv, TaskShape
<1>7. /\ task'[k].black \subseteq Provers
      /\ ~starved' => Cardinality(task'[k].black) < Cardinality(HaProvers)
  <2>1. ~starved' => count = Cardinality(HaProvers)
    BY <1>2, Zenon
  <2>2. count = Cardinality(HaProvers) => count \in Nat /\ count > 0
    BY NoneBlacklisted, EmptyFacts
  <2>3. count = Cardinality(HaProvers) =>
           Cardinality(Blacklisted(B, count)) < Cardinality(HaProvers)
    BY <1>4, <1>5, <2>2, NoneBlacklisted
  <2>4. Blacklisted(B, count) \subseteq Provers
    BY <1>3, <1>5
  <2> QED
    BY <1>6, <2>1, <2>3, <2>4
<1>8. /\ left' \in [attests : BOOLEAN, calls : Nat, challenges : {0, 1}, faults : Nat]
      /\ left'.attests = left.attests
  BY <1>1 DEF BaseInv, Shape, Fault
<1>9. /\ rows' \in [Key -> {"none", "new", "requested"}]
      /\ \A l \in Key : rows'[l] # rows[l] => l = k /\ rows'[l] # "none"
  BY <1>1, SetIdFacts DEF BaseInv, TypeOK
<1>10. row \in {"none", "pending", "completed", "failed"} /\ onL1 \subseteq Key
  BY Zenon DEF BaseInv, TypeOK
<1> QED
  BY <1>1, <1>2, <1>3, <1>6, <1>7, <1>8, <1>9, <1>10, LoopKeeps

\* A loop that starts over is the loop of a key.
LEMMA ProveRetry ==
    ASSUME BaseInv, NEW k \in Loop, prove_retry(k), UNCHANGED enclaveVars
    PROVE  BaseInv'
<1>1. /\ task[k].at = "sleep" /\ task' = [task EXCEPT ![k] = Started(k)]
      /\ UNCHANGED <<proc, onL1, expired, delivered, orphan, twice, rows, row, starved, left>>
  BY Zenon DEF prove_retry, Others
<1>2. k # Chal
  BY <1>1 DEF BaseInv, LoopsOk
<1>3. /\ TaskShape' /\ \A l \in Loop : l # k => task'[l] = task[l]
      /\ task'[k].at # "off" /\ task'[k].black = {}
  BY <1>1, StartedFacts DEF BaseInv, TaskShape
<1>4. /\ row \in {"none", "pending", "completed", "failed"} /\ onL1 \subseteq Key
      /\ left \in [attests : BOOLEAN, calls : Nat, challenges : {0, 1}, faults : Nat]
      /\ rows \in [Key -> {"none", "new", "requested"}] /\ starved \in BOOLEAN
  BY Zenon DEF BaseInv, TypeOK, Shape
<1> QED
  BY <1>1, <1>2, <1>3, <1>4, NoneBlacklisted, LoopKeeps, Zenon

\* submit_attestation: the key is on L1 before its row and its loop are gone.
LEMMA SubmitAttestation ==
    ASSUME BaseInv, NEW k \in Loop, submit_attestation(k), UNCHANGED enclaveVars
    PROVE  BaseInv'
<1>1. /\ task[k].at = "submit" /\ At(k, "off") /\ onL1' = onL1 \cup {k}
      /\ rows' = [rows EXCEPT ![k] = "none"]
      /\ UNCHANGED <<proc, row, expired, delivered, orphan, twice, starved, left>>
      /\ UNCHANGED <<ident, made, store, queue, work, call, executed>>
  BY Zenon DEF submit_attestation, enclaveVars
<1>2. /\ TaskShape' /\ \A l \in Loop : l # k => task'[l] = task[l]
      /\ task'[k].at = "off" /\ task'[k].black = task[k].black
  BY <1>1, AtFacts DEF BaseInv
<1>3. /\ Key \subseteq Loop /\ Chal \in Loop /\ Chal \notin Key /\ 1..made \subseteq Key
      /\ k # Chal /\ k \in Key
  <2>1. /\ Key \subseteq Loop /\ Chal \in Loop /\ Chal \notin Key /\ 1..made \subseteq Key
    BY EnclaveAssumption DEF Loop, Chal, Key, BaseInv, TypeOK
  <2>2. k # Chal
    BY <1>1 DEF BaseInv, LoopsOk
  <2> QED
    BY <2>1, <2>2 DEF Loop
<1>4. TypeOK'
  BY <1>1, <1>3 DEF BaseInv, TypeOK, Response
<1>5. Shape'
  BY <1>1, Zenon DEF BaseInv, Shape
<1>6. CallShape' /\ CallsOk' /\ MemoryOk' /\ JobsOk' /\ DownOk'
  BY <1>1, EnclaveFrame, Zenon
<1>7. rows'[k] = "none" /\ \A l \in Key : l # k => rows'[l] = rows[l]
  BY <1>1, <1>3, Zenon DEF BaseInv, TypeOK
<1>8. AnnouncedOk'
  <2>1. \A c \in Thread : Announced(c) => call[c].ans.key \in Key /\ call[c].ans.key # k
    BY <1>1, <1>3, Zenon DEF BaseInv, AnnouncedOk
  <2>2. call' = call /\ made' = made /\ \A c \in Thread : Announced(c)' <=> Announced(c)
    BY <1>1, Zenon DEF Announced
  <2>3. \A l \in Key : l # k => rows'[l] = rows[l] /\ task'[l].at = task[l].at
    BY <1>2, <1>3, <1>7, Zenon DEF Loop
  <2>4. \A c \in Thread : Announced(c) =>
           /\ call[c].stage = "handshake" /\ call[c].ans.key \in 1..made
           /\ rows'[call[c].ans.key] = "none" /\ task'[call[c].ans.key].at = "off"
    BY <2>1, <2>3, Zenon DEF BaseInv, AnnouncedOk
  <2>5. \A c, d \in Thread : Announced(c) /\ d # c /\ Announced(d) =>
           call[d].ans.key # call[c].ans.key
    BY ZenonT(60) DEF BaseInv, AnnouncedOk
  <2> QED
    BY <2>2, <2>4, <2>5, Zenon DEF AnnouncedOk
<1>9. LoopsOk'
  BY <1>1, <1>2, <1>3, <1>7, ZenonT(60) DEF BaseInv, LoopsOk
<1>10. BlacklistsOk'
  BY <1>1, <1>2, Zenon DEF BaseInv, BlacklistsOk
<1>11. KeyTracked'
  <2>1. \A l \in 1..made : l \in onL1' \/ (rows'[l] = rows[l] /\ task'[l] = task[l])
    BY <1>1, <1>2, <1>3, <1>7, Zenon
  <2> QED
    BY <1>1, <2>1, TrackedFrame, Zenon
<1> QED
  BY <1>2, <1>4, <1>5, <1>6, <1>8, <1>9, <1>10, <1>11, Zenon DEF BaseInv

\* An attestation grows too old.
LEMMA Expires ==
    ASSUME BaseInv, Expire, UNCHANGED enclaveVars
    PROVE  BaseInv'
<1>1. /\ UNCHANGED <<proc, rows, task, row, onL1, delivered, orphan, twice, starved>>
      /\ UNCHANGED <<ident, made, store, queue, work, call, executed>>
      /\ expired' \subseteq expired \cup 1..made
      /\ left' \in [attests : BOOLEAN, calls : Nat, challenges : {0, 1}, faults : Nat]
      /\ left'.attests = left.attests
  BY DEF Expire, Fault, enclaveVars, BaseInv, Shape
<1>2. expired' \subseteq 1..made /\ 1..made \subseteq Key
  BY <1>1, EnclaveAssumption DEF BaseInv, Shape, TypeOK, Key
<1>3. TypeOK'
  BY <1>1, <1>2, Zenon DEF BaseInv, TypeOK, Response
<1>4. Shape'
  BY <1>1, <1>2, Zenon DEF BaseInv, Shape
<1> QED
  BY <1>1, <1>3, <1>4, EnclaveFrame, LoopFrame, TrackedFrame, Zenon DEF BaseInv
-----------------------------------------------------------------------------
(* The signature of a batch.                                               *)

\* Whatever handle_submit_batch trusts for block n was executed under the key
\* of the process: the response was verified, or the block is in the store.
LEMMA TrustedExecuted ==
    ASSUME BaseInv, NEW m, m.responses \subseteq executed, NEW n, NEW h \in Trusted(m, n)
    PROVE  [nr |-> n, hash |-> h, key |-> ident] \in executed
<1>1. CASE Sent(m, n) # {}
  <2>1. PICK r \in m.responses : r.nr = n /\ r.key = ident /\ r.hash = h
    BY <1>1 DEF Trusted, Sent, verify_response
  <2>2. r \in executed /\ r = [nr |-> n, hash |-> h, key |-> ident]
    BY <2>1 DEF BaseInv, TypeOK, Response
  <2> QED
    BY <2>2, Zenon
<1>2. CASE Sent(m, n) = {}
  <2>1. PICK e \in store : e.nr = n /\ e.hash = h
    BY <1>2, Zenon DEF Trusted
  <2> QED
    BY <2>1 DEF BaseInv, MemoryOk
<1> QED
  BY <1>1, <1>2, Zenon

\* handle_submit_batch signs a root of executed blocks and blobs that are
\* just those.
LEMMA SubmitBatchSigns ==
    ASSUME BaseInv, NEW m, MsgOk(m), m.kind = "SubmitBatch",
           NEW a, a = handle_submit_batch(m), a.kind = "SubmitBatchResult"
    PROVE  /\ \A k \in DOMAIN a.sig.root :
                [nr |-> a.sig.from + k - 1, hash |-> a.sig.root[k], key |-> a.sig.key] \in executed
           /\ a.sig.blobs = a.sig.root
<1>1. /\ m.from \in Nat /\ m.to \in Nat /\ m.responses \subseteq executed /\ m.blobs \in Blobs
  BY Zenon DEF MsgOk
<1>2. /\ m.from <= m.to /\ invalid_blocks(m) = {} /\ verify_blobs(m.blobs, Leaves(m))
      /\ a.sig = [key |-> ident, from |-> m.from, root |-> Leaves(m), blobs |-> m.blobs]
  BY <1>1 DEF handle_submit_batch
<1> DEFINE n == m.to - m.from + 1
<1>3. n \in Nat /\ \A k \in 1..n : m.from + k - 1 \in m.from..m.to
  BY <1>1, <1>2
<1>4. \A k \in 1..n : Trusted(m, m.from + k - 1) # {}
  BY <1>2, <1>3 DEF invalid_blocks
<1>5. \A k \in 1..n : Leaves(m)[k] \in Trusted(m, m.from + k - 1)
  BY <1>4 DEF Leaves
<1>6. DOMAIN Leaves(m) = 1..n
  BY Zenon DEF Leaves
<1>7. \A k \in 1..n : [nr |-> m.from + k - 1, hash |-> Leaves(m)[k], key |-> ident] \in executed
  BY <1>1, <1>5, TrustedExecuted
<1>8. m.blobs = Leaves(m)
  <2> DEFINE S == {m.blobs[k] : k \in DOMAIN m.blobs} \cup {Leaves(m)[k] : k \in 1..n}
  <2>1. m.blobs \in Seq({m.blobs[k] : k \in DOMAIN m.blobs})
    BY <1>1, ProxyAssumption
  <2>2. m.blobs \in Seq(S)
    BY <2>1
  <2>3. Leaves(m) \in [1..n -> S]
    BY Zenon DEF Leaves
  <2>4. Leaves(m) \in Seq(S) /\ Len(Leaves(m)) = n
    BY <1>3, <1>6, <2>3
  <2>5. Len(m.blobs) = Len(Leaves(m))
    <3>1. Len(m.blobs) \in Nat
      BY <2>2
    <3> QED
      BY <3>1, <2>4, <1>2, <1>3 DEF verify_blobs
  <2>6. \A k \in 1..Len(Leaves(m)) : m.blobs[k] = Leaves(m)[k]
    BY <1>2, <1>6, <2>4, Zenon DEF verify_blobs
  <2> HIDE DEF S
  <2> QED
    BY <2>2, <2>4, <2>5, <2>6
<1> HIDE DEF n
<1> QED
  BY <1>2, <1>6, <1>7, <1>8

\* Only submit_batch signs, and no execution is forgotten.
LEMMA History ==
    ASSUME Next
    PROVE  /\ executed \subseteq executed'
           /\ signed' = signed \/ \E c \in Thread : submit_batch(c)
<1>1. ASSUME NEW c \in Client, sign_block_execution(c) \/ sign_batch_root(c) \/ client_gone(c)
      PROVE  UNCHANGED <<executed, signed>>
  BY <1>1, Zenon DEF sign_block_execution, sign_batch_root, Begin, client_gone, Dropped
<1>2. ASSUME NEW c \in Thread, Accept(c) \/ generate_key_failed(c)
      PROVE  executed' = executed /\ (signed' = signed \/ submit_batch(c))
  BY <1>2 DEF Accept, generate_key, already_initialized, not_initialized, execute_enqueue,
              execute_busy, submit_batch, generate_key_failed
<1>3. ASSUME NEW c \in Thread, ThreadStep(c)
      PROVE  UNCHANGED <<executed, signed>>
  BY <1>3 DEF ThreadStep, reply, reply_error, reply_not_initialized, handshake_lock,
              handshake_new, handshake_known, handshake_failed, Stop, Dropped, SameEnclave
<1>4. ASSUME worker_recv \/ RestartEnclave \/ \E j \in work : execute_block_failed(j)
      PROVE  UNCHANGED <<executed, signed>>
  BY <1>4, Zenon DEF worker_recv, RestartEnclave, execute_block_failed
<1>5. ASSUME NEW j \in work, execute_block(j)
      PROVE  executed \subseteq executed' /\ signed' = signed
  BY <1>5 DEF execute_block
<1>6. ASSUME resume_all_pending \/ Crash
      PROVE  UNCHANGED <<executed, signed>>
  BY <1>6 DEF resume_all_pending, SameEnclave, Crash, Stop, Dropped
<1>7. ASSUME UNCHANGED enclaveVars
      PROVE  UNCHANGED <<executed, signed>>
  BY <1>7 DEF enclaveVars
<1> QED
  BY <1>1, <1>2, <1>3, <1>4, <1>5, <1>6, <1>7 DEF Next, EnclaveStep, PoolStep, LoopStep

\* Every step keeps what is said of the signatures.
LEMMA SignaturesKept ==
    ASSUME IndInv, Next
    PROVE  SignedBatchSound'
<1>1. CASE signed' = signed
  BY <1>1, History DEF IndInv, SignedBatchSound
<1>2. ASSUME NEW c \in Thread, submit_batch(c)
      PROVE  SignedBatchSound'
  <2> DEFINE a == handle_submit_batch(call[c].msg)
  <2>1. /\ executed' = executed
        /\ signed' = IF a.kind = "SubmitBatchResult" THEN signed \cup {a.sig} ELSE signed
        /\ Received(c, "SubmitBatch")
    BY <1>2 DEF submit_batch
  <2>2. call[c].msg.kind = "SubmitBatch" /\ MsgOk(call[c].msg)
    BY <2>1 DEF Received, Message, IndInv, BaseInv, CallsOk
  <2>3. a.kind = "SubmitBatchResult" =>
          /\ \A k \in DOMAIN a.sig.root :
               [nr |-> a.sig.from + k - 1, hash |-> a.sig.root[k], key |-> a.sig.key] \in executed
          /\ a.sig.blobs = a.sig.root
    BY <2>2, SubmitBatchSigns DEF IndInv
  <2> HIDE DEF a
  <2> QED
    BY <2>1, <2>3 DEF IndInv, SignedBatchSound
<1> QED
  BY <1>1, <1>2, History
-----------------------------------------------------------------------------
(* The theorems.                                                           *)

\* The invariant holds when the proxy and the enclave start.
LEMMA InitInv == Init => IndInv
<1> SUFFICES ASSUME Init PROVE IndInv
  OBVIOUS
<1> USE DEF Init, EnclaveInit
<1>1. IsFiniteSet({}) /\ Cardinality({}) = 0 /\ Len(<<>>) = 0 /\ <<>> \in Seq(Job)
  BY EmptyFacts
<1>2. MaxKey \in Nat /\ Pool \in Nat /\ StoreCap \in Nat
  BY EnclaveAssumption
<1>3. TypeOK
  BY <1>1, <1>2 DEF TypeOK
<1>4. \A c \in Thread : call[c] = Calm
  OBVIOUS
<1>5. CallShape /\ \A c \in Thread : call[c].at = "idle" /\ call[c].msg.kind = "none"
  BY <1>4 DEF CallShape, Calm
<1>6. Chal \in Loop /\ Key \subseteq Loop
  BY DEF Loop
<1>7. TaskShape /\ \A k \in Loop : task[k].at = "off" /\ task[k].black = {}
  BY Zenon DEF TaskShape, Off
<1>8. Shape
  BY <1>1, ProxyAssumption, ZenonT(60) DEF Shape
<1>9. CallsOk /\ MemoryOk /\ JobsOk /\ AnnouncedOk /\ DownOk
  BY <1>1, <1>5 DEF CallsOk, MsgOk, MemoryOk, JobsOk, AnnouncedOk, Announced, DownOk
<1>10. LoopsOk
  BY <1>6, <1>7 DEF LoopsOk
<1>11. BlacklistsOk
  BY <1>7, NoneBlacklisted, Zenon DEF BlacklistsOk
<1>12. KeyTracked /\ SignedBatchSound
  BY DEF KeyTracked, SignedBatchSound
<1> QED
  BY <1>3, <1>5, <1>7, <1>8, <1>9, <1>10, <1>11, <1>12 DEF IndInv, BaseInv

\* One case per disjunct of Next.
LEMMA NextBase ==
    ASSUME IndInv, Next
    PROVE  BaseInv'
<1>0. BaseInv
  BY DEF IndInv
<1>1. ASSUME NEW c \in Client, sign_block_execution(c) \/ sign_batch_root(c) \/ client_gone(c)
      PROVE  BaseInv'
  BY <1>0, <1>1, BeginStep, ClientGone
<1>2. ASSUME NEW c \in Thread, EnclaveStep(c)
      PROVE  BaseInv'
  BY <1>0, <1>2, RefusalActions, GenerateKey, ExecuteEnqueue DEF EnclaveStep, Accept
<1>3. ASSUME NEW c \in Thread, ThreadStep(c)
      PROVE  BaseInv'
  <2>1. CASE handshake_failed(c) /\ c = Boot
    <3>1. Stop /\ left' = left
      BY <2>1 DEF handshake_failed
    <3>2. left \in [attests : BOOLEAN, calls : Nat, challenges : {0, 1}, faults : Nat]
      BY <1>0 DEF BaseInv, Shape
    <3> QED
      BY <3>1, <3>2, <1>0, StopStep
  <2> QED
    BY <1>0, <1>3, <2>1, ThreadActions, HandshakeNew DEF ThreadStep
<1>4. ASSUME NEW c \in Thread, generate_key_failed(c), FaultOnly
      PROVE  BaseInv'
  BY <1>0, <1>4, RefusalActions
<1>5. ASSUME NEW j \in work, execute_block_failed(j), FaultOnly
      PROVE  BaseInv'
  BY <1>0, <1>5, ExecuteBlockFailed
<1>6. CASE PoolStep
  BY <1>0, <1>6, WorkerRecv, ExecuteBlock DEF PoolStep
<1>7. CASE RestartEnclave /\ FaultOnly
  BY <1>0, <1>7, Restart
<1>8. CASE resume_all_pending
  BY <1>0, <1>8, ResumeAllPending
<1>9. CASE Crash
  <2>1. /\ Stop
        /\ left' \in [attests : BOOLEAN, calls : Nat, challenges : {0, 1}, faults : Nat]
    BY <1>0, <1>9 DEF Crash, Fault, BaseInv, Shape
  <2> QED
    BY <2>1, <1>0, StopStep
<1>10. CASE challenge_sp1_request /\ UNCHANGED enclaveVars
  BY <1>0, <1>10, ChallengeRequest
<1>11. ASSUME NEW k \in Loop, LoopStep(k)
       PROVE  BaseInv'
  BY <1>0, <1>11, LoopActions, WaitRetriable, ProveRetry, SubmitAttestation DEF LoopStep
<1>12. CASE Expire /\ UNCHANGED enclaveVars
  BY <1>0, <1>12, Expires, Zenon
<1> QED
  BY <1>1, <1>2, <1>3, <1>4, <1>5, <1>6, <1>7, <1>8, <1>9, <1>10, <1>11, <1>12 DEF Next

\* Every step of the proxy and of the enclave keeps the invariant.
LEMMA NextInv == IndInv /\ [Next]_vars => IndInv'
<1> SUFFICES ASSUME IndInv, [Next]_vars PROVE IndInv'
  OBVIOUS
<1>1. CASE Next
  BY <1>1, NextBase, SignaturesKept DEF IndInv
<1>2. CASE UNCHANGED vars
  <2>1. /\ UNCHANGED <<ident, made, store, queue, work, call, executed, signed>>
        /\ UNCHANGED <<proc, rows, task, row, onL1, expired, delivered, orphan, twice,
                       starved, left>>
    BY <1>2, Zenon DEF vars, enclaveVars, proxyVars
  <2>2. TypeOK'
    BY <2>1, Zenon DEF IndInv, BaseInv, TypeOK, Response
  <2>3. Shape'
    BY <2>1, Zenon DEF IndInv, BaseInv, Shape
  <2>4. SignedBatchSound'
    BY <2>1, Zenon DEF IndInv, SignedBatchSound
  <2> QED
    BY <2>1, <2>2, <2>3, <2>4, EnclaveFrame, LoopFrame, TrackedFrame, Zenon DEF IndInv, BaseInv
<1> QED
  BY <1>1, <1>2, Zenon

\* The invariant holds in every state the proxy and the enclave reach.
THEOREM InductiveInvariant == Spec => []IndInv
BY InitInv, NextInv, PTL DEF Spec

\* The bounds the code names hold: at most StoreCap (MAX_ENTRIES) stored blocks
\* with one entry per number, at most Pool (EXECUTE_WORKER_COUNT) jobs queued
\* and as many at work, and every delivered response was executed.
THEOREM TypeCorrect == Spec => []TypeOK
<1>1. IndInv => TypeOK
  BY DEF IndInv, BaseInv
<1> QED
  BY <1>1, InductiveInvariant, PTL

\* Whatever responses the orchestrator sends, after any number of restarts of
\* the enclave and the proxy, a signature of handle_submit_batch covers only
\* blocks that its own key executed, and blobs of just these.
THEOREM SignaturesSound == Spec => []SignedBatchSound
<1>1. IndInv => SignedBatchSound
  BY Zenon DEF IndInv
<1> QED
  BY <1>1, InductiveInvariant, PTL

\* No key of the enclave is forgotten by the proxy, but for one whose answer
\* was lost with its reader (ensure_handshake, resume_all_pending).
THEOREM KeysTracked == Spec => []KeyTracked
<1>1. IndInv => KeyTracked
  BY DEF IndInv, BaseInv
<1> QED
  BY <1>1, InductiveInvariant, PTL

\* ensure_handshake and resume_all_pending spawn at most one loop per key.
THEOREM NoSecondLoop == Spec => []OneLoopPerKey
<1>1. IndInv => OneLoopPerKey
  BY DEF IndInv, BaseInv, Shape, OneLoopPerKey
<1> QED
  BY <1>1, InductiveInvariant, PTL

\* The whitelist of a new proof request is never empty, unless a count of the
\* HA provers failed (run_prove_loop).
THEOREM ProverAvailable == Spec => []ProversLeft
<1>1. IndInv => ProversLeft
  <2> SUFFICES ASSUME IndInv, ~starved, NEW k \in Loop, Whitelist(k) = {}
               PROVE  FALSE
    BY Zenon DEF ProversLeft
  <2>1. /\ task[k].black \subseteq Provers /\ Provers \subseteq task[k].black
        /\ Cardinality(task[k].black) < Cardinality(HaProvers)
    BY Zenon DEF IndInv, BaseInv, BlacklistsOk, Whitelist
  <2>2. task[k].black = Provers
    BY <2>1
  <2>3. Cardinality(HaProvers) <= Cardinality(Provers) /\ Cardinality(Provers) \in Nat
    BY ProxyAssumption, SubsetFacts, CardinalityFacts, Zenon
  <2> QED
    BY <2>1, <2>2, <2>3, NoneBlacklisted
<1> QED
  BY <1>1, InductiveInvariant, PTL
=============================================================================
