---------------------------- MODULE StateWitness ----------------------------
(***************************************************************************)
(* The partial state a block travels with.  The host executes the block    *)
(* against its full database, asks for proofs of everything the block      *)
(* touched, builds partial tries from them (EthereumState) and applies the *)
(* block's changes to a copy to see that they lead to the header's state   *)
(* root.  The client (enclave or zkVM guest) receives the partial tries,   *)
(* checks them against the parent's state root, executes the block reading *)
(* from them, applies the same changes and compares the same root.         *)
(*                                                                         *)
(* The host gets its proofs in one of three ways: multiproofs of its own   *)
(* database before and after the block (the witness orchestrator), account *)
(* proofs over RPC (the proxy's fallback), or a debug execution witness (a *)
(* build feature).  What a proof contains is external to the repository,   *)
(* and two points of it are left open, each a source of its own:           *)
(*  - "unrooted" is a multiproof that has the empty root, and no nodes, for *)
(*    an account of which no slot was asked for, as the comments of         *)
(*    transition_multiproofs_to_tries and update have it; "multiproof" has  *)
(*    the account's root there, as the first of them goes on to say;        *)
(*  - "listed" is account proofs in which a node that is embedded in its    *)
(*    parent is listed as well; in "proof" it is not.                       *)
(* The EVM is external too: a scenario says what the block touched and the *)
(* changes it made.  Changes are hash maps, so they are applied in any     *)
(* order, one account and one slot at a time.                              *)
(***************************************************************************)
EXTENDS Trie

CONSTANTS
  Addr,      \* hashed addresses, as sequences of nibbles
  Slot,      \* hashed storage slots, likewise
  Scenarios, \* blocks: [pre, touched, slots, post, storages]
  Sources,   \* subset of AllSources
  Nobody     \* no account is being updated

AllSources == {"multiproof", "unrooted", "proof", "listed", "witness"}

\* Hashes that part do not end alike: two different keys never have the same
\* rest after the nibble they differ in, so different subtries have different
\* hashes.
Distinct(keys) ==
  \A k, l \in keys : k # l =>
    \A i \in 1..Len(k) : (k[i] # l[i] /\ SubSeq(k, 1, i-1) = SubSeq(l, 1, i-1)) => From(k, i) # From(l, i)

ASSUME WitnessAssumption ==
  /\ Distinct(Addr) /\ Distinct(Slot) /\ Nobody \notin Addr
  /\ Sources \subseteq AllSources /\ InlinePath \in Nat
  /\ \A s \in Scenarios :
       /\ DOMAIN s.pre \subseteq Addr /\ DOMAIN s.pre # {}
       /\ DOMAIN s.storages \subseteq DOMAIN s.post /\ DOMAIN s.post \subseteq s.touched
       /\ s.touched \subseteq Addr /\ s.touched # {} /\ s.slots \in [s.touched -> SUBSET Slot]

VARIABLES
  block,  \* the scenario
  source, \* where the host's proofs come from
  phase,  \* "execute", "host", "sent", "client", "done"; "error", "panic" or "refused"
  built,  \* the EthereumState the host builds and sends
  state,  \* the EthereumState being updated: a copy of built
  todo,   \* accounts of the post state not yet applied
  cur,    \* the account whose storage is being applied
  left,   \* its slots not yet applied
  reads   \* what the client's execution read

vars == <<block, source, phase, built, state, todo, cur, left, reads>>

-----------------------------------------------------------------------------
(* The full state and its commitments.                                      *)

StorageTrie(slots) == TrieOf([k \in DOMAIN slots |-> [slot |-> slots[k]]])
Account(acc)       == [bal |-> acc.bal, root |-> StorageTrie(acc.slots)]
StateTrie(m)       == TrieOf([a \in DOMAIN m |-> Account(m[a])])
NoSlots            == [k \in {} |-> 0]

StorageChange(s, a) ==
  IF a \in DOMAIN s.storages THEN s.storages[a] ELSE [wiped |-> FALSE, put |-> NoSlots]

\* One account with the first changes of its storage applied.
Applied(old, change, done) ==
  LET base == IF change.wiped THEN NoSlots ELSE old
      all  == [k \in DOMAIN base \cup done |-> IF k \in done THEN change.put[k] ELSE base[k]]
  IN  RestrictValues(all, LAMBDA v : v # 0)

SlotsOf(m, a) == IF a \in DOMAIN m THEN m[a].slots ELSE NoSlots

\* The full state with the changes of the accounts in `done` applied.
AfterSome(s, done) ==
  [a \in {a \in DOMAIN s.pre \cup done : a \in done => s.post[a].some} |->
     IF a \notin done THEN s.pre[a]
     ELSE [bal   |-> s.post[a].bal,
           slots |-> LET c == StorageChange(s, a) IN Applied(SlotsOf(s.pre, a), c, DOMAIN c.put)]]

After(s) == AfterSome(s, DOMAIN s.post)

-----------------------------------------------------------------------------
(* What the host asks for, and what it gets (external).                     *)

\* Every account touched or changed, each with the slots read and written.
get_targets_mut(s) ==
  [a \in s.touched \cup DOMAIN s.post |-> DOMAIN StorageChange(s, a).put]
get_targets(s) ==
  [a \in s.touched \cup DOMAIN s.post |->
     (IF a \in s.touched THEN s.slots[a] ELSE {}) \cup DOMAIN StorageChange(s, a).put]

\* The accounts read, each with the slots read and the slots the block changed.
get_state_requests(s) ==
  [a \in s.touched |-> s.slots[a] \cup DOMAIN StorageChange(s, a).put]

Nodes(h, keys) == UNION {ToSet(Proof(h, k, FALSE)) : k \in keys}

\* multiproof() of a state provider: an empty storage trie answers with its
\* empty root, a trie of which no slot was asked for with its root alone, or
\* with the empty root.
MultiProof(m, targets, rooted) ==
  [subtree  |-> Nodes(StateTrie(m), DOMAIN targets),
   storages |-> [a \in DOMAIN targets |->
      LET h == StorageTrie(SlotsOf(m, a))
      IN  CASE targets[a] = {} /\ ~rooted -> [root |-> Empty, subtree |-> {}]
            [] h = Empty -> [root |-> Empty, subtree |-> {Empty}]
            [] OTHER     -> [root |-> h, subtree |-> Nodes(h, targets[a])]]]

\* eth_getProof for one account.
AccountProof(m, a, slots, listed) ==
  LET h == StorageTrie(SlotsOf(m, a))
  IN  [proof |-> Proof(StateTrie(m), a, listed), storage_root |-> h,
       storage_proofs |-> [k \in slots |-> Proof(h, k, listed)]]

\* debug_executionWitness: the nodes on the way to every target, and the
\* siblings next to a deleted key that its deletion may move.
Beside(h, keys) == UNION {UNION {Range(n.kids) : n \in {n \in ToSet(Proof(h, k, FALSE)) : "kids" \in DOMAIN n}} : k \in keys}
Witness(s, targets) ==
  LET Gone(a) == {k \in DOMAIN StorageChange(s, a).put : StorageChange(s, a).put[k] = 0}
      root    == StateTrie(s.pre)
      Root(a) == StorageTrie(SlotsOf(s.pre, a))
  IN  Nodes(root, DOMAIN targets) \cup Beside(root, {a \in DOMAIN s.post : ~s.post[a].some}) \cup {Empty}
        \cup UNION {Nodes(Root(a), targets[a]) \cup Beside(Root(a), Gone(a)) : a \in DOMAIN targets}

-----------------------------------------------------------------------------
(* EthereumState: from proofs to partial tries.  A builder that cannot      *)
(* return a state returns an error or panics.                               *)

Broken   == [broken |-> "error"]
Panicked == [broken |-> "panic"]
Ok(e)    == "broken" \notin DOMAIN e

WithShort(nodes) == nodes \cup UNION {shorten_node_path(h) : h \in nodes}

\* The root node, if it is among the nodes, with all it can reach; the caller
\* has it hashed to compare it with the root it must have.
Resolved(root, nodes, more) ==
  Hashed(resolve_nodes(IF root \in nodes THEN decode(root) ELSE Null, nodes \cup more))

Checked(root, trie, storages, roots) ==
  IF hash(trie) # root \/ \E a \in DOMAIN storages : hash(storages[a]) # roots[a]
  THEN Broken ELSE [trie |-> trie, storages |-> storages]

transition_multiproofs_to_tries(root, before, after) ==
  LET Storage(a) ==
        IF before.storages[a].subtree = {} THEN node_from_digest(before.storages[a].root)
        ELSE Resolved(before.storages[a].root, before.storages[a].subtree,
                      IF a \in DOMAIN after.storages THEN WithShort(after.storages[a].subtree) ELSE {})
      roots == [a \in DOMAIN before.storages |-> before.storages[a].root]
  IN  IF before.subtree = {} THEN [trie |-> node_from_digest(root), storages |-> [a \in {} |-> Null]]
      ELSE Checked(root, Resolved(root, before.subtree, WithShort(after.subtree)),
                   [a \in DOMAIN before.storages |-> Storage(a)], roots)

\* A proof of absence: its last node may be one a deletion made longer.  Both
\* results on the way to the answer are unwrapped.
is_not_included(key, proof) ==
  LET trie == mpt_from_proof(proof)
      r    == IF trie.t = "broken" THEN "err" ELSE get_internal(trie, key).res
  IN  CASE r = "err" -> "panic" [] r = "none" -> "true" [] OTHER -> "false"

add_orphaned_leafs(key, proof) ==
  IF proof # <<>> /\ is_not_included(key, proof) = "true" THEN shorten_node_path(Last(proof)) ELSE {}

\* parse_proof and mpt_from_proof, unwrapped, on every proof before the block,
\* is_not_included on every proof after it.
UnwrapFails(before, after) ==
  LET Breaks(proof)      == mpt_from_proof(proof).t = "broken"
      Panics(key, proof) == proof # <<>> /\ is_not_included(key, proof) = "panic"
  IN  \E a \in DOMAIN before :
        \/ Breaks(before[a].proof) \/ Panics(a, after[a].proof)
        \/ \E k \in DOMAIN before[a].storage_proofs :
             Breaks(before[a].storage_proofs[k]) \/ Panics(k, after[a].storage_proofs[k])

\* The loops follow the order of hash maps: where one proof breaks and another
\* leads to a wrong root, either may come first, and the panic stands for both.
transition_proofs_to_tries(root, before, after) ==
  LET All(proofs)    == UNION {ToSet(proofs[k]) : k \in DOMAIN proofs}
      Orphans(proofs) == UNION {add_orphaned_leafs(k, proofs[k]) : k \in DOMAIN proofs}
      Storage(a) ==
        IF DOMAIN before[a].storage_proofs = {} THEN node_from_digest(before[a].storage_root)
        ELSE Resolved(before[a].storage_root, All(before[a].storage_proofs),
                      Orphans(after[a].storage_proofs))
      roots == [a \in DOMAIN before |-> before[a].storage_root]
      state_proofs == [a \in DOMAIN before |-> before[a].proof]
  IN  IF DOMAIN before = {} THEN [trie |-> node_from_digest(root), storages |-> [a \in {} |-> Null]]
      ELSE IF UnwrapFails(before, after) THEN Panicked
      ELSE Checked(root, Resolved(root, All(state_proofs), Orphans([a \in DOMAIN after |-> after[a].proof])),
                   [a \in DOMAIN before |-> Storage(a)], roots)

\* One set of nodes for all tries; only the storage tries whose root is in it.
build_validated_tries(root, nodes) ==
  LET trie     == Hashed(resolve_nodes(IF root \in nodes THEN decode(root) ELSE Digest(root), nodes))
      accounts == for_each_leaves(trie, <<>>)
      roots    == [a \in {x[1] : x \in accounts} |-> (CHOOSE x \in accounts : x[1] = a)[2].root]
      found    == {a \in DOMAIN roots : roots[a] \in nodes}
  IN  Checked(root, trie, [a \in found |-> Hashed(resolve_nodes(decode(roots[a]), nodes))], roots)

\* ExExDb::state: multiproofs of the host's own database.
ExExDb_state(s, rooted) ==
  LET targets == get_targets(s)
  IN  transition_multiproofs_to_tries(StateTrie(s.pre),
        MultiProof(s.pre, targets, rooted), MultiProof(After(s), targets, rooted))

\* BasicRpcDb::state: account proofs over RPC, before and after the block.
BasicRpcDb_state(s, listed) ==
  LET keys      == get_state_requests(s)
      Proofs(m) == [a \in DOMAIN keys |-> AccountProof(m, a, keys[a], listed)]
  IN  transition_proofs_to_tries(StateTrie(s.pre), Proofs(s.pre), Proofs(After(s)))

\* ExecutionWitnessRpcDb::new: the node chooses what the witness holds.
ExecutionWitnessRpcDb_new(s) ==
  build_validated_tries(StateTrie(s.pre), Witness(s, get_targets(s)))

Build(s, src) ==
  CASE src \in {"multiproof", "unrooted"} -> ExExDb_state(s, src = "multiproof")
    [] src \in {"proof", "listed"}        -> BasicRpcDb_state(s, src = "listed")
    [] src = "witness"                    -> ExecutionWitnessRpcDb_new(s)

-----------------------------------------------------------------------------
(* Steps.  The host executes and builds the state; both sides then run      *)
(* EthereumState::update on a copy, account by account.                     *)

Fail(p) == phase' = p /\ UNCHANGED <<state, todo, cur, left>>

host_state ==
  /\ phase = "execute"
  /\ LET e == Build(block, source)
     IN  IF Ok(e) THEN /\ built' = e /\ state' = e /\ phase' = "host"
                       /\ todo' = DOMAIN block.post /\ UNCHANGED <<cur, left>>
         ELSE Fail(e.broken) /\ UNCHANGED built
  /\ UNCHANGED <<block, source, reads>>

Updating == phase \in {"host", "client"}

\* The storage trie an update starts from: the one there is, or nothing; an
\* empty one is taken back from the account if the account has storage.
RecoveredRoot(e, a) ==
  LET trie == IF a \in DOMAIN e.storages THEN e.storages[a] ELSE Null
      acc  == get_internal(e.trie, a)
  IN  IF trie.t = "null" /\ acc.res = "some" THEN node_from_digest(acc.value.root) ELSE trie

\* Some(account): its storage trie is found, and emptied if it was wiped.
update_storage(a) ==
  /\ Updating /\ cur = Nobody /\ a \in todo /\ block.post[a].some
  /\ LET c == StorageChange(block, a)
         t == IF c.wiped THEN Null ELSE RecoveredRoot(state, a)
     IN  /\ state' = [state EXCEPT !.storages =
              [b \in DOMAIN @ \cup {a} |-> IF b = a THEN t ELSE @[b]]]
         /\ left' = DOMAIN c.put
  /\ cur' = a
  /\ UNCHANGED <<block, source, phase, built, todo, reads>>

update_slot(k) ==
  /\ cur # Nobody /\ k \in left
  /\ LET v == block.storages[cur].put[k]
         t == state.storages[cur]
         r == IF v = 0 THEN delete_internal(t, k) ELSE insert_internal(t, k, [slot |-> v])
     IN  IF r.res = "err" THEN Fail("panic")
         ELSE /\ state' = [state EXCEPT !.storages[cur] = r.node]
              /\ left' = left \ {k} /\ UNCHANGED <<phase, todo, cur>>
  /\ UNCHANGED <<block, source, built, reads>>

\* The account goes into the state trie with its storage trie's hash.
update_account ==
  /\ cur # Nobody /\ left = {}
  /\ LET t == state.storages[cur]
         r == insert_internal(state.trie, cur, [bal |-> block.post[cur].bal, root |-> hash(t)])
     IN  IF r.res = "err" THEN Fail("panic")
         ELSE /\ state' = [trie |-> r.node, storages |-> [state.storages EXCEPT ![cur] = Hashed(t)]]
              /\ todo' = todo \ {cur} /\ cur' = Nobody /\ UNCHANGED <<phase, left>>
  /\ UNCHANGED <<block, source, built, reads>>

\* None: the account is gone.
update_destroyed(a) ==
  /\ Updating /\ cur = Nobody /\ a \in todo /\ ~block.post[a].some
  /\ LET r == delete_internal(state.trie, a)
     IN  IF r.res = "err" THEN Fail("panic")
         ELSE /\ state' = [state EXCEPT !.trie = r.node]
              /\ todo' = todo \ {a} /\ UNCHANGED <<phase, cur, left>>
  /\ UNCHANGED <<block, source, built, reads>>

RootMatches == hash(state.trie) = StateTrie(After(block))

\* The host compares the root with the header's and sends what it built.
host_verify ==
  /\ phase = "host" /\ todo = {} /\ cur = Nobody
  /\ phase' = IF RootMatches THEN "sent" ELSE "error"
  /\ UNCHANGED <<block, source, built, state, todo, cur, left, reads>>

Deserialised(e) == [trie     |-> Uncached(e.trie),
                    storages |-> [a \in DOMAIN e.storages |-> Uncached(e.storages[a])]]

\* The client's tries must have the parent's roots before anything is read.
\* The caller unwraps the error: the client refuses the block by a panic.
witness_db(e) ==
  LET acc(a) == get_internal(e.trie, a)
      Expected(a) == IF acc(a).res = "some" THEN acc(a).value.root ELSE Empty
  IN  CASE hash(e.trie) # StateTrie(block.pre) -> "refused"
        [] \E a \in DOMAIN e.storages : acc(a).res = "err" -> "panic"
        [] \E a \in DOMAIN e.storages : hash(e.storages[a]) # Expected(a) -> "refused"
        [] OTHER -> "client"

basic_ref(e, a) == get_internal(e.trie, a)
storage_ref(e, a, k) ==
  IF a \in DOMAIN e.storages THEN get_internal(e.storages[a], k) ELSE [res |-> "err"]

\* An account that is created has no storage to read: the EVM does not ask.
Read(s) == {<<a, k>> \in s.touched \X Slot : k \in s.slots[a] /\ a \in DOMAIN s.pre}

\* ClientExecutor::execute up to the state root: the witness database, then
\* the block, which reads every account and slot it touches.
client_execute ==
  /\ phase = "sent"
  /\ LET e == Deserialised(built)
         h == [trie |-> Hashed(e.trie), storages |-> [a \in DOMAIN e.storages |-> Hashed(e.storages[a])]]
         r == [accounts |-> [a \in block.touched |-> basic_ref(h, a)],
               slots    |-> [x \in Read(block) |-> storage_ref(h, x[1], x[2])]]
         bad == \/ \E a \in DOMAIN r.accounts : r.accounts[a].res = "err"
                \/ \E x \in DOMAIN r.slots : r.slots[x].res = "err"
         p == witness_db(e)
     IN  IF p # "client" THEN Fail(p) /\ UNCHANGED reads
         ELSE /\ reads' = <<r>>
              /\ IF bad THEN Fail("panic")
                 ELSE /\ phase' = "client" /\ state' = h
                      /\ todo' = DOMAIN block.post /\ UNCHANGED <<cur, left>>
  /\ UNCHANGED <<block, source, built>>

client_verify ==
  /\ phase = "client" /\ todo = {} /\ cur = Nobody
  /\ phase' = IF RootMatches THEN "done" ELSE "error"
  /\ UNCHANGED <<block, source, built, state, todo, cur, left, reads>>

WitnessInit ==
  /\ block \in Scenarios /\ source \in Sources
  /\ phase = "execute" /\ built = Broken /\ state = Broken
  /\ todo = {} /\ cur = Nobody /\ left = {} /\ reads = <<>>

WitnessNext ==
  \/ host_state \/ host_verify \/ client_execute \/ client_verify \/ update_account
  \/ \E a \in Addr : update_storage(a) \/ update_destroyed(a)
  \/ \E k \in Slot : update_slot(k)

-----------------------------------------------------------------------------
(* Properties.                                                              *)

\* An account with storage of which the block touches no slot.
StorageUntouched(s) ==
  \E a \in s.touched : get_targets(s)[a] = {} /\ SlotsOf(s.pre, a) # NoSlots

\* A slot the block touches leads, before or after it, to an embedded node.
MeetsEmbedded(s) ==
  \E a \in s.touched : \E k \in get_state_requests(s)[a] : \E m \in {s.pre, After(s)} :
    LET h == StorageTrie(SlotsOf(m, a)) IN Proof(h, k, TRUE) # Proof(h, k, FALSE)

\* Proofs of what a block touched, before and after it, are enough to replay
\* it: whatever the order in which the hash maps yield the changes, the host
\* returns no error, EthereumState::update meets no unresolved node, and host
\* and client compute the header's root.  The two open answers are the only
\* way to fail, and fail when they must.  With proofs that list an embedded
\* node, unwrapping mpt_from_proof panics exactly when the block touches one.
\* With a multiproof that has the empty root for an account with storage, the
\* host recovers the root in update and sends the block; the client never
\* executes it, since witness_db compares the empty trie with the account.
WitnessSuffices ==
  /\ phase # "error"
  /\ phase = "panic" => source = "listed" /\ MeetsEmbedded(block)
  /\ phase = "refused" => source = "unrooted" /\ StorageUntouched(block)
  /\ phase \in {"client", "done"} =>
       /\ source = "unrooted" => ~StorageUntouched(block)
       /\ source = "listed" => ~MeetsEmbedded(block)

Value(m, a) == IF a \in DOMAIN m THEN [res |-> "some", value |-> Account(m[a])] ELSE [res |-> "none"]
SlotValue(slots, k) ==
  IF k \in DOMAIN slots THEN [res |-> "some", value |-> [slot |-> slots[k]]] ELSE [res |-> "none"]

\* What the client reads through TrieDB is the parent state: every account
\* and every slot the block touches is there, with the parent's value, and an
\* absent one reads as absent.
ReadsRight ==
  reads # <<>> =>
    /\ \A a \in block.touched : reads[1].accounts[a] = Value(block.pre, a)
    /\ \A x \in Read(block) : reads[1].slots[x] = SlotValue(block.pre[x[1]].slots, x[2])

\* A partial trie never misleads: at every point of an update, and for every
\* key (also one the block never touched), a lookup reports an unresolved
\* node or answers with the state that the changes applied so far lead to.
\* The storage trie of an account whose turn has not come is the one update
\* would start from: an empty one the provider sent for a trie that is not
\* empty is replaced before anything is looked up in it.
SparseSound ==
  Updating =>
    LET done == DOMAIN block.post \ todo
        m    == AfterSome(block, done)
        Slots(a) == IF a = cur THEN LET c == StorageChange(block, a)
                                    IN  Applied(SlotsOf(block.pre, a), c, DOMAIN c.put \ left)
                    ELSE SlotsOf(m, a)
        Storage(a) == IF a \in done \cup {cur} THEN state.storages[a] ELSE RecoveredRoot(state, a)
    IN  /\ \A a \in Addr :
             LET r == get_internal(state.trie, a) IN r.res = "err" \/ r = Value(m, a)
        /\ \A a \in DOMAIN state.storages : a \in DOMAIN m \cup {cur} => \A k \in Slot :
             LET r == get_internal(Storage(a), k) IN r.res = "err" \/ r = SlotValue(Slots(a), k)
=============================================================================
