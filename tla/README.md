# TLA+ specifications of fluent-stf

fluent-stf runs an optimistic rollup with TEE preconfirmations. Blocks of L2 are
executed in an AWS Nitro enclave, batches of them are signed by the enclave, and the
signature is sent to the Rollup contract on L1 (`preconfirmBatch`). The state that
must not go wrong is spread over an in-memory accumulator, a SQLite database, several
tasks that outlive the handler that spawned them, and L1 itself.

`W` below stands for `src/bin/witness-orchestrator/src`.

## The system and its parts

| part | source | what it does | status |
|---|---|---|---|
| forward driver | `W/driver/forward.rs` | executes L2 blocks into MDBX and static files, unwinds, builds witnesses | partly |
| witness hub, gRPC server | `W/hub.rs`, `W/witness_server.rs` | buffer and cold store (redb) of witnesses | modelled, partly |
| orchestrator main loop | `W/orchestrator.rs` | one biased `select!` loop, the only writer of the accumulator | modelled |
| batch accumulator, database | `W/accumulator.rs`, `W/db.rs` | pending, signed and dispatched batches, mirrored in SQLite | modelled |
| signing task | `W/orchestrator.rs` (`sign_batch_io`) | gets a batch signature from the proxy and saves it | modelled |
| dispatch | `W/orchestrator.rs` (`run_rbf_dispatch`), `src/crates/l1-rollup-client` | broadcasts, bumps fees, waits for the receipt | modelled |
| finalization ticker | `W/orchestrator.rs` | cleans up batches whose L1 block is final | modelled |
| L1 listener | `W/l1_listener.rs` | pages of events behind the head, with a checkpoint | modelled |
| startup and supervision | `W/main.rs`, `resolve_l2_start_checkpoint` | where to start, revert recovery, shutdown | partly |
| proxy | `src/bin/proxy` | endpoints, enclave handshake, attestation, SP1 challenges | partly |
| enclave | `src/bin/client/src/nitro` | key, block store, execute queue, batch signature | modelled |
| blobs, Merkle roots | `src/crates/blob-builder`, `src/bin/client/src/blob.rs`, `events_hash.rs` | pure algorithms | modelled |
| sparse tries | `src/crates/mpt` | the partial state a block travels with | partly |
| executors, RPC databases | `src/crates/executor`, `src/crates/storage/rpc-db` | proofs in, state roots out, around the EVM | partly |
| primitives, validator, KMS, vsock, guest entry, metrics | `src/crates/primitives`, `src/bin/aws-nitro-validator`, ... | types, parsing, cryptography, I/O | not modelled |

How they interact. The listener sends `BatchCommitted`, `BatchSubmitted`,
`BatchPreconfirmed` and `BatchReverted` to the main loop. The driver feeds witnesses to
execution workers, whose responses come back to the loop. A batch with all responses
and accepted blobs is signed by a task; the lowest pending batch, once signed, is
dispatched by a worker; the ticker removes it when its transaction is found. Tasks
answer over channels, and the loop alone changes the accumulator. The exception is the
signing task, which saves its signature to the database itself.

## Modules

| module | models |
|---|---|
| `Accumulator` | the accumulator, its tables, the signing task, crash, wipe, restart |
| `BatchLifecycle` | abstract: the stage of every batch, without crashes |
| `AccumulatorInvariant`, `AccumulatorProofs` | the inductive invariant of `Accumulator`, and the theorems from it, the refinement of `BatchLifecycle` included |
| `Dispatch` | gate, RBF workers, nonces, ticker, restart, against an external L1 |
| `DispatchProofs` | theorems about `Dispatch`: first the nonces and the gate, then what the ticker cleans up and takes back |
| `Driver` | forward driver, cold store, the boot sequence that heals and unwinds |
| `BlockPipeline` | feeder, queues, workers, results, checkpoint, re-execution; composed with `Driver` |
| `DriverProofs`, `PipelineProofs` | theorems about the composition: the driver's stores; blocks and rows |
| `L1Listener` | pages, event channel, `on_l1_event`, meta rows, boot, revert recovery, against a script of L1 |
| `ListenerProofs` | theorems about `L1Listener` |
| `Enclave` | accept loop, key, execution queue and workers, block store, batch signature |
| `Proxy` | endpoints, handshake, proof loops, challenges, restart; composed with `Enclave` |
| `ProxyInvariant`, `ProxyProofs` | the inductive invariant of that composition, and the theorems from it |
| `Trie` | sparse Merkle-Patricia trie: get, insert, delete, hash, resolution |
| `StateWitness` | host and client of a block's partial state, on `Trie` |
| `BatchCodec` | blobs and their decoding, Merkle roots |
| `MC*` | instances for TLC |

**Accumulator.** `mem` is the maps, `db` the tables; both have the same shape, so that
one update can be applied to both. A method with one database write is one action. A
method with two (`set_batch`, `on_sign_done` after a rejection) has a second action,
`*_torn`, in which the process dies in between. `signer` is the signing task with its
phases; it keeps running after a `BatchReverted` wipe until the process is gone
(`process = "draining"`). `epoch`, `executed` and `finalized` are history variables: no
guard of a code action reads them, except that `mark_dispatched` excludes a finalized
batch, since the worker's pre-flight check refuses a batch that L1 has preconfirmed.

**Dispatch.** One copy of the rows stands for maps and tables, which `MirrorTheorem`
justifies. A transaction is its content (batch, nonce, fee level), as its hash is.
`workers` are tasks stepping through `run_rbf_dispatch`: pre-flight, nonce, build,
broadcast, and the poll-and-bump loop; `doneQ` and `bumpQ` are the two channels, and
the bias of the `select!` (dispatch results first) is kept. L1 is external: any version
of a broadcast transaction may be mined, in nonce order; a preconfirmation succeeds
once per batch; the RPC's pending nonce may be stale, down to the number of mined
transactions. RPC errors, out-of-gas reverts, key rotations, panics and the time-out
at the fee cap are taken from one budget, `MaxFault`.

**Driver.** MDBX and each static file are the number of their highest block, the cold
store is a set of blocks, and a witness is its block, since every rebuild gives the same
bytes. `TxCount[b]` is the number of transactions up to block `b`, which is how static
files count. `save_blocks` commits the static files and then MDBX, so it is two actions
(`take_save` and `take_commit`, `advance_save` and `advance_commit`) with a crash in
between; so is an unwind (`unwind_to_torn`). The boot is the sequence of `main.rs`:
open and heal, unwind to `UNWIND_TO_BLOCK` or to the checkpoint, construct the driver.

**BlockPipeline.** `busy` is what each of the `Workers` has in hand. A response row is
the epoch of the key that signed it, so a rotation of the enclave's key makes rows stale. `on_block_result`, `on_finalized` and
`normalize_startup` make several SQLite writes and have a `_torn` form. `lost`,
`unmarked` and `coldTorn` are history variables that name the exceptions of a property.

**L1Listener.** L1 is a script of blocks with their events, revealed as the head grows.
A page is fetched (`page_logs`), its events are sent one by one, in the order of the
chain, through a bounded channel (`page_emit`), and the checkpoint follows. `Boot` is a
sequence of single writes, as in `main.rs`, and a crash may fall between any two. `base` is the L1 block
from which the present database asked to read, `applied` the events handled.

**Enclave** and **Proxy.** A connection is the thread of the proxy that holds it. A
signature is its key with what it covers. `Proxy` extends `Enclave`: a request goes
`wire`, `queued`, `answer`; on `NotInitialized` it takes `HANDSHAKE_LOCK`, shakes hands
and tries once more. A handler can be dropped at any point (`client_gone`), either
process can restart, and both proof loops take errors from one budget of faults.

**Trie** and **StateWitness.** A hash is the encoding it is taken of, so equal hashes
mean equal nodes; a digest is an unresolved node. The cache of references is part of a
node, since a stale one would change the root. A block is a scenario: the state before,
what it touched, what it changed. Host and client apply the changes one account and one
slot at a time in any order, since they come from hash maps. The three ways of getting
proofs (`ExExDb_state`, `BasicRpcDb_state`, `ExecutionWitnessRpcDb_new`) are all there.
A short leaf is embedded in its parent (`Embedded`). What the providers answer is
external, and two points are open, so that there are five sources: a multiproof has, for
an account without slot targets, its root (`multiproof`) or the empty root (`unrooted`);
account proofs list an embedded node (`listed`) or leave it in its parent (`proof`), as
EIP-1186 has it. Unwrapped results are panics: of `mpt_from_proof` and
`is_not_included` on the host, of `witness_db` on the client (`refused`).

**BatchCodec.** Builder and reader work on sequences of bytes, with a smaller field and
blob than the code's 31 and 4096. RLP heads are modelled byte by byte, because the
builder computes lengths ahead of the bytes it writes. Brotli is external. A leaf of the
batch root is parent, block, withdrawal root and deposit hash; the messages of a block
are given, not extracted from logs.

## Runs

| run | instance | states | what it shows |
|---|---|---|---|
| `accumulator` | 2 batches (2 blocks and 1), 2 hashes, 1 wipe | 243 175 | maps mirror tables, nothing durable is lost, `BatchLifecycle` is implemented |
| `dispatch_two` | 2 batches, 3 worker slots, 1 fault, crash, reorg, panics | 876 816 | no two workers share a nonce; the gate always has an owner |
| `dispatch_one` | 1 batch, 2 fee levels, another submitter, 1 fault, crash, panics | 632 743 | cleanup only after a preconfirmation; no undo on a stale observation |
| `dispatch_live` | 1 batch, 3 nonces, another submitter, 1 fault, a crash before the row | 62 078 | every batch is finalized |
| `blocks` | 3 blocks, 2 batches, 2 workers, 2 keys, 2 faults | 578 605 | no block lost, no row leaked, stores agree, every block answered |
| `listener` | 4 scripts of 5 or 6 L1 blocks, 2 faults | 45 057 | no event skipped, ranges and marks right after a revert, events applied |
| `tee` | 2 clients, 2 keys, 2 provers, 5 setups | 146 173 | signatures of one key's blocks only; keys, requests, challenges settle |
| `stf` | 4 keys, 5 sources of proofs; batches of up to 5 blocks | 369 349 | the witness suffices and never misleads; blobs decode to their batch |
| `revert_gap` | the scripts of `listener` | violated | `NoneSkippedAfterRevert` |
| `dispatch_early` | 1 batch | violated | `DoneMeansFinal` |
| `dispatch_twice` | 1 batch, 1 fault, crash | violated | `OneWorkerPerBatch` |
| `dispatch_resume` | 1 batch, 3 nonces, crash | violated | `EveryBatchFinalized` |

Deadlock is checked in the `accumulator` and `dispatch` runs. It is not in the others:
`blocks`, `listener`, `revert_gap`, `tee` and `stf` come to rest when all blocks are
answered, the script is read, the requests are used up, or the batch is decoded. The
liveness properties of `blocks`, `listener` and `tee` say that they do not rest too early.

Bounds. Two batches are what the order of dispatch and a shared allocator need; two fee
levels give one bump and a fee at the cap; three nonces give a first try and two
retries; one crash separates a fresh from a resumed worker. Crash and reorg together
need a smaller fee range (`MaxFee = 1`, where every fee is at the cap); fee bumps are
covered by the runs with one batch. `TickerUndoesReverted` and `DoneMeansPreconfirmed`
do not survive a reorganisation of L1, so `dispatch_one` has none; the code makes no
provision for it after a receipt is seen.

* `blocks`: blocks with 1, 0 and 2 transactions, since healing cuts by transactions;
  the first is below the initial checkpoint, the other two are a batch each. Catch-up
  and cold batches of 2 give a partial and a full batch, a retention of 1 an eviction.
  Two faults are a crash and a second one, or a crash and a failed task. The same
  safety properties held on a larger instance (7.9 million states).
* `listener`: the scripts have no revert, a revert of the second batch with commits in
  its own and in the following blocks, a revert of the first, and one of the second
  followed by one of the first. Pages of 1 to 3 blocks with at most 2 logs make pages
  grow, shrink and be refused; the channel holds 2.
* `tee`: one worker and one queue slot, so that the queue fills with two clients and
  the boot; a store of one entry, so that it evicts; five combinations of requests,
  challenges, faults and `AttestationConfig`. Safety held on instances of up to 1.9
  million states.
* `stf`: the keys share prefixes so that every kind of sibling is met by a deletion;
  blocks create, write, read and destroy accounts, write and read slots, and wipe a
  storage. With `InlinePath` 1 the leaves below the deepest branch are embedded and the
  others are not. Blocks' lengths lie around 55 bytes, where RLP changes form, and above 255.

### What the violated runs show

* `dispatch_resume`. A transaction is broadcast and bumped, and the process crashes. The
  version that is mined is not the one the row names: the bump was mined and the crash
  came before it was recorded, or the bump was recorded and the first version was mined.
  The resumed worker's pre-flight check reports `AlreadyPreconfirmed` with the right
  hash, but `mark_dispatched_external` returns early for a batch that is not pending.
  The row keeps a hash that can never be mined, no worker is left, and the ticker only
  logs "RBF worker owns recovery".
* `dispatch_early`. Until its worker reports a receipt, a row has `l1_block = 0`, which
  is below every finalized head: the ticker cleans up a batch whose block is not final.
* `dispatch_twice`. Nothing fires `dispatch_cancel`. After a restart the ticker takes a
  reverted dispatch back while the resumed worker runs, and a second worker starts.

* `revert_gap`. `on_l1_event` stores `l1_block + 1` as the checkpoint of a
  `BatchReverted`, and the listener starts one above the checkpoint: the L1 block behind
  the revert is never read. A batch committed there stays unknown.

### Fairness

`FairSpec` assumes weak fairness of: each worker's steps, the loop's service of each
channel, the ticker, the expiry of the backoff, the restart of a crashed process (it is
supervised), block results (L2 keeps producing blocks; they are what wakes the loop
after a backoff), signing, the registration of a rotated key, and mining and
finalization on L1. Errors, panics, crashes, reorganisations and other submitters are
not fair: they may never happen.

`PromptLoop` is a timing assumption of the liveness runs and of the violated ones: the
loop records a broadcast within `bump_interval` and before any L1 event of that batch is
`l1_safe_blocks` deep. Without it a `Bumped` event may overwrite a row seeded from L1,
or a result may overtake the `InitialBroadcast` it follows, and a row is left that
nobody finishes. The safety runs do not make the assumption. `CanPanic` is off in
`dispatch_live`: a panic after `allocate` leaves a nonce gap that nothing closes. A crash
may fall there while no batch has a row of its own (`CrashUnrecorded`), so also between
the broadcast and the row; `dispatch_resume` shows what a later one does.

The other live runs assume weak fairness of: the boot, the driver, feeder, workers and the
result handler (`blocks`); the boot, the listener, the event handler and new L1 blocks
(`listener`); the accept loop, the workers, the proxy's handlers, each proof loop and
the proxy's restart (`tee`), where a proof loop's fairness includes that the SP1 network
and L1 answer. These are tasks of a runtime or supervised processes. No fault, timeout,
rotation, signing result or operator's action is fair.

## Theorems

Every safety property of the protocol modules that a passing run checks is a theorem, for
every value of the constants, with one exception (`MarkBelowBatches`, below). Each proof
has the same shape: an inductive invariant, a lemma for the initial states, one for each
action, and the properties as consequences. TLC checked each invariant on a small instance
before it was proved. The constants are restricted by the `ASSUME` of the module
and by nothing else, except where a hypothesis is named here.

**Accumulator** (`AccumulatorInvariant`, `AccumulatorProofs`; `AccumulatorAssumption`:
batches are naturals, their block ranges are disjoint, 0 is a block number). The
properties are not inductive by themselves, because the signing task acts on the database
behind the loop's back. `SignerInv` says what a running task implies: it works for the
present epoch, its batch is signed in no map and not dispatched by us, it is still there
unless it was finalized, and a signature it reports is saved. `SignaturesInv` says that
while the loop runs every signature, in memory or in the database, is of the present
epoch, and that a signed batch has a row. `DbInv` holds at every moment, crashes
included: no row survives a wipe, an own row is signed, a signed pending batch had its
blobs accepted, and the responses of executed blocks are there until the batch is signed.
The orphan rule of `with_db` is what turns `DbInv` into `SignaturesInv` at a restart.
`TypeCorrect`, `MirrorTheorem`, `OneHomeTheorem`, `SignatureDurable`, `ResumeTheorem`,
`NoStaleTheorem` and `WorkSurvives` follow, and so do `Refinement` (every step is a step
of `BatchLifecycle` or leaves the stages alone) and the action property
`ExternalRowsTheorem`.

**Dispatch** (`DispatchProofs`; any batches, worker slots, nonces, fee levels, faults,
crashes, panics and reorganisations). A worker, its nonce, the row of its batch, the gate
and the two channels describe one dispatch in five places, and each step of
`run_rbf_dispatch` updates some of them. `Claim(i, n)` says that batch `i` owns nonce `n`
by its row or by an `InitialBroadcast` that the loop has not received yet; the invariant
is that a nonce has one owner, that a worker which has not broadcast holds an unowned
one, and that the allocator is above all of them. A crash erases workers and channels and
keeps rows, so that the restarted allocator must be shown to be past the rows alone.
`NoncesNeverShared` and `GateNeverOrphaned` follow.

The second part of the module adds what the rows, the reports and the ticker's
observations say of L1: each names a transaction of its own batch, and a receipt that was
seen is still there. `CleanedUpMeansPreconfirmed` and the action property
`OnlyRevertedUndone` follow under `MaxReorg = 0`. The hypothesis is needed: the
properties fail with a reorganisation.

**Driver and BlockPipeline** (`DriverProofs`, `PipelineProofs`; any chain, batches,
capacities, numbers of workers and keys, retention and transaction counts). The
assumptions are that batches are ordered and that the batches above the initial
checkpoint leave no gap. `DriverInv` is about the stores: static files are never behind
MDBX, an open `save_blocks` starts at the cursor, nothing is buffered for the cold store
that MDBX has not got. `StaticFilesHealed`, `ColdBytesExact` and `ColdNeverAhead` follow.
`PipeInv` is about the blocks. `NoBlockLost` needs to know what the checkpoint stands for
at a restart: an unregistered block at or below it has its response or lies below
`last_batch_end` (`CheckpointCovered`), and so has every confirmed block
(`ConfirmedAnswered`); where `last_batch_end` is above an unregistered block every batch
below is final (`MarkFinal`). `NoBlockFallsThrough` and `NoRowComesBack` follow.

**L1Listener** (`ListenerProofs`; any scripts, page sizes, log limit, channel capacity,
depth of safety and faults). `ScriptAssumption` says of the contract that a batch is
committed a second time only after a revert of it or of a batch below it. The invariant
of `NoneSkipped` follows an event from the page to the handler: what lies at or below
`lst.ok` was sent (`Polling`), and a checkpoint in the channel has all events up to its
block handled or ahead of it (`Queued`). `RangesCurrent` also needs `RowsBacked`: a
tracked range is that of a commit on L1, and every revert of it lies where the database
will still read. That takes the hypothesis `StartsEarly`, that no `BatchReverted`
precedes the first commit of the batch a first boot starts from. Without it TLC finds a
behaviour in which the range of a reverted batch stays (see the next section).

**Enclave and Proxy** (`ProxyInvariant`, `ProxyProofs`; any clients, keys, inputs, blobs,
provers and bounds). The invariant ties each thread of the proxy to the jobs and answers
it waits for: a job answers one waiting thread (`JobsOk`), what is in the enclave's memory
belongs to the key of this life (`MemoryOk`), what a caller puts into `SubmitBatch` was
answered by some life of the enclave (`CallsOk`), a key is announced once, before it has a
row or a loop (`AnnouncedOk`). `SignaturesSound` follows because a response of another
life is refused by the key in it. `KeysTracked`, `NoSecondLoop` and `ProverAvailable`
follow as well, through restarts of either process and dropped handlers.

Model-checked only:

* Liveness (`EveryBatchFinalized`, `BlocksAnswered`, `EventsApplied`, `ReplaySettles`,
  `KeysSettle`, `RequestsAnswered`, `ChallengeSettles`): TLAPS does not prove liveness
  under fairness.
* `Trie`, `StateWitness` and `BatchCodec`: what their recursive algorithms compute for
  every input needs induction over data, which is outside the prover's reach.
* `MarkBelowBatches`: it does not hold for every script. TLC refutes it where a batch
  that was reverted before is committed with a lower start and reverted again, and where
  a first boot that starts from a later batch than the first dies between its writes.
  It holds for the scripts of the run, where neither happens.

## Where code and comments part

The four violated runs are the disagreements with a line of the repository that a run
can show. Others were met while modelling; the models follow the code, and properties
except them by name.

* Healing does nothing while MDBX is at genesis, and cuts bodies and receipts by
  transaction count: a tail of empty blocks stays ahead of MDBX (`forward.rs:136`).
* An unwind that dies between MDBX and the cold store leaves witnesses above the tip,
  which `forward.rs:340` rules out, and the next boot sees nothing to unwind.
* `main.rs:477` says that the checkpoint block is kept by the unwind; `unwind_to`
  removes it. The block is fetched and executed again.
* `last_batch_end` in SQLite is overwritten by whichever batch is finalized last, and
  memory takes the maximum. After a restart late results of a higher batch are stored.
* A result at or below `last_batch_end` is dropped without advancing the checkpoint.
* A batch whose `BatchSubmitted` comes after its last response is signed at the next
  event that tries, not by the event itself.
* The first boot writes the L2 checkpoint, the L1 checkpoint and `last_batch_end` one by
  one (`main.rs:243`). If it dies behind the first, the next boot skips the rest, and the
  listener reads from the deployment on, batches before `L1_START_BATCH_ID` included. If
  normalisation then puts the checkpoint at 0, a later boot resolves again and moves the
  L1 checkpoint past a revert that was not read, or sets `last_batch_end` above a
  pending batch.
* `resolve_l2_start_checkpoint` takes the first commit of a batch. After a second revert
  that may be a range which an earlier revert withdrew; if the batch starts lower now,
  checkpoint and `last_batch_end` are set past its first blocks.
* `AlreadyInitialized` inserts no row: a key whose `KeyGenerated` was lost is never
  attested. A challenge is not resumed after a restart. An expired attestation is
  proved and submitted for ever.
* `nitro/mod.rs:337` says "cache-first with response fallback"; the code takes the
  response first. Both are safe (`SignedBatchSound`).
* `calculate_merkle_root` duplicates an odd leaf, so lists of different length can share
  a root; among lists of one length the root binds (`MerkleRootBinds`). Without a leaf it
  returns an error, and `merkle_root` the hash of no bytes (`events_hash.rs:73`).
* `mpt.rs:1006` says that a multiproof without slot targets has `EMPTY_ROOT_HASH` "even
  for accounts with non-empty storage", and goes on that its root field is always
  populated correctly; `update` (`mpt/src/lib.rs:110`) is written for the first. The two cannot
  both be so. With the correct root everything works. With the empty one `update`
  recovers the root, the host's check passes and the block is sent, but the stub is an
  empty trie: `witness_db` (`io.rs:240`) finds another root in the account, and the
  client panics on the unwrapped error (`executor.rs:67`). `WitnessSuffices` states both:
  the client refuses exactly the blocks that touch such an account, and nothing else
  fails.
* `mpt_from_proof` returns an error for a proof in which a node shorter than 32 bytes
  follows its parent, and `transition_proofs_to_tries` unwraps it. EIP-1186 does not list
  such a node; with a provider that does, the host panics exactly for the blocks that touch
  one (`WitnessSuffices`). It takes two slots of one account whose hashes share eight
  nibbles and a value of one byte.

## Further work

`RbfFees` (the integer arithmetic of `bump_fees`); the condition on scripts under which
`MarkBelowBatches` holds, and its proof; a reorganisation of L1 in the
theorems about the ticker.

## Not modelled

EVM execution, the extraction of deposits and withdrawals from logs, KZG, brotli,
certificates (`aws-nitro-validator`, `prepare.rs`), KMS and vsock, the guest's entry,
genesis construction, metrics and logs. They compute without protocol state, or are I/O.

Inside the modelled parts: errors of single SQLite writes, which the code logs and
ignores; the capacities of the channels between loop and dispatch workers (8 and 32), above
what the instances can fill; the exact delays of backoff and timers; reth's pruner, for
which `main.rs` passes none; the checks of the ancestor headers in `witness_db`;
`proofs_to_tries`, which nothing calls; reorganisations of L1 below `safe_blocks`; and the
mock challenge endpoint.
