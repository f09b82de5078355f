----------------------------- MODULE BatchCodec -----------------------------
(***************************************************************************)
(* A batch of blocks on its way through blobs.  The proxy fetches the       *)
(* blocks (crates/blob-builder), lays them out as one RLP list, compresses  *)
(* it, puts the format version in front and cuts the stream into blobs of   *)
(* field elements.  The enclave and the zkVM guest (bin/client/src/blob.rs) *)
(* undo all of it and walk the list, one block header at a time.  The two   *)
(* programs share no code.  The Merkle roots are here too: the enclave's    *)
(* over the blocks of a batch and the executor's over the withdrawals of a  *)
(* block, two implementations of one function of the rollup contract.       *)
(*                                                                         *)
(* Bytes are numbers, a keccak hash is the bytes it is taken of.  The size  *)
(* of a field and of a blob and the fetch window are constants here.        *)
(***************************************************************************)
EXTENDS Naturals, FiniteSets, Sequences, SequencesExt

CONSTANTS
  Batches,         \* sequences of blocks [header, txs], byte sequences, with the
                   \* header's parent and the messages execution sent and received
  BytesPerField,   \* 31 in the code
  FieldsPerBlob,   \* 4096 in the code
  FetchBatchSize   \* 100 in the code

ASSUME CodecAssumption ==
  BytesPerField \in Nat \ {0} /\ FieldsPerBlob \in Nat \ {0} /\ FetchBatchSize \in Nat \ {0}

VARIABLES
  step,      \* "fetch", "built", "iter", "done", "err" or "idle"
  batch,     \* the blocks
  blobs,     \* the blobs built from them
  cursor,    \* what the iterator has not consumed
  remaining, \* bytes of the outer list not consumed
  views      \* the block hashes it has yielded

codecVars == <<step, batch, blobs, cursor, remaining, views>>

MaxRaw == FieldsPerBlob * BytesPerField

Drop(s, n) == SubSeq(s, n + 1, Len(s))

-----------------------------------------------------------------------------
(* The builder.                                                             *)

\* Windows of FetchBatchSize blocks, each sorted by number when it is complete.
RECURSIVE fetch_blocks(_, _)
fetch_blocks(blocks, current) ==
  IF current > Len(blocks) THEN <<>>
  ELSE LET end == IF current + FetchBatchSize - 1 < Len(blocks)
                  THEN current + FetchBatchSize - 1 ELSE Len(blocks)
       IN  SubSeq(blocks, current, end) \o fetch_blocks(blocks, end + 1)

\* RLP (external): up to 55 bytes the length is part of the first byte.
LengthBytes(n) == IF n < 256 THEN <<n>> ELSE <<n \div 256, n % 256>>
RlpHead(base, n) ==
  IF n < 56 THEN <<base + n>> ELSE <<base + 55 + Len(LengthBytes(n))>> \o LengthBytes(n)
RlpString(s) == IF Len(s) = 1 /\ s[1] < 128 THEN s ELSE RlpHead(128, Len(s)) \o s

Sum(ns) == FoldLeft(LAMBDA a, b : a + b, 0, ns)
Each(op(_), s) == [i \in 1..Len(s) |-> op(s[i])]

txs_payload_len(b) == Sum(Each(LAMBDA tx : Len(RlpString(tx)), b.txs))

\* Lengths are computed before anything is written: a block is its header and
\* the list of its transactions.
block_payload_len_mut(b) == Len(b.header) + txs_payload_len(b)
block_payload_len(b) ==
  Len(b.header) + Len(RlpHead(192, txs_payload_len(b))) + txs_payload_len(b)

encode_batch_payload(blocks) ==
  LET Total(b)  == Len(RlpHead(192, block_payload_len(b))) + block_payload_len(b)
      outer     == Sum(Each(Total, blocks))
      Encode(b) == RlpHead(192, block_payload_len(b)) \o b.header
                     \o RlpHead(192, txs_payload_len(b)) \o FlattenSeq(Each(RlpString, b.txs))
  IN  RlpHead(192, outer) \o FlattenSeq(Each(Encode, blocks))

\* Brotli (external): a stream that knows where it ends; what follows it is
\* not read.
Compress(s) == <<Len(s) \div 256, Len(s) % 256>> \o s
Decompress(s) == SubSeq(s, 3, 2 + s[1] * 256 + s[2])

canonicalize(raw) ==
  [i \in 1..(FieldsPerBlob * (BytesPerField + 1)) |->
     LET field == (i - 1) \div (BytesPerField + 1)
         at    == (i - 1) % (BytesPerField + 1)
         src   == field * BytesPerField + at
     IN  IF at # 0 /\ src <= Len(raw) THEN raw[src] ELSE 0]

Chunks(s, n) == [i \in 1..((Len(s) + n - 1) \div n) |->
                   SubSeq(s, (i - 1) * n + 1, IF i * n < Len(s) THEN i * n ELSE Len(s))]

build_blobs_from_l2(blocks) ==
  Each(canonicalize, Chunks(<<1>> \o Compress(encode_batch_payload(fetch_blocks(blocks, 1))), MaxRaw))

-----------------------------------------------------------------------------
(* The reader.                                                              *)

Canonical(blob) ==
  /\ Len(blob) % (BytesPerField + 1) = 0
  /\ \A i \in 1..Len(blob) : (i - 1) % (BytesPerField + 1) = 0 => blob[i] = 0

Fields(blob) == Len(blob) \div (BytesPerField + 1)
decanonicalize(blob) ==
  [i \in 1..(BytesPerField * (IF Fields(blob) < FieldsPerBlob THEN Fields(blob) ELSE FieldsPerBlob)) |->
     LET field == (i - 1) \div BytesPerField
         at    == (i - 1) % BytesPerField
     IN  blob[field * (BytesPerField + 1) + at + 2]]

\* Header::decode (external): what the next item is and where its payload
\* starts; ok is FALSE for an item that does not fit into the buffer.
RlpDecode(s) ==
  IF s = <<>> THEN [ok |-> FALSE]
  ELSE LET b    == s[1]
           list == b >= 192
           base == IF list THEN 192 ELSE 128
           ll   == IF b - base > 55 THEN b - base - 55 ELSE 0
           len  == IF ll = 0 THEN b - base ELSE IF ll = 1 THEN s[2] ELSE s[2] * 256 + s[3]
       IN  IF b < 128 THEN [ok |-> TRUE, list |-> FALSE, head |-> 0, len |-> 1]
           ELSE [ok |-> 1 + ll + len <= Len(s), list |-> list, head |-> 1 + ll, len |-> len]

IsList(h) == h.ok /\ h.list

-----------------------------------------------------------------------------
(* Steps: build, decode, then one call of the iterator after the other.     *)

build ==
  /\ step = "fetch"
  /\ blobs' = build_blobs_from_l2(batch)
  /\ step' = "built"
  /\ UNCHANGED <<batch, cursor, remaining, views>>

\* A block cannot be fetched, or the compressor fails: there are no blobs.
build_failed ==
  /\ step = "fetch"
  /\ step' = "idle"
  /\ UNCHANGED <<batch, blobs, cursor, remaining, views>>

\* decode_blob_payload, and the first call of next(), which opens the outer
\* list: no byte may be missing from it and none may follow it.
decode_blob_payload ==
  /\ step = "built"
  /\ LET raw     == FlattenSeq(Each(decanonicalize, blobs))
         payload == Decompress(Tail(raw))
         outer   == RlpDecode(payload)
     IN  IF /\ blobs # <<>> /\ (\A i \in 1..Len(blobs) : Canonical(blobs[i])) /\ raw[1] = 1
            /\ payload = <<>> \/ (IsList(outer) /\ outer.head + outer.len = Len(payload))
         THEN IF payload = <<>> THEN step' = "iter" /\ UNCHANGED <<cursor, remaining>> ELSE
              /\ cursor' = Drop(payload, outer.head) /\ remaining' = outer.len /\ step' = "iter"
         ELSE step' = "err" /\ UNCHANGED <<cursor, remaining>>
  /\ UNCHANGED <<batch, blobs, views>>

\* One block entry: a list whose first item, the header, is a list.
next_block ==
  /\ step = "iter" /\ remaining > 0
  /\ LET entry  == RlpDecode(cursor)
         inner  == SubSeq(cursor, entry.head + 1, entry.head + entry.len)
         header == RlpDecode(inner)
     IN  IF IsList(entry) /\ entry.head + entry.len <= remaining /\ IsList(header)
         THEN /\ views' = Append(views, SubSeq(inner, 1, header.head + header.len))
              /\ cursor' = Drop(cursor, entry.head + entry.len)
              /\ remaining' = remaining - (entry.head + entry.len) /\ UNCHANGED step
         ELSE step' = "err" /\ UNCHANGED <<cursor, remaining, views>>
  /\ UNCHANGED <<batch, blobs>>

next_none ==
  /\ step = "iter" /\ remaining = 0
  /\ step' = "done"
  /\ UNCHANGED <<batch, blobs, cursor, remaining, views>>

CodecInit ==
  /\ batch \in Batches /\ step = "fetch"
  /\ blobs = <<>> /\ cursor = <<>> /\ remaining = 0 /\ views = <<>>

CodecIdle ==
  /\ batch = <<>> /\ step = "idle"
  /\ blobs = <<>> /\ cursor = <<>> /\ remaining = 0 /\ views = <<>>

CodecNext == build \/ build_failed \/ decode_blob_payload \/ next_block \/ next_none

-----------------------------------------------------------------------------
(* Merkle roots.                                                            *)

keccak_pair(l, r) == [left |-> l, right |-> r]

\* The enclave: layer by layer, an odd trailing element paired with itself.
\* No leaves are an error.
NoLeaves == [err |-> "no leaves provided"]
RECURSIVE calculate_merkle_root_mut(_)
calculate_merkle_root_mut(layer) ==
  CASE Len(layer) = 0 -> NoLeaves
    [] Len(layer) = 1 -> layer[1]
    [] OTHER -> calculate_merkle_root_mut(Each(LAMBDA c : IF Len(c) = 1 THEN c[1] ELSE keccak_pair(c[1], c[2]), Chunks(layer, 2)))
RECURSIVE calculate_merkle_root(_)
calculate_merkle_root(layer) ==
  CASE Len(layer) = 0 -> NoLeaves
    [] Len(layer) = 1 -> layer[1]
    [] OTHER -> calculate_merkle_root(Each(LAMBDA c : keccak_pair(c[1], c[Len(c)]), Chunks(layer, 2)))

\* The executor: in place, pair i written over element i before the next pair
\* is read.
RECURSIVE PairUp(_, _)
PairUp(leaves, i) ==
  IF 2 * i >= Len(leaves) THEN SubSeq(leaves, 1, Len(leaves) \div 2)
  ELSE PairUp([leaves EXCEPT ![i + 1] = keccak_pair(leaves[2*i + 1], leaves[2*i + 2])], i + 1)

\* Without withdrawals the root is the hash of no bytes.
ZERO_BYTES_HASH == [of |-> <<>>]
RECURSIVE merkle_root(_)
merkle_root(leaves) ==
  CASE Len(leaves) = 0 -> ZERO_BYTES_HASH
    [] Len(leaves) = 1 -> leaves[1]
    [] OTHER -> merkle_root(PairUp(IF Len(leaves) % 2 = 1 THEN Append(leaves, Last(leaves)) ELSE leaves, 0))

\* Deposits are hashed one after the other.
calculate_deposit_hash(b)    == b.received
calculate_withdrawal_root(b) == merkle_root(b.sent)

\* A leaf of the batch: the block, its parent, and what crossed the bridge.
compute_leaf(b) ==
  [parent |-> b.parent, block |-> b.header,
   withdrawal |-> calculate_withdrawal_root(b), deposit |-> calculate_deposit_hash(b)]

-----------------------------------------------------------------------------
(* Properties.                                                              *)

\* What the reader gets out of the blobs is what the builder put in: never an
\* error, whatever the sizes (lengths at the edge of the short RLP form,
\* streams that end inside a field, at the end of a field or of a blob), and
\* at the end every header of the batch, in order, byte for byte.
BatchDecodes ==
  /\ step # "err"
  /\ step = "done" => views = Each(LAMBDA b : b.header, batch)

\* The enclave's and the executor's Merkle root agree on the leaves of a batch
\* and on the withdrawals of a block, except that without a leaf the one errs
\* and the other has a fixed root.  Among batches of one length the root
\* determines the leaves, and with them every block and what it sent (lists
\* of different length can share a root: the odd element is duplicated).
MerkleRootBinds ==
  step = "done" =>
    LET l == Each(compute_leaf, batch)
        Agree(leaves) == leaves # <<>> => calculate_merkle_root(leaves) = merkle_root(leaves)
    IN  /\ Agree(l) /\ \A i \in 1..Len(batch) : Agree(batch[i].sent)
        /\ \A m \in [1..Len(l) -> ToSet(l)] : calculate_merkle_root(m) = calculate_merkle_root(l) => m = l
=============================================================================
