-------------------------------- MODULE Trie --------------------------------
(***************************************************************************)
(* The sparse Merkle Patricia trie of crates/mpt: nodes, the reference     *)
(* cache every node carries, lookup, insertion and deletion, and the       *)
(* resolution of a partial trie from a store of nodes.                     *)
(*                                                                         *)
(* Keccak is modelled as an injection: the hash of an encoded node IS the  *)
(* encoding, with its children's hashes inside (an "encoding" below).  An  *)
(* encoded leaf and an encoded extension are both a list of two items, so  *)
(* only the flag in the encoded path tells them apart, as on the wire.     *)
(* In memory a node also carries `ref`, the cached reference, <<>> when    *)
(* there is none.                                                          *)
(*                                                                         *)
(* Keys are hashes of 64 nibbles in the code and short nibble sequences    *)
(* here.  A node whose encoding is shorter than a hash is embedded in its  *)
(* parent: a leaf with a small slot value, once two slots of an account    *)
(* share enough leading nibbles (eight, for a value of one byte).          *)
(***************************************************************************)
EXTENDS Naturals, FiniteSets, Sequences, SequencesExt, Functions

CONSTANT
  InlinePath  \* longest path of an embedded leaf: 28 bytes for a one-byte value

Odd(s) == Len(s) % 2 = 1

\* A path with its flags: 32 marks a leaf, 16 an odd number of nibbles.
to_encoded_path(nibs, is_leaf) ==
  LET flag == IF is_leaf THEN 32 ELSE 0
      head == IF Odd(nibs) THEN flag + 16 + nibs[1] ELSE flag
      rest == IF Odd(nibs) THEN Tail(nibs) ELSE nibs
  IN  <<head>> \o [i \in 1..(Len(rest) \div 2) |-> 16 * rest[2*i - 1] + rest[2*i]]

prefix_nibs(path) ==
  LET first == IF (path[1] \div 16) % 2 = 1 THEN <<path[1] % 16>> ELSE <<>>
  IN  first \o [i \in 1..(2 * (Len(path) - 1)) |->
                  LET byte == path[2 + (i - 1) \div 2]
                  IN  IF i % 2 = 1 THEN byte \div 16 ELSE byte % 16]

lcp(a, b) == Len(LongestCommonPrefix({a, b}))

From(s, n) == SubSeq(s, n + 1, Len(s))

-----------------------------------------------------------------------------
(* Encodings, and the in-memory nodes made from them.                      *)

Pair(path, item) == [path |-> path, item |-> item]
Empty            == [null |-> TRUE]                        \* EMPTY_ROOT

Null               == [t |-> "null", ref |-> <<>>]
Leaf(path, value)  == [t |-> "leaf", path |-> path, value |-> value, ref |-> <<>>]
Extension(path, n) == [t |-> "extension", path |-> path, child |-> n, ref |-> <<>>]
Branch(nodes)      == [t |-> "branch", nodes |-> nodes, ref |-> <<>>]
Digest(h)          == [t |-> "digest", of |-> h, ref |-> <<>>]

node_from_digest(h) == IF h = Empty THEN Null ELSE Digest(h)

\* MptNodeReference::Bytes.  Accounts, and nodes that hold a digest, are longer.
Embedded(h) == "path" \in DOMAIN h /\ "slot" \in DOMAIN h.item /\ Len(h.path) <= InlinePath

\* A node as it is read from its encoding: a child is a digest, or a node
\* that was embedded.
Child(h) == IF Embedded(h) THEN Leaf(h.path, h.item) ELSE Digest(h)
decode(h) ==
  CASE "null" \in DOMAIN h -> Null
    [] "kids" \in DOMAIN h -> Branch([i \in DOMAIN h.kids |-> Child(h.kids[i])])
    [] OTHER -> IF (h.path[1] \div 32) % 2 = 1 THEN Leaf(h.path, h.item)
                                               ELSE Extension(h.path, Child(h.item))

\* The reference a parent (or the root's hash) uses: the cached one if there
\* is one, else computed from the children's references.
RECURSIVE reference(_)
reference(n) ==
  IF n.ref # <<>> THEN n.ref[1]
  ELSE CASE n.t = "null"      -> Empty
         [] n.t = "digest"    -> n.of
         [] n.t = "leaf"      -> Pair(n.path, n.value)
         [] n.t = "extension" -> Pair(n.path, reference(n.child))
         [] n.t = "branch"    -> [kids |-> [i \in DOMAIN n.nodes |-> reference(n.nodes[i])]]

hash(n) == IF n.t = "null" THEN Empty ELSE reference(n)

\* The trie after hash() has walked it: whatever it computed is now cached.
RECURSIVE Hashed(_)
Hashed(n) ==
  IF n.ref # <<>> \/ n.t = "null" THEN n
  ELSE LET m == CASE n.t = "extension" -> [n EXCEPT !.child = Hashed(@)]
                  [] n.t = "branch"    -> [n EXCEPT !.nodes = [i \in DOMAIN @ |-> Hashed(@[i])]]
                  [] OTHER             -> n
       IN  [m EXCEPT !.ref = <<reference(n)>>]

\* The trie as a deserialised copy has it: the caches are skipped.
RECURSIVE Uncached(_)
Uncached(n) ==
  LET m == CASE n.t = "extension" -> [n EXCEPT !.child = Uncached(@)]
             [] n.t = "branch"    -> [n EXCEPT !.nodes = [i \in DOMAIN @ |-> Uncached(@[i])]]
             [] OTHER             -> n
  IN  [m EXCEPT !.ref = <<>>]

-----------------------------------------------------------------------------
(* Lookup, insertion and deletion.  A result is the outcome ("true" and     *)
(* "false" for Ok, "err" for Err) with the node as the call leaves it.      *)

Unchanged(n) == [res |-> "false", node |-> n]
Failed(n)    == [res |-> "err", node |-> n]

invalidate_ref_cache(n) == [n EXCEPT !.ref = <<>>]

\* self.data is replaced in place, then the cache is dropped.
Replaced(n, data) ==
  [res |-> "true", node |-> invalidate_ref_cache([data EXCEPT !.ref = n.ref])]

RECURSIVE get_internal(_, _)
get_internal(n, key) ==
  CASE n.t = "null"   -> [res |-> "none"]
    [] n.t = "digest" -> [res |-> "err"]
    [] n.t = "leaf"   -> IF prefix_nibs(n.path) = key THEN [res |-> "some", value |-> n.value]
                                                      ELSE [res |-> "none"]
    [] n.t = "branch" -> IF key # <<>> /\ key[1] \in DOMAIN n.nodes
                         THEN get_internal(n.nodes[key[1]], Tail(key)) ELSE [res |-> "none"]
    [] n.t = "extension" ->
         LET nibs == prefix_nibs(n.path)
         IN  IF IsPrefix(nibs, key) THEN get_internal(n.child, From(key, Len(nibs)))
                                    ELSE [res |-> "none"]

\* A branch left with one child: the child takes the branch's nibble on.
Collapsed_mut(index, orphan) ==
  IF orphan.t = "leaf" THEN Leaf(orphan.path, orphan.value)
                       ELSE Extension(to_encoded_path(<<index>>, FALSE), orphan)
Collapsed(index, orphan) ==
  CASE orphan.t = "leaf" ->
         Leaf(to_encoded_path(<<index>> \o prefix_nibs(orphan.path), TRUE), orphan.value)
    [] orphan.t = "extension" ->
         Extension(to_encoded_path(<<index>> \o prefix_nibs(orphan.path), FALSE), orphan.child)
    [] OTHER -> Extension(to_encoded_path(<<index>>, FALSE), orphan)

\* An extension whose child changed: it may only point to a branch or a digest.
Merged(nibs, n, child) ==
  CASE child.t = "null" -> Null
    [] child.t = "leaf" ->
         Leaf(to_encoded_path(nibs \o prefix_nibs(child.path), TRUE), child.value)
    [] child.t = "extension" ->
         Extension(to_encoded_path(nibs \o prefix_nibs(child.path), FALSE), child.child)
    [] OTHER -> [n EXCEPT !.child = child]

RECURSIVE delete_internal(_, _)
delete_internal(n, key) ==
  CASE n.t = "null"   -> Unchanged(n)
    [] n.t = "digest" -> Failed(n)
    [] n.t = "leaf"   -> IF prefix_nibs(n.path) # key THEN Unchanged(n) ELSE Replaced(n, Null)
    [] n.t = "branch" ->
         IF key = <<>> THEN Failed(n)
         ELSE IF key[1] \notin DOMAIN n.nodes THEN Unchanged(n)
         ELSE LET r    == delete_internal(n.nodes[key[1]], Tail(key))
                  kids == IF r.node.t = "null" THEN Restrict(n.nodes, DOMAIN n.nodes \ {key[1]})
                                               ELSE [n.nodes EXCEPT ![key[1]] = r.node]
              IN  IF r.res # "true" THEN [r EXCEPT !.node = n]
                  ELSE IF Cardinality(DOMAIN kids) # 1 THEN Replaced(n, Branch(kids))
                  ELSE LET i == CHOOSE i \in DOMAIN kids : TRUE
                       IN  Replaced(n, Collapsed(i, kids[i]))
    [] n.t = "extension" ->
         LET nibs == prefix_nibs(n.path)
             r    == delete_internal(n.child, From(key, Len(nibs)))
         IN  IF ~IsPrefix(nibs, key) THEN Unchanged(n)
             ELSE IF r.res # "true" THEN [r EXCEPT !.node = n]
             ELSE Replaced(n, Merged(nibs, n, r.node))

\* Two paths part after their first `common` nibbles: a branch of both ends,
\* below an extension when they share anything.
Split(nibs, common, old, key, value) ==
  LET new    == Leaf(to_encoded_path(From(key, common + 1), TRUE), value)
      branch == Branch([i \in {nibs[common + 1], key[common + 1]} |->
                          IF i = key[common + 1] THEN new ELSE old])
  IN  IF common > 0 THEN Extension(to_encoded_path(SubSeq(nibs, 1, common), FALSE), branch)
                    ELSE branch

RECURSIVE insert_internal(_, _, _)
insert_internal(n, key, value) ==
  CASE n.t = "null"   -> Replaced(n, Leaf(to_encoded_path(key, TRUE), value))
    [] n.t = "digest" -> Failed(n)
    [] n.t = "branch" ->
         IF key = <<>> THEN Failed(n)
         ELSE IF key[1] \notin DOMAIN n.nodes
         THEN Replaced(n, Branch([i \in DOMAIN n.nodes \cup {key[1]} |->
                IF i = key[1] THEN Leaf(to_encoded_path(Tail(key), TRUE), value) ELSE n.nodes[i]]))
         ELSE LET r == insert_internal(n.nodes[key[1]], Tail(key), value)
              IN  IF r.res # "true" THEN [r EXCEPT !.node = n]
                  ELSE Replaced(n, Branch([n.nodes EXCEPT ![key[1]] = r.node]))
    [] n.t = "leaf" ->
         LET nibs   == prefix_nibs(n.path)
             common == lcp(nibs, key)
         IN  IF nibs = key
             THEN IF n.value = value THEN Unchanged(n) ELSE Replaced(n, [n EXCEPT !.value = value])
             ELSE IF common \in {Len(nibs), Len(key)} THEN Failed(n)
             ELSE Replaced(n, Split(nibs, common,
                    Leaf(to_encoded_path(From(nibs, common + 1), TRUE), n.value), key, value))
    [] n.t = "extension" ->
         LET nibs   == prefix_nibs(n.path)
             common == lcp(nibs, key)
             r      == insert_internal(n.child, From(key, common), value)
             old    == IF common + 1 < Len(nibs)
                       THEN Extension(to_encoded_path(From(nibs, common + 1), FALSE), n.child)
                       ELSE n.child
         IN  IF common = Len(nibs)
             THEN IF r.res # "true" THEN [r EXCEPT !.node = n]
                  ELSE Replaced(n, [n EXCEPT !.child = r.node])
             ELSE IF common = Len(key) THEN Failed(n)
             ELSE Replaced(n, Split(nibs, common, old, key, value))

-----------------------------------------------------------------------------
(* Partial tries from stores of nodes.                                      *)

\* The trie below n with every digest that `store` holds put back.
RECURSIVE resolve_nodes(_, _)
resolve_nodes(n, store) ==
  CASE n.t = "branch"    -> Branch([i \in DOMAIN n.nodes |-> resolve_nodes(n.nodes[i], store)])
    [] n.t = "extension" -> Extension(n.path, resolve_nodes(n.child, store))
    [] n.t = "digest" /\ n.of \in store -> resolve_nodes(decode(n.of), store)
    [] OTHER -> n

\* The node with every shorter path it may have had before a deletion.
shorten_node_path_mut(h) == {}
shorten_node_path(h) ==
  IF "path" \notin DOMAIN h THEN {}
  ELSE LET nibs == prefix_nibs(h.path)
           leaf == decode(h).t = "leaf"
       IN  {Pair(to_encoded_path(From(nibs, i), leaf), h.item) : i \in 0..Len(nibs)}

\* A chain of nodes from the root down, each put in the place of the digest
\* its predecessor has for it.  "broken" (Err) when a link does not match, or
\* the next node is one that has no digest.
RECURSIVE mpt_from_proof(_)
mpt_from_proof(proof) ==
  IF proof = <<>> THEN Null
  ELSE IF Len(proof) = 1 THEN decode(proof[1])
  ELSE LET n     == decode(proof[1])
           rest  == mpt_from_proof(Tail(proof))
           Is(c) == c.t = "digest" /\ c.of = proof[2]
           at    == IF n.t = "branch" THEN {i \in DOMAIN n.nodes : Is(n.nodes[i])} ELSE {}
       IN  CASE rest.t = "broken" -> rest
             [] n.t = "extension" /\ Is(n.child) -> [n EXCEPT !.child = rest]
             [] at # {} -> [n EXCEPT !.nodes[CHOOSE i \in at : \A j \in at : i <= j] = rest]
             [] OTHER -> [t |-> "broken"]

\* The accounts a trie holds, digests left aside: key and value pairs.
RECURSIVE for_each_leaves(_, _)
for_each_leaves(n, path) ==
  CASE n.t = "leaf"      -> {<<path \o prefix_nibs(n.path), n.value>>}
    [] n.t = "extension" -> for_each_leaves(n.child, path \o prefix_nibs(n.path))
    [] n.t = "branch"    -> UNION {for_each_leaves(n.nodes[i], Append(path, i)) : i \in DOMAIN n.nodes}
    [] OTHER             -> {}

-----------------------------------------------------------------------------
(* The reference: the one trie of a map from keys to values (external: what *)
(* the node's own trie code commits to), and its proofs.                    *)

RECURSIVE TrieOf(_)
TrieOf(m) ==
  LET keys   == DOMAIN m
      p      == LongestCommonPrefix(keys)
      Below(q) == [s \in {From(k, Len(q)) : k \in {k \in keys : IsPrefix(q, k)}} |-> m[q \o s]]
  IN  IF keys = {} THEN Empty
      ELSE IF Cardinality(keys) = 1
      THEN LET k == CHOOSE k \in keys : TRUE IN Pair(to_encoded_path(k, TRUE), m[k])
      ELSE IF p # <<>> THEN Pair(to_encoded_path(p, FALSE), TrieOf(Below(p)))
      ELSE [kids |-> [i \in {k[1] : k \in keys} |-> TrieOf(Below(<<i>>))]]

\* The encoded nodes on the way from h to key, as far as the way goes.  An
\* embedded node is in its parent already; `listed` says whether it is listed
\* by itself as well.
RECURSIVE Proof(_, _, _)
Proof(h, key, listed) ==
  LET n == decode(h)
      Below(kid, rest) == IF Embedded(kid) /\ ~listed THEN <<>> ELSE Proof(kid, rest, listed)
  IN  CASE n.t = "null" -> <<>>
        [] n.t = "branch" /\ key[1] \in DOMAIN n.nodes -> <<h>> \o Below(h.kids[key[1]], Tail(key))
        [] n.t = "extension" /\ IsPrefix(prefix_nibs(n.path), key) ->
             <<h>> \o Below(h.item, From(key, Len(prefix_nibs(n.path))))
        [] OTHER -> <<h>>
=============================================================================
