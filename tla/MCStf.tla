-------------------------------- MODULE MCStf --------------------------------
EXTENDS StateWitness, BatchCodec

\* Four keys whose trie nests three branches deep; subsets of them have
\* leaves, extensions and branches as the sibling of a deleted key.
MCKeys == {<<0,0,0,0>>, <<0,0,1,1>>, <<0,1,0,2>>, <<1,0,0,3>>}
MCOne == <<0,0,0,0>>
MCTwo == <<0,0,1,1>>

Plain(n) == [bal |-> n, slots |-> NoSlots]
Holder(slots) == [bal |-> 1, slots |-> slots]

\* Blocks that change accounts: any subset exists; each is left alone, read,
\* written (created if it was absent) or destroyed.  One has storage.
MCAccountBlocks ==
  {[pre     |-> [a \in in |-> IF a = MCOne THEN Holder([k \in {MCOne} |-> 1]) ELSE Plain(1)],
    touched |-> {a \in MCKeys : op[a] # "none"},
    slots   |-> [a \in {a \in MCKeys : op[a] # "none"} |-> {}],
    post    |-> [a \in {a \in MCKeys : op[a] \in {"set", "del"}} |-> [some |-> op[a] = "set", bal |-> 2]],
    storages |-> [a \in {} |-> 0]] :
    <<in, op>> \in {x \in (SUBSET MCKeys \ {{}}) \X [MCKeys -> {"none", "read", "set", "del"}] :
                      /\ \E a \in MCKeys : x[2][a] # "none"
                      /\ \A a \in MCKeys : a \notin x[1] => x[2][a] \notin {"read", "del"}}}

\* Blocks that change one account's storage, next to an account left alone.
MCSlotBlocks ==
  {[pre     |-> [a \in {MCOne, MCTwo} |-> IF a = MCOne THEN Holder([k \in in |-> 1]) ELSE Plain(1)],
    touched |-> {MCOne},
    slots   |-> [a \in {MCOne} |-> {k \in MCKeys : op[k] # "none"}],
    post    |-> [a \in {MCOne} |-> [some |-> TRUE, bal |-> 1]],
    storages |-> [a \in {MCOne} |-> [wiped |-> FALSE,
       put |-> [k \in {k \in MCKeys : op[k] \in {"set", "del"}} |-> IF op[k] = "set" THEN 2 ELSE 0]]]] :
    <<in, op>> \in {x \in (SUBSET MCKeys) \X [MCKeys -> {"none", "read", "set", "del"}] :
                      \A a \in MCKeys : a \notin x[1] => x[2][a] # "del"}}

\* Blocks that destroy an account's storage and write some slots of the new
\* one, while the other account stays or is destroyed; the first may also be
\* an account that was not there before.
MCWipedBlocks ==
  {[pre     |-> [a \in {MCTwo} \cup (IF in = {} THEN {} ELSE {MCOne}) |->
                   IF a = MCOne THEN Holder([k \in in |-> 1]) ELSE Plain(1)],
    touched |-> IF two THEN {MCOne, MCTwo} ELSE {MCOne},
    slots   |-> [a \in IF two THEN {MCOne, MCTwo} ELSE {MCOne} |-> {}],
    post    |-> [a \in IF two THEN {MCOne, MCTwo} ELSE {MCOne} |-> [some |-> a = MCOne, bal |-> 1]],
    storages |-> [a \in {MCOne} |-> [wiped |-> in # {}, put |-> [k \in puts |-> 2]]]] :
    in \in SUBSET MCKeys, puts \in SUBSET MCKeys, two \in BOOLEAN}

MCScenarios == MCAccountBlocks \cup MCSlotBlocks \cup MCWipedBlocks

\* Blocks of a few bytes and blocks whose header, transaction, transaction
\* list or entry is just below and just above the 55 bytes of the short form.
\* Every transaction sends a message and receives one.
Bs(n) == [i \in 1..n |-> 200]
MCBlock(h, t) ==
  LET messages == [i \in 1..Len(t) |-> [of |-> t[i]]]
  IN  [header |-> h, txs |-> t, parent |-> <<>>, sent |-> messages, received |-> messages]
Short(n) == MCBlock(<<193, n>>, [i \in 1..n |-> <<i>>])
MCBlocks ==
  {MCBlock(h, t) :
     h \in {<<192>>, <<193, 7>>, <<248, 56>> \o Bs(56)},
     t \in {<<>>, <<<<5>>>>, <<<<200>>, <<1, 2>>>>} \cup {<<Bs(n)>> : n \in 50..57}}
Chained(blocks) ==
  [i \in 1..Len(blocks) |->
     [blocks[i] EXCEPT !.parent = IF i = 1 THEN <<>> ELSE blocks[i-1].header]]
MCBatches ==
  {Chained(bs) : bs \in
    {<<b>> : b \in MCBlocks} \cup {<<b, c>> : b \in MCBlocks, c \in MCBlocks}
      \cup {[i \in 1..3 |-> b] : b \in MCBlocks}
      \cup {[i \in 1..n |-> Short(i)] : n \in 3..5} \cup {[i \in 1..n |-> Short(n - i)] : n \in 3..5}}

MCNoBlock == [pre |-> [a \in {} |-> 0], touched |-> {}, slots |-> [a \in {} |-> {}],
              post |-> [a \in {} |-> 0], storages |-> [a \in {} |-> 0]]

\* The two machines share no state: one of them runs, the other is idle.
WitnessIdle ==
  /\ block = MCNoBlock
  /\ source = "multiproof" /\ phase = "done" /\ built = Broken /\ state = Broken
  /\ todo = {} /\ cur = Nobody /\ left = {} /\ reads = <<>>
Init == (WitnessInit /\ CodecIdle) \/ (CodecInit /\ WitnessIdle)
Next == (WitnessNext /\ UNCHANGED codecVars) \/ (CodecNext /\ UNCHANGED vars)
Spec == Init /\ [][Next]_<<vars, codecVars>>
==============================================================================
