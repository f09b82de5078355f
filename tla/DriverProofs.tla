---------------------------- MODULE DriverProofs ----------------------------
(***************************************************************************)
(* Proofs about the stores of Driver under the whole of BlockPipeline: for *)
(* any chain, any sizes of the catch-up and cold batches, of the retention *)
(* and of the pool, any checkpoint to start from, and any number of key    *)
(* rotations, crashes and exits.                                           *)
(***************************************************************************)
EXTENDS BlockPipeline, FiniteSetTheorems, WellFoundedInduction, TLAPS

\* The part of TypeOK that is the driver's.
DriverTypes ==
    /\ remote \in 0..MaxBlock /\ mdbx \in 0..MaxBlock /\ ckpt \in 0..MaxBlock
    /\ static \in [Segment -> 0..MaxBlock] /\ cold \subseteq Block /\ total \in Nat
    /\ drv \in Memory

\* No segment is ever behind MDBX.
StaticAhead == \A g \in Segment : mdbx <= static[g]

\* An open MDBX transaction starts at the cursor; catch-up ends below the
\* first block that needs a witness.
Saving ==
    drv.take = "saving" =>
        /\ drv.boot = "up"
        /\ mdbx < drv.upto /\ drv.next <= drv.upto
        /\ \A g \in Segment : static[g] = drv.upto
        /\ IF drv.ready THEN drv.upto = drv.next /\ drv.out = 0 ELSE drv.upto < drv.wfb

\* A block that is committed and not yet handed out is in MDBX.
Taking ==
    drv.take \in {"saved", "flushing"} =>
        drv.boot = "up" /\ drv.ready /\ drv.out = 0 /\ drv.next <= mdbx

\* What the process remembers before the driver is up, and once it is.
Booting ==
    drv.boot # "up" => /\ drv.take = "idle" /\ ~drv.ready /\ drv.out = 0
                       /\ drv.buf = {} /\ drv.flush = {}
Running ==
    drv.boot = "up" => /\ 1 <= drv.next /\ drv.startTip <= mdbx
                       /\ IF drv.ready THEN drv.wfb <= drv.next ELSE drv.out = 0
Unwound == drv.boot = "unwound" => drv.target # 0 /\ mdbx = Kept(drv.target)

\* Nothing is buffered for the cold store that MDBX does not have.
BufferBehindTip == drv.buf \cup drv.flush \subseteq 1..mdbx

DriverInv ==
    /\ DriverTypes /\ StaticAhead /\ Saving /\ Taking /\ Booting /\ Running /\ Unwound
    /\ BufferBehindTip /\ StaticFollowsMdbx /\ BytesMatch /\ ColdBehindTip
-----------------------------------------------------------------------------
(* Operators.                                                              *)

\* The least element of a set of numbers.
LEMMA MinFacts ==
    ASSUME NEW S \in SUBSET Nat, S # {}
    PROVE  Min(S) \in S /\ \A y \in S : Min(S) <= y
<1>1. \E n \in S : \A k \in S : ~(<<k, n>> \in OpToRel(<, Nat))
  BY NatLessThanWellFounded, WFMin, Zenon
<1>2. PICK n \in S : \A k \in S : ~(k < n)
  BY <1>1, Zenon DEF OpToRel
<1>3. n \in S /\ \A y \in S : n <= y
  BY <1>2
<1> QED
  BY <1>3, Zenon DEF Min

\* The greatest element of a set of numbers that has an upper bound.
LEMMA MaxFacts ==
    ASSUME NEW S \in SUBSET Nat, S # {}, NEW b \in Nat, \A x \in S : x <= b
    PROVE  Max(S) \in S /\ \A y \in S : y <= Max(S)
<1> DEFINE T == {b - x : x \in S}
<1>1. T \in SUBSET Nat
  OBVIOUS
<1>2. T # {}
  <2>1. PICK x \in S : TRUE
    BY Zenon
  <2>2. b - x \in T
    BY Zenon
  <2> QED
    BY <2>2, Zenon
<1>3. Min(T) \in T /\ \A y \in T : Min(T) <= y
  BY <1>1, <1>2, MinFacts, Zenon
<1>4. PICK m \in S : Min(T) = b - m
  BY <1>3, Zenon
<1>5. \A y \in S : m >= y
  <2> SUFFICES ASSUME NEW y \in S PROVE m >= y
    OBVIOUS
  <2>1. b - y \in T
    OBVIOUS
  <2>2. b - m <= b - y
    BY <2>1, <1>3, <1>4, Zenon
  <2>3. m \in Nat /\ y \in Nat
    OBVIOUS
  <2> HIDE DEF T
  <2> QED
    BY <2>2, <2>3
<1>6. m \in S /\ \A y \in S : m >= y
  BY <1>5, Zenon
<1>7. Max(S) \in S /\ \A y \in S : Max(S) >= y
  BY <1>6, Zenon DEF Max
<1> QED
  BY <1>7, Zenon

\* The smaller and the greater of two numbers.
LEMMA TwoFacts ==
    ASSUME NEW a \in Nat, NEW b \in Nat
    PROVE  /\ Min({a, b}) \in {a, b} /\ Min({a, b}) <= a /\ Min({a, b}) <= b
           /\ Max({a, b}) \in {a, b} /\ a <= Max({a, b}) /\ b <= Max({a, b})
<1>1. {a, b} \in SUBSET Nat /\ {a, b} # {} /\ a + b \in Nat /\ \A x \in {a, b} : x <= a + b
  OBVIOUS
<1>2. Max({a, b}) \in {a, b} /\ \A y \in {a, b} : y <= Max({a, b})
  BY <1>1, MaxFacts, Zenon
<1>3. Min({a, b}) \in {a, b} /\ \A y \in {a, b} : Min({a, b}) <= y
  BY <1>1, MinFacts, Zenon
<1> QED
  BY <1>2, <1>3, Zenon

\* The blocks are numbers, and finitely many.
LEMMA BlockFacts ==
    /\ MaxBlock \in Nat /\ MaxBlock # 0 /\ Block \subseteq Nat /\ IsFiniteSet(Block)
    /\ \A b \in Block : 1 <= b /\ b <= MaxBlock
<1>1. MaxBlock \in Nat /\ MaxBlock # 0
  BY DriverAssumption, Zenon
<1>2. IsFiniteSet(1..MaxBlock)
  BY <1>1, 1 \in Int, MaxBlock \in Int, FS_Interval, Zenon
<1> QED
  BY <1>1, <1>2 DEF Block

\* A set of blocks and what is left of it.
LEMMA CutFacts ==
    ASSUME NEW S \in SUBSET Block, NEW T \in SUBSET S
    PROVE  /\ IsFiniteSet(S) /\ Cardinality(S) \in Nat
           /\ Cardinality(T) \in Nat /\ Cardinality(S \ T) \in Nat
           /\ Cardinality(S \ T) = Cardinality(S) - Cardinality(T)
<1>1. IsFiniteSet(S)
  BY BlockFacts, FS_Subset, Zenon
<1>2. IsFiniteSet(T) /\ IsFiniteSet(S \ T)
  BY <1>1, S \ T \in SUBSET S, FS_Subset, Zenon
<1>3. Cardinality(S \ T) = Cardinality(S) - Cardinality(S \cap T)
  BY <1>1, FS_Difference, Zenon
<1>4. S \cap T = T
  OBVIOUS
<1>5. Cardinality(S) \in Nat /\ Cardinality(T) \in Nat /\ Cardinality(S \ T) \in Nat
  BY <1>1, <1>2, FS_CardinalityType, Zenon
<1> QED
  BY <1>1, <1>3, <1>4, <1>5, Zenon

\* total_bytes follows the rows through a commit: a row that is replaced is
\* taken off first, then what the retention drops.
LEMMA CommitFacts ==
    ASSUME cold \subseteq Block, BytesMatch, NEW E \in SUBSET Block, commit_entries(E)
    PROVE  cold' \subseteq cold \cup E /\ cold' \subseteq Block /\ total' \in Nat /\ BytesMatch'
<1> DEFINE U == cold \cup E
           R == Rows(E)
<1>1. R \in SUBSET U
  BY Zenon DEF Rows
<1>2. U \in SUBSET Block
  OBVIOUS
<1>3. /\ Cardinality(U) \in Nat /\ Cardinality(R) \in Nat
      /\ Cardinality(U \ R) = Cardinality(U) - Cardinality(R)
  BY <1>1, <1>2, CutFacts, Zenon
<1>4. IsFiniteSet(cold) /\ IsFiniteSet(E)
  BY BlockFacts, FS_Subset, Zenon
<1>5. Cardinality(U) = Cardinality(cold) + Cardinality(E) - Cardinality(cold \cap E)
  BY <1>4, FS_Union, Zenon
<1>6. Cardinality(cold) \in Nat /\ Cardinality(E) \in Nat
  BY <1>4, FS_CardinalityType, Zenon
<1>7. IsFiniteSet(cold \cap E)
  BY <1>4, cold \cap E \in SUBSET cold, FS_Subset, Zenon
<1>8. Cardinality(cold \cap E) \in Nat
  BY <1>7, FS_CardinalityType, Zenon
<1>9. cold' = R /\ total' = total - Cardinality(cold \cap E) + Cardinality(E) - Cardinality(U \ R)
  BY Zenon DEF commit_entries, Bytes
<1>10. total = Cardinality(cold)
  BY DEF BytesMatch
<1>11. total' = Cardinality(R)
  <2> HIDE DEF U, R
  <2> QED
    BY <1>3, <1>5, <1>6, <1>8, <1>9, <1>10
<1> QED
  BY <1>1, <1>2, <1>3, <1>9, <1>11, Zenon DEF BytesMatch

\* And through an unwind.
LEMMA UnwindFacts ==
    ASSUME cold \subseteq Block, BytesMatch, NEW k \in Nat, unwind_above(k)
    PROVE  /\ cold' \subseteq Block /\ total' \in Nat /\ BytesMatch'
           /\ \A b \in cold' : b <= k
<1> DEFINE R == cold \cap 1..k
<1>1. R \in SUBSET cold /\ cold \ R = cold \ (1..k)
  OBVIOUS
<1>2. /\ Cardinality(cold) \in Nat /\ Cardinality(R) \in Nat
      /\ Cardinality(cold \ R) = Cardinality(cold) - Cardinality(R)
  BY <1>1, CutFacts, Zenon
<1>3. cold' = R /\ total' = total - Cardinality(cold \ R) /\ total = Cardinality(cold)
  BY <1>1 DEF unwind_above, BytesMatch
<1>4. total' = Cardinality(R)
  <2> HIDE DEF R
  <2> QED
    BY <1>2, <1>3
<1> QED
  BY <1>2, <1>3, <1>4 DEF BytesMatch
-----------------------------------------------------------------------------
(* The steps of the driver.                                                *)

\* The memory of a process that is down.
LEMMA DownFacts ==
    /\ Down \in Memory
    /\ Down.boot = "down" /\ Down.target = 0 /\ Down.wfb = 0 /\ Down.startTip = 0
    /\ Down.next = 0 /\ Down.ready = FALSE /\ Down.take = "idle" /\ Down.upto = 0
    /\ Down.buf = {} /\ Down.flush = {} /\ Down.out = 0
BY BlockFacts DEF Down, Memory

\* The checkpoint is normalised.
LEMMA NormalizedStep ==
    ASSUME DriverInv, drv.boot = "down", ckpt' \in 0..MaxBlock,
           drv' = [drv EXCEPT !.boot = "normalized"],
           UNCHANGED <<remote, mdbx, static, cold, total, coldTorn>>
    PROVE  DriverInv'
<1>1. drv \in Memory /\ 0 \in 0..MaxBlock
  BY BlockFacts DEF DriverInv, DriverTypes
<1>2. PICK d : d = [drv EXCEPT !.boot = "normalized"]
  BY Zenon
<1>3. drv' = d
  BY <1>2, Zenon
<1>4. d \in Memory
  BY <1>1, <1>2, Zenon DEF Memory
<1>5. /\ d.boot = "normalized" /\ d.target = drv.target /\ d.wfb = drv.wfb
      /\ d.startTip = drv.startTip /\ d.next = drv.next /\ d.ready = drv.ready
      /\ d.take = drv.take /\ d.upto = drv.upto /\ d.buf = drv.buf /\ d.flush = drv.flush
      /\ d.out = drv.out
  BY <1>1, <1>2, Zenon DEF Memory
<1>6. DriverTypes'
  BY <1>1, <1>3, <1>4 DEF DriverInv, DriverTypes
<1>7. (StaticAhead /\ Saving /\ Taking /\ Booting /\ Running /\ Unwound)'
  BY <1>1, <1>3, <1>5, BlockFacts
 , Zenon DEF DriverInv, DriverTypes, Memory, StaticAhead, Saving, Taking, Booting, Running, Unwound
<1>8. (BufferBehindTip /\ StaticFollowsMdbx)'
  BY <1>1, <1>3, <1>5, BlockFacts
  DEF DriverInv, DriverTypes, Memory, StaticAhead, Saving, Taking, Booting, Running, Unwound,
      BufferBehindTip, StaticFollowsMdbx
<1>9. (BytesMatch /\ ColdBehindTip)'
  BY <1>1, <1>3, <1>5, BlockFacts
 , Zenon DEF DriverInv, DriverTypes, Memory, Saving, Booting, BytesMatch, ColdBehindTip
<1> QED
  BY <1>6, <1>7, <1>8, <1>9, Zenon DEF DriverInv

\* unwind_to commits MDBX and cuts the static files.
LEMMA UnwindStep ==
    ASSUME DriverInv, unwind_to_mdbx
    PROVE  DriverInv'
<1>1. drv \in Memory /\ 0 \in 0..MaxBlock
  BY BlockFacts DEF DriverInv, DriverTypes
<1>2. drv.target \in 0..MaxBlock /\ drv.target # 0 /\ drv.target < mdbx /\ Kept(drv.target) \in 0..MaxBlock
  BY BlockFacts DEF DriverInv, DriverTypes, Memory, unwind_to_mdbx, UnwindSkips, Kept
<1>3. PICK d : d = [drv EXCEPT !.boot = "unwound"]
  BY Zenon
<1>4. drv' = d
  BY <1>3, Zenon DEF unwind_to_mdbx, Kept
<1>5. d \in Memory
  BY <1>1, <1>2, <1>3, Zenon DEF Memory
<1>6. /\ d.boot = "unwound" /\ d.target = drv.target /\ d.wfb = drv.wfb
      /\ d.startTip = drv.startTip /\ d.next = drv.next /\ d.ready = drv.ready
      /\ d.take = drv.take /\ d.upto = drv.upto /\ d.buf = drv.buf /\ d.flush = drv.flush
      /\ d.out = drv.out
  BY <1>1, <1>2, <1>3, Zenon DEF Memory
<1>7. DriverTypes'
  BY <1>1, <1>2, <1>4, <1>5 DEF DriverInv, DriverTypes, unwind_to_mdbx, Kept
<1>8. (StaticAhead /\ Saving /\ Taking /\ Booting /\ Running /\ Unwound)'
  BY <1>1, <1>2, <1>4, <1>6, BlockFacts
  DEF DriverInv, DriverTypes, Memory, StaticAhead, Saving, Taking, Booting, Running, Unwound,
      unwind_to_mdbx, Kept
<1>9. (BufferBehindTip /\ StaticFollowsMdbx)'
  BY <1>1, <1>2, <1>4, <1>6, BlockFacts
 , Zenon DEF DriverInv, DriverTypes, Memory, StaticAhead, Saving, Taking, Booting, Running, Unwound,
      BufferBehindTip, StaticFollowsMdbx, unwind_to_mdbx, Kept
<1>10. (BytesMatch /\ ColdBehindTip)'
  BY <1>1, <1>2, <1>4, <1>6, BlockFacts
  DEF DriverInv, DriverTypes, Memory, Saving, Booting, BytesMatch, ColdBehindTip,
      unwind_to_mdbx, Kept
<1> QED
  BY <1>7, <1>8, <1>9, <1>10, Zenon DEF DriverInv

\* unwind_to commits MDBX and the process dies.
LEMMA UnwindTornStep ==
    ASSUME DriverInv, unwind_to_torn
    PROVE  DriverInv'
<1>1. drv.target \in 0..MaxBlock /\ drv.target # 0 /\ drv.target < mdbx /\ Kept(drv.target) \in 0..MaxBlock
  BY BlockFacts DEF DriverInv, DriverTypes, Memory, unwind_to_torn, UnwindSkips, Kept
<1>2. drv' = Down
  BY Zenon DEF unwind_to_torn, Kept
<1>3. DriverTypes'
  BY <1>1, <1>2, DownFacts, Zenon DEF DriverInv, DriverTypes, unwind_to_torn, Kept
<1>4. (StaticAhead /\ Saving /\ Taking /\ Booting /\ Running /\ Unwound)'
  BY <1>1, <1>2, DownFacts, BlockFacts
  DEF DriverInv, DriverTypes, Memory, StaticAhead, Saving, Taking, Booting, Running, Unwound,
      unwind_to_torn, Kept
<1>5. (BufferBehindTip /\ StaticFollowsMdbx)'
  BY <1>1, <1>2, DownFacts, BlockFacts
 , Zenon DEF DriverInv, DriverTypes, Memory, StaticAhead, Saving, Taking, Booting, Running, Unwound,
      BufferBehindTip, StaticFollowsMdbx, unwind_to_torn, Kept
<1>6. (BytesMatch /\ ColdBehindTip)'
  BY <1>1, <1>2, DownFacts, BlockFacts
  DEF DriverInv, DriverTypes, Memory, Saving, Booting, BytesMatch, ColdBehindTip,
      unwind_to_torn, Kept
<1> QED
  BY <1>3, <1>4, <1>5, <1>6, Zenon DEF DriverInv

\* The cursor of a new driver is not above the checkpoint or the tip.
LEMMA ResumeFacts ==
    ASSUME DriverTypes
    PROVE  /\ WitnessFrom \in 0..MaxBlock + 1 /\ WitnessFrom <= ckpt + 1
           /\ ResumeCursor(mdbx) \in 1..MaxBlock + 1
           /\ ResumeCursor(mdbx) <= ckpt + 1 /\ ResumeCursor(mdbx) <= mdbx + 1
<1>1. ckpt + 1 \in Nat /\ WitnessFrom \in Nat /\ WitnessFrom <= ckpt + 1 /\ mdbx + 1 \in Nat
  BY BlockFacts DEF DriverTypes, WitnessFrom
<1>2. PICK m : m = Max({ckpt + 1, WitnessFrom})
  BY Zenon
<1>3. m \in {ckpt + 1, WitnessFrom} /\ ckpt + 1 <= m
  BY <1>1, <1>2, TwoFacts, Zenon
<1>4. m = ckpt + 1
  BY <1>1, <1>3
<1>5. /\ ResumeCursor(mdbx) \in {ckpt + 1, mdbx + 1}
      /\ ResumeCursor(mdbx) <= ckpt + 1 /\ ResumeCursor(mdbx) <= mdbx + 1
  <2>1. PICK c : c = Min({ckpt + 1, mdbx + 1})
    BY Zenon
  <2>2. c \in {ckpt + 1, mdbx + 1} /\ c <= ckpt + 1 /\ c <= mdbx + 1
    BY <1>1, <2>1, TwoFacts, Zenon
  <2>3. ResumeCursor(mdbx) = c
    BY <1>2, <1>4, <2>1, Zenon DEF ResumeCursor
  <2> QED
    BY <2>2, <2>3, Zenon
<1> QED
  BY <1>1, <1>5, BlockFacts DEF DriverTypes

\* The driver starts without an unwind.
LEMMA NewAlignedStep ==
    ASSUME DriverInv, new_aligned
    PROVE  DriverInv'
<1>1. drv \in Memory /\ 0 \in 0..MaxBlock
  BY BlockFacts DEF DriverInv, DriverTypes
<1>2. WitnessFrom \in 0..MaxBlock + 1 /\ ResumeCursor(mdbx) \in 1..MaxBlock + 1
  BY ResumeFacts, Zenon DEF DriverInv
<1>3. 0 \in 0..MaxBlock /\ mdbx \in 0..MaxBlock /\ ResumeCursor(mdbx) \in 0..MaxBlock + 1
  BY BlockFacts, <1>2 DEF DriverInv, DriverTypes
<1>4. PICK d : d = [drv EXCEPT !.boot = "up", !.target = 0, !.wfb = WitnessFrom,
        !.startTip = mdbx, !.next = ResumeCursor(mdbx)]
  BY Zenon
<1>5. drv' = d
  BY <1>4, Zenon DEF new_aligned, Driver_new
<1>6. d \in Memory
  BY <1>1, <1>2, <1>3, <1>4, Zenon DEF Memory
<1>7. /\ d.boot = "up" /\ d.target = 0 /\ d.wfb = WitnessFrom /\ d.startTip = mdbx
      /\ d.next = ResumeCursor(mdbx) /\ d.ready = drv.ready /\ d.take = drv.take
      /\ d.upto = drv.upto /\ d.buf = drv.buf /\ d.flush = drv.flush /\ d.out = drv.out
  BY <1>1, <1>2, <1>3, <1>4, Zenon DEF Memory
<1>8. DriverTypes'
  BY <1>1, <1>2, <1>3, <1>5, <1>6 DEF DriverInv, DriverTypes, new_aligned
<1>9. (StaticAhead /\ Saving /\ Taking /\ Booting /\ Running /\ Unwound)'
  BY <1>1, <1>2, <1>3, <1>5, <1>7, BlockFacts
  DEF DriverInv, DriverTypes, Memory, StaticAhead, Saving, Taking, Booting, Running, Unwound,
      new_aligned
<1>10. (BufferBehindTip /\ StaticFollowsMdbx)'
  BY <1>1, <1>2, <1>3, <1>5, <1>7, BlockFacts
  DEF DriverInv, DriverTypes, Memory, StaticAhead, Saving, Taking, Booting, Running, Unwound,
      BufferBehindTip, StaticFollowsMdbx, new_aligned
<1>11. (BytesMatch /\ ColdBehindTip)'
  BY <1>1, <1>2, <1>3, <1>5, <1>7, BlockFacts
  DEF DriverInv, DriverTypes, Memory, Saving, Booting, BytesMatch, ColdBehindTip,
      new_aligned
<1> QED
  BY <1>8, <1>9, <1>10, <1>11, Zenon DEF DriverInv

\* The driver starts after one: the cold rows are cut first.
LEMMA NewUnwoundStep ==
    ASSUME DriverInv, new_after_unwind
    PROVE  DriverInv'
<1>1. drv \in Memory /\ 0 \in 0..MaxBlock
  BY BlockFacts DEF DriverInv, DriverTypes
<1>2. WitnessFrom \in 0..MaxBlock + 1 /\ ResumeCursor(mdbx) \in 1..MaxBlock + 1
  BY ResumeFacts, Zenon DEF DriverInv
<1>3. 0 \in 0..MaxBlock /\ mdbx \in 0..MaxBlock /\ ResumeCursor(mdbx) \in 0..MaxBlock + 1
  BY BlockFacts, <1>2 DEF DriverInv, DriverTypes
<1>4. Kept(drv.target) \in Nat /\ mdbx = Kept(drv.target)
  BY <1>3 DEF DriverInv, Unwound, new_after_unwind
<1>5. /\ cold' \subseteq Block /\ total' \in Nat /\ BytesMatch'
      /\ \A b \in cold' : b <= mdbx
  BY <1>4, UnwindFacts, Zenon DEF DriverInv, DriverTypes, new_after_unwind
<1>6. PICK d : d = [drv EXCEPT !.boot = "up", !.target = 0, !.wfb = WitnessFrom,
        !.startTip = mdbx, !.next = ResumeCursor(mdbx)]
  BY Zenon
<1>7. drv' = d
  BY <1>6, Zenon DEF new_after_unwind, Driver_new
<1>8. d \in Memory
  BY <1>1, <1>2, <1>3, <1>4, <1>5, <1>6, Zenon DEF Memory
<1>9. /\ d.boot = "up" /\ d.target = 0 /\ d.wfb = WitnessFrom /\ d.startTip = mdbx
      /\ d.next = ResumeCursor(mdbx) /\ d.ready = drv.ready /\ d.take = drv.take
      /\ d.upto = drv.upto /\ d.buf = drv.buf /\ d.flush = drv.flush /\ d.out = drv.out
  BY <1>1, <1>2, <1>3, <1>4, <1>5, <1>6, Zenon DEF Memory
<1>10. DriverTypes'
  BY <1>1, <1>2, <1>3, <1>4, <1>5, <1>7, <1>8 DEF DriverInv, DriverTypes, new_after_unwind
<1>11. (StaticAhead /\ Saving /\ Taking /\ Booting /\ Running /\ Unwound)'
  BY <1>1, <1>2, <1>3, <1>4, <1>5, <1>7, <1>9, BlockFacts
  DEF DriverInv, DriverTypes, Memory, StaticAhead, Saving, Taking, Booting, Running, Unwound,
      new_after_unwind
<1>12. (BufferBehindTip /\ StaticFollowsMdbx)'
  BY <1>1, <1>2, <1>3, <1>4, <1>5, <1>7, <1>9, BlockFacts
  DEF DriverInv, DriverTypes, Memory, StaticAhead, Saving, Taking, Booting, Running, Unwound,
      BufferBehindTip, StaticFollowsMdbx, new_after_unwind
<1>13. BytesMatch'
  BY <1>5, Zenon
<1>14. ColdBehindTip'
  BY <1>1, <1>2, <1>3, <1>4, <1>5, <1>7, <1>9, BlockFacts
  DEF DriverInv, DriverTypes, Memory, StaticAhead, Saving, Taking, Booting, Running, Unwound,
      BufferBehindTip, StaticFollowsMdbx, ColdBehindTip, new_after_unwind
<1> QED
  BY <1>10, <1>11, <1>12, <1>13, <1>14, Zenon DEF DriverInv

\* Catch-up is done.
LEMMA AdvanceReadyStep ==
    ASSUME DriverInv, advance_ready
    PROVE  DriverInv'
<1>1. drv \in Memory /\ 0 \in 0..MaxBlock
  BY BlockFacts DEF DriverInv, DriverTypes
<1>2. PICK d : d = [drv EXCEPT !.ready = TRUE]
  BY Zenon
<1>3. drv' = d
  BY <1>2, Zenon DEF advance_ready
<1>4. d \in Memory
  BY <1>1, <1>2, Zenon DEF Memory
<1>5. /\ d.boot = drv.boot /\ d.target = drv.target /\ d.wfb = drv.wfb
      /\ d.startTip = drv.startTip /\ d.next = drv.next /\ d.ready = TRUE
      /\ d.take = drv.take /\ d.upto = drv.upto /\ d.buf = drv.buf /\ d.flush = drv.flush
      /\ d.out = drv.out
  BY <1>1, <1>2, Zenon DEF Memory
<1>6. DriverTypes'
  BY <1>1, <1>3, <1>4, Zenon DEF DriverInv, DriverTypes, advance_ready
<1>7. (StaticAhead /\ Saving /\ Taking /\ Booting /\ Running /\ Unwound)'
  BY <1>1, <1>3, <1>5, BlockFacts
 , Zenon DEF DriverInv, DriverTypes, Memory, StaticAhead, Saving, Taking, Booting, Running, Unwound,
      advance_ready
<1>8. (BufferBehindTip /\ StaticFollowsMdbx)'
  BY <1>1, <1>3, <1>5, BlockFacts
  DEF DriverInv, DriverTypes, Memory, StaticAhead, Saving, Taking, Booting, Running, Unwound,
      BufferBehindTip, StaticFollowsMdbx, advance_ready
<1>9. (BytesMatch /\ ColdBehindTip)'
  BY <1>1, <1>3, <1>5, BlockFacts
 , Zenon DEF DriverInv, DriverTypes, Memory, Saving, Booting, BytesMatch, ColdBehindTip,
      advance_ready
<1> QED
  BY <1>6, <1>7, <1>8, <1>9, Zenon DEF DriverInv

\* save_blocks, of a batch of catch-up or of the next block.
LEMMA SaveStep ==
    ASSUME DriverInv, NEW e \in 0..MaxBlock, SaveUpTo(e),
           drv.boot = "up", drv.take = "idle", drv.next <= e,
           IF drv.ready THEN e = drv.next /\ drv.out = 0 ELSE e < drv.wfb
    PROVE  DriverInv'
<1>1. drv \in Memory /\ 0 \in 0..MaxBlock
  BY BlockFacts DEF DriverInv, DriverTypes
<1>2. PICK d : d = [drv EXCEPT !.take = "saving", !.upto = e]
  BY Zenon
<1>3. drv' = d
  BY <1>2, Zenon DEF SaveUpTo
<1>4. d \in Memory
  BY <1>1, <1>2, Zenon DEF Memory
<1>5. /\ d.boot = drv.boot /\ d.target = drv.target /\ d.wfb = drv.wfb
      /\ d.startTip = drv.startTip /\ d.next = drv.next /\ d.ready = drv.ready
      /\ d.take = "saving" /\ d.upto = e /\ d.buf = drv.buf /\ d.flush = drv.flush
      /\ d.out = drv.out
  BY <1>1, <1>2, Zenon DEF Memory
<1>6. DriverTypes'
  BY <1>1, <1>3, <1>4 DEF DriverInv, DriverTypes, SaveUpTo, Appendable, Segment
<1>7. (StaticAhead /\ Saving /\ Taking /\ Booting /\ Running /\ Unwound)'
  BY <1>1, <1>3, <1>5, BlockFacts
  DEF DriverInv, DriverTypes, Memory, StaticAhead, Saving, Taking, Booting, Running, Unwound,
      SaveUpTo, Appendable, Segment
<1>8. (BufferBehindTip /\ StaticFollowsMdbx)'
  BY <1>1, <1>3, <1>5, BlockFacts
 , Zenon DEF DriverInv, DriverTypes, Memory, StaticAhead, Saving, Taking, Booting, Running, Unwound,
      BufferBehindTip, StaticFollowsMdbx, SaveUpTo, Appendable, Segment
<1>9. (BytesMatch /\ ColdBehindTip)'
  BY <1>1, <1>3, <1>5, BlockFacts
  DEF DriverInv, DriverTypes, Memory, Saving, Booting, BytesMatch, ColdBehindTip, SaveUpTo,
      Appendable, Segment
<1> QED
  BY <1>6, <1>7, <1>8, <1>9, Zenon DEF DriverInv

\* The last block of a catch-up batch is reachable and below the first block
\* that needs a witness.
LEMMA CatchupFacts ==
    ASSUME DriverInv, drv.next < drv.wfb, drv.next <= CatchupUpper
    PROVE  LET e == Min({drv.next + CatchupBatch - 1, CatchupUpper})
           IN e \in 0..MaxBlock /\ drv.next <= e /\ e < drv.wfb
<1>1. /\ drv.next \in Nat /\ drv.wfb \in Nat /\ drv.wfb # 0 /\ drv.wfb - 1 \in Nat
      /\ Reachable \in 0..MaxBlock /\ CatchupBatch \in Nat /\ CatchupBatch # 0
      /\ drv.next + CatchupBatch - 1 \in Nat
  <2>1. drv \in Memory /\ remote \in 0..MaxBlock
    BY Zenon DEF DriverInv, DriverTypes
  <2>2. drv.next \in 0..MaxBlock + 1 /\ drv.wfb \in 0..MaxBlock + 1
    BY <2>1, Zenon DEF Memory
  <2>3. CatchupBatch \in Nat /\ CatchupBatch # 0 /\ SafeBlocks \in Nat /\ MaxBlock \in Nat
    BY DriverAssumption
  <2>4. Reachable \in 0..MaxBlock
    BY <2>1, <2>3 DEF Reachable
  <2> QED
    BY <2>2, <2>3, <2>4
<1>2. /\ CatchupUpper \in {Reachable, drv.wfb - 1}
      /\ CatchupUpper <= Reachable /\ CatchupUpper <= drv.wfb - 1
  <2>1. Reachable \in Nat
    BY <1>1, BlockFacts
  <2> QED
    BY <2>1, <1>1, TwoFacts, Zenon DEF CatchupUpper
<1>3. CatchupUpper \in Nat
  BY <1>1, <1>2, BlockFacts
<1>4. PICK e : e = Min({drv.next + CatchupBatch - 1, CatchupUpper})
  BY Zenon
<1>5. e \in {drv.next + CatchupBatch - 1, CatchupUpper} /\ e <= CatchupUpper
  BY <1>1, <1>3, <1>4, TwoFacts, Zenon
<1>6. e \in 0..MaxBlock /\ drv.next <= e /\ e < drv.wfb
  BY <1>1, <1>2, <1>3, <1>5, BlockFacts
<1> QED
  BY <1>4, <1>6, Zenon

\* A batch of catch-up, and the next block, are saved.
LEMMA SaveSteps ==
    ASSUME DriverInv, advance_save \/ take_save
    PROVE  DriverInv'
<1>1. CASE advance_save
  <2>1. PICK e : e = Min({drv.next + CatchupBatch - 1, CatchupUpper})
    BY Zenon
  <2>2. e \in 0..MaxBlock /\ drv.next <= e /\ e < drv.wfb
    BY <1>1, <2>1, CatchupFacts, Zenon DEF advance_save
  <2>3. SaveUpTo(e) /\ drv.boot = "up" /\ drv.take = "idle" /\ ~drv.ready
    BY <1>1, <2>1, Zenon DEF advance_save
  <2> QED
    BY <2>2, <2>3, SaveStep, Zenon
<1>2. CASE take_save
  <2>1. drv.next \in 0..MaxBlock /\ drv.next <= drv.next
    BY <1>2, BlockFacts, DriverAssumption
    DEF take_save, DriverInv, DriverTypes, Memory, Reachable
  <2>2. SaveUpTo(drv.next) /\ drv.boot = "up" /\ drv.take = "idle" /\ drv.ready /\ drv.out = 0
    BY <1>2, Zenon DEF take_save, Asked
  <2> QED
    BY <2>1, <2>2, SaveStep, Zenon
<1> QED
  BY <1>1, <1>2, Zenon

\* A batch of catch-up is committed.
LEMMA AdvanceCommitStep ==
    ASSUME DriverInv, advance_commit
    PROVE  DriverInv'
<1>1. drv \in Memory /\ 0 \in 0..MaxBlock
  BY BlockFacts DEF DriverInv, DriverTypes
<1>2. drv.upto \in 0..MaxBlock /\ drv.upto + 1 \in 0..MaxBlock + 1
  BY BlockFacts DEF DriverInv, DriverTypes, Memory
<1>3. PICK d : d = [drv EXCEPT !.take = "idle", !.upto = 0, !.next = drv.upto + 1]
  BY Zenon
<1>4. drv' = d
  BY <1>3, Zenon DEF advance_commit
<1>5. d \in Memory
  BY <1>1, <1>2, <1>3, Zenon DEF Memory
<1>6. /\ d.boot = drv.boot /\ d.target = drv.target /\ d.wfb = drv.wfb
      /\ d.startTip = drv.startTip /\ d.next = drv.upto + 1 /\ d.ready = drv.ready
      /\ d.take = "idle" /\ d.upto = 0 /\ d.buf = drv.buf /\ d.flush = drv.flush
      /\ d.out = drv.out
  BY <1>1, <1>2, <1>3, Zenon DEF Memory
<1>7. DriverTypes'
  BY <1>1, <1>2, <1>4, <1>5, Zenon DEF DriverInv, DriverTypes, advance_commit
<1>8. (StaticAhead /\ Saving /\ Taking /\ Booting /\ Running /\ Unwound)'
  BY <1>1, <1>2, <1>4, <1>6, BlockFacts
  DEF DriverInv, DriverTypes, Memory, StaticAhead, Saving, Taking, Booting, Running, Unwound,
      advance_commit
<1>9. (BufferBehindTip /\ StaticFollowsMdbx)'
  BY <1>1, <1>2, <1>4, <1>6, BlockFacts
  DEF DriverInv, DriverTypes, Memory, StaticAhead, Saving, Taking, Booting, Running, Unwound,
      BufferBehindTip, StaticFollowsMdbx, advance_commit
<1>10. (BytesMatch /\ ColdBehindTip)'
  BY <1>1, <1>2, <1>4, <1>6, BlockFacts
  DEF DriverInv, DriverTypes, Memory, Saving, Booting, BytesMatch, ColdBehindTip,
      advance_commit
<1> QED
  BY <1>7, <1>8, <1>9, <1>10, Zenon DEF DriverInv

\* The next block is committed.
LEMMA TakeCommitStep ==
    ASSUME DriverInv, take_commit
    PROVE  DriverInv'
<1>1. drv \in Memory /\ 0 \in 0..MaxBlock
  BY BlockFacts DEF DriverInv, DriverTypes
<1>2. drv.upto \in 0..MaxBlock
  BY Zenon DEF DriverInv, DriverTypes, Memory
<1>3. PICK d : d = [drv EXCEPT !.take = "saved"]
  BY Zenon
<1>4. drv' = d
  BY <1>3, Zenon DEF take_commit
<1>5. d \in Memory
  BY <1>1, <1>2, <1>3, Zenon DEF Memory
<1>6. /\ d.boot = drv.boot /\ d.target = drv.target /\ d.wfb = drv.wfb
      /\ d.startTip = drv.startTip /\ d.next = drv.next /\ d.ready = drv.ready
      /\ d.take = "saved" /\ d.upto = drv.upto /\ d.buf = drv.buf /\ d.flush = drv.flush
      /\ d.out = drv.out
  BY <1>1, <1>2, <1>3, Zenon DEF Memory
<1>7. DriverTypes'
  BY <1>1, <1>2, <1>4, <1>5, Zenon DEF DriverInv, DriverTypes, take_commit
<1>8. (StaticAhead /\ Saving /\ Taking /\ Booting /\ Running /\ Unwound)'
  BY <1>1, <1>2, <1>4, <1>6, BlockFacts
  DEF DriverInv, DriverTypes, Memory, StaticAhead, Saving, Taking, Booting, Running, Unwound,
      take_commit
<1>9. (BufferBehindTip /\ StaticFollowsMdbx)'
  BY <1>1, <1>2, <1>4, <1>6, BlockFacts
  DEF DriverInv, DriverTypes, Memory, StaticAhead, Saving, Taking, Booting, Running, Unwound,
      BufferBehindTip, StaticFollowsMdbx, take_commit
<1>10. (BytesMatch /\ ColdBehindTip)'
  BY <1>1, <1>2, <1>4, <1>6, BlockFacts
  DEF DriverInv, DriverTypes, Memory, Saving, Booting, BytesMatch, ColdBehindTip,
      take_commit
<1> QED
  BY <1>7, <1>8, <1>9, <1>10, Zenon DEF DriverInv

\* A witness of the store is handed out.
LEMMA TakeCachedStep ==
    ASSUME DriverInv, take_cached
    PROVE  DriverInv'
<1>1. drv \in Memory /\ 0 \in 0..MaxBlock
  BY BlockFacts DEF DriverInv, DriverTypes
<1>2. /\ drv.next \in Block /\ drv.next <= mdbx /\ drv.next \in 0..MaxBlock
      /\ drv.next + 1 \in 0..MaxBlock + 1 /\ {} \in SUBSET Block
  BY BlockFacts
  DEF DriverInv, DriverTypes, Memory, Running, Taking, Block, take_cached, Asked
<1>3. PICK d : d = [drv EXCEPT !.take = "idle", !.upto = 0, !.next = drv.next + 1,
        !.out = drv.next, !.flush = {}]
  BY Zenon
<1>4. drv' = d
  BY <1>3, Zenon DEF take_cached, Deliver
<1>5. d \in Memory
  BY <1>1, <1>2, <1>3, Zenon DEF Memory
<1>6. /\ d.boot = drv.boot /\ d.target = drv.target /\ d.wfb = drv.wfb
      /\ d.startTip = drv.startTip /\ d.next = drv.next + 1 /\ d.ready = drv.ready
      /\ d.take = "idle" /\ d.upto = 0 /\ d.buf = drv.buf /\ d.flush = {}
      /\ d.out = drv.next
  BY <1>1, <1>2, <1>3, Zenon DEF Memory
<1>7. DriverTypes'
  BY <1>1, <1>2, <1>4, <1>5, Zenon DEF DriverInv, DriverTypes, take_cached, Asked
<1>8. (StaticAhead /\ Saving /\ Taking /\ Booting /\ Running /\ Unwound)'
  BY <1>1, <1>2, <1>4, <1>6, BlockFacts
  DEF DriverInv, DriverTypes, Memory, StaticAhead, Saving, Taking, Booting, Running, Unwound,
      take_cached, Asked
<1>9. (BufferBehindTip /\ StaticFollowsMdbx)'
  BY <1>1, <1>2, <1>4, <1>6, BlockFacts
  DEF DriverInv, DriverTypes, Memory, StaticAhead, Saving, Taking, Booting, Running, Unwound,
      BufferBehindTip, StaticFollowsMdbx, take_cached, Asked
<1>10. (BytesMatch /\ ColdBehindTip)'
  BY <1>1, <1>2, <1>4, <1>6, BlockFacts
  DEF DriverInv, DriverTypes, Memory, Saving, Booting, BytesMatch, ColdBehindTip,
      take_cached, Asked
<1> QED
  BY <1>7, <1>8, <1>9, <1>10, Zenon DEF DriverInv

\* A witness is rebuilt, stored and handed out.
LEMMA TakeRewitnessStep ==
    ASSUME DriverInv, take_rewitness
    PROVE  DriverInv'
<1>1. drv \in Memory /\ 0 \in 0..MaxBlock
  BY BlockFacts DEF DriverInv, DriverTypes
<1>2. /\ drv.next \in Block /\ drv.next <= mdbx /\ drv.next \in 0..MaxBlock
      /\ drv.next + 1 \in 0..MaxBlock + 1 /\ {} \in SUBSET Block
  BY BlockFacts
  DEF DriverInv, DriverTypes, Memory, Running, Taking, Block, take_rewitness, Asked
<1>3. /\ cold' \subseteq cold \cup {drv.next} /\ cold' \subseteq Block
      /\ total' \in Nat /\ BytesMatch'
  BY <1>2, {drv.next} \in SUBSET Block, CommitFacts, Zenon
  DEF DriverInv, DriverTypes, take_rewitness
<1>4. PICK d : d = [drv EXCEPT !.take = "idle", !.upto = 0, !.next = drv.next + 1,
        !.out = drv.next, !.flush = {}]
  BY Zenon
<1>5. drv' = d
  BY <1>4, Zenon DEF take_rewitness, Deliver
<1>6. d \in Memory
  BY <1>1, <1>2, <1>3, <1>4, Zenon DEF Memory
<1>7. /\ d.boot = drv.boot /\ d.target = drv.target /\ d.wfb = drv.wfb
      /\ d.startTip = drv.startTip /\ d.next = drv.next + 1 /\ d.ready = drv.ready
      /\ d.take = "idle" /\ d.upto = 0 /\ d.buf = drv.buf /\ d.flush = {}
      /\ d.out = drv.next
  BY <1>1, <1>2, <1>3, <1>4, Zenon DEF Memory
<1>8. DriverTypes'
  BY <1>1, <1>2, <1>3, <1>5, <1>6, Zenon DEF DriverInv, DriverTypes, take_rewitness, Asked
<1>9. (StaticAhead /\ Saving /\ Taking /\ Booting /\ Running /\ Unwound)'
  BY <1>1, <1>2, <1>3, <1>5, <1>7, BlockFacts
  DEF DriverInv, DriverTypes, Memory, StaticAhead, Saving, Taking, Booting, Running, Unwound,
      take_rewitness, Asked
<1>10. (BufferBehindTip /\ StaticFollowsMdbx)'
  BY <1>1, <1>2, <1>3, <1>5, <1>7, BlockFacts
  DEF DriverInv, DriverTypes, Memory, StaticAhead, Saving, Taking, Booting, Running, Unwound,
      BufferBehindTip, StaticFollowsMdbx, take_rewitness, Asked
<1>11. BytesMatch'
  BY <1>3, Zenon
<1>12. ColdBehindTip'
  BY <1>1, <1>2, <1>3, <1>5, <1>7, BlockFacts
  DEF DriverInv, DriverTypes, Memory, StaticAhead, Saving, Taking, Booting, Running, Unwound,
      BufferBehindTip, StaticFollowsMdbx, ColdBehindTip, take_rewitness, Asked
<1> QED
  BY <1>8, <1>9, <1>10, <1>11, <1>12, Zenon DEF DriverInv

\* push_batched keeps the witness in memory and hands it out.
LEMMA PushKeptStep ==
    ASSUME DriverInv, push_batched,
           ~(Cardinality(drv.buf \cup {drv.next}) >= ColdBatch)
    PROVE  DriverInv'
<1>1. drv \in Memory /\ 0 \in 0..MaxBlock
  BY BlockFacts DEF DriverInv, DriverTypes
<1>2. drv.take = "saved" /\ UNCHANGED <<remote, mdbx, static, cold, total, coldTorn, ckpt>>
  BY Zenon DEF push_batched
<1>3. /\ drv.next \in Block /\ drv.next <= mdbx /\ drv.next \in 0..MaxBlock
      /\ drv.next + 1 \in 0..MaxBlock + 1 /\ {} \in SUBSET Block
  BY <1>2, BlockFacts DEF DriverInv, DriverTypes, Memory, Running, Taking, Block
<1>4. drv.buf \cup {drv.next} \in SUBSET Block
  BY <1>3, Zenon DEF DriverInv, DriverTypes, Memory
<1>5. PICK d : d = [drv EXCEPT !.take = "idle", !.upto = 0, !.next = drv.next + 1,
        !.out = drv.next, !.flush = {}, !.buf = drv.buf \cup {drv.next}]
  BY Zenon
<1>6. drv' = d
  BY <1>5, Zenon DEF push_batched, Deliver
<1>7. d \in Memory
  BY <1>1, <1>2, <1>3, <1>4, <1>5, Zenon DEF Memory
<1>8. /\ d.boot = drv.boot /\ d.target = drv.target /\ d.wfb = drv.wfb
      /\ d.startTip = drv.startTip /\ d.next = drv.next + 1 /\ d.ready = drv.ready
      /\ d.take = "idle" /\ d.upto = 0 /\ d.buf = drv.buf \cup {drv.next} /\ d.flush = {}
      /\ d.out = drv.next
  BY <1>1, <1>2, <1>3, <1>4, <1>5, Zenon DEF Memory
<1>9. DriverTypes'
  BY <1>1, <1>2, <1>3, <1>4, <1>6, <1>7, Zenon DEF DriverInv, DriverTypes
<1>10. (StaticAhead /\ Saving /\ Taking /\ Booting /\ Running /\ Unwound)'
  BY <1>1, <1>2, <1>3, <1>4, <1>6, <1>8, BlockFacts
  DEF DriverInv, DriverTypes, Memory, StaticAhead, Saving, Taking, Booting, Running, Unwound
<1>11. (BufferBehindTip /\ StaticFollowsMdbx)'
  BY <1>1, <1>2, <1>3, <1>4, <1>6, <1>8, BlockFacts
  DEF DriverInv, DriverTypes, Memory, StaticAhead, Saving, Taking, Booting, Running, Unwound,
      BufferBehindTip, StaticFollowsMdbx
<1>12. (BytesMatch /\ ColdBehindTip)'
  BY <1>1, <1>2, <1>3, <1>4, <1>6, <1>8, BlockFacts
  DEF DriverInv, DriverTypes, Memory, Saving, Booting, BytesMatch, ColdBehindTip
<1> QED
  BY <1>9, <1>10, <1>11, <1>12, Zenon DEF DriverInv

\* push_batched takes the full buffer to write it.
LEMMA PushFullStep ==
    ASSUME DriverInv, push_batched,
           Cardinality(drv.buf \cup {drv.next}) >= ColdBatch
    PROVE  DriverInv'
<1>1. drv \in Memory /\ 0 \in 0..MaxBlock
  BY BlockFacts DEF DriverInv, DriverTypes
<1>2. drv.take = "saved" /\ UNCHANGED <<remote, mdbx, static, cold, total, coldTorn, ckpt>>
  BY Zenon DEF push_batched
<1>3. /\ drv.next \in Block /\ drv.next <= mdbx /\ drv.next \in 0..MaxBlock
      /\ drv.next + 1 \in 0..MaxBlock + 1 /\ {} \in SUBSET Block
  BY <1>2, BlockFacts DEF DriverInv, DriverTypes, Memory, Running, Taking, Block
<1>4. drv.buf \cup {drv.next} \in SUBSET Block
  BY <1>3, Zenon DEF DriverInv, DriverTypes, Memory
<1>5. PICK d : d = [drv EXCEPT !.buf = {}, !.flush = drv.buf \cup {drv.next},
        !.take = "flushing"]
  BY Zenon
<1>6. drv' = d
  BY <1>5, Zenon DEF push_batched
<1>7. d \in Memory
  BY <1>1, <1>2, <1>3, <1>4, <1>5, Zenon DEF Memory
<1>8. /\ d.boot = drv.boot /\ d.target = drv.target /\ d.wfb = drv.wfb
      /\ d.startTip = drv.startTip /\ d.next = drv.next /\ d.ready = drv.ready
      /\ d.take = "flushing" /\ d.upto = drv.upto /\ d.buf = {}
      /\ d.flush = drv.buf \cup {drv.next} /\ d.out = drv.out
  BY <1>1, <1>2, <1>3, <1>4, <1>5, Zenon DEF Memory
<1>9. DriverTypes'
  BY <1>1, <1>2, <1>3, <1>4, <1>6, <1>7, Zenon DEF DriverInv, DriverTypes
<1>10. (StaticAhead /\ Saving /\ Taking /\ Booting /\ Running /\ Unwound)'
  BY <1>1, <1>2, <1>3, <1>4, <1>6, <1>8, BlockFacts
  DEF DriverInv, DriverTypes, Memory, StaticAhead, Saving, Taking, Booting, Running, Unwound
<1>11. (BufferBehindTip /\ StaticFollowsMdbx)'
  BY <1>1, <1>2, <1>3, <1>4, <1>6, <1>8, BlockFacts
  DEF DriverInv, DriverTypes, Memory, StaticAhead, Saving, Taking, Booting, Running, Unwound,
      BufferBehindTip, StaticFollowsMdbx
<1>12. (BytesMatch /\ ColdBehindTip)'
  BY <1>1, <1>2, <1>3, <1>4, <1>6, <1>8, BlockFacts
  DEF DriverInv, DriverTypes, Memory, Saving, Booting, BytesMatch, ColdBehindTip
<1> QED
  BY <1>9, <1>10, <1>11, <1>12, Zenon DEF DriverInv

\* The buffer is written and the witness handed out.
LEMMA PushFlushStep ==
    ASSUME DriverInv, push_flush
    PROVE  DriverInv'
<1>1. drv \in Memory /\ 0 \in 0..MaxBlock
  BY BlockFacts DEF DriverInv, DriverTypes
<1>2. /\ drv.next \in Block /\ drv.next <= mdbx /\ drv.next \in 0..MaxBlock
      /\ drv.next + 1 \in 0..MaxBlock + 1 /\ {} \in SUBSET Block
  BY BlockFacts DEF DriverInv, DriverTypes, Memory, Running, Taking, Block, push_flush
<1>3. drv.flush \in SUBSET Block
  BY Zenon DEF DriverInv, DriverTypes, Memory
<1>4. /\ cold' \subseteq cold \cup drv.flush /\ cold' \subseteq Block
      /\ total' \in Nat /\ BytesMatch'
  BY <1>3, CommitFacts, Zenon DEF DriverInv, DriverTypes, push_flush
<1>5. PICK d : d = [drv EXCEPT !.take = "idle", !.upto = 0, !.next = drv.next + 1,
        !.out = drv.next, !.flush = {}]
  BY Zenon
<1>6. drv' = d
  BY <1>5, Zenon DEF push_flush, Deliver
<1>7. d \in Memory
  BY <1>1, <1>2, <1>3, <1>4, <1>5, Zenon DEF Memory
<1>8. /\ d.boot = drv.boot /\ d.target = drv.target /\ d.wfb = drv.wfb
      /\ d.startTip = drv.startTip /\ d.next = drv.next + 1 /\ d.ready = drv.ready
      /\ d.take = "idle" /\ d.upto = 0 /\ d.buf = drv.buf /\ d.flush = {}
      /\ d.out = drv.next
  BY <1>1, <1>2, <1>3, <1>4, <1>5, Zenon DEF Memory
<1>9. DriverTypes'
  BY <1>1, <1>2, <1>3, <1>4, <1>6, <1>7, Zenon DEF DriverInv, DriverTypes, push_flush
<1>10. (StaticAhead /\ Saving /\ Taking /\ Booting /\ Running /\ Unwound)'
  BY <1>1, <1>2, <1>3, <1>4, <1>6, <1>8, BlockFacts
  DEF DriverInv, DriverTypes, Memory, StaticAhead, Saving, Taking, Booting, Running, Unwound,
      push_flush
<1>11. (BufferBehindTip /\ StaticFollowsMdbx)'
  BY <1>1, <1>2, <1>3, <1>4, <1>6, <1>8, BlockFacts
  DEF DriverInv, DriverTypes, Memory, StaticAhead, Saving, Taking, Booting, Running, Unwound,
      BufferBehindTip, StaticFollowsMdbx, push_flush
<1>12. BytesMatch'
  BY <1>4, Zenon
<1>13. ColdBehindTip'
  BY <1>1, <1>2, <1>3, <1>4, <1>6, <1>8, BlockFacts
  DEF DriverInv, DriverTypes, Memory, StaticAhead, Saving, Taking, Booting, Running, Unwound,
      BufferBehindTip, StaticFollowsMdbx, ColdBehindTip, push_flush
<1> QED
  BY <1>9, <1>10, <1>11, <1>12, <1>13, Zenon DEF DriverInv

\* The feeder takes the request.
LEMMA FeedStep ==
    ASSUME DriverInv, drv' = [drv EXCEPT !.out = 0],
           UNCHANGED <<remote, mdbx, static, cold, total, coldTorn, ckpt>>
    PROVE  DriverInv'
<1>1. drv \in Memory /\ 0 \in 0..MaxBlock
  BY BlockFacts DEF DriverInv, DriverTypes
<1>2. PICK d : d = [drv EXCEPT !.out = 0]
  BY Zenon
<1>3. drv' = d
  BY <1>2, Zenon
<1>4. d \in Memory
  BY <1>1, <1>2, Zenon DEF Memory
<1>5. /\ d.boot = drv.boot /\ d.target = drv.target /\ d.wfb = drv.wfb
      /\ d.startTip = drv.startTip /\ d.next = drv.next /\ d.ready = drv.ready
      /\ d.take = drv.take /\ d.upto = drv.upto /\ d.buf = drv.buf /\ d.flush = drv.flush
      /\ d.out = 0
  BY <1>1, <1>2, Zenon DEF Memory
<1>6. DriverTypes'
  BY <1>1, <1>3, <1>4, Zenon DEF DriverInv, DriverTypes
<1>7. (StaticAhead /\ Saving /\ Taking /\ Booting /\ Running /\ Unwound)'
  BY <1>1, <1>3, <1>5, BlockFacts
  DEF DriverInv, DriverTypes, Memory, StaticAhead, Saving, Taking, Booting, Running, Unwound
<1>8. (BufferBehindTip /\ StaticFollowsMdbx)'
  BY <1>1, <1>3, <1>5, BlockFacts
  DEF DriverInv, DriverTypes, Memory, StaticAhead, Saving, Taking, Booting, Running, Unwound,
      BufferBehindTip, StaticFollowsMdbx
<1>9. (BytesMatch /\ ColdBehindTip)'
  BY <1>1, <1>3, <1>5, BlockFacts
 , Zenon DEF DriverInv, DriverTypes, Memory, Saving, Booting, BytesMatch, ColdBehindTip
<1> QED
  BY <1>6, <1>7, <1>8, <1>9, Zenon DEF DriverInv

\* The transactions of a longer chain do not end before those of a shorter one.
LEMMA LastTxFacts ==
    ASSUME NEW a \in 0..MaxBlock, NEW b \in 0..MaxBlock, a <= b
    PROVE  LastTx(a) \in Nat /\ LastTx(b) \in Nat /\ LastTx(a) <= LastTx(b)
<1>1. TxCount[a] \in Nat /\ TxCount[b] \in Nat /\ TxCount[a] <= TxCount[b]
  BY DriverAssumption, Zenon
<1> QED
  BY <1>1 DEF LastTx

\* Healing cuts a segment down to MDBX, or leaves it where there is nothing to
\* cut.
LEMMA HealFacts ==
    ASSUME DriverTypes, StaticAhead, NEW g \in Segment
    PROVE  /\ heal_static_files[g] \in 0..MaxBlock /\ mdbx <= heal_static_files[g]
           /\ \/ heal_static_files[g] = mdbx
              \/ mdbx = 0
              \/ /\ g # "Headers" /\ heal_static_files[g] > mdbx
                 /\ LastTx(heal_static_files[g]) = LastTx(mdbx)
<1>1. static[g] \in 0..MaxBlock /\ mdbx \in 0..MaxBlock /\ mdbx <= static[g]
  BY Zenon DEF DriverTypes, StaticAhead
<1>2. LastTx(mdbx) \in Nat /\ LastTx(static[g]) \in Nat /\ LastTx(mdbx) <= LastTx(static[g])
  BY <1>1, LastTxFacts, Zenon
<1>3. CASE mdbx = 0
  BY <1>1, <1>3 DEF heal_static_files
<1>4. CASE mdbx # 0
  <2>1. heal_static_files[g] = Healed(g)
    BY <1>4, Zenon DEF heal_static_files
  <2>2. CASE static[g] > mdbx /\ (g = "Headers" \/ LastTx(static[g]) > LastTx(mdbx))
    <3>1. Healed(g) = mdbx
      BY <2>2, Zenon DEF Healed
    <3> QED
      BY <1>1, <2>1, <3>1
  <2>3. CASE ~(static[g] > mdbx /\ (g = "Headers" \/ LastTx(static[g]) > LastTx(mdbx)))
    <3>1. Healed(g) = static[g]
      BY <2>3, Zenon DEF Healed
    <3>2. static[g] = mdbx \/ (static[g] > mdbx /\ g # "Headers" /\ LastTx(static[g]) = LastTx(mdbx))
      BY <1>1, <1>2, <2>3
    <3> QED
      BY <1>1, <2>1, <3>1, <3>2, Zenon
  <2> QED
    BY <2>2, <2>3, Zenon
<1> QED
  BY <1>3, <1>4, Zenon

\* The static files are healed, and what to unwind is decided.
LEMMA HealStep ==
    ASSUME DriverInv, NEW env \in UnwindEnv, drv.boot = "normalized", static' = heal_static_files,
           drv' = [drv EXCEPT !.boot = "healed", !.target = UnwindTarget(env)],
           UNCHANGED <<remote, mdbx, cold, total, coldTorn, ckpt>>
    PROVE  DriverInv'
<1>1. drv \in Memory /\ 0 \in 0..MaxBlock
  BY BlockFacts DEF DriverInv, DriverTypes
<1>2. UnwindTarget(env) \in 0..MaxBlock
  BY <1>1, DriverAssumption, Zenon DEF DriverInv, DriverTypes, UnwindTarget
<1>3. \A g \in Segment :
         /\ static'[g] \in 0..MaxBlock /\ mdbx <= static'[g]
         /\ \/ static'[g] = mdbx
            \/ mdbx = 0
            \/ g # "Headers" /\ static'[g] > mdbx /\ LastTx(static'[g]) = LastTx(mdbx)
  BY HealFacts, Zenon DEF DriverInv
<1>4. static' \in [Segment -> 0..MaxBlock]
  <2>1. DOMAIN static' = Segment /\ static' = [g \in DOMAIN static' |-> static'[g]]
    BY Zenon DEF heal_static_files, DriverInv, DriverTypes
  <2> QED
    BY <1>3, <2>1, Zenon
<1>5. PICK d : d = [drv EXCEPT !.boot = "healed", !.target = UnwindTarget(env)]
  BY Zenon
<1>6. drv' = d
  BY <1>5, Zenon
<1>7. d \in Memory
  BY <1>1, <1>2, <1>3, <1>4, <1>5, Zenon DEF Memory
<1>8. /\ d.boot = "healed" /\ d.target = UnwindTarget(env) /\ d.wfb = drv.wfb
      /\ d.startTip = drv.startTip /\ d.next = drv.next /\ d.ready = drv.ready
      /\ d.take = drv.take /\ d.upto = drv.upto /\ d.buf = drv.buf /\ d.flush = drv.flush
      /\ d.out = drv.out
  BY <1>1, <1>2, <1>3, <1>4, <1>5, Zenon DEF Memory
<1>9. DriverTypes'
  BY <1>1, <1>2, <1>3, <1>4, <1>6, <1>7, Zenon DEF DriverInv, DriverTypes
<1>10. (StaticAhead /\ Saving /\ Taking /\ Booting /\ Running /\ Unwound)'
  BY <1>1, <1>2, <1>3, <1>4, <1>6, <1>8, BlockFacts
  DEF DriverInv, DriverTypes, Memory, StaticAhead, Saving, Taking, Booting, Running, Unwound
<1>11. (BufferBehindTip /\ StaticFollowsMdbx)'
  BY <1>1, <1>2, <1>3, <1>4, <1>6, <1>8, BlockFacts
  DEF DriverInv, DriverTypes, Memory, StaticAhead, Saving, Taking, Booting, Running, Unwound,
      BufferBehindTip, StaticFollowsMdbx
<1>12. (BytesMatch /\ ColdBehindTip)'
  BY <1>1, <1>2, <1>3, <1>4, <1>6, <1>8, BlockFacts
  DEF DriverInv, DriverTypes, Memory, Saving, Booting, BytesMatch, ColdBehindTip
<1> QED
  BY <1>9, <1>10, <1>11, <1>12, Zenon DEF DriverInv

\* The process is killed: the static files keep any part of an open transaction.
LEMMA KilledStep ==
    ASSUME DriverInv, Killed, UNCHANGED <<cold, total>>
    PROVE  DriverInv'
<1>1. /\ static' \in [Segment -> 0..MaxBlock] /\ \A g \in Segment : mdbx <= static'[g]
      /\ UNCHANGED <<remote, mdbx, ckpt>> /\ coldTorn' = (coldTorn \/ drv.boot = "unwound")
  <2>1. CASE drv.take = "saving"
    <3>1. PICK f \in [Segment -> mdbx..drv.upto] : static' = f
      BY <2>1, Zenon DEF Killed
    <3>2. drv.upto \in 0..MaxBlock /\ mdbx \in 0..MaxBlock
      BY DEF DriverInv, DriverTypes, Memory
    <3>3. mdbx..drv.upto \subseteq 0..MaxBlock /\ \A x \in mdbx..drv.upto : mdbx <= x
      BY <3>2, BlockFacts
    <3>4. f \in [Segment -> 0..MaxBlock] /\ \A g \in Segment : mdbx <= f[g]
      BY <3>1, <3>3, Zenon
    <3> QED
      BY <3>1, <3>4, Zenon DEF Killed
  <2>2. CASE drv.take # "saving"
    BY <2>2, Zenon DEF Killed, DriverInv, DriverTypes, StaticAhead
  <2> QED
    BY <2>1, <2>2, Zenon
<1>2. drv' = Down
  BY Zenon DEF Killed
<1>3. DriverTypes'
  BY <1>1, <1>2, DownFacts DEF DriverInv, DriverTypes
<1>4. (StaticAhead /\ Saving /\ Taking /\ Booting /\ Running /\ Unwound)'
  BY <1>1, <1>2, DownFacts, BlockFacts
 , Zenon DEF DriverInv, DriverTypes, Memory, StaticAhead, Saving, Taking, Booting, Running, Unwound
<1>5. (BufferBehindTip /\ StaticFollowsMdbx)'
  BY <1>1, <1>2, DownFacts, BlockFacts
  DEF DriverInv, DriverTypes, Memory, StaticAhead, Saving, Taking, Booting, Running, Unwound,
      BufferBehindTip, StaticFollowsMdbx
<1>6. (BytesMatch /\ ColdBehindTip)'
  BY <1>1, <1>2, DownFacts, BlockFacts
 , Zenon DEF DriverInv, DriverTypes, Memory, Saving, Booting, BytesMatch, ColdBehindTip
<1> QED
  BY <1>3, <1>4, <1>5, <1>6, Zenon DEF DriverInv

\* The process exits and writes what is buffered.
LEMMA ExitStep ==
    ASSUME DriverInv, flush_pending, drv' = Down, drv.boot = "up",
           UNCHANGED <<remote, mdbx, static, coldTorn, ckpt>>
    PROVE  DriverInv'
<1>1. drv.buf \in SUBSET Block
  BY DEF DriverInv, DriverTypes, Memory
<1>2. /\ cold' \subseteq cold \cup drv.buf /\ cold' \subseteq Block
      /\ total' \in Nat /\ BytesMatch'
  <2>1. CASE drv.buf = {}
    BY <2>1 DEF flush_pending, DriverInv, DriverTypes, BytesMatch
  <2>2. CASE drv.buf # {}
    BY <1>1, <2>2, CommitFacts, Zenon DEF DriverInv, DriverTypes, flush_pending
  <2> QED
    BY <2>1, <2>2, Zenon
<1>3. drv' = Down
  OBVIOUS
<1>4. DriverTypes'
  BY <1>1, <1>2, <1>3, DownFacts DEF DriverInv, DriverTypes
<1>5. (StaticAhead /\ Saving /\ Taking /\ Booting /\ Running /\ Unwound)'
  BY <1>1, <1>2, <1>3, DownFacts, BlockFacts
  DEF DriverInv, DriverTypes, Memory, StaticAhead, Saving, Taking, Booting, Running, Unwound
<1>6. (BufferBehindTip /\ StaticFollowsMdbx)'
  BY <1>1, <1>2, <1>3, DownFacts, BlockFacts
  DEF DriverInv, DriverTypes, Memory, StaticAhead, Saving, Taking, Booting, Running, Unwound,
      BufferBehindTip, StaticFollowsMdbx
<1>7. BytesMatch'
  BY <1>2, Zenon
<1>8. ColdBehindTip'
  BY <1>1, <1>2, <1>3, DownFacts, BlockFacts
  DEF DriverInv, DriverTypes, Memory, StaticAhead, Saving, Taking, Booting, Running, Unwound,
      BufferBehindTip, StaticFollowsMdbx, ColdBehindTip
<1> QED
  BY <1>4, <1>5, <1>6, <1>7, <1>8, Zenon DEF DriverInv

\* The L2 node has a new block, or the checkpoint moves.
LEMMA OutsideStep ==
    ASSUME DriverInv, remote' \in 0..MaxBlock, ckpt' \in 0..MaxBlock,
           UNCHANGED <<mdbx, static, cold, total, coldTorn, drv>>
    PROVE  DriverInv'
<1>1. DriverTypes'
  BY Zenon DEF DriverInv, DriverTypes
<1>2. (StaticAhead /\ Saving /\ Taking /\ Booting /\ Running /\ Unwound)'
  BY Zenon DEF DriverInv, StaticAhead, Saving, Taking, Booting, Running, Unwound, Kept
<1>3. (BufferBehindTip /\ StaticFollowsMdbx /\ BytesMatch /\ ColdBehindTip)'
  BY DEF DriverInv, BufferBehindTip, StaticFollowsMdbx, BytesMatch, ColdBehindTip, LastTx
<1> QED
  BY <1>1, <1>2, <1>3, Zenon DEF DriverInv

-----------------------------------------------------------------------------
(* Every step of the pipeline.                                             *)

\* The blocks of a batch.
LEMMA BatchFacts ==
    ASSUME NEW i \in Batch
    PROVE  /\ i \in Nat /\ BlocksOf[i] \subseteq Block /\ BlocksOf[i] # {}
           /\ To(i) \in BlocksOf[i] /\ To(i) \in Block
           /\ \A b \in BlocksOf[i] : b <= To(i)
<1>1. i \in Nat /\ BlocksOf[i] \in SUBSET Block /\ BlocksOf[i] # {}
  BY PipelineAssumption
<1>2. BlocksOf[i] \in SUBSET Nat /\ MaxBlock \in Nat /\ \A x \in BlocksOf[i] : x <= MaxBlock
  BY <1>1, BlockFacts, Zenon
<1>3. Max(BlocksOf[i]) \in BlocksOf[i] /\ \A y \in BlocksOf[i] : y <= Max(BlocksOf[i])
  BY <1>1, <1>2, MaxFacts, Zenon
<1> QED
  BY <1>1, <1>3, Zenon DEF To

\* A batch above another has the higher blocks, and the other way round.
LEMMA OrderFacts ==
    ASSUME NEW i \in Batch, NEW j \in Batch, NEW a \in BlocksOf[i], NEW b \in BlocksOf[j]
    PROVE  (i < j => a < b) /\ (a < b => i <= j) /\ (b = a => i = j)
BY BatchFacts, BlockFacts, PipelineAssumption

\* Some batches have a highest one.
LEMMA MaxBatchFacts ==
    ASSUME NEW S \in SUBSET Batch, S # {}
    PROVE  Max(S) \in S /\ \A j \in S : j <= Max(S)
<1> DEFINE E == {To(i) : i \in S}
<1>1. E \in SUBSET Nat /\ E # {} /\ \A x \in E : x <= MaxBlock
  BY BatchFacts, BlockFacts, Zenon
<1>2. Max(E) \in E /\ \A y \in E : y <= Max(E)
  BY <1>1, BlockFacts, MaxFacts, Zenon
<1>3. PICK i \in S : \A j \in S : To(j) <= To(i)
  BY <1>2, Zenon
<1>4. \A j \in S : i >= j
  <2> SUFFICES ASSUME NEW j \in S PROVE i >= j
    BY Zenon
  <2>1. To(i) \in BlocksOf[i] /\ To(j) \in BlocksOf[j] /\ To(i) \in Block /\ To(j) \in Block
    BY BatchFacts, Zenon
  <2>2. i < j => To(i) < To(j)
    BY <2>1, OrderFacts, Zenon
  <2>3. i \in Nat /\ j \in Nat /\ To(i) \in Nat /\ To(j) \in Nat
    BY <2>1, BatchFacts, BlockFacts, Zenon
  <2> QED
    BY <1>3, <2>2, <2>3
<1>5. Max(S) \in S /\ \A j \in S : Max(S) >= j
  BY <1>4, Zenon DEF Max
<1> QED
  BY <1>5, Zenon

\* The confirmed prefix: it ends within the chain and every block of it is
\* confirmed.
LEMMA AdvanceFacts ==
    ASSUME NEW c \in 0..MaxBlock, NEW S
    PROVE  Advance(c, S) \in c..MaxBlock /\ c + 1..Advance(c, S) \subseteq S
<1> DEFINE E == {e \in c..MaxBlock : c + 1..e \subseteq S}
<1>1. E \in SUBSET Nat /\ \A x \in E : x <= MaxBlock
  BY BlockFacts
<1>2. c \in E
  BY BlockFacts
<1>3. Max(E) \in E
  BY <1>1, <1>2, BlockFacts, MaxFacts, Zenon
<1> QED
  BY <1>3, Zenon DEF Advance

\* The block before the first response that misses in the first batch with a
\* gap; the end of the last pending batch; or the checkpoint as it is.
LEMMA NormalFacts ==
    /\ Gapped # {} => \E g \in Gapped : \E m \in Missing(g) :
                         /\ \A j \in Gapped : g <= j
                         /\ \A b \in Missing(g) : m <= b
                         /\ NormalCheckpoint = m - 1
    /\ Gapped = {} /\ Pending # {} => \E i \in Pending : NormalCheckpoint = To(i)
    /\ Gapped = {} /\ Pending = {} => NormalCheckpoint = ckpt
<1>1. CASE Gapped # {}
  <2>1. Gapped \in SUBSET Nat
    BY PipelineAssumption, Zenon DEF Gapped, Pending
  <2>2. PICK g \in Gapped : g = Min(Gapped) /\ \A j \in Gapped : g <= j
    BY <1>1, <2>1, MinFacts, Zenon
  <2>3. Missing(g) # {} /\ g \in Batch
    BY Zenon DEF Gapped, Pending
  <2>4. Missing(g) \in SUBSET Nat
    BY <2>3, BatchFacts, BlockFacts, Zenon DEF Missing
  <2>5. PICK m \in Missing(g) : m = Min(Missing(g)) /\ \A b \in Missing(g) : m <= b
    BY <2>3, <2>4, MinFacts, Zenon
  <2>6. NormalCheckpoint = m - 1
    BY <1>1, <2>2, <2>5, Zenon DEF NormalCheckpoint
  <2> QED
    BY <1>1, <2>2, <2>5, <2>6, Zenon
<1>2. CASE Gapped = {} /\ Pending # {}
  <2>1. Pending \in SUBSET Batch
    BY Zenon DEF Pending
  <2>2. Max(Pending) \in Pending
    BY <1>2, <2>1, MaxBatchFacts, Zenon
  <2> QED
    BY <1>2, <2>2, Zenon DEF NormalCheckpoint
<1>3. CASE Gapped = {} /\ Pending = {}
  BY <1>3, Zenon DEF NormalCheckpoint
<1> QED
  BY <1>1, <1>2, <1>3, Zenon

\* A normalised checkpoint is a block, or 0.
LEMMA NormalType ==
    ASSUME ckpt \in 0..MaxBlock
    PROVE  NormalCheckpoint \in 0..MaxBlock
<1>1. CASE Gapped # {}
  <2>1. PICK g \in Gapped : \E m \in Missing(g) : NormalCheckpoint = m - 1
    BY <1>1, NormalFacts, Zenon
  <2>2. g \in Batch
    BY Zenon DEF Gapped, Pending
  <2>3. PICK m \in BlocksOf[g] : NormalCheckpoint = m - 1
    BY <2>1, Zenon DEF Missing
  <2>4. m \in 1..MaxBlock
    BY <2>2, <2>3, BatchFacts, Zenon DEF Block
  <2> QED
    BY <2>3, <2>4, BlockFacts
<1>2. CASE Gapped = {} /\ Pending # {}
  <2>1. PICK i \in Pending : NormalCheckpoint = To(i)
    BY <1>2, NormalFacts, Zenon
  <2>2. i \in Batch
    BY Zenon DEF Pending
  <2>3. To(i) \in 1..MaxBlock
    BY <2>2, BatchFacts, Zenon DEF Block
  <2> QED
    BY <2>1, <2>3, BlockFacts
<1>3. CASE Gapped = {} /\ Pending = {}
  BY <1>3, NormalFacts, Zenon
<1> QED
  BY <1>1, <1>2, <1>3, Zenon

\* A step of the driver itself.
LEMMA DriverNextStep ==
    ASSUME DriverInv, DriverNext
    PROVE  DriverInv'
<1>1. CASE open_writable_factory
  BY <1>1, HealStep, Zenon DEF open_writable_factory
<1>2. CASE unwind_to_mdbx
  BY <1>2, UnwindStep, Zenon
<1>3. CASE new_after_unwind
  BY <1>3, NewUnwoundStep, Zenon
<1>4. CASE new_aligned
  BY <1>4, NewAlignedStep, Zenon
<1>5. CASE advance_ready
  BY <1>5, AdvanceReadyStep, Zenon
<1>6. CASE advance_save \/ take_save
  BY <1>6, SaveSteps, Zenon
<1>7. CASE advance_commit
  BY <1>7, AdvanceCommitStep, Zenon
<1>8. CASE take_cached
  BY <1>8, TakeCachedStep, Zenon
<1>9. CASE take_rewitness
  BY <1>9, TakeRewitnessStep, Zenon
<1>10. CASE take_commit
  BY <1>10, TakeCommitStep, Zenon
<1>11. CASE push_batched
  BY <1>11, PushKeptStep, PushFullStep, Zenon
<1>12. CASE push_flush
  BY <1>12, PushFlushStep, Zenon
<1>13. CASE NewRemoteBlock
  <2>1. remote' \in 0..MaxBlock /\ ckpt' \in 0..MaxBlock
    BY <1>13, BlockFacts DEF NewRemoteBlock, DriverInv, DriverTypes
  <2> QED
    BY <1>13, <2>1, OutsideStep, Zenon DEF NewRemoteBlock
<1> QED
  BY <1>1, <1>2, <1>3, <1>4, <1>5, <1>6, <1>7, <1>8, <1>9, <1>10, <1>11, <1>12, <1>13, Zenon
  DEF DriverNext

\* A step that leaves the driver and its stores alone.
LEMMA DriverIdle ==
    ASSUME DriverInv, UNCHANGED driverVars
    PROVE  DriverInv'
BY OutsideStep, Zenon DEF DriverInv, DriverTypes, driverVars

\* Every step of the pipeline keeps the driver's invariant.
LEMMA DriverStep ==
    ASSUME DriverInv, [Next]_vars
    PROVE  DriverInv'
<1>1. CASE DriverNext /\ UNCHANGED pipeVars
  BY <1>1, DriverNextStep, Zenon
<1>2. CASE unwind_to_torn
  BY <1>2, UnwindTornStep, Zenon
<1>3. CASE normalize_startup
  <2>1. ckpt' \in 0..MaxBlock
    BY <1>3, NormalType, Zenon DEF normalize_startup, DriverInv, DriverTypes
  <2> QED
    BY <1>3, <2>1, NormalizedStep, Zenon DEF normalize_startup
<1>4. CASE normalize_startup_torn
  BY <1>4, DriverIdle, Zenon DEF normalize_startup_torn
<1>5. CASE Crash
  BY <1>5, KilledStep, Zenon DEF Crash
<1>6. CASE Shutdown \/ driver_fatal
  BY <1>6, ExitStep, Zenon DEF Shutdown, driver_fatal, GracefulExit, Up
<1>7. CASE feeder_loop
  BY <1>7, FeedStep, Zenon DEF feeder_loop
<1>8. CASE \E w \in Worker : worker_take(w) \/ worker_done(w) \/ worker_drop(w)
  BY <1>8, DriverIdle, Zenon DEF worker_take, worker_done, worker_drop
<1>9. CASE \E b \in Block : spawn_re_execution(b)
  BY <1>9, DriverIdle, Zenon DEF spawn_re_execution
<1>10. CASE on_block_result
  <2>1. PICK S : ckpt' \in {ckpt, Advance(ckpt, S)}
    BY <1>10, Zenon DEF on_block_result
  <2>2. ckpt \in 0..MaxBlock /\ remote \in 0..MaxBlock
    BY Zenon DEF DriverInv, DriverTypes
  <2>3. Advance(ckpt, S) \in ckpt..MaxBlock
    BY <2>2, AdvanceFacts, Zenon
  <2>4. ckpt' \in 0..MaxBlock
    BY <2>1, <2>2, <2>3
  <2>5. UNCHANGED <<remote, mdbx, static, cold, total, coldTorn, drv>>
    BY <1>10, Zenon DEF on_block_result
  <2> QED
    BY <2>2, <2>4, <2>5, OutsideStep, Zenon
<1>11. CASE on_block_result_torn
  BY <1>11, KilledStep, Zenon DEF on_block_result_torn
<1>12. CASE HandlerStep
  BY <1>12, DriverIdle, Zenon DEF HandlerStep
<1>13. CASE \E i \in Batch : on_finalized_torn(i)
  BY <1>13, KilledStep, Zenon DEF on_finalized_torn
<1>14. CASE UNCHANGED vars
  BY <1>14, DriverIdle, Zenon DEF vars
<1> QED
  BY <1>1, <1>2, <1>3, <1>4, <1>5, <1>6, <1>7, <1>8, <1>9, <1>10, <1>11, <1>12, <1>13, <1>14,
     Zenon
  DEF Next

\* The stores of a fresh deployment.
LEMMA DriverInitial ==
    ASSUME Init
    PROVE  DriverInv
<1>1. /\ remote \in 0..MaxBlock /\ mdbx = 0 /\ static = [g \in Segment |-> 0] /\ cold = {}
      /\ total = 0 /\ coldTorn = FALSE /\ drv = Down /\ ckpt \in 0..MaxBlock
  BY DriverAssumption, PipelineAssumption, Zenon DEF Init, DriverInit
<1>2. DriverTypes
  BY <1>1, BlockFacts, DownFacts DEF DriverTypes
<1>3. StaticAhead /\ Saving /\ Taking /\ Booting /\ Running /\ Unwound
  BY <1>1, DownFacts DEF StaticAhead, Saving, Taking, Booting, Running, Unwound
<1>4. BufferBehindTip /\ StaticFollowsMdbx /\ ColdBehindTip
  BY <1>1, DownFacts DEF BufferBehindTip, StaticFollowsMdbx, ColdBehindTip
<1>5. BytesMatch
  BY <1>1, FS_EmptySet, Zenon DEF BytesMatch
<1> QED
  BY <1>2, <1>3, <1>4, <1>5, Zenon DEF DriverInv

\* The driver's invariant holds in every state of the pipeline.
THEOREM DriverInvariant == Spec => []DriverInv
<1>1. Init => DriverInv
  BY DriverInitial, Zenon
<1>2. DriverInv /\ [Next]_vars => DriverInv'
  BY DriverStep, Zenon
<1> QED
  BY <1>1, <1>2, PTL DEF Spec

\* Once healed, the static files are never ahead of MDBX outside an open
\* transaction, except with an MDBX at genesis or a tail without transactions:
\* no sequence of crashes, unwinds and catch-up finds another way
\* (heal_static_files_if_needed, unwind_to, save_blocks).
THEOREM StaticFilesHealed == Spec => []StaticFollowsMdbx
<1>1. DriverInv => StaticFollowsMdbx
  BY DEF DriverInv
<1> QED
  BY <1>1, DriverInvariant, PTL

\* total_bytes never drifts from what the cold store holds, whatever is
\* replaced, retired or unwound (commit_batch_blocking, unwind_above).
THEOREM ColdBytesExact == Spec => []BytesMatch
<1>1. DriverInv => BytesMatch
  BY Zenon DEF DriverInv
<1> QED
  BY <1>1, DriverInvariant, PTL

\* The cold store never holds a witness above the MDBX tip, unless a boot died
\* between the two halves of an unwind (Driver::new).
THEOREM ColdNeverAhead == Spec => []ColdBehindTip
<1>1. DriverInv => ColdBehindTip
  BY Zenon DEF DriverInv
<1> QED
  BY <1>1, DriverInvariant, PTL
=============================================================================
