--------------------------- MODULE CdBuffer_proofs ---------------------------
(***************************************************************************)
(* Proofs about the sector buffer, for any number of blocks and partitions *)
(* and any sector lengths: the type invariant, who owns which block, the   *)
(* account of the free ones, and the sizes of the partitions.              *)
(***************************************************************************)
EXTENDS CdBuffer, FiniteSetTheorems, WellFoundedInduction, TLAPS

-----------------------------------------------------------------------------
(* Facts about the helpers                                                 *)

(* Every subset of the block array is finite. *)
LEMMA BlockSubsets ==
  ASSUME NEW S \in SUBSET Block
  PROVE  /\ IsFiniteSet(S)
         /\ Cardinality(S) \in 0..NBlocks
         /\ Cardinality(Block) = NBlocks
<1>1. IsFiniteSet(Block) /\ Cardinality(Block) = NBlocks
  BY NBlocksAssumption, FS_Interval DEF Block
<1>2. IsFiniteSet(S) /\ Cardinality(S) <= NBlocks
  BY <1>1, FS_Subset
<1>3. Cardinality(S) \in Nat
  BY <1>2, FS_CardinalityType
<1>. QED  BY <1>1, <1>2, <1>3, NBlocksAssumption

LEMMA InitialSegment ==
  ASSUME NEW m \in Nat
  PROVE  IsFiniteSet(0..(m - 1)) /\ Cardinality(0..(m - 1)) = m
  BY FS_Interval

(* Cs2AllocateBlock returns a free block when there is one. *)
LEMMA FirstFreeIsFree ==
  ASSUME FreeBlocks # {}
  PROVE  FirstFree \in FreeBlocks
<1> DEFINE Upto(x) == {c \in FreeBlocks : c <= x}
           U == {Upto(x) : x \in FreeBlocks}
<1>1. FreeBlocks \in SUBSET Block /\ FreeBlocks \subseteq Int
  BY NBlocksAssumption DEF FreeBlocks, Block
<1>2. U \subseteq FiniteSubsetsOf(Block) /\ U # {}
  BY <1>1, BlockSubsets DEF FiniteSubsetsOf
<1>3. PICK T \in U : \A S \in U : ~ (<<S, T>> \in StrictSubsetOrdering(Block))
  BY <1>2, FS_StrictSubsetOrderingWellFounded, WFMin
<1>4. PICK x \in FreeBlocks : T = Upto(x)
  BY <1>3
<1>5. ASSUME NEW c \in FreeBlocks, c < x
      PROVE  FALSE
  <2>1. /\ \A d \in FreeBlocks : d <= c => d <= x
        /\ x <= x /\ ~(x <= c)
    BY <1>1, <1>5
  <2>2. Upto(c) \subseteq Upto(x) /\ x \in Upto(x) /\ x \notin Upto(c)
    BY <2>1
  <2>3. <<Upto(c), T>> \in StrictSubsetOrdering(Block)
    BY <1>1, <1>4, <2>2 DEF StrictSubsetOrdering
  <2>. QED  BY <1>3, <2>3
<1>6. \A c \in FreeBlocks : x <= c
  BY <1>1, <1>5
<1>. QED  BY <1>6 DEF FirstFree

(* Distinct pointers of an array have distinct ranks. *)
LEMMA RankInjective ==
  ASSUME NEW f, NEW i \in Slot, NEW j \in Slot,
         f[i] # NULL, f[j] # NULL, Rank(f, i) = Rank(f, j)
  PROVE  i = j
<1>1. ASSUME NEW x \in Slot, NEW y \in Slot, x < y, f[x] # NULL
      PROVE  Rank(f, x) # Rank(f, y)
  <2> DEFINE R(z) == {k \in Slot : k < z /\ f[k] # NULL}
  <2>1. IsFiniteSet(R(y))
    BY BlockSubsets DEF Slot, Block
  <2>2. R(x) \subseteq R(y) /\ x \in R(y) /\ x \notin R(x)
    BY <1>1, NBlocksAssumption DEF Slot
  <2>3. Cardinality(R(x)) # Cardinality(R(y))
    BY <2>1, <2>2, FS_Subset
  <2>. QED  BY <2>3 DEF Rank
<1>. QED  BY <1>1, NBlocksAssumption DEF Slot

(* Cs2SortBlocks on an array whose first n pointers are live but for the hole
   [a, b): the pointers behind the hole move down by b - a, in order. *)
Shift(k, a, b) == IF k < a THEN k ELSE k + (b - a)

LEMMA SortClosesHole ==
  ASSUME NEW f \in [Slot -> Block \union {NULL}],
         NEW n \in 0..NBlocks, NEW a \in 0..n, NEW b \in a..n,
         \A i \in Slot : i < n => (f[i] = NULL <=> a <= i /\ i < b)
  PROVE  /\ SortBlocks(f) \in [Slot -> Block \union {NULL}]
         /\ \A k \in Slot : k < n - (b - a) =>
              /\ Shift(k, a, b) \in Slot
              /\ Shift(k, a, b) < n
              /\ ~(a <= Shift(k, a, b) /\ Shift(k, a, b) < b)
              /\ SortBlocks(f)[k] = f[Shift(k, a, b)]
<1>1. SortBlocks(f) \in [Slot -> Block \union {NULL}]
  BY DEF SortBlocks
<1>2. ASSUME NEW k \in Slot, k < n - (b - a)
      PROVE  /\ Shift(k, a, b) \in Slot
             /\ Shift(k, a, b) < n
             /\ ~(a <= Shift(k, a, b) /\ Shift(k, a, b) < b)
             /\ SortBlocks(f)[k] = f[Shift(k, a, b)]
  <2> DEFINE i == Shift(k, a, b)
             R == {j \in Slot : j < i /\ f[j] # NULL}
  <2>1. i \in Slot /\ i < n /\ ~(a <= i /\ i < b) /\ f[i] # NULL
    BY <1>2, NBlocksAssumption DEF Slot, Shift
  <2>2. Cardinality(R) = k
    <3>1. CASE k < a
      <4>1. R = 0..(k - 1)
        BY <1>2, <2>1, <3>1, NBlocksAssumption DEF Slot, Shift
      <4>2. Cardinality(0..(k - 1)) = k
        BY <1>2, InitialSegment, NBlocksAssumption DEF Slot
      <4>. QED  BY <4>1, <4>2
    <3>2. CASE ~(k < a)
      <4>1. R = (0..(i - 1)) \ (a..(b - 1))
        BY <1>2, <2>1, <3>2, NBlocksAssumption DEF Slot, Shift
      <4>2. (0..(i - 1)) \cap (a..(b - 1)) = a..(b - 1)
        BY <1>2, <3>2, NBlocksAssumption DEF Slot, Shift
      <4>3. IsFiniteSet(0..(i - 1)) /\ Cardinality(0..(i - 1)) = i
        <5>1. i \in Nat
          BY <2>1, NBlocksAssumption DEF Slot
        <5>. HIDE DEF i
        <5>. QED  BY <5>1, InitialSegment
      <4>4. Cardinality(a..(b - 1)) = b - a
        BY FS_Interval, NBlocksAssumption
      <4>5. Cardinality(R) = i - (b - a)
        <5>. HIDE DEF i, R
        <5>1. Cardinality((0..(i - 1)) \ (a..(b - 1)))
                = Cardinality(0..(i - 1))
                    - Cardinality((0..(i - 1)) \cap (a..(b - 1)))
          BY <4>3, FS_Difference
        <5>. QED  BY <5>1, <4>1, <4>2, <4>3, <4>4
      <4>. QED  BY <4>5, <1>2, <3>2, NBlocksAssumption DEF Slot, Shift
    <3>. QED  BY <3>1, <3>2
  <2>3. Rank(f, i) = k
    BY <2>2 DEF Rank
  <2>4. \A j \in Slot : f[j] # NULL /\ Rank(f, j) = k => j = i
    BY <2>1, <2>3, RankInjective
  <2>5. (CHOOSE j \in Slot : f[j] # NULL /\ Rank(f, j) = k) = i
    BY <2>1, <2>3, <2>4
  <2>6. SortBlocks(f)[k] = f[i]
    BY <2>1, <2>3, <2>5, <1>2 DEF SortBlocks
  <2>. QED  BY <2>1, <2>6
<1>. QED  BY <1>1, <1>2

-----------------------------------------------------------------------------
(* The inductive invariant.  Ownership alone is not inductive: the sectors a
   transfer deletes when it ends are those of an earlier command, and they are
   live at that time only because of TransferInRange.  That the position of an
   open transfer is inside its sector (InSector) is what keeps the bytes a burst
   copies from being negative. *)
InSector ==
  hostxfer /\ datatranstype # -1 /\ datanumsecttrans < datasectstotrans
    => datatransoffset < SectorSize(datanumsecttrans)

(* A burst is under way only while a transfer is open. *)
BurstOpen == burst # -1 => hostxfer /\ datatranstype # -1

IInv == TypeOK /\ Ownership /\ TransferInRange /\ InSector /\ BurstOpen

AllocTypeOK ==
  /\ size \in [Block -> {-1} \union AllSizes]
  /\ slot \in [Selector -> [Slot -> Block \union {NULL}]]
  /\ numblocks \in [Selector -> 0..NBlocks]
  /\ blockfreespace \in 0..(FreeModulus - 1)
  /\ isbufferfull \in BOOLEAN

(* Deleting a range of live sectors: the sectors behind it move down to where it
   began, in order. *)
LEMMA FreeRangeMoves ==
  ASSUME AllocTypeOK, Ownership,
         NEW p \in Selector, NEW pos \in Slot, NEW n \in 0..NBlocks,
         pos + n <= numblocks[p], FreeRange(p, pos, n)
  PROVE  /\ numblocks[p] - n \in 0..NBlocks
         /\ numblocks' = [numblocks EXCEPT ![p] = numblocks[p] - n]
         /\ slot' \in [Selector -> [Slot -> Block \union {NULL}]]
         /\ \A q \in Selector : q # p => slot'[q] = slot[q]
         /\ \A k \in Slot : k < numblocks[p] - n =>
              /\ Shift(k, pos, pos + n) \in Slot
              /\ Shift(k, pos, pos + n) < numblocks[p]
              /\ Shift(k, pos, pos + n) \notin RangeOf(pos, n)
              /\ slot'[p][k] = slot[p][Shift(k, pos, pos + n)]
<1> DEFINE f == [i \in Slot |-> IF i \in RangeOf(pos, n) THEN NULL
                                                         ELSE slot[p][i]]
           m == numblocks[p]
<1>1. /\ m \in 0..NBlocks /\ pos \in 0..m /\ pos + n \in pos..m
      /\ m - n \in 0..NBlocks
  BY NBlocksAssumption DEF AllocTypeOK, Slot
<1>2. numblocks' = [numblocks EXCEPT ![p] = m - n]
  <2>1. (m - n) % 256 = m - n
    BY <1>1, NBlocksAssumption
  <2>. QED  BY <2>1 DEF FreeRange
<1>3. f \in [Slot -> Block \union {NULL}]
  BY DEF AllocTypeOK
<1>4. \A i \in Slot : i < m => (f[i] = NULL <=> pos <= i /\ i < pos + n)
  BY DEF Ownership, Live, RangeOf
<1>5. /\ SortBlocks(f) \in [Slot -> Block \union {NULL}]
      /\ \A k \in Slot : k < m - n =>
           /\ Shift(k, pos, pos + n) \in Slot
           /\ Shift(k, pos, pos + n) < m
           /\ Shift(k, pos, pos + n) \notin RangeOf(pos, n)
           /\ SortBlocks(f)[k] = slot[p][Shift(k, pos, pos + n)]
  <2>1. (pos + n) - pos = n
    BY <1>1
  <2>2. /\ SortBlocks(f) \in [Slot -> Block \union {NULL}]
        /\ \A k \in Slot : k < m - ((pos + n) - pos) =>
             /\ Shift(k, pos, pos + n) \in Slot
             /\ Shift(k, pos, pos + n) < m
             /\ ~(pos <= Shift(k, pos, pos + n)
                    /\ Shift(k, pos, pos + n) < pos + n)
             /\ SortBlocks(f)[k] = f[Shift(k, pos, pos + n)]
    <3>. HIDE DEF f, m
    <3>. QED  BY <1>1, <1>3, <1>4, SortClosesHole
  <2>. QED  BY <2>1, <2>2 DEF RangeOf
<1>6. slot' = [slot EXCEPT ![p] = SortBlocks(f)]
  BY DEF FreeRange
<1>. HIDE DEF f
<1>7. /\ slot' \in [Selector -> [Slot -> Block \union {NULL}]]
      /\ \A q \in Selector : q # p => slot'[q] = slot[q]
      /\ slot'[p] = SortBlocks(f)
  BY <1>5, <1>6 DEF AllocTypeOK
<1>. QED  BY <1>1, <1>2, <1>5, <1>7

(* Such a deletion keeps the other sectors, and their owners. *)
LEMMA FreeRangeKeeps ==
  ASSUME AllocTypeOK, Ownership,
         NEW p \in Selector, NEW pos \in Slot, NEW n \in 0..NBlocks,
         pos + n <= numblocks[p], FreeRange(p, pos, n)
  PROVE  /\ AllocTypeOK'
         /\ Ownership'
         /\ numblocks' = [numblocks EXCEPT ![p] = numblocks[p] - n]
<1> DEFINE m == numblocks[p]
           freed == {i \in RangeOf(pos, n) : slot[p][i] # NULL}
           Old(q, i) == IF q = p THEN Shift(i, pos, pos + n) ELSE i
<1>1. /\ m \in 0..NBlocks /\ pos \in 0..m /\ pos + n \in pos..m
      /\ m - n \in 0..NBlocks
  BY NBlocksAssumption DEF AllocTypeOK, Slot
<1>2. numblocks' = [numblocks EXCEPT ![p] = m - n]
  BY FreeRangeMoves
<1>3. /\ slot' \in [Selector -> [Slot -> Block \union {NULL}]]
      /\ \A q \in Selector : q # p => slot'[q] = slot[q]
      /\ \A k \in Slot : k < m - n =>
           /\ Shift(k, pos, pos + n) \in Slot
           /\ Shift(k, pos, pos + n) < m
           /\ Shift(k, pos, pos + n) \notin RangeOf(pos, n)
           /\ slot'[p][k] = slot[p][Shift(k, pos, pos + n)]
  BY FreeRangeMoves
<1>4. AllocTypeOK'
  <2>1. size' \in [Block -> {-1} \union AllSizes]
    BY DEF FreeRange, AllocTypeOK
  <2>2. slot' \in [Selector -> [Slot -> Block \union {NULL}]]
    BY <1>3
  <2>3. numblocks' \in [Selector -> 0..NBlocks]
    BY <1>1, <1>2 DEF AllocTypeOK
  <2>4. blockfreespace' \in 0..(FreeModulus - 1)
    <3>1. Cardinality(freed) \in Nat
      BY BlockSubsets, NBlocksAssumption DEF RangeOf, Slot, Block
    <3>2. blockfreespace' = (blockfreespace + Cardinality(freed)) % FreeModulus
      BY DEF FreeRange
    <3>. HIDE DEF freed
    <3>. QED  BY <3>1, <3>2, ModulusAssumption, NBlocksAssumption DEF AllocTypeOK
  <2>5. isbufferfull' \in BOOLEAN
    BY DEF FreeRange, AllocTypeOK
  <2>. QED  BY <2>1, <2>2, <2>3, <2>4, <2>5 DEF AllocTypeOK
<1>5. ASSUME NEW q \in Selector, NEW i \in Live(q)'
      PROVE  /\ Old(q, i) \in Live(q)
             /\ slot'[q][i] = slot[q][Old(q, i)]
             /\ q = p => Old(q, i) \notin RangeOf(pos, n)
  BY <1>2, <1>3 DEF Live, AllocTypeOK
<1>6. ASSUME NEW q \in Selector, NEW i \in Live(q)'
      PROVE  slot'[q][i] # NULL /\ size'[slot'[q][i]] # -1
  <2>1. Old(q, i) \in Slot /\ Live(p) \subseteq Slot
    BY <1>5 DEF Live
  <2>2. slot[q][Old(q, i)] \in Block /\ size[slot[q][Old(q, i)]] # -1
    BY <1>5, <2>1 DEF AllocTypeOK, Ownership
  <2>3. \A j \in freed : slot[p][j] # slot[q][Old(q, i)]
    <3>1. freed \subseteq Live(p) \cap RangeOf(pos, n)
      BY <1>1 DEF RangeOf, Live, Slot
    <3>. QED  BY <1>5, <3>1 DEF Ownership
  <2>4. size'[slot[q][Old(q, i)]] = size[slot[q][Old(q, i)]]
    BY <2>2, <2>3 DEF FreeRange
  <2>. QED  BY <1>5, <2>2, <2>4, NullAssumption, NBlocksAssumption DEF Block
<1>7. ASSUME NEW q \in Selector, NEW r \in Selector,
              NEW i \in Live(q)', NEW j \in Live(r)',
              slot'[q][i] = slot'[r][j]
       PROVE  q = r /\ i = j
  <2>1. q = r /\ Old(q, i) = Old(r, j)
    BY <1>5, <1>7 DEF Ownership
  <2>2. i \in Int /\ j \in Int
    BY NBlocksAssumption DEF Live, Slot
  <2>. QED  BY <1>1, <2>1, <2>2 DEF Shift
<1>. QED  BY <1>2, <1>4, <1>6, <1>7 DEF Ownership

(* A partition has room in its array whenever a block is free: its live slots
   hold distinct allocated blocks, so by the pigeonhole principle they cannot be
   as many as the blocks. *)
LEMMA RoomWhenFree ==
  ASSUME AllocTypeOK, Ownership, FreeBlocks # {}, NEW p \in Selector
  PROVE  /\ FirstFree \in Block /\ size[FirstFree] = -1
         /\ \A q \in Selector : \A i \in Live(q) : slot[q][i] # FirstFree
         /\ numblocks[p] \in Slot
<1>1. FirstFree \in Block /\ size[FirstFree] = -1
  BY FirstFreeIsFree DEF FreeBlocks
<1>2. \A q \in Selector : \A i \in Live(q) : slot[q][i] # FirstFree
  BY <1>1 DEF Ownership
<1>3. ASSUME numblocks[p] = NBlocks
      PROVE  FALSE
  <2> DEFINE T == Block \ {FirstFree}
  <2>1. Live(p) = Slot
    BY <1>3, NBlocksAssumption DEF Live, Slot
  <2>2. slot[p] \in [Slot -> T]
    <3>1. slot[p] \in [Slot -> Block \union {NULL}]
      BY DEF AllocTypeOK
    <3>2. \A i \in Slot : slot[p][i] # NULL /\ slot[p][i] # FirstFree
      BY <1>2, <2>1 DEF Ownership
    <3>. QED  BY <3>1, <3>2
  <2>3. IsFiniteSet(Slot) /\ Cardinality(Slot) = NBlocks
    BY BlockSubsets DEF Slot, Block
  <2>4. IsFiniteSet(T) /\ Cardinality(T) = NBlocks - 1
    BY <1>1, BlockSubsets, FS_RemoveElement
  <2>5. \E i, j \in Slot : i # j /\ slot[p][i] = slot[p][j]
    <3>1. Cardinality(T) < Cardinality(Slot)
      BY <2>3, <2>4, NBlocksAssumption
    <3>. HIDE DEF T
    <3>. QED  BY <2>2, <2>3, <2>4, <3>1, FS_PigeonHole
  <2>. QED  BY <2>1, <2>5 DEF Ownership
<1>4. numblocks[p] \in Slot
  BY <1>3, NBlocksAssumption DEF AllocTypeOK, Slot
<1>. QED  BY <1>1, <1>2, <1>4

(* What Cs2AllocateBlock does to the two flags keeps their types. *)
LEMMA AllocatedFlagsType ==
  ASSUME AllocTypeOK, AllocatedFlags
  PROVE  blockfreespace' \in 0..(FreeModulus - 1) /\ isbufferfull' \in BOOLEAN
<1>1. blockfreespace - 1 \in Int /\ FreeModulus \in Nat /\ FreeModulus > 0
  BY ModulusAssumption, NBlocksAssumption DEF AllocTypeOK
<1>2. (blockfreespace - 1) % FreeModulus \in 0..(FreeModulus - 1)
  BY <1>1
<1>. QED  BY <1>2 DEF AllocatedFlags, Decremented

(* The drive appends a sector. *)
LEMMA StoreSectorKeeps ==
  ASSUME AllocTypeOK, Ownership, NEW p \in Selector, NEW bytes \in AllSizes,
         StoreSector(p, bytes)
  PROVE  /\ AllocTypeOK'
         /\ Ownership'
         /\ numblocks' = [numblocks EXCEPT ![p] = numblocks[p] + 1]
<1>1. /\ FirstFree \in Block /\ size[FirstFree] = -1
      /\ \A q \in Selector : \A i \in Live(q) : slot[q][i] # FirstFree
      /\ numblocks[p] \in Slot
  BY RoomWhenFree DEF StoreSector
<1>2. numblocks' = [numblocks EXCEPT ![p] = numblocks[p] + 1]
  <2>1. (numblocks[p] + 1) % 256 = numblocks[p] + 1
    BY <1>1, NBlocksAssumption DEF Slot
  <2>. QED  BY <2>1 DEF StoreSector
<1>3. slot' = [slot EXCEPT ![p] = [i \in Slot |->
                  IF i = numblocks[p] THEN FirstFree ELSE slot[p][i]]]
  BY DEF StoreSector, StoreAtEnd
<1>4. size' = [size EXCEPT ![FirstFree] = bytes]
  BY DEF StoreSector
<1>5. bytes # -1
  BY SizesAssumption DEF AllSizes
<1>6. AllocTypeOK'
  <2>1. size' \in [Block -> {-1} \union AllSizes]
    BY <1>1, <1>4 DEF AllocTypeOK
  <2>2. slot' \in [Selector -> [Slot -> Block \union {NULL}]]
    BY <1>1, <1>3 DEF AllocTypeOK
  <2>3. numblocks' \in [Selector -> 0..NBlocks]
    BY <1>1, <1>2, NBlocksAssumption DEF AllocTypeOK, Slot
  <2>. QED  BY <2>1, <2>2, <2>3, AllocatedFlagsType DEF StoreSector, AllocTypeOK
<1>7. ASSUME NEW q \in Selector, NEW i \in Live(q)'
      PROVE  \/ i \in Live(q) /\ slot'[q][i] = slot[q][i]
             \/ q = p /\ i = numblocks[p] /\ slot'[q][i] = FirstFree
  BY <1>1, <1>2, <1>3, NBlocksAssumption DEF Live, Slot, AllocTypeOK
<1>8. ASSUME NEW q \in Selector, NEW i \in Live(q)'
      PROVE  slot'[q][i] # NULL /\ size'[slot'[q][i]] # -1
  <2>1. CASE i \in Live(q) /\ slot'[q][i] = slot[q][i]
    <3>1. slot[q][i] \in Block /\ size[slot[q][i]] # -1 /\ slot[q][i] # NULL
      BY <2>1 DEF AllocTypeOK, Ownership, Live
    <3>. QED  BY <1>1, <1>4, <2>1, <3>1 DEF AllocTypeOK
  <2>2. CASE slot'[q][i] = FirstFree
    BY <1>1, <1>4, <1>5, <2>2, NullAssumption, NBlocksAssumption
       DEF AllocTypeOK, Block
  <2>. QED  BY <1>7, <2>1, <2>2
<1>9. ASSUME NEW q \in Selector, NEW r \in Selector,
             NEW i \in Live(q)', NEW j \in Live(r)',
             slot'[q][i] = slot'[r][j]
      PROVE  q = r /\ i = j
  BY <1>1, <1>7, <1>9 DEF Ownership
<1>. QED  BY <1>2, <1>6, <1>8, <1>9 DEF Ownership

(* Storing a pointer at the end of a partition without counting it, as the
   directory commands do, leaves the live slots alone, sorted or not. *)
LEMMA StoreAtEndKeeps ==
  ASSUME AllocTypeOK, Ownership, NEW p \in Selector,
         NEW v \in Block \union {NULL},
         \/ slot' = StoreAtEnd(p, v)
         \/ slot' = [slot EXCEPT ![p] = SortBlocks(StoreAtEnd(p, v)[p])]
  PROVE  /\ slot' \in [Selector -> [Slot -> Block \union {NULL}]]
         /\ \A q \in Selector : \A i \in Live(q) : slot'[q][i] = slot[q][i]
<1> DEFINE f == StoreAtEnd(p, v)[p]
           m == numblocks[p]
<1>1. /\ f = [i \in Slot |-> IF i = m THEN v ELSE slot[p][i]]
      /\ f \in [Slot -> Block \union {NULL}]
      /\ m \in 0..NBlocks
  BY DEF StoreAtEnd, AllocTypeOK
<1>2. \A i \in Live(p) : f[i] = slot[p][i] /\ f[i] # NULL
  BY <1>1, NBlocksAssumption DEF Live, Slot, Ownership
<1>3. CASE slot' = StoreAtEnd(p, v)
  BY <1>1, <1>2, <1>3 DEF StoreAtEnd, AllocTypeOK, Live
<1>4. CASE slot' = [slot EXCEPT ![p] = SortBlocks(f)]
  <2>1. \A i \in Slot : i < m => (f[i] = NULL <=> m <= i /\ i < m)
    BY <1>1, <1>2, NBlocksAssumption DEF Live, Slot
  <2>2. /\ SortBlocks(f) \in [Slot -> Block \union {NULL}]
        /\ \A k \in Slot : k < m - (m - m) => SortBlocks(f)[k] = f[Shift(k, m, m)]
    <3>1. m \in 0..m /\ m \in m..m
      BY <1>1, NBlocksAssumption
    <3>. HIDE DEF f, m
    <3>. QED  BY <1>1, <2>1, <3>1, SortClosesHole
  <2>3. \A k \in Live(p) : SortBlocks(f)[k] = slot[p][k]
    <3>1. ASSUME NEW k \in Live(p)
          PROVE  k \in Slot /\ k < m - (m - m) /\ Shift(k, m, m) = k
      BY <1>1, NBlocksAssumption DEF Live, Slot, Shift
    <3>. QED  BY <1>2, <2>2, <3>1
  <2>. QED  BY <1>4, <2>2, <2>3 DEF AllocTypeOK
<1>. QED  BY <1>3, <1>4

(* The host resets one partition. *)
LEMMA ResetPartitionKeeps ==
  ASSUME AllocTypeOK, Ownership, ResetPartition
  PROVE  /\ AllocTypeOK'
         /\ Ownership'
         /\ \E p \in Selector : /\ MayRelease(p)
                                /\ numblocks' = [numblocks EXCEPT ![p] = 0]
<1>1. PICK p \in Selector :
        LET freed == {i \in Live(p) : slot[p][i] # NULL} IN
        /\ MayRelease(p)
        /\ size' = [b \in Block |-> IF \E i \in freed : slot[p][i] = b
                                      THEN -1 ELSE size[b]]
        /\ blockfreespace' = (blockfreespace + Cardinality(freed)) % FreeModulus
        /\ isbufferfull' = (isbufferfull /\ freed = {} /\ blockfreespace' = 0)
        /\ slot' = [slot EXCEPT ![p] = [i \in Slot |-> IF i < numblocks[p]
                                           THEN NULL ELSE slot[p][i]]]
        /\ numblocks' = [numblocks EXCEPT ![p] = 0]
  BY DEF ResetPartition
<1> DEFINE freed == {i \in Live(p) : slot[p][i] # NULL}
<1>2. AllocTypeOK'
  <2>1. size' \in [Block -> {-1} \union AllSizes]
    BY <1>1 DEF AllocTypeOK
  <2>2. slot' \in [Selector -> [Slot -> Block \union {NULL}]]
    BY <1>1 DEF AllocTypeOK
  <2>3. numblocks' \in [Selector -> 0..NBlocks]
    BY <1>1, NBlocksAssumption DEF AllocTypeOK
  <2>4. blockfreespace' \in 0..(FreeModulus - 1)
    <3>1. Cardinality(freed) \in Nat
      BY BlockSubsets, NBlocksAssumption DEF Live, Slot, Block
    <3>2. blockfreespace' = (blockfreespace + Cardinality(freed)) % FreeModulus
      BY <1>1
    <3>. HIDE DEF freed
    <3>. QED  BY <3>1, <3>2, ModulusAssumption, NBlocksAssumption DEF AllocTypeOK
  <2>5. isbufferfull' \in BOOLEAN
    BY <1>1 DEF AllocTypeOK
  <2>. QED  BY <2>1, <2>2, <2>3, <2>4, <2>5 DEF AllocTypeOK
<1>3. ASSUME NEW q \in Selector, NEW i \in Live(q)'
      PROVE  q # p /\ i \in Live(q) /\ slot'[q][i] = slot[q][i]
  BY <1>1, NBlocksAssumption DEF Live, Slot, AllocTypeOK
<1>4. ASSUME NEW q \in Selector, NEW i \in Live(q)'
      PROVE  slot'[q][i] # NULL /\ size'[slot'[q][i]] # -1
  <2>1. slot[q][i] \in Block /\ size[slot[q][i]] # -1 /\ slot[q][i] # NULL
    BY <1>3 DEF AllocTypeOK, Ownership, Live
  <2>2. \A j \in freed : slot[p][j] # slot[q][i]
    BY <1>3 DEF Ownership
  <2>. QED  BY <1>1, <1>3, <2>1, <2>2
<1>5. ASSUME NEW q \in Selector, NEW r \in Selector,
             NEW i \in Live(q)', NEW j \in Live(r)',
             slot'[q][i] = slot'[r][j]
      PROVE  q = r /\ i = j
  BY <1>3, <1>5 DEF Ownership
<1>. QED  BY <1>1, <1>2, <1>4, <1>5 DEF Ownership

(* The directory commands. *)
LEMMA ReadFileSystemKeeps ==
  ASSUME AllocTypeOK, Ownership, getsectsize \in SectorSizes, ReadFileSystem
  PROVE  /\ AllocTypeOK'
         /\ Ownership'
         /\ numblocks' = numblocks
<1>1. CASE UNCHANGED <<blockVars, partVars>>
  BY <1>1 DEF blockVars, partVars, AllocTypeOK, Ownership, Live
<1>2. ASSUME NEW p \in Selector, PushPop(p) \/ PushFails(p) \/ PushFindsNoBlock(p)
      PROVE  AllocTypeOK' /\ Ownership' /\ numblocks' = numblocks
  <2>1. numblocks' = numblocks
    BY <1>2 DEF PushPop, PushFails, PushFindsNoBlock
  <2>2. FreeBlocks # {} => FirstFree \in Block
    BY FirstFreeIsFree DEF FreeBlocks
  <2>3. /\ slot' \in [Selector -> [Slot -> Block \union {NULL}]]
        /\ \A q \in Selector : \A i \in Live(q) : slot'[q][i] = slot[q][i]
    <3>1. CASE PushPop(p)
      BY <2>2, <3>1, StoreAtEndKeeps DEF PushPop
    <3>2. CASE PushFails(p)
      BY <2>2, <3>2, StoreAtEndKeeps DEF PushFails
    <3>3. CASE PushFindsNoBlock(p)
      BY <3>3, StoreAtEndKeeps DEF PushFindsNoBlock
    <3>. QED  BY <1>2, <3>1, <3>2, <3>3
  <2>4. /\ size' \in [Block -> {-1} \union AllSizes]
        /\ \A b \in Block : size[b] # -1 => size'[b] = size[b]
    <3>1. CASE size' = size
      BY <3>1 DEF AllocTypeOK
    <3>2. CASE FreeBlocks # {} /\ size' = [size EXCEPT ![FirstFree] = getsectsize]
      BY <2>2, <3>2, FirstFreeIsFree DEF AllocTypeOK, AllSizes, FreeBlocks
    <3>. QED  BY <1>2, <3>1, <3>2 DEF PushPop, PushFails, PushFindsNoBlock
  <2>5. blockfreespace' \in 0..(FreeModulus - 1) /\ isbufferfull' \in BOOLEAN
    <3>1. CASE AllocatedFlags
      BY <3>1, AllocatedFlagsType
    <3>2. CASE blockfreespace' = blockfreespace /\ isbufferfull' \in BOOLEAN
      BY <3>2 DEF AllocTypeOK
    <3>. QED  BY <1>2, <3>1, <3>2 DEF PushPop, PushFails, PushFindsNoBlock
  <2>6. AllocTypeOK'
    BY <2>1, <2>3, <2>4, <2>5 DEF AllocTypeOK
  <2>7. \A q \in Selector : \A i \in Live(q) :
          slot[q][i] \in Block /\ size[slot[q][i]] # -1
    BY DEF Ownership, AllocTypeOK, Live
  <2>8. Ownership'
    BY <2>1, <2>3, <2>4, <2>7 DEF Ownership, Live
  <2>. QED  BY <2>1, <2>6, <2>8
<1>. QED  BY <1>1, <1>2 DEF ReadFileSystem

-----------------------------------------------------------------------------
(* The invariant holds of the initial states and is kept by every action.   *)

LEMMA InitIInv == Init => IInv
<1>. SUFFICES ASSUME Init PROVE IInv
  OBVIOUS
<1>1. TypeOK
  <2>1. 0 \in Slot /\ 0 \in 0..NBlocks
    BY NBlocksAssumption DEF Slot
  <2>2. blockfreespace \in 0..(FreeModulus - 1)
    BY NBlocksAssumption, ModulusAssumption DEF Init
  <2>3. /\ size \in [Block -> {-1} \union AllSizes]
        /\ slot \in [Selector -> [Slot -> Block \union {NULL}]]
        /\ numblocks \in [Selector -> 0..NBlocks]
    BY <2>1 DEF Init
  <2>. QED  BY <2>1, <2>2, <2>3, SizesAssumption DEF Init, TypeOK
<1>2. \A p \in Selector : Live(p) = {}
  BY NBlocksAssumption DEF Init, Live, Slot
<1>3. Ownership
  BY <1>2 DEF Ownership
<1>4. TransferInRange /\ InSector /\ BurstOpen
  BY DEF Init, TransferInRange, InSector, BurstOpen
<1>. QED  BY <1>1, <1>3, <1>4 DEF IInv

(* The part of the type invariant that allocation does not touch. *)
XferTypeOK ==
  /\ isonesectorstored \in BOOLEAN
  /\ connected \in BOOLEAN
  /\ getsectsize \in SectorSizes
  /\ datatranstype \in {-1, 0, 2}
  /\ datatranspartition \in Selector \union {NULL}
  /\ datatransoffset \in Nat
  /\ datanumsecttrans \in Nat
  /\ datatranssectpos \in Slot
  /\ datasectstotrans \in 0..NBlocks
  /\ cdwnum \in Nat
  /\ hostxfer \in BOOLEAN

BurstTypeOK ==
  /\ burst \in Nat \union {-1}
  /\ asked \in Nat
  /\ start \in Nat \X Nat \X Nat

LEMMA TypeParts == TypeOK <=> AllocTypeOK /\ XferTypeOK /\ BurstTypeOK
  BY DEF TypeOK, AllocTypeOK, XferTypeOK, BurstTypeOK

(* The sectors an open transfer reads are allocated. *)
LEMMA SectorRead ==
  ASSUME IInv, hostxfer, datatranstype # -1,
         NEW n \in Nat, n < datasectstotrans
  PROVE  /\ datatranspartition \in Selector /\ n \in Live(datatranspartition)
         /\ slot[datatranspartition][n] \in Block
         /\ SectorSize(n) \in Nat \ {0}
<1> DEFINE p == datatranspartition
<1>1. /\ p \in Selector /\ datasectstotrans \in 0..NBlocks
      /\ datatranssectpos \in Slot /\ numblocks[p] \in 0..NBlocks
      /\ datatranssectpos + datasectstotrans <= numblocks[p]
  BY DEF IInv, TypeOK, TransferInRange
<1>2. n \in Live(p)
  BY <1>1, NBlocksAssumption DEF Live, Slot
<1>3. slot[p][n] \in Block /\ size[slot[p][n]] # -1
  BY <1>1, <1>2 DEF IInv, TypeOK, Ownership, Live
<1>4. size[slot[p][n]] \in AllSizes
  BY <1>3 DEF IInv, TypeOK
<1>. QED  BY <1>1, <1>2, <1>3, <1>4, SizesAssumption DEF AllSizes, SectorSize

(* What a turn of the copy loop reads is a part of what is left of the sector. *)
LEMMA ChunkRead ==
  ASSUME IInv, CopySector
  PROVE  /\ hostxfer /\ datatranstype # -1
         /\ burst \in Nat /\ burst > 0
         /\ SectorSize(datanumsecttrans) \in Nat \ {0}
         /\ Chunk \in Nat /\ Chunk > 0 /\ Chunk <= burst * 4
         /\ datatransoffset + Chunk <= SectorSize(datanumsecttrans)
<1>1. burst \in Nat /\ burst > 0 /\ datanumsecttrans < datasectstotrans
  BY DEF IInv, TypeOK, CopySector, CopyMore
<1>2. hostxfer /\ datatranstype # -1
  BY <1>1 DEF IInv, BurstOpen
<1>3. datanumsecttrans \in Nat /\ datatransoffset \in Nat
  BY DEF IInv, TypeOK
<1>4. SectorSize(datanumsecttrans) \in Nat \ {0}
  BY <1>1, <1>2, <1>3, SectorRead
<1>5. datatransoffset < SectorSize(datanumsecttrans)
  BY <1>1, <1>2 DEF IInv, InSector
<1>. QED  BY <1>1, <1>2, <1>3, <1>4, <1>5 DEF Chunk

(* The actions that leave blocks and partitions alone keep their owners. *)
LEMMA StutterKeeps ==
  ASSUME AllocTypeOK, Ownership, UNCHANGED <<size, blockfreespace, partVars>>,
         isbufferfull' \in BOOLEAN
  PROVE  AllocTypeOK' /\ Ownership' /\ numblocks' = numblocks
  BY DEF partVars, AllocTypeOK, Ownership, Live

LEMMA BurstTypeStep == IInv /\ [Next]_vars => BurstTypeOK' /\ BurstOpen'
<1>. SUFFICES ASSUME IInv, [Next]_vars PROVE BurstTypeOK' /\ BurstOpen'
  OBVIOUS
<1>1. BurstTypeOK /\ XferTypeOK /\ BurstOpen
  BY TypeParts DEF IInv
<1>2. CASE burst = -1 /\ UNCHANGED burstVars
  BY <1>1, <1>2 DEF burstVars, BurstTypeOK, BurstOpen
<1>3. CASE Cs2RapidCopy
  <2>1. PICK count \in Bursts : burst' = count /\ asked' = count
    BY <1>3 DEF Cs2RapidCopy
  <2>2. start' \in Nat \X Nat \X Nat
    BY <1>1, <1>3 DEF Cs2RapidCopy, Position, XferTypeOK
  <2>3. BurstTypeOK'
    BY <2>1, <2>2, BurstsAssumption DEF BurstTypeOK
  <2>. QED  BY <1>3, <2>3 DEF Cs2RapidCopy, BurstOpen, xferVars
<1>4. CASE CopySector
  <2>1. burst' \in Nat
    <3>1. burst \in Nat /\ Chunk \in Nat /\ Chunk <= burst * 4
      BY <1>4, ChunkRead
    <3>2. burst' = burst - Chunk \div 4
      BY <1>4 DEF CopySector
    <3>. QED  BY <3>1, <3>2
  <2>2. hostxfer' /\ datatranstype' # -1 /\ UNCHANGED <<asked, start>>
    BY <1>4, ChunkRead DEF CopySector
  <2>. QED  BY <1>1, <2>1, <2>2 DEF BurstTypeOK, BurstOpen
<1>5. CASE EndRapidCopy
  BY <1>5 DEF EndRapidCopy, BurstTypeOK, BurstOpen
<1>6. CASE UNCHANGED vars
  BY <1>1, <1>6 DEF vars, xferVars, burstVars, BurstTypeOK, BurstOpen
<1>. QED  BY <1>2, <1>3, <1>4, <1>5, <1>6 DEF Next, Burst

LEMMA XferTypeStep == IInv /\ [Next]_vars => XferTypeOK'
<1>. SUFFICES ASSUME IInv, XferTypeOK, [Next]_vars PROVE XferTypeOK'
  BY TypeParts DEF IInv
<1>. USE DEF XferTypeOK, confVars, xferVars
<1>1. CASE ReadFilteredSector
  BY <1>1 DEF ReadFilteredSector, StoreSector, DropSector
<1>2. CASE ReadFileSystem
  BY <1>2 DEF ReadFileSystem
<1>3. CASE SetCDDeviceConnection \/ SetSectorLength \/ InitializeCDSystem
  BY <1>3 DEF SetCDDeviceConnection, SetSectorLength, InitializeCDSystem
<1>4. CASE GetSectorData \/ GetThenDeleteSectorData
  <2>1. PICK type \in {0, 2}, p \in Selector, pos \in Slot, n \in 1..NBlocks :
          OpenTransfer(type, p, pos, n)
    BY <1>4 DEF GetSectorData, GetThenDeleteSectorData
  <2>2. n \in 0..NBlocks
    BY NBlocksAssumption
  <2>. QED  BY <2>1, <2>2 DEF SectorsThere, OpenTransfer
<1>5. CASE Cs2ReadLong
  <2>1. CASE TakeWord /\ UNCHANGED datatranstype
    <3>1. /\ cdwnum' \in Nat /\ datatransoffset' \in Nat
          /\ datanumsecttrans' \in Nat
      BY <2>1 DEF TakeWord, AfterWord, Position
    <3>. QED  BY <1>5, <2>1, <3>1 DEF Cs2ReadLong
  <2>2. CASE UNCHANGED <<cdwnum, datatransoffset, datanumsecttrans>> /\ DeleteRead
    BY <1>5, <2>2 DEF Cs2ReadLong, DeleteRead, FreeTransferred
  <2>. QED  BY <1>5, <2>1, <2>2 DEF Cs2ReadLong
<1>6. CASE Burst
  <2>1. CASE Cs2RapidCopy
    BY <2>1 DEF Cs2RapidCopy
  <2>2. CASE CopySector
    <3>1. Chunk \in Nat /\ SectorSize(datanumsecttrans) \in Nat
      BY <2>2, ChunkRead
    <3>2. /\ cdwnum' \in Nat /\ datatransoffset' \in Nat
          /\ datanumsecttrans' \in Nat
      BY <2>2, <3>1 DEF CopySector
    <3>. QED  BY <2>2, <3>2 DEF CopySector
  <2>3. CASE EndRapidCopy
    BY <2>3 DEF EndRapidCopy, DeleteRead, FreeTransferred
  <2>. QED  BY <1>6, <2>1, <2>2, <2>3 DEF Burst
<1>0. ClearStoredFlag => isonesectorstored' \in BOOLEAN
  BY DEF ClearStoredFlag
<1>7. CASE EndDataTransfer
  <2>1. datatranstype' \in {-1, 0, 2} /\ isonesectorstored' \in BOOLEAN
    BY <1>0, <1>7 DEF EndDataTransfer, FreeTransferred
  <2>2. /\ cdwnum' = 0 /\ hostxfer' = FALSE
        /\ UNCHANGED <<confVars, datatranspartition, datatransoffset,
                       datanumsecttrans, datatranssectpos, datasectstotrans>>
    BY <1>7 DEF EndDataTransfer
  <2>. QED  BY <2>1, <2>2
<1>8. CASE DeleteSectorData \/ ResetPartition
  <2>1. isonesectorstored' \in BOOLEAN
    BY <1>0, <1>8 DEF SectorsThere, DeleteSectorData, ResetPartition
  <2>2. UNCHANGED <<confVars, xferVars>>
    BY <1>8 DEF SectorsThere, DeleteSectorData, ResetPartition
  <2>. QED  BY <2>1, <2>2
<1>9. CASE ResetAllData
  BY <1>9 DEF ResetAllData
<1>10. CASE AbortFile
  BY <1>10 DEF AbortFile
<1>11. CASE Cs2Reset
  <2>1. UserDataSize \in SectorSizes
    BY SizesAssumption
  <2>. QED  BY <1>11, <2>1 DEF Cs2Reset
<1>12. CASE UNCHANGED vars
  BY <1>12 DEF vars
<1>. QED  BY <1>1, <1>2, <1>3, <1>4, <1>5, <1>6, <1>7, <1>8, <1>9, <1>10,
             <1>11, <1>12 DEF Next, Drive, Host

(* The deletion a type 2 transfer ends with. *)
LEMMA FreeTransferredKeeps ==
  ASSUME IInv, hostxfer, datatranstype = 2, FreeTransferred
  PROVE  AllocTypeOK' /\ Ownership' /\ datatranstype' = -1
<1> DEFINE p == datatranspartition
<1>1. /\ AllocTypeOK /\ Ownership
      /\ p \in Selector
      /\ datatranssectpos \in Slot
      /\ datasectstotrans \in 0..NBlocks
      /\ datatranssectpos + datasectstotrans <= numblocks[p]
  BY TypeParts DEF IInv, XferTypeOK, TransferInRange
<1>2. FreeRange(p, datatranssectpos, datasectstotrans) /\ datatranstype' = -1
  BY DEF FreeTransferred
<1>. HIDE DEF p
<1>. QED  BY <1>1, <1>2, FreeRangeKeeps

(* Each action keeps the owners, and the range of an open transfer. *)
LEMMA AllocStep == IInv /\ [Next]_vars => AllocTypeOK' /\ Ownership' /\ TransferInRange'
<1>. SUFFICES ASSUME IInv, [Next]_vars
              PROVE  AllocTypeOK' /\ Ownership' /\ TransferInRange'
  OBVIOUS
<1>0. AllocTypeOK /\ XferTypeOK /\ Ownership /\ TransferInRange
  BY TypeParts DEF IInv
<1>1. CASE ReadFilteredSector
  <2>1. PICK p \in Selector :
          \/ \E bytes \in {getsectsize, Form2Size} : StoreSector(p, bytes)
          \/ DropSector(p)
    BY <1>1 DEF ReadFilteredSector
  <2>2. CASE DropSector(p)
    <3>1. /\ slot' \in [Selector -> [Slot -> Block \union {NULL}]]
          /\ \A q \in Selector : \A i \in Live(q) : slot'[q][i] = slot[q][i]
      BY <1>0, <2>2, StoreAtEndKeeps DEF DropSector
    <3>2. UNCHANGED <<size, blockfreespace, numblocks>> /\ isbufferfull' = TRUE
      BY <2>2 DEF DropSector
    <3>3. AllocTypeOK' /\ Ownership'
      BY <1>0, <3>1, <3>2 DEF AllocTypeOK, Ownership, Live
    <3>4. TransferInRange'
      BY <1>0, <2>2 DEF DropSector, TransferInRange, xferVars
    <3>. QED  BY <3>3, <3>4
  <2>3. CASE \E bytes \in {getsectsize, Form2Size} : StoreSector(p, bytes)
    <3>1. PICK bytes \in AllSizes : StoreSector(p, bytes)
      BY <1>0, <2>3 DEF AllSizes, XferTypeOK
    <3>2. /\ AllocTypeOK' /\ Ownership'
          /\ numblocks' = [numblocks EXCEPT ![p] = numblocks[p] + 1]
      BY <1>0, <3>1, StoreSectorKeeps
    <3>3. \A q \in Selector : numblocks'[q] >= numblocks[q]
      BY <1>0, <3>2, NBlocksAssumption DEF AllocTypeOK
    <3>4. TransferInRange'
      BY <1>0, <3>1, <3>3, <3>2, NBlocksAssumption
         DEF StoreSector, TransferInRange, xferVars, XferTypeOK, AllocTypeOK, Slot
    <3>. QED  BY <3>2, <3>4
  <2>. QED  BY <2>1, <2>2, <2>3
<1>2. CASE ReadFileSystem
  <2>1. AllocTypeOK' /\ Ownership' /\ numblocks' = numblocks
    BY <1>0, <1>2, ReadFileSystemKeeps DEF XferTypeOK
  <2>2. TransferInRange'
    BY <1>0, <1>2, <2>1 DEF ReadFileSystem, TransferInRange, xferVars
  <2>. QED  BY <2>1, <2>2
<1>3. CASE SetCDDeviceConnection \/ SetSectorLength \/ InitializeCDSystem
           \/ Cs2RapidCopy \/ CopySector \/ UNCHANGED vars
  <2>1. /\ UNCHANGED <<size, blockfreespace, partVars, datatranstype,
                       datatranspartition, datatranssectpos,
                       datasectstotrans, hostxfer>>
        /\ isbufferfull' \in BOOLEAN
    BY <1>0, <1>3 DEF SetCDDeviceConnection, SetSectorLength,
                      InitializeCDSystem, Cs2RapidCopy, CopySector, vars,
                      blockVars, xferVars, AllocTypeOK
  <2>2. AllocTypeOK' /\ Ownership' /\ numblocks' = numblocks
    BY <1>0, <2>1, StutterKeeps
  <2>3. TransferInRange'
    BY <1>0, <2>1, <2>2 DEF TransferInRange
  <2>. QED  BY <2>2, <2>3
<1>4. CASE GetSectorData \/ GetThenDeleteSectorData
  <2>1. PICK type \in {0, 2}, p \in Selector, pos \in Slot, n \in 1..NBlocks :
          OpenTransfer(type, p, pos, n)
    BY <1>4 DEF GetSectorData, GetThenDeleteSectorData
  <2>2. AllocTypeOK' /\ Ownership' /\ numblocks' = numblocks
    BY <1>0, <2>1, StutterKeeps DEF SectorsThere, OpenTransfer, blockVars, AllocTypeOK
  <2>3. TransferInRange'
    BY <2>1, <2>2 DEF SectorsThere, OpenTransfer, TransferInRange
  <2>. QED  BY <2>2, <2>3
<1>5. CASE Cs2ReadLong \/ EndRapidCopy
  <2>0. hostxfer
    BY <1>5 DEF Cs2ReadLong, EndRapidCopy, IInv, BurstOpen
  <2>1. CASE datatranstype = 2 /\ DeleteRead
    <3>1. AllocTypeOK' /\ Ownership' /\ datatranstype' = -1
      BY <2>0, <2>1, FreeTransferredKeeps DEF DeleteRead
    <3>. QED  BY <3>1 DEF TransferInRange
  <2>2. CASE UNCHANGED <<blockVars, partVars, datatranstype>>
    <3>1. AllocTypeOK' /\ Ownership' /\ numblocks' = numblocks
      BY <1>0, <2>2, StutterKeeps DEF blockVars, AllocTypeOK
    <3>2. UNCHANGED <<hostxfer, datatranspartition, datatranssectpos,
                      datasectstotrans>>
      BY <1>5 DEF Cs2ReadLong, EndRapidCopy
    <3>. QED  BY <1>0, <2>2, <3>1, <3>2 DEF TransferInRange
  <2>. QED  BY <1>5, <2>1, <2>2 DEF Cs2ReadLong, EndRapidCopy
<1>6. CASE EndDataTransfer
  <2>1. hostxfer /\ hostxfer' = FALSE
    BY <1>6 DEF EndDataTransfer
  <2>2. CASE datatranstype = 2 /\ FreeTransferred
    BY <2>1, <2>2, FreeTransferredKeeps DEF TransferInRange
  <2>3. CASE UNCHANGED <<blockVars, partVars>>
    <3>1. AllocTypeOK' /\ Ownership'
      BY <1>0, <2>3, StutterKeeps DEF blockVars, AllocTypeOK
    <3>. QED  BY <2>1, <3>1 DEF TransferInRange
  <2>. QED  BY <1>6, <2>2, <2>3 DEF EndDataTransfer
<1>7. CASE DeleteSectorData
  <2>1. PICK p \in Selector, pos \in Slot, n \in 0..NBlocks :
          /\ MayRelease(p)
          /\ pos + n <= numblocks[p]
          /\ FreeRange(p, pos, n)
          /\ UNCHANGED xferVars
    BY <1>7, NBlocksAssumption DEF SectorsThere, DeleteSectorData
  <2>2. /\ AllocTypeOK' /\ Ownership'
        /\ numblocks' = [numblocks EXCEPT ![p] = numblocks[p] - n]
    BY <1>0, <2>1, FreeRangeKeeps
  <2>3. TransferInRange'
    BY <1>0, <2>1, <2>2 DEF TransferInRange, MayRelease, xferVars, AllocTypeOK
  <2>. QED  BY <2>2, <2>3
<1>8. CASE ResetPartition
  <2>1. AllocTypeOK' /\ Ownership'
    BY <1>0, <1>8, ResetPartitionKeeps
  <2>2. PICK p \in Selector : /\ MayRelease(p)
                              /\ numblocks' = [numblocks EXCEPT ![p] = 0]
    BY <1>0, <1>8, ResetPartitionKeeps
  <2>3. TransferInRange'
    BY <1>0, <1>8, <2>2
       DEF ResetPartition, TransferInRange, MayRelease, xferVars, AllocTypeOK
  <2>. QED  BY <2>1, <2>3
<1>9. CASE ResetAllData \/ Cs2Reset
  <2>1. ResetBuffers /\ hostxfer' = FALSE
    BY <1>0, <1>9 DEF ResetAllData, Cs2Reset, xferVars, XferTypeOK
  <2>2. blockfreespace' \in 0..(FreeModulus - 1) /\ isbufferfull' = FALSE
    BY <1>0, <1>9, NBlocksAssumption, ModulusAssumption
       DEF ResetAllData, Cs2Reset, AllocTypeOK
  <2>3. AllocTypeOK'
    <3>1. /\ size' \in [Block -> {-1} \union AllSizes]
          /\ slot' \in [Selector -> [Slot -> Block \union {NULL}]]
          /\ numblocks' \in [Selector -> 0..NBlocks]
      BY <2>1, NBlocksAssumption DEF ResetBuffers
    <3>. QED  BY <2>2, <3>1 DEF AllocTypeOK
  <2>4. \A p \in Selector : Live(p)' = {}
    BY <2>1, NBlocksAssumption DEF ResetBuffers, Live, Slot
  <2>. QED  BY <2>1, <2>3, <2>4 DEF Ownership, TransferInRange
<1>10. CASE AbortFile
  <2>1. AllocTypeOK' /\ Ownership'
    BY <1>0, <1>10, StutterKeeps DEF AbortFile, blockVars, AllocTypeOK
  <2>. QED  BY <1>10, <2>1 DEF AbortFile, TransferInRange
<1>. QED  BY <1>1, <1>2, <1>3, <1>4, <1>5, <1>6, <1>7, <1>8, <1>9, <1>10
          DEF Next, Drive, Host, Burst

(* While a transfer stays open, no step but its end touches the sectors it reads. *)
LEMMA SectorsStay ==
  ASSUME IInv, Drive \/ Host \/ Cs2Reset, hostxfer', datatranstype' # -1,
         ~(GetSectorData \/ GetThenDeleteSectorData)
  PROVE  /\ datatranspartition' = datatranspartition
         /\ \A n \in Nat : n < datasectstotrans => SectorSize(n)' = SectorSize(n)
<1> DEFINE p == datatranspartition
<1>0. AllocTypeOK /\ XferTypeOK /\ Ownership /\ TransferInRange
  BY TypeParts DEF IInv
<1>1. ASSUME p' = p, hostxfer, datatranstype # -1,
             \A i \in Live(p) : slot'[p][i] = slot[p][i]
                                /\ size'[slot[p][i]] = size[slot[p][i]]
      PROVE  /\ p' = p
             /\ \A n \in Nat : n < datasectstotrans => SectorSize(n)' = SectorSize(n)
  <2>1. ASSUME NEW n \in Nat, n < datasectstotrans
        PROVE  SectorSize(n)' = SectorSize(n)
    <3>1. n \in Live(p)
      BY <1>1, <2>1, SectorRead
    <3>2. SectorSize(n)' = size'[slot'[p][n]] /\ SectorSize(n) = size[slot[p][n]]
      BY <1>1 DEF SectorSize
    <3>. QED  BY <1>1, <3>1, <3>2
  <2>. QED  BY <1>1, <2>1
<1>2. CASE UNCHANGED <<size, slot, datatranspartition>>
  BY <1>2 DEF SectorSize
<1>3. hostxfer /\ datatranstype # -1 => p \in Selector
  BY <1>0 DEF TransferInRange
<1>4. ASSUME NEW i \in Live(p), p \in Selector
      PROVE  slot[p][i] \in Block /\ size[slot[p][i]] # -1
  BY <1>0, <1>4 DEF AllocTypeOK, Ownership, Live
<1>5. CASE ReadFilteredSector
  <2>1. UNCHANGED xferVars
    BY <1>5 DEF ReadFilteredSector, StoreSector, DropSector
  <2>2. p' = p /\ hostxfer /\ datatranstype # -1 /\ p \in Selector
    BY <1>3, <2>1 DEF xferVars
  <2>3. PICK q \in Selector :
          \/ \E bytes \in {getsectsize, Form2Size} : StoreSector(q, bytes)
          \/ DropSector(q)
    BY <1>5 DEF ReadFilteredSector
  <2>4. CASE \E bytes \in {getsectsize, Form2Size} : StoreSector(q, bytes)
    <3>1. /\ slot' = StoreAtEnd(q, FirstFree) /\ FreeBlocks # {}
          /\ \E bytes : size' = [size EXCEPT ![FirstFree] = bytes]
      BY <2>4 DEF StoreSector
    <3>2. FirstFree \in Block /\ size[FirstFree] = -1
      BY <3>1, FirstFreeIsFree DEF FreeBlocks
    <3>3. \A i \in Live(p) : slot'[p][i] = slot[p][i]
      BY <1>0, <2>2, <3>1, <3>2, StoreAtEndKeeps
    <3>4. \A i \in Live(p) : size'[slot[p][i]] = size[slot[p][i]]
      BY <1>0, <1>4, <2>2, <3>1, <3>2 DEF AllocTypeOK
    <3>. QED  BY <1>1, <2>2, <3>3, <3>4
  <2>5. CASE DropSector(q)
    <3>1. slot' = StoreAtEnd(q, NULL) /\ size' = size
      BY <2>5 DEF DropSector
    <3>2. \A i \in Live(p) : slot'[p][i] = slot[p][i]
      BY <1>0, <2>2, <3>1, StoreAtEndKeeps
    <3>. QED  BY <1>1, <2>2, <3>1, <3>2
  <2>. QED  BY <2>3, <2>4, <2>5
<1>6. CASE ReadFileSystem
  <2>1. p' = p /\ hostxfer /\ datatranstype # -1 /\ p \in Selector
    BY <1>3, <1>6 DEF ReadFileSystem, xferVars
  <2>2. CASE UNCHANGED <<blockVars, partVars>>
    BY <1>2, <2>1, <2>2 DEF blockVars, partVars
  <2>3. ASSUME NEW q \in Selector, PushPop(q) \/ PushFails(q) \/ PushFindsNoBlock(q)
        PROVE  \A i \in Live(p) : slot'[p][i] = slot[p][i]
                                  /\ size'[slot[p][i]] = size[slot[p][i]]
    <3>1. FreeBlocks # {} => FirstFree \in Block /\ size[FirstFree] = -1
      BY FirstFreeIsFree DEF FreeBlocks
    <3>2. \A i \in Live(p) : slot'[p][i] = slot[p][i]
      <4>1. CASE PushPop(q)
        BY <1>0, <2>1, <3>1, <4>1, StoreAtEndKeeps DEF PushPop
      <4>2. CASE PushFails(q)
        BY <1>0, <2>1, <3>1, <4>2, StoreAtEndKeeps DEF PushFails
      <4>3. CASE PushFindsNoBlock(q)
        BY <1>0, <2>1, <4>3, StoreAtEndKeeps DEF PushFindsNoBlock
      <4>. QED  BY <2>3, <4>1, <4>2, <4>3
    <3>3. \/ size' = size
          \/ FreeBlocks # {} /\ size' = [size EXCEPT ![FirstFree] = getsectsize]
      BY <2>3 DEF PushPop, PushFails, PushFindsNoBlock
    <3>. QED  BY <1>0, <1>4, <2>1, <3>1, <3>2, <3>3 DEF AllocTypeOK
  <2>. QED  BY <1>1, <1>6, <2>1, <2>2, <2>3 DEF ReadFileSystem
<1>7. CASE DeleteSectorData
  <2>1. PICK q \in Selector, pos \in Slot, n \in 0..NBlocks :
          /\ MayRelease(q)
          /\ pos + n <= numblocks[q]
          /\ FreeRange(q, pos, n)
          /\ UNCHANGED xferVars
    BY <1>7, NBlocksAssumption DEF SectorsThere, DeleteSectorData
  <2>2. p' = p /\ hostxfer /\ datatranstype # -1 /\ p \in Selector /\ q # p
    BY <1>3, <2>1 DEF xferVars, MayRelease
  <2>3. slot'[p] = slot[p]
    BY <1>0, <2>1, <2>2, FreeRangeMoves
  <2>4. ASSUME NEW i \in Live(p) PROVE size'[slot[p][i]] = size[slot[p][i]]
    <3>1. \A j \in RangeOf(pos, n) : slot[q][j] # slot[p][i]
      <4>1. RangeOf(pos, n) \subseteq Live(q)
        BY <1>0, <2>1, NBlocksAssumption DEF RangeOf, Slot, Live, AllocTypeOK
      <4>. QED  BY <1>0, <2>2, <4>1 DEF Ownership
    <3>. QED  BY <1>4, <2>1, <2>2, <3>1 DEF FreeRange
  <2>. QED  BY <1>1, <2>2, <2>3, <2>4
<1>8. CASE ResetPartition
  <2>1. PICK q \in Selector :
          LET freed == {i \in Live(q) : slot[q][i] # NULL} IN
          /\ MayRelease(q)
          /\ size' = [b \in Block |-> IF \E i \in freed : slot[q][i] = b
                                        THEN -1 ELSE size[b]]
          /\ slot' = [slot EXCEPT ![q] = [i \in Slot |-> IF i < numblocks[q]
                                             THEN NULL ELSE slot[q][i]]]
          /\ UNCHANGED xferVars
    BY <1>8 DEF ResetPartition
  <2>2. p' = p /\ hostxfer /\ datatranstype # -1 /\ p \in Selector /\ q # p
    BY <1>3, <2>1 DEF xferVars, MayRelease
  <2>3. slot'[p] = slot[p]
    BY <1>0, <2>1, <2>2 DEF AllocTypeOK
  <2>4. ASSUME NEW i \in Live(p) PROVE size'[slot[p][i]] = size[slot[p][i]]
    <3>1. \A j \in Live(q) : slot[q][j] # slot[p][i]
      BY <1>0, <2>2 DEF Ownership
    <3>. QED  BY <1>4, <2>1, <2>2, <3>1
  <2>. QED  BY <1>1, <2>2, <2>3, <2>4
<1>9. CASE Cs2ReadLong
  <2>1. CASE DeleteRead
    BY <2>1 DEF DeleteRead, FreeTransferred
  <2>2. CASE UNCHANGED <<blockVars, partVars>>
    BY <1>2, <1>9, <2>2 DEF Cs2ReadLong, blockVars, partVars
  <2>. QED  BY <1>9, <2>1, <2>2 DEF Cs2ReadLong
<1>10. CASE SetCDDeviceConnection \/ SetSectorLength \/ InitializeCDSystem
  BY <1>2, <1>10 DEF SetCDDeviceConnection, SetSectorLength,
     InitializeCDSystem, blockVars, partVars, xferVars
<1>11. CASE EndDataTransfer \/ ResetAllData \/ AbortFile \/ Cs2Reset
  BY <1>11 DEF EndDataTransfer, ResetAllData, AbortFile, Cs2Reset, xferVars
<1>. QED  BY <1>5, <1>6, <1>7, <1>8, <1>9, <1>10, <1>11 DEF Drive, Host

(* The position of an open transfer stays inside its sector. *)
LEMMA InSectorStep ==
  ASSUME IInv, [Next]_vars, TypeOK', Ownership', TransferInRange'
  PROVE  InSector'
<1>. SUFFICES ASSUME hostxfer', datatranstype' # -1,
                     datanumsecttrans' < datasectstotrans'
              PROVE  datatransoffset' < SectorSize(datanumsecttrans)'
  BY DEF InSector
<1>1. SectorSize(datanumsecttrans)' \in Nat \ {0}
  <2> DEFINE p == datatranspartition
             n == datanumsecttrans
  <2>1. /\ p' \in Selector /\ datasectstotrans' \in 0..NBlocks
        /\ datatranssectpos' \in Slot /\ numblocks'[p'] \in 0..NBlocks
        /\ datatranssectpos' + datasectstotrans' <= numblocks'[p']
        /\ n' \in Nat
    BY DEF TypeOK, TransferInRange
  <2>2. n' \in Slot /\ n' < numblocks'[p']
    BY <2>1, NBlocksAssumption DEF Slot
  <2>3. slot'[p'][n'] \in Block /\ size'[slot'[p'][n']] # -1
    BY <2>1, <2>2 DEF TypeOK, Ownership, Live
  <2>4. size'[slot'[p'][n']] \in AllSizes
    BY <2>3 DEF TypeOK
  <2>. QED  BY <2>3, <2>4, SizesAssumption DEF AllSizes, SectorSize
<1>2. CASE datatransoffset' = 0
  BY <1>1, <1>2
<1>3. ASSUME hostxfer, datatranstype # -1,
             UNCHANGED <<datatransoffset, datanumsecttrans, datasectstotrans>>,
             SectorSize(datanumsecttrans)' = SectorSize(datanumsecttrans)
      PROVE  datatransoffset' < SectorSize(datanumsecttrans)'
  BY <1>3 DEF IInv, InSector
<1>4. CASE GetSectorData \/ GetThenDeleteSectorData
  BY <1>2, <1>4 DEF GetSectorData, GetThenDeleteSectorData, OpenTransfer
<1>5. CASE Cs2RapidCopy \/ UNCHANGED vars
  <2>1. UNCHANGED <<size, slot, xferVars>>
    BY <1>5 DEF Cs2RapidCopy, vars, blockVars, partVars
  <2>2. hostxfer /\ datatranstype # -1
    BY <2>1 DEF xferVars
  <2>3. SectorSize(datanumsecttrans)' = SectorSize(datanumsecttrans)
    BY <2>1 DEF SectorSize, xferVars
  <2>. QED  BY <1>3, <2>1, <2>2, <2>3 DEF xferVars
<1>6. CASE CopySector
  <2>1. /\ datatransoffset' =
             IF datatransoffset + Chunk >= SectorSize(datanumsecttrans)
               THEN 0 ELSE datatransoffset + Chunk
        /\ datanumsecttrans' =
             IF datatransoffset + Chunk >= SectorSize(datanumsecttrans)
               THEN datanumsecttrans + 1 ELSE datanumsecttrans
        /\ UNCHANGED <<size, slot, datatranspartition>>
    BY <1>6 DEF CopySector, blockVars, partVars
  <2>2. /\ Chunk \in Nat /\ datatransoffset \in Nat
        /\ SectorSize(datanumsecttrans) \in Nat
    BY <1>6, ChunkRead DEF IInv, TypeOK
  <2>3. CASE datatransoffset + Chunk < SectorSize(datanumsecttrans)
    <3>1. datanumsecttrans' = datanumsecttrans
      BY <2>1, <2>2, <2>3
    <3>2. SectorSize(datanumsecttrans)' = SectorSize(datanumsecttrans)
      BY <2>1, <3>1 DEF SectorSize
    <3>. QED  BY <2>1, <2>2, <2>3, <3>2
  <2>. QED  BY <1>2, <2>1, <2>2, <2>3
<1>7. CASE EndRapidCopy
  <2>1. hostxfer
    BY <1>7 DEF EndRapidCopy, IInv, BurstOpen
  <2>2. CASE UNCHANGED <<blockVars, partVars, datatranstype>>
    <3>1. SectorSize(datanumsecttrans)' = SectorSize(datanumsecttrans)
      BY <1>7, <2>2 DEF EndRapidCopy, SectorSize, blockVars, partVars
    <3>. QED  BY <1>3, <1>7, <2>1, <2>2, <3>1 DEF EndRapidCopy
  <2>3. CASE DeleteRead
    BY <2>3 DEF DeleteRead, FreeTransferred
  <2>. QED  BY <1>7, <2>2, <2>3 DEF EndRapidCopy
<1>8. CASE Cs2ReadLong
  <2>1. CASE DeleteRead
    BY <2>1 DEF DeleteRead, FreeTransferred
  <2>2. CASE TakeWord /\ UNCHANGED <<blockVars, partVars>>
    <3>1. CASE datatransoffset + 4 >= SectorSize(datanumsecttrans)
      BY <1>2, <2>2, <3>1 DEF TakeWord, AfterWord, Position
    <3>2. CASE ~(datatransoffset + 4 >= SectorSize(datanumsecttrans))
      <4>1. datatransoffset' = datatransoffset + 4 /\ datanumsecttrans' = datanumsecttrans
        BY <2>2, <3>2 DEF TakeWord, AfterWord, Position
      <4>2. SectorSize(datanumsecttrans)' = SectorSize(datanumsecttrans)
        BY <1>8, <2>2, <4>1 DEF Cs2ReadLong, SectorSize, blockVars, partVars
      <4>3. datatransoffset \in Nat
        BY DEF IInv, TypeOK
      <4>. QED  BY <1>1, <3>2, <4>1, <4>2, <4>3
    <3>. QED  BY <3>1, <3>2
  <2>. QED  BY <1>8, <2>1, <2>2 DEF Cs2ReadLong
<1>9. CASE /\ Drive \/ Host \/ Cs2Reset
           /\ ~(GetSectorData \/ GetThenDeleteSectorData) /\ ~Cs2ReadLong
  <2>1. /\ hostxfer /\ datatranstype # -1
        /\ UNCHANGED <<datatransoffset, datanumsecttrans, datasectstotrans>>
    <3>1. CASE UNCHANGED xferVars
      BY <3>1 DEF xferVars
    <3>2. CASE EndDataTransfer \/ AbortFile \/ Cs2Reset
      BY <3>2 DEF EndDataTransfer, AbortFile, Cs2Reset
    <3>3. CASE ReadFilteredSector
      BY <3>1, <3>3 DEF ReadFilteredSector, StoreSector, DropSector
    <3>4. CASE ReadFileSystem
      BY <3>1, <3>4 DEF ReadFileSystem
    <3>5. CASE DeleteSectorData
      BY <3>1, <3>5 DEF DeleteSectorData
    <3>6. CASE ResetPartition
      BY <3>1, <3>6 DEF ResetPartition
    <3>7. CASE SetCDDeviceConnection \/ SetSectorLength \/ InitializeCDSystem
               \/ ResetAllData
      BY <3>1, <3>7 DEF SetCDDeviceConnection, SetSectorLength,
                        InitializeCDSystem, ResetAllData
    <3>. QED  BY <1>9, <3>2, <3>3, <3>4, <3>5, <3>6, <3>7 DEF Drive, Host
  <2>2. datanumsecttrans \in Nat /\ datanumsecttrans < datasectstotrans
    BY <2>1 DEF IInv, TypeOK
  <2>3. SectorSize(datanumsecttrans)' = SectorSize(datanumsecttrans)
    <3> DEFINE n == datanumsecttrans
    <3>1. /\ datatranspartition' = datatranspartition
          /\ \A m \in Nat : m < datasectstotrans => SectorSize(m)' = SectorSize(m)
      BY <1>9, SectorsStay
    <3>2. SectorSize(n)' = size'[slot'[datatranspartition'][n]]
      BY <2>1 DEF SectorSize
    <3>3. \A m \in Nat : SectorSize(m)' = size'[slot'[datatranspartition'][m]]
      BY DEF SectorSize
    <3>. QED  BY <2>1, <2>2, <3>1, <3>2, <3>3
  <2>. QED  BY <1>3, <2>1, <2>3
<1>. QED  BY <1>4, <1>5, <1>6, <1>7, <1>8, <1>9 DEF Next, Burst

LEMMA IInvStep == IInv /\ [Next]_vars => IInv'
<1>. SUFFICES ASSUME IInv, [Next]_vars PROVE IInv'
  OBVIOUS
<1>1. AllocTypeOK' /\ Ownership' /\ TransferInRange'
  BY AllocStep
<1>2. XferTypeOK' /\ BurstTypeOK' /\ BurstOpen'
  BY XferTypeStep, BurstTypeStep
<1>3. TypeOK'
  BY <1>1, <1>2 DEF TypeOK, AllocTypeOK, XferTypeOK, BurstTypeOK
<1>4. InSector'
  BY <1>1, <1>3, InSectorStep
<1>. QED  BY <1>1, <1>2, <1>3, <1>4 DEF IInv

LEMMA Invariance == Spec => []IInv
<1>1. Init => IInv
  BY InitIInv
<1>2. IInv /\ [Next]_vars => IInv'
  BY IInvStep
<1>. QED  BY <1>1, <1>2, PTL DEF Spec

(* Every variable of the buffer keeps its type: in particular numblocks never
   wraps below 0 or past MAX_BLOCKS, and every pointer of a partition is NULL or
   points into block[]. *)
THEOREM TypeCorrect == Spec => []TypeOK
  BY Invariance, PTL DEF IInv

(* No two live slots share a block and no live slot holds a free one, for any
   number of blocks, any partitions and any sector lengths, whether or not the
   drive fails on directory sectors. *)
THEOREM BlocksAreOwned == Spec => []Ownership
  BY Invariance, PTL DEF IInv

(* An open transfer never reads or deletes past the live sectors. *)
THEOREM TransfersInRange == Spec => []TransferInRange
  BY Invariance, PTL DEF IInv

-----------------------------------------------------------------------------
(* The account of the free blocks, for a host that does not use flag 0x04 of
   ResetSelector, the only handler that empties blocks without counting them. *)
CountInv == FreeCount /\ StallsOnlyWhenFull

(* Freeing the blocks of a set D of live slots adds as many free blocks. *)
LEMMA FreedAreCounted ==
  ASSUME AllocTypeOK, Ownership, NEW p \in Selector, NEW D \in SUBSET Live(p),
         size' = [b \in Block |-> IF \E i \in D : slot[p][i] = b
                                    THEN -1 ELSE size[b]]
  PROVE  /\ Cardinality(FreeBlocks') = Cardinality(FreeBlocks) + Cardinality(D)
         /\ Cardinality(FreeBlocks') \in 0..NBlocks
         /\ D = {} => FreeBlocks' = FreeBlocks
<1> DEFINE X == {slot[p][i] : i \in D}
           g == [i \in D |-> slot[p][i]]
<1>1. D \subseteq Slot /\ \A i \in D : slot[p][i] \in Block /\ size[slot[p][i]] # -1
  BY DEF Live, Ownership, AllocTypeOK
<1>2. FreeBlocks' = FreeBlocks \union X
  BY <1>1 DEF FreeBlocks
<1>3. FreeBlocks \cap X = {} /\ X \subseteq Block
  BY <1>1 DEF FreeBlocks
<1>4. IsFiniteSet(D)
  BY <1>1, BlockSubsets DEF Slot, Block
<1>5. IsFiniteSet(X) /\ Cardinality(X) = Cardinality(D)
  <2>1. \A i, j \in D : slot[p][i] = slot[p][j] => i = j
    BY DEF Ownership
  <2>2. g \in Bijection(D, X)
    BY <2>1 DEF Bijection, Injection, Surjection, IsInjective
  <2>3. ExistsBijection(D, X)
    BY <2>2 DEF ExistsBijection
  <2>. QED  BY <1>4, <2>3, FS_Bijection
<1>6. FreeBlocks \in SUBSET Block /\ FreeBlocks' \in SUBSET Block
  BY <1>2, <1>3 DEF FreeBlocks
<1>7. /\ IsFiniteSet(FreeBlocks) /\ Cardinality(FreeBlocks) \in Nat
      /\ Cardinality(X) \in Nat
  BY <1>3, <1>6, BlockSubsets
<1>8. Cardinality(FreeBlocks \union X)
        = Cardinality(FreeBlocks) + Cardinality(X) - Cardinality(FreeBlocks \cap X)
  BY <1>5, <1>7, FS_Union
<1>9. Cardinality(FreeBlocks') = Cardinality(FreeBlocks) + Cardinality(X)
  <2>1. Cardinality(FreeBlocks \cap X) = 0
    BY <1>3, FS_EmptySet
  <2>2. Cardinality(FreeBlocks') = Cardinality(FreeBlocks \union X)
    BY <1>2
  <2>. HIDE DEF X
  <2>. QED  BY <1>7, <1>8, <2>1, <2>2
<1>10. Cardinality(FreeBlocks') \in 0..NBlocks
  BY <1>6, BlockSubsets
<1>11. D = {} => FreeBlocks' = FreeBlocks
  BY <1>2
<1>. QED  BY <1>5, <1>9, <1>10, <1>11

(* Taking the first free block removes one from the account. *)
LEMMA TakenIsCounted ==
  ASSUME AllocTypeOK, CountInv, FreeBlocks # {}, ~isbufferfull, AllocatedFlags,
         NEW bytes \in AllSizes, size' = [size EXCEPT ![FirstFree] = bytes]
  PROVE  CountInv'
<1>1. bytes # -1
  BY SizesAssumption DEF AllSizes
<1>2. FreeBlocks' = FreeBlocks \ {FirstFree}
  BY <1>1, FirstFreeIsFree DEF FreeBlocks, AllocTypeOK
<1>3. /\ IsFiniteSet(FreeBlocks)
      /\ Cardinality(FreeBlocks) \in 1..NBlocks
  <2>1. FreeBlocks \in SUBSET Block
    BY DEF FreeBlocks
  <2>. QED  BY <2>1, BlockSubsets, FS_EmptySet, NBlocksAssumption
<1>4. Cardinality(FreeBlocks') = Cardinality(FreeBlocks) - 1 /\ IsFiniteSet(FreeBlocks')
  BY <1>2, <1>3, FirstFreeIsFree, FS_RemoveElement
<1>5. Decremented = Cardinality(FreeBlocks')
  <2>1. blockfreespace - 1 \in 0..(NBlocks - 1)
    BY <1>3, NBlocksAssumption DEF CountInv, FreeCount
  <2>2. (blockfreespace - 1) % FreeModulus = blockfreespace - 1
    BY <2>1, ModulusAssumption, NBlocksAssumption
  <2>. QED  BY <1>4, <2>2 DEF Decremented, CountInv, FreeCount
<1>6. FreeCount'
  BY <1>5 DEF AllocatedFlags, FreeCount
<1>7. StallsOnlyWhenFull'
  BY <1>4, <1>5, FS_EmptySet DEF AllocatedFlags, StallsOnlyWhenFull
<1>. QED  BY <1>6, <1>7 DEF CountInv

(* Deleting a range of live sectors keeps the account. *)
LEMMA FreeRangeCounts ==
  ASSUME AllocTypeOK, Ownership, CountInv,
         NEW p \in Selector, NEW pos \in Slot, NEW n \in 0..NBlocks,
         pos + n <= numblocks[p], FreeRange(p, pos, n)
  PROVE  CountInv'
<1> DEFINE D == {i \in RangeOf(pos, n) : slot[p][i] # NULL}
<1>1. D \in SUBSET Live(p)
  BY NBlocksAssumption DEF RangeOf, Live, Slot, AllocTypeOK
<1>2. /\ size' = [b \in Block |-> IF \E i \in D : slot[p][i] = b
                                    THEN -1 ELSE size[b]]
      /\ blockfreespace' = (blockfreespace + Cardinality(D)) % FreeModulus
      /\ isbufferfull' = (isbufferfull /\ D = {})
  BY DEF FreeRange
<1>. HIDE DEF D
<1>3. /\ Cardinality(FreeBlocks') = blockfreespace + Cardinality(D)
      /\ Cardinality(FreeBlocks') \in 0..NBlocks
      /\ D = {} => FreeBlocks' = FreeBlocks
  BY <1>1, <1>2, FreedAreCounted DEF CountInv, FreeCount
<1>4. FreeCount'
  <2>1. (blockfreespace + Cardinality(D)) % FreeModulus
          = blockfreespace + Cardinality(D)
    BY <1>3, ModulusAssumption, NBlocksAssumption
  <2>. QED  BY <1>2, <1>3, <2>1 DEF FreeCount
<1>5. StallsOnlyWhenFull'
  BY <1>2, <1>3 DEF CountInv, StallsOnlyWhenFull
<1>. QED  BY <1>4, <1>5 DEF CountInv

LEMMA ResetPartitionCounts ==
  ASSUME AllocTypeOK, Ownership, CountInv, ResetPartition
  PROVE  CountInv'
<1>1. PICK p \in Selector :
        LET freed == {i \in Live(p) : slot[p][i] # NULL} IN
        /\ size' = [b \in Block |-> IF \E i \in freed : slot[p][i] = b
                                      THEN -1 ELSE size[b]]
        /\ blockfreespace' = (blockfreespace + Cardinality(freed)) % FreeModulus
        /\ isbufferfull' = (isbufferfull /\ freed = {} /\ blockfreespace' = 0)
  BY DEF ResetPartition
<1> DEFINE D == {i \in Live(p) : slot[p][i] # NULL}
<1>2. /\ size' = [b \in Block |-> IF \E i \in D : slot[p][i] = b
                                    THEN -1 ELSE size[b]]
      /\ blockfreespace' = (blockfreespace + Cardinality(D)) % FreeModulus
      /\ isbufferfull' => isbufferfull /\ D = {}
      /\ D \in SUBSET Live(p)
  BY <1>1
<1>. HIDE DEF D
<1>3. /\ Cardinality(FreeBlocks') = blockfreespace + Cardinality(D)
      /\ Cardinality(FreeBlocks') \in 0..NBlocks
      /\ D = {} => FreeBlocks' = FreeBlocks
  BY <1>2, FreedAreCounted DEF CountInv, FreeCount
<1>4. FreeCount'
  <2>1. (blockfreespace + Cardinality(D)) % FreeModulus
          = blockfreespace + Cardinality(D)
    BY <1>3, ModulusAssumption, NBlocksAssumption
  <2>. QED  BY <1>2, <1>3, <2>1 DEF FreeCount
<1>5. StallsOnlyWhenFull'
  BY <1>2, <1>3 DEF CountInv, StallsOnlyWhenFull
<1>. QED  BY <1>4, <1>5 DEF CountInv

LEMMA CountStep ==
  ASSUME HostResetsAll = FALSE, IInv, CountInv, [Next]_vars
  PROVE  CountInv'
<1>0. AllocTypeOK /\ XferTypeOK /\ Ownership /\ TransferInRange
  BY TypeParts DEF IInv
<1>1. ASSUME UNCHANGED <<size, blockfreespace>>, isbufferfull' => isbufferfull \/ FreeBlocks = {}
      PROVE  CountInv'
  BY <1>1 DEF CountInv, FreeCount, StallsOnlyWhenFull, FreeBlocks
<1>2. CASE ReadFilteredSector
  <2>1. PICK p \in Selector :
          \/ \E bytes \in {getsectsize, Form2Size} : StoreSector(p, bytes)
          \/ DropSector(p)
    BY <1>2 DEF ReadFilteredSector
  <2>2. CASE DropSector(p)
    BY <1>1, <2>2 DEF DropSector
  <2>3. CASE \E bytes \in {getsectsize, Form2Size} : StoreSector(p, bytes)
    <3>1. PICK bytes \in AllSizes : StoreSector(p, bytes)
      BY <1>0, <2>3 DEF AllSizes, XferTypeOK
    <3>. QED  BY <1>0, <1>2, <3>1, TakenIsCounted
              DEF StoreSector, ReadFilteredSector
  <2>. QED  BY <2>1, <2>2, <2>3
<1>3. CASE ReadFileSystem
  <2>1. CASE UNCHANGED <<blockVars, partVars>>
    BY <1>1, <2>1 DEF blockVars
  <2>2. ASSUME ~isbufferfull, NEW p \in Selector,
               PushPop(p) \/ PushFails(p) \/ PushFindsNoBlock(p)
        PROVE  CountInv'
    <3>1. CASE PushPop(p)
      BY <1>1, <3>1 DEF PushPop
    <3>2. CASE PushFails(p)
      <4>1. getsectsize \in AllSizes
        BY <1>0 DEF AllSizes, XferTypeOK
      <4>. QED  BY <1>0, <2>2, <3>2, <4>1, TakenIsCounted DEF PushFails
    <3>3. CASE PushFindsNoBlock(p)
      BY <1>1, <3>3 DEF PushFindsNoBlock
    <3>. QED  BY <2>2, <3>1, <3>2, <3>3
  <2>. QED  BY <1>3, <2>1, <2>2 DEF ReadFileSystem
<1>4. CASE \/ SetCDDeviceConnection \/ SetSectorLength \/ InitializeCDSystem
           \/ GetSectorData \/ GetThenDeleteSectorData \/ AbortFile
           \/ Cs2RapidCopy \/ CopySector \/ UNCHANGED vars
  BY <1>1, <1>4 DEF SetCDDeviceConnection, SetSectorLength, InitializeCDSystem,
     GetSectorData, GetThenDeleteSectorData, OpenTransfer, AbortFile,
     Cs2RapidCopy, CopySector, vars, blockVars
<1>5. CASE hostxfer /\ datatranstype = 2 /\ FreeTransferred
  <2> DEFINE p == datatranspartition
  <2>1. /\ p \in Selector
        /\ datatranssectpos \in Slot
        /\ datasectstotrans \in 0..NBlocks
        /\ datatranssectpos + datasectstotrans <= numblocks[p]
    BY <1>0, <1>5 DEF XferTypeOK, TransferInRange
  <2>2. FreeRange(p, datatranssectpos, datasectstotrans)
    BY <1>5 DEF FreeTransferred
  <2>. HIDE DEF p
  <2>. QED  BY <1>0, <2>1, <2>2, FreeRangeCounts
<1>6. CASE Cs2ReadLong \/ EndRapidCopy \/ EndDataTransfer
  <2>1. CASE UNCHANGED blockVars
    BY <1>1, <2>1 DEF blockVars
  <2>2. hostxfer
    BY <1>6 DEF Cs2ReadLong, EndRapidCopy, EndDataTransfer, IInv, BurstOpen
  <2>. QED  BY <1>5, <1>6, <2>1, <2>2
            DEF Cs2ReadLong, EndRapidCopy, EndDataTransfer, DeleteRead
<1>7. CASE DeleteSectorData
  <2>1. PICK p \in Selector, pos \in Slot, n \in 0..NBlocks :
          pos + n <= numblocks[p] /\ FreeRange(p, pos, n)
    BY <1>7, NBlocksAssumption DEF SectorsThere, DeleteSectorData
  <2>. QED  BY <1>0, <2>1, FreeRangeCounts
<1>8. CASE ResetPartition
  BY <1>0, <1>8, ResetPartitionCounts
<1>9. CASE Cs2Reset
  <2>1. FreeBlocks' = Block
    BY <1>9 DEF Cs2Reset, ResetBuffers, FreeBlocks
  <2>2. Cardinality(Block) = NBlocks
    BY BlockSubsets
  <2>. QED  BY <1>9, <2>1, <2>2
            DEF Cs2Reset, CountInv, FreeCount, StallsOnlyWhenFull
<1>. QED  BY <1>2, <1>3, <1>4, <1>6, <1>7, <1>8, <1>9
          DEF Next, Drive, Host, Burst, ResetAllData

LEMMA CountInvariance == ASSUME HostResetsAll = FALSE PROVE Spec => []CountInv
<1>1. Init => CountInv
  <2>1. Init => FreeBlocks = Block /\ isbufferfull = FALSE /\ blockfreespace = NBlocks
    BY DEF Init, FreeBlocks
  <2>2. Cardinality(Block) = NBlocks
    BY BlockSubsets
  <2>. QED  BY <2>1, <2>2 DEF CountInv, FreeCount, StallsOnlyWhenFull
<1>2. IInv /\ CountInv /\ [Next]_vars => CountInv'
  BY CountStep
<1>. QED  BY <1>1, <1>2, Invariance, PTL DEF Spec

(* For a host that never resets all partitions at once, blockfreespace is the
   number of free blocks, so GetBufferSize tells the truth. *)
THEOREM FreeSpaceIsCounted == ASSUME HostResetsAll = FALSE PROVE Spec => []FreeCount
  BY CountInvariance, PTL DEF CountInv

(* For the same host, the drive stops reading on a full buffer only. *)
THEOREM DriveStallsWhenFull ==
  ASSUME HostResetsAll = FALSE PROVE Spec => []StallsOnlyWhenFull
  BY CountInvariance, PTL DEF CountInv
-----------------------------------------------------------------------------
(* The sizes of the partitions, while all sectors in the buffer have one length
   of w long words.  The host may change the length at any time; the theorems
   are about behaviours in which what is stored does not mix.  The invariant
   must count what an open transfer has read, since that is what its end takes
   off the size.  Length times number is a product of two parameters, and lemma
   Lengths holds all that is needed of it. *)

(* Sectors of one length add up to their number times that length. *)
LEMMA BytesOfOneLength ==
  ASSUME NEW p \in Selector, NEW S \in SUBSET Slot, NEW l \in Nat,
         \A i \in S : size[slot[p][i]] = l
  PROVE  Bytes(p, S) = l * Cardinality(S)
<1> DEFINE some(s) == CHOOSE x \in s : TRUE
           Sums(f) == f = [s \in SUBSET S |->
                             IF s = {} THEN 0
                             ELSE size[slot[p][some(s)]] + f[s \ {some(s)}]]
           g == [s \in SUBSET S |-> l * Cardinality(s)]
           sum == CHOOSE f : Sums(f)
<1>1. Bytes(p, S) = sum[S]
  BY DEF Bytes, FSX!MapThenSumSet, FSX!MapThenFoldSet
<1>2. ASSUME NEW s \in SUBSET S, s # {}
      PROVE  /\ some(s) \in s /\ s \ {some(s)} \in SUBSET S
             /\ size[slot[p][some(s)]] = l
             /\ l * Cardinality(s) = l + l * Cardinality(s \ {some(s)})
  <2>1. some(s) \in s
    BY <1>2
  <2>2. IsFiniteSet(s)
    BY BlockSubsets DEF Slot, Block
  <2>. HIDE DEF some
  <2>3. /\ Cardinality(s \ {some(s)}) = Cardinality(s) - 1
        /\ Cardinality(s \ {some(s)}) \in Nat /\ Cardinality(s) \in Nat
    BY <2>1, <2>2, FS_RemoveElement, FS_CardinalityType
  <2>4. l * Cardinality(s) = l + l * (Cardinality(s) - 1)
    BY <2>3
  <2>. QED  BY <2>1, <2>3, <2>4
<1>3. Sums(g)
  <2>1. ASSUME NEW s \in SUBSET S
        PROVE  l * Cardinality(s) = IF s = {} THEN 0
                 ELSE size[slot[p][some(s)]] + g[s \ {some(s)}]
    <3>1. CASE s = {}
      <4>1. Cardinality(s) = 0
        BY <3>1, FS_EmptySet
      <4>. QED  BY <3>1, <4>1
    <3>2. CASE s # {}
      <4>. HIDE DEF some
      <4>. QED  BY <1>2, <3>2
    <3>. QED  BY <3>1, <3>2
  <2>. HIDE DEF some
  <2>. QED  BY <2>1
<1>4. Sums(sum)
  <2>. HIDE DEF Sums, g
  <2>. QED  BY <1>3
<1>. HIDE DEF some, sum
<1>5. \A s \in SUBSET S : sum[s] = g[s]
  <2> DEFINE Bad == {s \in SUBSET S : sum[s] # g[s]}
  <2>1. SUFFICES ASSUME Bad # {} PROVE FALSE
    OBVIOUS
  <2>2. Bad \subseteq FiniteSubsetsOf(Slot)
    BY BlockSubsets DEF FiniteSubsetsOf, Slot, Block
  <2>3. PICK s \in Bad : \A t \in Bad : ~ (<<t, s>> \in StrictSubsetOrdering(Slot))
    BY <2>1, <2>2, FS_StrictSubsetOrderingWellFounded, WFMin
  <2>4. s # {}
    BY <1>3, <1>4
  <2>5. /\ some(s) \in s /\ s \ {some(s)} \in SUBSET S
        /\ s \ {some(s)} \notin Bad
    <3>1. some(s) \in s
      BY <1>2, <2>4
    <3>2. <<s \ {some(s)}, s>> \in StrictSubsetOrdering(Slot)
      BY <3>1 DEF StrictSubsetOrdering
    <3>. QED  BY <2>3, <3>1, <3>2
  <2>6. sum[s] = size[slot[p][some(s)]] + sum[s \ {some(s)}]
    BY <1>4, <2>4
  <2>7. g[s] = size[slot[p][some(s)]] + g[s \ {some(s)}]
    BY <1>3, <2>4
  <2>. QED  BY <2>3, <2>5, <2>6, <2>7
<1>. QED  BY <1>1, <1>5

(* What is stored has one length. *)
SectorsOf(w) == \A b \in Block : size[b] \in {-1, 4 * w}

(* A partition's size covers its sectors. *)
Covers(l, p) == \/ psize[p] >= l * numblocks[p]
                \/ psize[p] = -1 /\ numblocks[p] = 0

(* What an open transfer has counted is what it has read of whole sectors, and
   of the current one. *)
ReadSoFar(w) ==
  hostxfer /\ datatranstype # -1 =>
    /\ datasectstotrans >= 1
    /\ datanumsecttrans <= datasectstotrans
    /\ \E k \in 0..(w - 1) : /\ datatransoffset = 4 * k
                             /\ cdwnum = 4 * (w * datanumsecttrans + k)
                             /\ datanumsecttrans = datasectstotrans => k = 0

SizeInv(w) ==
  /\ psize \in [Selector -> Int]
  /\ \A p \in Selector : Covers(4 * w, p)
  /\ ReadSoFar(w)

LEMMA Lengths ==
  ASSUME NEW w \in Nat \ {0}, NEW n \in Nat, NEW m \in 0..n, NEW k \in 0..(w - 1)
  PROVE  /\ 4 * w \in Nat \ {0} /\ w * m \in Nat /\ (4 * w) * n \in Nat
         /\ m < n => 4 * (w * m + k) <= (4 * w) * n
         /\ 4 * (w * n + 0) = (4 * w) * n
         /\ w * (m + 1) = w * m + w
         /\ (4 * w) * (n - m) = (4 * w) * n - (4 * w) * m
         /\ (4 * w) * (n + 1) = (4 * w) * n + 4 * w
         /\ n >= 1 => (4 * w) * n >= 1
<1>1. w * m \in Nat /\ 4 * w \in Nat \ {0} /\ (4 * w) * n = 4 * (w * n)
      /\ w * n \in Nat
  BY SMT
<1>2. /\ w * (m + 1) = w * m + w
      /\ (4 * w) * (n - m) = (4 * w) * n - (4 * w) * m
      /\ (4 * w) * (n + 1) = (4 * w) * n + 4 * w
  BY SMT
<1>3. ASSUME m < n PROVE w * m + w <= w * n
  <2>1. n - m - 1 \in Nat
    BY <1>3
  <2>2. w * (n - m - 1) \in Nat
    BY <2>1
  <2>3. w * n = w * m + w + w * (n - m - 1)
    BY SMT
  <2>. QED  BY <1>1, <2>2, <2>3
<1>4. ASSUME n >= 1 PROVE w * n >= 1
  <2>1. w * (n - 1) \in Nat
    BY <1>4
  <2>2. w * n = w + w * (n - 1)
    BY SMT
  <2>. QED  BY <2>1, <2>2
<1>. QED  BY <1>1, <1>2, <1>3, <1>4

(* With sectors of w long words, what a live slot points to has that length. *)
LEMMA LiveSize ==
  ASSUME AllocTypeOK, Ownership, NEW w \in Nat, SectorsOf(w),
         NEW p \in Selector, NEW i \in Live(p)
  PROVE  size[slot[p][i]] = 4 * w
<1>1. slot[p][i] \in Block /\ size[slot[p][i]] # -1
  BY DEF AllocTypeOK, Ownership, Live
<1>. QED  BY <1>1 DEF SectorsOf

(* Long words read of one sector add four bytes each, and the last word of the
   sector completes it. *)
LEMMA WordsCount ==
  ASSUME NEW w \in Nat \ {0}, IInv, ReadSoFar(w), hostxfer, datatranstype # -1,
         datanumsecttrans < datasectstotrans, UNCHANGED datasectstotrans,
         NEW j \in Nat, datatransoffset + 4 * j <= 4 * w,
         cdwnum' = cdwnum + 4 * j,
         datatransoffset' = IF datatransoffset + 4 * j >= 4 * w
                              THEN 0 ELSE datatransoffset + 4 * j,
         datanumsecttrans' = IF datatransoffset + 4 * j >= 4 * w
                               THEN datanumsecttrans + 1 ELSE datanumsecttrans
  PROVE  /\ datanumsecttrans' \in Nat /\ datanumsecttrans' <= datasectstotrans
         /\ \E k \in 0..(w - 1) :
              /\ datatransoffset' = 4 * k
              /\ cdwnum' = 4 * (w * datanumsecttrans' + k)
              /\ datanumsecttrans' = datasectstotrans => k = 0
<1> DEFINE m == datanumsecttrans
<1>1. m \in Nat /\ datasectstotrans \in Nat
  BY NBlocksAssumption DEF IInv, TypeOK
<1>2. PICK k \in 0..(w - 1) : /\ datatransoffset = 4 * k
                              /\ cdwnum = 4 * (w * m + k)
  BY DEF ReadSoFar
<1>3. k + j <= w
  BY <1>2
<1>4. w * m \in Nat /\ w * (m + 1) = w * m + w
  BY <1>1, Lengths
<1>5. CASE k + j = w
  <2>1. datatransoffset' = 4 * 0 /\ datanumsecttrans' = m + 1
    BY <1>2, <1>5
  <2>2. cdwnum' = 4 * (w * m + k) + 4 * j
    BY <1>2
  <2>3. cdwnum' = 4 * (w * (m + 1) + 0)
    <3>1. PICK x \in Nat : x = w * m
      BY <1>4
    <3>2. cdwnum' = 4 * (x + k) + 4 * j
      BY <2>2, <3>1
    <3>3. cdwnum' = 4 * (x + w)
      BY <1>5, <3>2
    <3>. HIDE DEF m
    <3>. QED  BY <1>4, <3>1, <3>3
  <2>4. 0 \in 0..(w - 1) /\ m + 1 \in Nat /\ m + 1 <= datasectstotrans
    BY <1>1
  <2>. HIDE DEF m
  <2>. QED  BY <2>1, <2>3, <2>4
<1>6. CASE k + j < w
  <2>1. datatransoffset' = 4 * (k + j) /\ datanumsecttrans' = m
    BY <1>2, <1>6
  <2>2. cdwnum' = 4 * (w * m + k) + 4 * j /\ k + j \in 0..(w - 1)
    BY <1>2, <1>6
  <2>3. cdwnum' = 4 * (w * m + (k + j))
    BY <1>4, <2>2
  <2>. QED  BY <1>1, <2>1, <2>2, <2>3
<1>. QED  BY <1>3, <1>5, <1>6

LEMMA SectorWords ==
  ASSUME NEW w \in Nat \ {0}, IInv, SectorsOf(w), hostxfer, datatranstype # -1,
         datanumsecttrans < datasectstotrans
  PROVE  SectorSize(datanumsecttrans) = 4 * w
<1> DEFINE n == datanumsecttrans
<1>1. n \in Nat
  BY DEF IInv, TypeOK
<1>2. slot[datatranspartition][n] \in Block /\ SectorSize(n) \in Nat \ {0}
  <2>. HIDE DEF n
  <2>. QED  BY <1>1, SectorRead DEF n
<1>. QED  BY <1>2 DEF SectorsOf, SectorSize

LEMMA TakeWordCounts ==
  ASSUME NEW w \in Nat \ {0}, IInv, SectorsOf(w), ReadSoFar(w), hostxfer,
         datatranstype # -1, TakeWord, UNCHANGED datasectstotrans
  PROVE  /\ datanumsecttrans' \in Nat /\ datanumsecttrans' <= datasectstotrans
         /\ \E k \in 0..(w - 1) :
              /\ datatransoffset' = 4 * k
              /\ cdwnum' = 4 * (w * datanumsecttrans' + k)
              /\ datanumsecttrans' = datasectstotrans => k = 0
<1>1. datanumsecttrans < datasectstotrans
  BY DEF TakeWord
<1>2. SectorSize(datanumsecttrans) = 4 * w
  BY <1>1, SectorWords
<1>3. datatransoffset + 4 * 1 <= 4 * w
  <2>1. PICK k \in 0..(w - 1) : datatransoffset = 4 * k
    BY DEF ReadSoFar
  <2>. QED  BY <2>1
<1>4. /\ cdwnum' = cdwnum + 4 * 1
      /\ datatransoffset' = IF datatransoffset + 4 * 1 >= 4 * w
                              THEN 0 ELSE datatransoffset + 4 * 1
      /\ datanumsecttrans' = IF datatransoffset + 4 * 1 >= 4 * w
                               THEN datanumsecttrans + 1 ELSE datanumsecttrans
  BY <1>2 DEF TakeWord, AfterWord, Position
<1>. QED  BY <1>1, <1>3, <1>4, WordsCount

LEMMA CopySectorCounts ==
  ASSUME NEW w \in Nat \ {0}, IInv, SectorsOf(w), ReadSoFar(w), CopySector
  PROVE  /\ datanumsecttrans' \in Nat /\ datanumsecttrans' <= datasectstotrans
         /\ \E k \in 0..(w - 1) :
              /\ datatransoffset' = 4 * k
              /\ cdwnum' = 4 * (w * datanumsecttrans' + k)
              /\ datanumsecttrans' = datasectstotrans => k = 0
<1>1. /\ hostxfer /\ datatranstype # -1 /\ burst \in Nat
      /\ datatransoffset + Chunk <= SectorSize(datanumsecttrans)
  BY ChunkRead
<1>2. datanumsecttrans < datasectstotrans /\ UNCHANGED datasectstotrans
  BY DEF CopySector, CopyMore
<1>3. SectorSize(datanumsecttrans) = 4 * w
  BY <1>1, <1>2, SectorWords
<1>4. PICK k \in 0..(w - 1) : datatransoffset = 4 * k
  BY <1>1 DEF ReadSoFar
<1>5. PICK j \in Nat : Chunk = 4 * j
  <2>1. CASE Chunk = 4 * w - 4 * k
    <3>1. w - k \in Nat /\ Chunk = 4 * (w - k)
      BY <2>1
    <3>. QED  BY <3>1
  <2>2. CASE Chunk = burst * 4
    BY <1>1, <2>2
  <2>. QED  BY <1>3, <1>4, <2>1, <2>2 DEF Chunk
<1>6. /\ cdwnum' = cdwnum + 4 * j
      /\ datatransoffset + 4 * j <= 4 * w
      /\ datatransoffset' = IF datatransoffset + 4 * j >= 4 * w
                              THEN 0 ELSE datatransoffset + 4 * j
      /\ datanumsecttrans' = IF datatransoffset + 4 * j >= 4 * w
                               THEN datanumsecttrans + 1 ELSE datanumsecttrans
  BY <1>1, <1>3, <1>5 DEF CopySector
<1>. QED  BY <1>1, <1>2, <1>6, WordsCount

LEMMA ReadSoFarStep ==
  ASSUME NEW w \in Nat \ {0}, IInv, SectorsOf(w), ReadSoFar(w), [Next]_vars
  PROVE  ReadSoFar(w)'
<1>1. CASE UNCHANGED xferVars
  BY <1>1 DEF xferVars, ReadSoFar
<1>2. CASE GetSectorData \/ GetThenDeleteSectorData
  <2>1. PICK type \in {0, 2}, p \in Selector, pos \in Slot, n \in 1..NBlocks :
          OpenTransfer(type, p, pos, n)
    BY <1>2 DEF GetSectorData, GetThenDeleteSectorData
  <2>2. /\ datasectstotrans' = n /\ datanumsecttrans' = 0
        /\ datatransoffset' = 4 * 0 /\ cdwnum' = 0
    BY <2>1 DEF OpenTransfer
  <2>3. 4 * (w * 0 + 0) = 0 /\ 0 \in 0..(w - 1) /\ n >= 1 /\ 0 <= n
    OBVIOUS
  <2>. QED  BY <2>2, <2>3 DEF ReadSoFar
<1>3. CASE Cs2ReadLong \/ CopySector \/ EndRapidCopy
  <2>1. /\ hostxfer /\ datatranstype # -1
        /\ UNCHANGED <<datasectstotrans, hostxfer>>
    BY <1>3, ChunkRead DEF Cs2ReadLong, CopySector, EndRapidCopy, IInv, BurstOpen
  <2>2. CASE TakeWord \/ CopySector
    <3>1. /\ datanumsecttrans' <= datasectstotrans
          /\ \E k \in 0..(w - 1) :
               /\ datatransoffset' = 4 * k
               /\ cdwnum' = 4 * (w * datanumsecttrans' + k)
               /\ datanumsecttrans' = datasectstotrans => k = 0
      BY <2>1, <2>2, TakeWordCounts, CopySectorCounts
    <3>2. datasectstotrans >= 1
      BY <2>1 DEF ReadSoFar
    <3>. QED  BY <2>1, <3>1, <3>2 DEF ReadSoFar
  <2>3. CASE UNCHANGED <<cdwnum, datatransoffset, datanumsecttrans>>
    BY <2>1, <2>3 DEF ReadSoFar
  <2>. QED  BY <1>3, <2>2, <2>3 DEF Cs2ReadLong, EndRapidCopy
<1>4. CASE EndDataTransfer \/ AbortFile \/ Cs2Reset
  BY <1>4 DEF EndDataTransfer, AbortFile, Cs2Reset, ReadSoFar
<1>5. CASE DeleteSectorData
  BY <1>1, <1>5 DEF DeleteSectorData
<1>6. CASE ResetPartition
  BY <1>1, <1>6 DEF ResetPartition
<1>7. CASE ReadFilteredSector \/ ReadFileSystem
  BY <1>1, <1>7 DEF ReadFilteredSector, StoreSector, DropSector, ReadFileSystem
<1>8. CASE SetCDDeviceConnection \/ SetSectorLength \/ InitializeCDSystem
           \/ ResetAllData \/ Cs2RapidCopy \/ UNCHANGED vars
  BY <1>1, <1>8 DEF SetCDDeviceConnection, SetSectorLength, InitializeCDSystem,
                    ResetAllData, Cs2RapidCopy, vars
<1>. QED  BY <1>2, <1>3, <1>4, <1>5, <1>6, <1>7, <1>8
          DEF Next, Drive, Host, Burst

(* Deleting n sectors of a partition and as many bytes keeps it covered. *)
LEMMA DeletionCovers ==
  ASSUME NEW w \in Nat \ {0}, AllocTypeOK, Ownership,
         psize \in [Selector -> Int], \A q \in Selector : Covers(4 * w, q),
         NEW p \in Selector, NEW pos \in Slot, NEW n \in 1..NBlocks,
         NEW c \in Nat, c <= (4 * w) * n,
         pos + n <= numblocks[p], FreeRange(p, pos, n),
         psize' = [psize EXCEPT ![p] = psize[p] - c]
  PROVE  /\ psize' \in [Selector -> Int]
         /\ \A q \in Selector : Covers(4 * w, q)'
<1>1. n \in Nat /\ n \in 0..NBlocks /\ numblocks[p] \in Nat /\ n \in 0..numblocks[p]
  BY NBlocksAssumption DEF AllocTypeOK, Slot
<1>2. numblocks' = [numblocks EXCEPT ![p] = numblocks[p] - n]
  BY <1>1, FreeRangeMoves
<1>3. psize[p] >= (4 * w) * numblocks[p]
  <2>1. numblocks[p] # 0
    BY NBlocksAssumption DEF Slot
  <2>. QED  BY <2>1 DEF Covers
<1>4. /\ (4 * w) * (numblocks[p] - n) = (4 * w) * numblocks[p] - (4 * w) * n
      /\ (4 * w) * numblocks[p] \in Nat /\ (4 * w) * n \in Nat
  <2>1. 0 \in 0..(w - 1)
    OBVIOUS
  <2>2. 0 \in 0..n
    BY <1>1
  <2>. QED  BY <1>1, <2>1, <2>2, Lengths
<1>5. psize[p] - c >= (4 * w) * (numblocks[p] - n)
  BY <1>3, <1>4
<1>6. ASSUME NEW q \in Selector PROVE Covers(4 * w, q)'
  <2>1. CASE q = p
    <3>1. psize'[q] >= (4 * w) * numblocks'[q]
      BY <1>2, <1>5, <2>1 DEF AllocTypeOK
    <3>. QED  BY <3>1 DEF Covers
  <2>2. CASE q # p
    <3>1. psize'[q] = psize[q] /\ numblocks'[q] = numblocks[q]
      BY <1>2, <2>2 DEF AllocTypeOK
    <3>. QED  BY <3>1 DEF Covers
  <2>. QED  BY <2>1, <2>2
<1>. QED  BY <1>6

LEMMA RangeCounted ==
  ASSUME AllocTypeOK, NEW p \in Selector, NEW pos \in Slot, NEW n \in 1..NBlocks,
         pos + n <= numblocks[p]
  PROVE  /\ RangeOf(pos, n) \in SUBSET Live(p)
         /\ Cardinality(RangeOf(pos, n)) = n
<1>1. RangeOf(pos, n) = pos..(pos + n - 1)
  BY NBlocksAssumption DEF RangeOf, Slot, AllocTypeOK
<1>2. Cardinality(pos..(pos + n - 1)) = n
  BY NBlocksAssumption, FS_Interval DEF Slot
<1>3. RangeOf(pos, n) \subseteq Live(p)
  BY NBlocksAssumption DEF RangeOf, Slot, Live, AllocTypeOK
<1>. QED  BY <1>1, <1>2, <1>3

(* m whole sectors of n, and k words of the next one, are at most the bytes of
   the n sectors. *)
LEMMA CountedBytes ==
  ASSUME NEW w \in Nat \ {0}, NEW n \in 1..NBlocks, NEW m \in 0..n,
         NEW k \in 0..(w - 1), m = n => k = 0
  PROVE  /\ 4 * (w * m + k) \in Nat
         /\ 4 * (w * m + k) <= (4 * w) * n
<1>1. n \in Nat /\ w * m \in Nat
  BY NBlocksAssumption, Lengths
<1>2. CASE m < n
  BY <1>1, <1>2, Lengths
<1>3. CASE m = n
  <2>1. 4 * (w * n + 0) = (4 * w) * n /\ (4 * w) * n \in Nat
    BY <1>1, Lengths
  <2>. QED  BY <1>1, <1>3, <2>1
<1>. QED  BY <1>1, <1>2, <1>3

(* The same, as a property of the variables. *)
LEMMA WordsRead ==
  ASSUME NEW w \in Nat \ {0}, TypeOK, ReadSoFar(w), hostxfer, datatranstype # -1
  PROVE  /\ datanumsecttrans \in 0..datasectstotrans
         /\ \E k \in 0..(w - 1) :
              /\ cdwnum = 4 * (w * datanumsecttrans + k)
              /\ datanumsecttrans = datasectstotrans => k = 0
<1>1. datanumsecttrans \in Nat /\ datasectstotrans \in 0..NBlocks
  BY DEF TypeOK
<1>2. datanumsecttrans \in 0..datasectstotrans
  BY <1>1, NBlocksAssumption DEF ReadSoFar
<1>. QED  BY <1>2 DEF ReadSoFar

LEMMA CoversStep ==
  ASSUME NEW w \in Nat \ {0}, IInv, SectorsOf(w), SectorsOf(w)', SizeInv(w),
         [Next]_vars
  PROVE  psize' \in [Selector -> Int] /\ \A q \in Selector : Covers(4 * w, q)'
<1>0. /\ AllocTypeOK /\ Ownership
      /\ psize \in [Selector -> Int] /\ \A q \in Selector : Covers(4 * w, q)
      /\ numblocks \in [Selector -> 0..NBlocks]
  BY TypeParts DEF IInv, SizeInv, AllocTypeOK
<1>1. CASE UNCHANGED <<numblocks, psize>>
  BY <1>0, <1>1 DEF Covers
<1>2. CASE ReadFilteredSector
  <2>1. PICK p \in Selector :
          \/ \E bytes \in {getsectsize, Form2Size} : StoreSector(p, bytes)
          \/ DropSector(p)
    BY <1>2 DEF ReadFilteredSector
  <2>2. CASE DropSector(p)
    BY <1>1, <2>2 DEF DropSector
  <2>3. CASE \E bytes \in {getsectsize, Form2Size} : StoreSector(p, bytes)
    <3>1. PICK bytes \in AllSizes : StoreSector(p, bytes)
      BY <2>3 DEF AllSizes, IInv, TypeOK
    <3>2. numblocks' = [numblocks EXCEPT ![p] = numblocks[p] + 1]
      BY <1>0, <3>1, StoreSectorKeeps
    <3>3. bytes = 4 * w
      <4>1. FirstFree \in Block /\ bytes # -1
        BY <3>1, FirstFreeIsFree, SizesAssumption DEF StoreSector, FreeBlocks, AllSizes
      <4>2. size'[FirstFree] = bytes
        BY <1>0, <3>1, <4>1 DEF StoreSector, AllocTypeOK
      <4>. QED  BY <4>1, <4>2 DEF SectorsOf
    <3>4. psize' = [psize EXCEPT ![p] = NonReset(psize[p]) + 4 * w]
      BY <3>1, <3>3 DEF StoreSector
    <3>5. NonReset(psize[p]) \in Int /\ NonReset(psize[p]) >= (4 * w) * numblocks[p]
      <4>1. CASE psize[p] = -1 /\ numblocks[p] = 0
        BY <4>1 DEF NonReset
      <4>2. CASE psize[p] >= (4 * w) * numblocks[p]
        <5>1. (4 * w) * numblocks[p] \in Nat
          <6>1. numblocks[p] \in Nat
            BY <1>0
          <6>. QED  BY <6>1
        <5>. QED  BY <1>0, <4>2, <5>1 DEF NonReset
      <4>. QED  BY <1>0, <4>1, <4>2 DEF Covers
    <3>6. (4 * w) * (numblocks[p] + 1) = (4 * w) * numblocks[p] + 4 * w
      <4>1. numblocks[p] \in Nat
        BY <1>0
      <4>. QED  BY <4>1
    <3>7. ASSUME NEW q \in Selector PROVE Covers(4 * w, q)'
      <4>1. CASE q = p
        <5>1. psize'[q] = NonReset(psize[p]) + 4 * w /\ numblocks'[q] = numblocks[p] + 1
          BY <1>0, <3>2, <3>4, <4>1
        <5>2. (4 * w) * numblocks[p] \in Int
          BY <1>0
        <5>3. psize'[q] >= (4 * w) * numblocks'[q]
          BY <3>5, <3>6, <5>1, <5>2
        <5>. QED  BY <5>3 DEF Covers
      <4>2. CASE q # p
        <5>1. psize'[q] = psize[q] /\ numblocks'[q] = numblocks[q]
          BY <1>0, <3>2, <3>4, <4>2
        <5>. QED  BY <1>0, <5>1 DEF Covers
      <4>. QED  BY <4>1, <4>2
    <3>8. psize' \in [Selector -> Int]
      <4>1. NonReset(psize[p]) + 4 * w \in Int
        BY <3>5
      <4>. QED  BY <1>0, <3>4, <4>1
    <3>. QED  BY <3>7, <3>8
  <2>. QED  BY <2>1, <2>2, <2>3
<1>3. CASE ReadFileSystem
  <2>1. numblocks' = numblocks
    BY <1>0, <1>3, ReadFileSystemKeeps DEF IInv, TypeOK
  <2>2. PICK p \in Selector :
          \/ psize' = psize
          \/ psize' = [psize EXCEPT ![p] = NonReset(psize[p])]
    BY <1>3 DEF ReadFileSystem, PushPop, PushFails, PushFindsNoBlock, partVars
  <2>3. CASE psize' = [psize EXCEPT ![p] = NonReset(psize[p])]
    <3>1. NonReset(psize[p]) \in Int /\ (psize[p] # -1 => NonReset(psize[p]) = psize[p])
      BY <1>0 DEF NonReset
    <3>2. ASSUME NEW q \in Selector PROVE Covers(4 * w, q)'
      <4>1. CASE q = p /\ psize[p] = -1 /\ numblocks[p] = 0
        BY <1>0, <2>1, <2>3, <4>1 DEF NonReset, Covers
      <4>2. CASE q = p /\ psize[p] >= (4 * w) * numblocks[p]
        <5>1. (4 * w) * numblocks[p] \in Nat
          <6>1. numblocks[p] \in Nat
            BY <1>0
          <6>. QED  BY <6>1
        <5>2. psize'[q] = psize[p]
          BY <1>0, <2>3, <4>2, <5>1 DEF NonReset
        <5>. QED  BY <2>1, <4>2, <5>2 DEF Covers
      <4>3. CASE q # p
        BY <1>0, <2>1, <2>3, <4>3 DEF Covers
      <4>. QED  BY <1>0, <4>1, <4>2, <4>3 DEF Covers
    <3>. QED  BY <1>0, <2>3, <3>1, <3>2
  <2>. QED  BY <1>1, <2>1, <2>2, <2>3
<1>4. ASSUME hostxfer, datatranstype = 2, FreeTransferred,
             NEW m \in 0..datasectstotrans, NEW k \in 0..(w - 1),
             NEW c \in {4 * (w * m + k)}, m = datasectstotrans => k = 0,
             psize' = [psize EXCEPT ![datatranspartition] = @ - c]
      PROVE  psize' \in [Selector -> Int] /\ \A q \in Selector : Covers(4 * w, q)'
  <2>1. PICK p \in Selector : p = datatranspartition
    BY <1>4 DEF IInv, TransferInRange
  <2>2. /\ datatranssectpos \in Slot /\ datasectstotrans \in 1..NBlocks
        /\ datatranssectpos + datasectstotrans <= numblocks[p]
        /\ FreeRange(p, datatranssectpos, datasectstotrans)
        /\ psize' = [psize EXCEPT ![p] = psize[p] - c]
    BY <1>4, <2>1, NBlocksAssumption
       DEF IInv, TypeOK, TransferInRange, FreeTransferred, SizeInv, ReadSoFar
  <2>3. c \in Nat /\ c <= (4 * w) * datasectstotrans
    BY <1>4, <2>2, CountedBytes
  <2>. QED  BY <1>0, <2>2, <2>3, DeletionCovers
<1>5. CASE Cs2ReadLong \/ EndRapidCopy
  <2>1. hostxfer /\ datatranstype # -1
    BY <1>5 DEF Cs2ReadLong, EndRapidCopy, IInv, BurstOpen
  <2>2. CASE UNCHANGED partVars
    BY <1>1, <2>2 DEF partVars
  <2>3. CASE DeleteRead /\ datatranstype = 2 /\ UNCHANGED cdwnum
    <3>1. /\ datanumsecttrans \in 0..datasectstotrans
          /\ \E k \in 0..(w - 1) :
               /\ cdwnum = 4 * (w * datanumsecttrans + k)
               /\ datanumsecttrans = datasectstotrans => k = 0
      BY <2>1, WordsRead DEF SizeInv, IInv
    <3>2. PICK m \in 0..datasectstotrans, k \in 0..(w - 1) :
            /\ cdwnum' = 4 * (w * m + k)
            /\ m = datasectstotrans => k = 0
      BY <2>3, <3>1
    <3>. QED  BY <1>4, <2>1, <2>3, <3>2 DEF DeleteRead
  <2>. QED  BY <1>5, <2>2, <2>3 DEF Cs2ReadLong, EndRapidCopy
<1>6. CASE EndDataTransfer
  <2>1. CASE UNCHANGED partVars
    BY <1>1, <2>1 DEF partVars
  <2>2. CASE /\ hostxfer /\ datatranstype = 2 /\ FreeTransferred
             /\ psize' = [psize EXCEPT ![datatranspartition] = @ - cdwnum]
    <3>1. PICK m \in 0..datasectstotrans, k \in 0..(w - 1) :
            /\ cdwnum = 4 * (w * m + k)
            /\ m = datasectstotrans => k = 0
      <4>1. /\ datanumsecttrans \in 0..datasectstotrans
            /\ \E k \in 0..(w - 1) :
                 /\ cdwnum = 4 * (w * datanumsecttrans + k)
                 /\ datanumsecttrans = datasectstotrans => k = 0
        BY <2>2, WordsRead DEF SizeInv, IInv
      <4>. QED  BY <4>1
    <3>. QED  BY <1>4, <2>2, <3>1
  <2>. QED  BY <1>6, <2>1, <2>2 DEF EndDataTransfer
<1>7. CASE DeleteSectorData
  <2>1. PICK p \in Selector, pos \in Slot, n \in 1..NBlocks :
          /\ pos + n <= numblocks[p]
          /\ FreeRange(p, pos, n)
          /\ psize' = [psize EXCEPT ![p] = @ - Bytes(p, RangeOf(pos, n))]
    BY <1>7 DEF SectorsThere, DeleteSectorData
  <2>2. RangeOf(pos, n) \in SUBSET Live(p) /\ Cardinality(RangeOf(pos, n)) = n
    BY <1>0, <2>1, RangeCounted
  <2>3. Bytes(p, RangeOf(pos, n)) = (4 * w) * n
    <3>1. RangeOf(pos, n) \in SUBSET Slot
      BY <2>2 DEF Live
    <3>2. \A i \in RangeOf(pos, n) : size[slot[p][i]] = 4 * w
      BY <1>0, <2>2, LiveSize
    <3>3. 4 * w \in Nat
      OBVIOUS
    <3>. QED  BY <2>2, <3>1, <3>2, <3>3, BytesOfOneLength
  <2>4. PICK c \in Nat : c = (4 * w) * n /\ c <= (4 * w) * n
    <3>1. n \in Nat
      BY NBlocksAssumption
    <3>2. (4 * w) * n \in Nat
      BY <3>1
    <3>. QED  BY <3>2
  <2>5. psize' = [psize EXCEPT ![p] = psize[p] - c]
    BY <2>1, <2>3, <2>4
  <2>. QED  BY <1>0, <2>1, <2>4, <2>5, DeletionCovers
<1>8. CASE ResetPartition
  <2>1. PICK p \in Selector : /\ numblocks' = [numblocks EXCEPT ![p] = 0]
                              /\ psize' = [psize EXCEPT ![p] = -1]
    BY <1>8 DEF ResetPartition
  <2>. QED  BY <1>0, <2>1 DEF Covers
<1>9. CASE ResetAllData \/ Cs2Reset
  BY <1>9 DEF ResetAllData, Cs2Reset, ResetBuffers, Covers
<1>10. CASE SetCDDeviceConnection \/ SetSectorLength \/ InitializeCDSystem
            \/ GetSectorData \/ GetThenDeleteSectorData \/ AbortFile
            \/ Cs2RapidCopy \/ CopySector \/ UNCHANGED vars
  BY <1>1, <1>10 DEF SetCDDeviceConnection, SetSectorLength, InitializeCDSystem,
     GetSectorData, GetThenDeleteSectorData, OpenTransfer, AbortFile,
     Cs2RapidCopy, CopySector, vars, partVars
<1>. QED  BY <1>2, <1>3, <1>5, <1>6, <1>7, <1>8, <1>9, <1>10
          DEF Next, Drive, Host, Burst

LEMMA SizeStep ==
  ASSUME NEW w \in Nat \ {0}
  PROVE  IInv /\ SectorsOf(w) /\ SectorsOf(w)' /\ SizeInv(w) /\ [Next]_vars
           => SizeInv(w)'
  BY CoversStep, ReadSoFarStep DEF SizeInv

LEMMA SizeInvariance ==
  ASSUME NEW w \in Nat \ {0}
  PROVE  Spec /\ []SectorsOf(w) => []SizeInv(w)
<1>1. Init => SizeInv(w)
  BY DEF Init, SizeInv, Covers, ReadSoFar
<1>. QED  BY <1>1, SizeStep, Invariance, PTL DEF Spec

(* As long as all sectors in the buffer have one length, a partition's size
   covers what it holds, although ends of transfers and failing directory
   sectors leave bytes in it. *)
THEOREM SizeCovers ==
  ASSUME NEW w \in Nat \ {0}
  PROVE  Spec /\ []SectorsOf(w) => []SizeCoversBlocks
<1>1. IInv /\ SectorsOf(w) /\ SizeInv(w) => SizeCoversBlocks
  <2>1. SUFFICES ASSUME IInv, SectorsOf(w), SizeInv(w), NEW p \in Selector,
                        numblocks[p] > 0
                 PROVE  psize[p] >= Bytes(p, Live(p))
    BY DEF SizeCoversBlocks
  <2>2. AllocTypeOK /\ Ownership /\ numblocks[p] \in 1..NBlocks
    BY <2>1, TypeParts DEF IInv, AllocTypeOK
  <2>3. Live(p) \in SUBSET Slot /\ Cardinality(Live(p)) = numblocks[p]
    <3>1. Live(p) = 0..(numblocks[p] - 1)
      BY <2>2, NBlocksAssumption DEF Live, Slot
    <3>2. numblocks[p] \in Nat
      BY <2>2
    <3>3. Cardinality(0..(numblocks[p] - 1)) = numblocks[p]
      BY <3>2, InitialSegment
    <3>. QED  BY <3>1, <3>3 DEF Live
  <2>4. Bytes(p, Live(p)) = (4 * w) * numblocks[p]
    <3>1. \A i \in Live(p) : size[slot[p][i]] = 4 * w
      BY <2>1, <2>2, LiveSize
    <3>. QED  BY <2>3, <3>1, BytesOfOneLength
  <2>. QED  BY <2>1, <2>2, <2>4 DEF SizeInv, Covers
<1>. QED  BY <1>1, SizeInvariance, Invariance, PTL

(* Under the same condition the end of a get-then-delete transfer frees as many
   blocks as the host asked for, however many words it has read. *)
THEOREM EndDeletesAll ==
  ASSUME NEW w \in Nat \ {0}
  PROVE  Spec /\ []SectorsOf(w) => EndDeletesRequested
<1>1. IInv /\ SizeInv(w) /\ [Next]_vars =>
        [EndDataTransfer /\ datatranstype = 2 =>
           /\ Cardinality(FreeBlocks') = Cardinality(FreeBlocks) + datasectstotrans
           /\ datatranstype' = -1]_vars
  <2>1. SUFFICES ASSUME IInv, SizeInv(w), EndDataTransfer, datatranstype = 2
                 PROVE  /\ Cardinality(FreeBlocks')
                              = Cardinality(FreeBlocks) + datasectstotrans
                        /\ datatranstype' = -1
    OBVIOUS
  <2>2. hostxfer /\ datatranstype # -1
    BY <2>1 DEF EndDataTransfer
  <2>3. PICK p \in Selector : p = datatranspartition
    BY <2>1, <2>2 DEF IInv, TransferInRange
  <2>4. /\ AllocTypeOK /\ Ownership
        /\ datatranssectpos \in Slot /\ datasectstotrans \in 1..NBlocks
        /\ datatranssectpos + datasectstotrans <= numblocks[p]
    BY <2>1, <2>2, <2>3, TypeParts, NBlocksAssumption
       DEF IInv, TypeOK, TransferInRange, SizeInv, ReadSoFar
  <2>5. psize[p] > 0
    <3>1. numblocks[p] \in Nat /\ numblocks[p] >= 1
      BY <2>4, NBlocksAssumption DEF AllocTypeOK, Slot
    <3>2. (4 * w) * numblocks[p] >= 1
      <4>1. 0 \in 0..(w - 1) /\ 0 \in 0..numblocks[p]
        BY <3>1
      <4>. QED  BY <3>1, <4>1, Lengths
    <3>3. psize[p] >= (4 * w) * numblocks[p] /\ psize[p] \in Int
      BY <2>1, <3>1 DEF SizeInv, Covers
    <3>4. (4 * w) * numblocks[p] \in Int
      BY <3>1
    <3>. QED  BY <3>2, <3>3, <3>4
  <2>6. FreeTransferred
    BY <2>1, <2>3, <2>5 DEF EndDataTransfer
  <2> DEFINE R == RangeOf(datatranssectpos, datasectstotrans)
             D == {i \in R : slot[p][i] # NULL}
  <2>7. R \in SUBSET Live(p) /\ Cardinality(R) = datasectstotrans
    BY <2>4, RangeCounted
  <2>8. D = R
    BY <2>4, <2>7 DEF Ownership
  <2>9. size' = [b \in Block |-> IF \E i \in D : slot[p][i] = b
                                   THEN -1 ELSE size[b]]
    BY <2>3, <2>6 DEF FreeTransferred, FreeRange
  <2>. HIDE DEF R, D
  <2>10. Cardinality(FreeBlocks') = Cardinality(FreeBlocks) + Cardinality(R)
    BY <2>4, <2>7, <2>8, <2>9, FreedAreCounted
  <2>. QED  BY <2>6, <2>7, <2>10 DEF FreeTransferred
<1>. QED  BY <1>1, SizeInvariance, Invariance, PTL DEF Spec, EndDeletesRequested
=============================================================================
