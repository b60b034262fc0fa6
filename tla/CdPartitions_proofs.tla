------------------------ MODULE CdPartitions_proofs -------------------------
(***************************************************************************)
(* The sector buffer implements the queues of module CdPartitions, for any *)
(* number of blocks and partitions, and what follows from it for the       *)
(* sectors themselves: they keep their order, and none is lost.            *)
(***************************************************************************)
EXTENDS CdBuffer_proofs, SequenceTheorems

-----------------------------------------------------------------------------
(* Facts about the queues                                                  *)

(* An array's first n entries as a sequence. *)
LEMMA FirstEntries ==
  ASSUME NEW n \in Nat, NEW f, \A i \in 0..(n - 1) : f[i] \in Block
  PROVE  /\ [k \in 1..n |-> f[k - 1]] \in Seq(Block)
         /\ Len([k \in 1..n |-> f[k - 1]]) = n
         /\ \A k \in 1..n : [j \in 1..n |-> f[j - 1]][k] = f[k - 1]
<1>1. \A k \in 1..n : k - 1 \in 0..(n - 1)
  OBVIOUS
<1>. QED  BY <1>1

LEMMA WithoutEntries ==
  ASSUME NEW s \in Seq(Block), NEW pos \in 0..Len(s), NEW n \in 0..(Len(s) - pos)
  PROVE  /\ Queues!Without(s, pos, n) \in Seq(Block)
         /\ Len(Queues!Without(s, pos, n)) = Len(s) - n
         /\ \A k \in 1..(Len(s) - n) :
              Queues!Without(s, pos, n)[k] = IF k <= pos THEN s[k] ELSE s[k + n]
<1> DEFINE m == Len(s)
           a == SubSeq(s, 1, pos)
           b == SubSeq(s, pos + n + 1, m)
<1>1. m \in Nat /\ \A i \in 1..m : s[i] \in Block
  OBVIOUS
<1>2. a \in Seq(Block) /\ Len(a) = pos /\ \A i \in 1..pos : a[i] = s[i]
  <2>1. \A i \in 1..pos : s[i] \in Block
    BY <1>1
  <2>. QED  BY <1>1, <2>1, SubSeqProperties
<1>3. /\ b \in Seq(Block) /\ Len(b) = m - n - pos
      /\ \A i \in 1..(m - n - pos) : b[i] = s[pos + n + i]
  <2>1. \A i \in (pos + n + 1)..m : s[i] \in Block
    BY <1>1
  <2>2. /\ b \in Seq(Block)
        /\ Len(b) = IF pos + n + 1 <= m THEN m - (pos + n + 1) + 1 ELSE 0
        /\ \A i \in 1..(m - (pos + n + 1) + 1) : b[i] = s[(pos + n + 1) + i - 1]
    <3>. HIDE DEF m
    <3>. QED  BY <1>1, <2>1, SubSeqProperties
  <2>. QED  BY <1>1, <2>2
<1>4. /\ a \o b \in Seq(Block) /\ Len(a \o b) = m - n
      /\ \A k \in 1..(m - n) :
           (a \o b)[k] = IF k <= pos THEN a[k] ELSE b[k - pos]
  <2>. HIDE DEF a, b, m
  <2>1. /\ a \o b \in Seq(Block) /\ Len(a \o b) = Len(a) + Len(b)
        /\ \A k \in 1..(Len(a) + Len(b)) :
             (a \o b)[k] = IF k <= Len(a) THEN a[k] ELSE b[k - Len(a)]
    BY <1>2, <1>3, ConcatProperties
  <2>2. Len(a) = pos /\ Len(a) + Len(b) = m - n
    BY <1>1, <1>2, <1>3
  <2>. QED  BY <2>1, <2>2
<1>5. \A k \in 1..(m - n) : (a \o b)[k] = IF k <= pos THEN s[k] ELSE s[k + n]
  <2>. HIDE DEF a, b, m
  <2>. QED  BY <1>1, <1>2, <1>3, <1>4
<1>6. Queues!Without(s, pos, n) = a \o b
  BY DEF Queues!Without
<1>. HIDE DEF a, b
<1>. QED  BY <1>4, <1>5, <1>6

LEMMA QueueType ==
  ASSUME AllocTypeOK, Ownership, NEW p \in Selector
  PROVE  /\ numblocks[p] \in Nat
         /\ Queue(p) \in Seq(Block)
         /\ Len(Queue(p)) = numblocks[p]
         /\ \A k \in 1..numblocks[p] : Queue(p)[k] = slot[p][k - 1]
<1>1. numblocks[p] \in Nat
  BY NBlocksAssumption DEF AllocTypeOK
<1>2. \A i \in 0..(numblocks[p] - 1) : i \in Live(p)
  BY <1>1, NBlocksAssumption DEF AllocTypeOK, Live, Slot
<1>3. \A i \in 0..(numblocks[p] - 1) : slot[p][i] \in Block
  BY <1>2 DEF AllocTypeOK, Ownership, Live
<1>. QED  BY <1>1, <1>3, FirstEntries DEF Queue

(* The same of the next state. *)
LEMMA QueueTypeNext ==
  ASSUME AllocTypeOK', Ownership', NEW p \in Selector
  PROVE  /\ Queue(p)' \in Seq(Block)
         /\ Len(Queue(p)') = numblocks'[p]
         /\ \A k \in 1..numblocks'[p] : Queue(p)'[k] = slot'[p][k - 1]
<1>1. numblocks'[p] \in Nat
  BY NBlocksAssumption DEF AllocTypeOK
<1>2. \A i \in 0..(numblocks'[p] - 1) : i \in Live(p)'
  BY <1>1, NBlocksAssumption DEF AllocTypeOK, Live, Slot
<1>3. \A i \in 0..(numblocks'[p] - 1) : slot'[p][i] \in Block
  BY <1>2 DEF AllocTypeOK, Ownership, Live
<1>. QED  BY <1>1, <1>3, FirstEntries DEF Queue

(* A queue is determined by its length and the live slots. *)
LEMMA QueueSame ==
  ASSUME NEW p \in Selector, numblocks'[p] = numblocks[p], AllocTypeOK,
         \A i \in Live(p) : slot'[p][i] = slot[p][i]
  PROVE  Queue(p)' = Queue(p)
<1>1. \A k \in 1..numblocks[p] : k - 1 \in Live(p)
  BY NBlocksAssumption DEF AllocTypeOK, Live, Slot
<1>. QED  BY <1>1 DEF Queue

-----------------------------------------------------------------------------
(* The actions, one by one                                                 *)

Taken == {b \in Block : size[b] # -1}

(* Steps that keep the live slots and the sizes do not show. *)
LEMMA QueuesHidden ==
  ASSUME AllocTypeOK, UNCHANGED <<size, numblocks>>,
         \A q \in Selector : \A i \in Live(q) : slot'[q][i] = slot[q][i]
  PROVE  UNCHANGED Queues!vars
<1>1. \A q \in Selector : Queue(q)' = Queue(q)
  BY QueueSame
<1>. QED  BY <1>1 DEF Queues!vars

(* The drive appends a sector. *)
LEMMA StoreSectorAdds ==
  ASSUME AllocTypeOK, Ownership, NEW p \in Selector, NEW bytes \in AllSizes,
         StoreSector(p, bytes)
  PROVE  Queues!Add(p)
<1>1. /\ FirstFree \in Block /\ size[FirstFree] = -1 /\ numblocks[p] \in Slot
      /\ AllocTypeOK' /\ Ownership'
      /\ numblocks' = [numblocks EXCEPT ![p] = numblocks[p] + 1]
  BY RoomWhenFree, StoreSectorKeeps DEF StoreSector
<1>2. slot' = [slot EXCEPT ![p] = [i \in Slot |->
                  IF i = numblocks[p] THEN FirstFree ELSE slot[p][i]]]
  BY DEF StoreSector, StoreAtEnd
<1>3. Taken' = Taken \union {FirstFree}
  <2>1. size' = [size EXCEPT ![FirstFree] = bytes] /\ bytes # -1
    BY SizesAssumption DEF StoreSector, AllSizes
  <2>. QED  BY <1>1, <2>1 DEF Taken, AllocTypeOK
<1>4. \A q \in Selector : q # p => Queue(q)' = Queue(q)
  BY <1>1, <1>2 DEF Queue, AllocTypeOK
<1>5. Queue(p)' = Append(Queue(p), FirstFree)
  <2> DEFINE n == numblocks[p]
             s == Queue(p)
             t == Queue(p)'
  <2>1. n \in Nat /\ numblocks'[p] = n + 1
    BY <1>1, NBlocksAssumption DEF AllocTypeOK, Slot
  <2>2. \A k \in 1..n : slot'[p][k - 1] = slot[p][k - 1]
    <3>1. \A k \in 1..n : k - 1 \in Slot /\ k - 1 # n
      BY <1>1, <2>1, NBlocksAssumption DEF Slot
    <3>. QED  BY <1>2, <3>1 DEF AllocTypeOK
  <2>3. slot'[p][n] = FirstFree
    BY <1>1, <1>2 DEF AllocTypeOK
  <2>4. /\ s \in Seq(Block) /\ Len(s) = n
        /\ \A k \in 1..n : s[k] = slot[p][k - 1]
    BY QueueType
  <2>5. /\ t \in Seq(Block) /\ Len(t) = n + 1
        /\ \A k \in 1..(n + 1) : t[k] = slot'[p][k - 1]
    BY <1>1, <2>1, QueueTypeNext
  <2>6. /\ Append(s, FirstFree) \in Seq(Block)
        /\ Len(Append(s, FirstFree)) = n + 1
        /\ \A k \in 1..n : Append(s, FirstFree)[k] = s[k]
        /\ Append(s, FirstFree)[n + 1] = FirstFree
    BY <1>1, <2>4, AppendProperties
  <2>. HIDE DEF n, s, t
  <2>7. \A k \in 1..Len(t) : t[k] = Append(s, FirstFree)[k]
    <3>1. ASSUME NEW k \in 1..Len(t), k # n + 1
          PROVE  t[k] = Append(s, FirstFree)[k]
      <4>1. k \in 1..n /\ k \in 1..(n + 1)
        BY <2>1, <2>5, <3>1
      <4>. QED  BY <4>1, <2>2, <2>4, <2>5, <2>6 DEF n
    <3>2. t[n + 1] = Append(s, FirstFree)[n + 1]
      BY <2>1, <2>3, <2>5, <2>6 DEF n
    <3>. QED  BY <3>1, <3>2
  <2>8. t = Append(s, FirstFree)
    BY <2>5, <2>6, <2>7, SeqEqual
  <2>. QED  BY <2>8 DEF s, t
<1>6. [q \in Selector |-> Queue(q)]' =
        [[q \in Selector |-> Queue(q)] EXCEPT
           ![p] = Append([q \in Selector |-> Queue(q)][p], FirstFree)]
  BY <1>4, <1>5
<1>. QED  BY <1>1, <1>3, <1>6 DEF Queues!Add, Taken

(* A range of sectors is deleted. *)
LEMMA FreeRangeRemoves ==
  ASSUME AllocTypeOK, Ownership,
         NEW p \in Selector, NEW pos \in Slot, NEW n \in 0..NBlocks,
         pos + n <= numblocks[p], FreeRange(p, pos, n)
  PROVE  Queues!Remove(p)
<1> DEFINE m == numblocks[p]
           s == Queue(p)
           t == Queue(p)'
           w == Queues!Without(s, pos, n)
<1>1. /\ AllocTypeOK' /\ Ownership'
      /\ numblocks' = [numblocks EXCEPT ![p] = m - n]
  BY FreeRangeKeeps
<1>2. /\ m - n \in 0..NBlocks
      /\ \A q \in Selector : q # p => slot'[q] = slot[q]
      /\ \A k \in Slot : k < m - n =>
           slot'[p][k] = slot[p][Shift(k, pos, pos + n)]
  BY FreeRangeMoves
<1>3. m \in 0..NBlocks /\ pos \in Nat /\ n \in Nat /\ numblocks'[p] = m - n
  BY <1>1, NBlocksAssumption DEF AllocTypeOK, Slot
<1>4. /\ s \in Seq(Block) /\ Len(s) = m
      /\ \A k \in 1..m : s[k] = slot[p][k - 1]
  BY QueueType
<1>5. /\ t \in Seq(Block) /\ Len(t) = m - n
      /\ \A k \in 1..(m - n) : t[k] = slot'[p][k - 1]
  BY <1>1, <1>3, QueueTypeNext
<1>6. pos \in 0..Len(s) /\ n \in 0..(Len(s) - pos)
  BY <1>3, <1>4
<1>7. /\ w \in Seq(Block) /\ Len(w) = m - n
      /\ \A k \in 1..(m - n) : w[k] = IF k <= pos THEN s[k] ELSE s[k + n]
  <2>1. /\ w \in Seq(Block) /\ Len(w) = Len(s) - n
        /\ \A k \in 1..(Len(s) - n) : w[k] = IF k <= pos THEN s[k] ELSE s[k + n]
    <3>. HIDE DEF s, m
    <3>. QED  BY <1>4, <1>6, WithoutEntries
  <2>. HIDE DEF s, w, m
  <2>. QED  BY <1>4, <2>1
<1>8. t = w
  <2>1. ASSUME NEW k \in 1..(m - n)
        PROVE  t[k] = w[k]
    <3>1. k - 1 \in Slot /\ k - 1 < m - n
      BY <1>3, NBlocksAssumption DEF Slot
    <3>2. t[k] = slot[p][Shift(k - 1, pos, pos + n)]
      BY <1>2, <1>5, <3>1
    <3>3. Shift(k - 1, pos, pos + n) = IF k <= pos THEN k - 1 ELSE k + n - 1
      BY <1>3 DEF Shift
    <3>4. k \in 1..m /\ k + n \in 1..m
      BY <1>3
    <3>. HIDE DEF m, s, t, w
    <3>. QED  BY <1>4, <1>7, <3>2, <3>3, <3>4
  <2>. HIDE DEF s, t, w
  <2>. QED  BY <1>5, <1>7, <2>1, SeqEqual
<1>9. \A q \in Selector : q # p => Queue(q)' = Queue(q)
  BY <1>1, <1>2 DEF Queue, AllocTypeOK
<1>10. Taken' = Taken \ {s[k] : k \in (pos + 1)..(pos + n)}
  <2> DEFINE freed == {i \in RangeOf(pos, n) : slot[p][i] # NULL}
  <2>1. \A k \in (pos + 1)..(pos + n) : k - 1 \in freed /\ s[k] = slot[p][k - 1]
    <3>1. \A k \in (pos + 1)..(pos + n) :
            k \in 1..m /\ k - 1 \in Live(p) /\ k - 1 \in RangeOf(pos, n)
      BY <1>3, NBlocksAssumption DEF Live, Slot, RangeOf
    <3>. HIDE DEF s, m
    <3>. QED  BY <1>4, <3>1 DEF Ownership
  <2>2. \A i \in freed : i + 1 \in (pos + 1)..(pos + n) /\ (i + 1) - 1 = i
    BY <1>3, NBlocksAssumption DEF RangeOf, Slot
  <2>3. size' = [b \in Block |-> IF \E i \in freed : slot[p][i] = b
                                   THEN -1 ELSE size[b]]
    BY DEF FreeRange
  <2>4. \A b \in Block : (\E i \in freed : slot[p][i] = b)
                           <=> b \in {s[k] : k \in (pos + 1)..(pos + n)}
    <3>. HIDE DEF freed, s
    <3>. QED  BY <2>1, <2>2
  <2>. HIDE DEF freed, s
  <2>. QED  BY <2>3, <2>4 DEF Taken
<1> DEFINE c == [q \in Selector |-> Queue(q)]
<1>11. c[p] = s
  OBVIOUS
<1>12. c' = [c EXCEPT ![p] = w]
  BY <1>8, <1>9
<1>13. /\ pos \in 0..Len(c[p]) /\ n \in 0..(Len(c[p]) - pos)
       /\ c' = [c EXCEPT ![p] = Queues!Without(c[p], pos, n)]
       /\ Taken' = Taken \ {c[p][k] : k \in (pos + 1)..(pos + n)}
  BY <1>6, <1>10, <1>11, <1>12
<1>. QED  BY <1>13 DEF Queues!Remove, Taken

(* The host resets one partition: all its sectors are taken out. *)
LEMMA ResetPartitionRemoves ==
  ASSUME AllocTypeOK, Ownership, ResetPartition
  PROVE  \E p \in Selector : Queues!Remove(p)
<1>1. PICK p \in Selector :
        LET freed == {i \in Live(p) : slot[p][i] # NULL} IN
        /\ size' = [b \in Block |-> IF \E i \in freed : slot[p][i] = b
                                      THEN -1 ELSE size[b]]
        /\ slot' = [slot EXCEPT ![p] = [i \in Slot |-> IF i < numblocks[p]
                                           THEN NULL ELSE slot[p][i]]]
        /\ numblocks' = [numblocks EXCEPT ![p] = 0]
  BY DEF ResetPartition
<1> DEFINE s == Queue(p)
           t == Queue(p)'
           n == Len(s)
           w == Queues!Without(s, 0, n)
           c == [q \in Selector |-> Queue(q)]
<1>2. /\ s \in Seq(Block) /\ Len(s) = numblocks[p] /\ numblocks[p] \in Nat
      /\ \A k \in 1..numblocks[p] : s[k] = slot[p][k - 1]
  BY QueueType
<1>3. 0 \in 0..Len(s) /\ n \in 0..(Len(s) - 0)
  BY <1>2
<1>4. w = <<>>
  <2>1. w \in Seq(Block) /\ Len(w) = Len(s) - n
    <3>. HIDE DEF s, n
    <3>. QED  BY <1>2, <1>3, WithoutEntries
  <2>2. Len(w) = 0
    <3>. HIDE DEF w, s
    <3>. QED  BY <1>2, <2>1
  <2>. HIDE DEF w
  <2>. QED  BY <2>1, <2>2, EmptySeq
<1>5. t = <<>>
  BY <1>1 DEF Queue, AllocTypeOK
<1>6. \A q \in Selector : q # p => Queue(q)' = Queue(q)
  BY <1>1 DEF Queue, AllocTypeOK
<1>7. Taken' = Taken \ {s[k] : k \in (0 + 1)..(0 + n)}
  <2>1. \A b \in Block : (\E i \in Live(p) : slot[p][i] # NULL /\ slot[p][i] = b)
                           <=> b \in {s[k] : k \in 1..numblocks[p]}
    <3>1. \A k \in 1..numblocks[p] : k - 1 \in Live(p)
      BY NBlocksAssumption DEF AllocTypeOK, Live, Slot
    <3>2. \A j \in Live(p) : /\ slot[p][j] # NULL
                             /\ j + 1 \in 1..numblocks[p] /\ (j + 1) - 1 = j
      BY NBlocksAssumption DEF AllocTypeOK, Ownership, Live, Slot
    <3>. HIDE DEF s
    <3>3. ASSUME NEW j \in Live(p)
          PROVE  slot[p][j] \in {s[k] : k \in 1..numblocks[p]}
      <4>1. s[j + 1] = slot[p][j] /\ j + 1 \in 1..numblocks[p]
        BY <1>2, <3>2
      <4>. QED  BY <4>1
    <3>4. ASSUME NEW k \in 1..numblocks[p]
          PROVE  \E j \in Live(p) : slot[p][j] # NULL /\ slot[p][j] = s[k]
      BY <1>2, <3>1, <3>2
    <3>. QED  BY <3>3, <3>4
  <2>2. (0 + 1)..(0 + n) = 1..numblocks[p]
    BY <1>2
  <2>. HIDE DEF s, n
  <2>. QED  BY <1>1, <2>1, <2>2 DEF Taken
<1>8. c[p] = s /\ c' = [c EXCEPT ![p] = w]
  BY <1>4, <1>5, <1>6
<1>9. /\ 0 \in 0..Len(c[p]) /\ n \in 0..(Len(c[p]) - 0)
      /\ c' = [c EXCEPT ![p] = Queues!Without(c[p], 0, n)]
      /\ Taken' = Taken \ {c[p][k] : k \in (0 + 1)..(0 + n)}
  BY <1>3, <1>7, <1>8
<1>10. Queues!Remove(p)
  BY <1>9 DEF Queues!Remove, Taken
<1>. QED  BY <1>10

(* The drive fails on a directory sector: the block it took is in no queue. *)
LEMMA PushFailsLoses ==
  ASSUME AllocTypeOK, Ownership, getsectsize \in SectorSizes,
         NEW p \in Selector, PushFails(p)
  PROVE  Queues!Lose
<1>1. FirstFree \in Block /\ size[FirstFree] = -1
  BY RoomWhenFree DEF PushFails
<1>2. /\ size' = [size EXCEPT ![FirstFree] = getsectsize] /\ getsectsize # -1
      /\ numblocks' = numblocks /\ DirReadFails
  BY SizesAssumption DEF PushFails
<1>3. \A q \in Selector : \A i \in Live(q) : slot'[q][i] = slot[q][i]
  BY <1>1, StoreAtEndKeeps DEF PushFails
<1>4. \A q \in Selector : Queue(q)' = Queue(q)
  BY <1>2, <1>3, QueueSame
<1>5. FirstFree \in Block \ Taken /\ Taken' = Taken \union {FirstFree}
  BY <1>1, <1>2 DEF Taken, AllocTypeOK
<1>. QED  BY <1>2, <1>4, <1>5 DEF Queues!Lose, Taken

LEMMA ReadFileSystemQueues ==
  ASSUME AllocTypeOK, Ownership, getsectsize \in SectorSizes, ReadFileSystem
  PROVE  Queues!Lose \/ UNCHANGED Queues!vars
<1>1. CASE UNCHANGED <<blockVars, partVars>>
  BY <1>1, QueuesHidden DEF blockVars, partVars
<1>2. ASSUME NEW p \in Selector, PushPop(p) \/ PushFindsNoBlock(p)
      PROVE  UNCHANGED Queues!vars
  <2>1. UNCHANGED <<size, numblocks>>
    BY <1>2 DEF PushPop, PushFindsNoBlock
  <2>2. FreeBlocks # {} => FirstFree \in Block
    BY FirstFreeIsFree DEF FreeBlocks
  <2>3. \A q \in Selector : \A i \in Live(q) : slot'[q][i] = slot[q][i]
    <3>1. CASE PushPop(p)
      BY <2>2, <3>1, StoreAtEndKeeps DEF PushPop
    <3>2. CASE PushFindsNoBlock(p)
      BY <3>2, StoreAtEndKeeps DEF PushFindsNoBlock
    <3>. QED  BY <1>2, <3>1, <3>2
  <2>. QED  BY <2>1, <2>3, QueuesHidden
<1>. QED  BY <1>1, <1>2, PushFailsLoses DEF ReadFileSystem

LEMMA EmptiedClears ==
  ASSUME ResetBuffers
  PROVE  Queues!Clear
<1>1. \A q \in Selector : Queue(q)' = <<>>
  BY DEF ResetBuffers, Queue
<1>2. Taken' = {}
  BY DEF ResetBuffers, Taken
<1>. QED  BY <1>1, <1>2 DEF Queues!Clear, Taken

-----------------------------------------------------------------------------
(* The refinement                                                          *)

LEMMA QueuesInit == Init => Queues!Init
<1>. SUFFICES ASSUME Init PROVE Queues!Init
  OBVIOUS
<1>1. \A q \in Selector : Queue(q) = <<>>
  BY DEF Init, Queue
<1>2. Taken = {}
  BY DEF Init, Taken
<1>. QED  BY <1>1, <1>2 DEF Queues!Init, Taken

LEMMA QueuesStep == IInv /\ [Next]_vars => [Queues!Next]_(Queues!vars)
<1>. SUFFICES ASSUME IInv, [Next]_vars PROVE [Queues!Next]_(Queues!vars)
  OBVIOUS
<1>0. AllocTypeOK /\ XferTypeOK /\ Ownership /\ TransferInRange
  BY TypeParts DEF IInv
<1>1. CASE ReadFilteredSector
  <2>1. PICK p \in Selector :
          \/ \E bytes \in {getsectsize, Form2Size} : StoreSector(p, bytes)
          \/ DropSector(p)
    BY <1>1 DEF ReadFilteredSector
  <2>2. CASE DropSector(p)
    <3>1. \A q \in Selector : \A i \in Live(q) : slot'[q][i] = slot[q][i]
      BY <1>0, <2>2, StoreAtEndKeeps DEF DropSector
    <3>. QED  BY <1>0, <2>2, <3>1, QueuesHidden DEF DropSector
  <2>3. CASE \E bytes \in {getsectsize, Form2Size} : StoreSector(p, bytes)
    <3>1. PICK bytes \in AllSizes : StoreSector(p, bytes)
      BY <1>0, <2>3 DEF AllSizes, XferTypeOK
    <3>2. Queues!Add(p)
      BY <1>0, <3>1, StoreSectorAdds
    <3>. QED  BY <3>2 DEF Queues!Next
  <2>. QED  BY <2>1, <2>2, <2>3
<1>2. CASE ReadFileSystem
  <2>1. Queues!Lose \/ UNCHANGED Queues!vars
    BY <1>0, <1>2, ReadFileSystemQueues DEF XferTypeOK
  <2>. QED  BY <2>1 DEF Queues!Next
<1>3. ASSUME UNCHANGED <<size, partVars>>
      PROVE  UNCHANGED Queues!vars
  BY <1>0, <1>3, QueuesHidden DEF partVars
<1>4. CASE \/ SetCDDeviceConnection \/ SetSectorLength \/ InitializeCDSystem
           \/ GetSectorData \/ GetThenDeleteSectorData \/ AbortFile
           \/ Cs2RapidCopy \/ CopySector \/ UNCHANGED vars
  BY <1>3, <1>4 DEF Cs2RapidCopy, CopySector, SetCDDeviceConnection, SetSectorLength, InitializeCDSystem,
     GetSectorData, GetThenDeleteSectorData, OpenTransfer, AbortFile, vars,
     blockVars
<1>5. CASE hostxfer /\ datatranstype = 2 /\ FreeTransferred
  <2>1. PICK p \in Selector, pos \in Slot, n \in 0..NBlocks :
          /\ p = datatranspartition /\ pos = datatranssectpos /\ n = datasectstotrans
          /\ pos + n <= numblocks[p]
    BY <1>0, <1>5 DEF XferTypeOK, TransferInRange
  <2>2. FreeRange(p, pos, n)
    BY <1>5, <2>1 DEF FreeTransferred
  <2>3. Queues!Remove(p)
    BY <1>0, <2>1, <2>2, FreeRangeRemoves
  <2>. QED  BY <2>1, <2>3 DEF Queues!Next
<1>6. CASE Cs2ReadLong \/ EndRapidCopy \/ EndDataTransfer
  <2>1. CASE UNCHANGED <<blockVars, partVars>>
    BY <1>3, <2>1 DEF blockVars
  <2>2. CASE EndRapidCopy
    BY <1>5, <2>1, <2>2 DEF EndRapidCopy, DeleteRead, IInv, BurstOpen
  <2>. QED  BY <1>5, <1>6, <2>1, <2>2
            DEF Cs2ReadLong, EndDataTransfer, DeleteRead
<1>7. CASE DeleteSectorData
  <2>1. PICK p \in Selector, pos \in Slot, n \in 0..NBlocks :
          pos + n <= numblocks[p] /\ FreeRange(p, pos, n)
    BY <1>7, NBlocksAssumption DEF SectorsThere, DeleteSectorData
  <2>2. Queues!Remove(p)
    BY <1>0, <2>1, FreeRangeRemoves
  <2>. QED  BY <2>2 DEF Queues!Next
<1>8. CASE ResetPartition
  <2>1. PICK p \in Selector : Queues!Remove(p)
    BY <1>0, <1>8, ResetPartitionRemoves
  <2>. QED  BY <2>1 DEF Queues!Next
<1>9. CASE ResetAllData \/ Cs2Reset
  <2>1. Queues!Clear
    BY <1>9, EmptiedClears DEF ResetAllData, Cs2Reset
  <2>. QED  BY <2>1 DEF Queues!Next
<1>. QED  BY <1>1, <1>2, <1>4, <1>6, <1>7, <1>8, <1>9 DEF Next, Drive, Host, Burst

(* The partitions' arrays of pointers behave as queues of sectors, each in a block
   of its own, for any number of blocks and partitions, whatever the drive and the
   host do and in whatever order. *)
THEOREM PartitionsAreQueues == Spec => QueuesSpec
  BY QueuesInit, QueuesStep, Invariance, PTL DEF Spec, QueuesSpec, Queues!Spec

-----------------------------------------------------------------------------
(* What the queues say about the partitions                                *)

Precedes(s, b, c) == \E i, j \in 1..Len(s) : i < j /\ s[i] = b /\ s[j] = c
Entries(s) == {s[k] : k \in 1..Len(s)}
Distinct(s) == \A i, j \in 1..Len(s) : s[i] = s[j] => i = j

(* Deleting sectors does not reorder the others. *)
LEMMA WithoutKeepsOrder ==
  ASSUME NEW s \in Seq(Block), Distinct(s),
         NEW pos \in 0..Len(s), NEW n \in 0..(Len(s) - pos),
         NEW b \in Entries(Queues!Without(s, pos, n)),
         NEW c \in Entries(Queues!Without(s, pos, n)),
         Precedes(s, b, c)
  PROVE  Precedes(Queues!Without(s, pos, n), b, c)
<1> DEFINE t == Queues!Without(s, pos, n)
           Old(k) == IF k <= pos THEN k ELSE k + n
<1>1. /\ Len(s) \in Nat /\ Len(t) = Len(s) - n
      /\ \A k \in 1..(Len(s) - n) : t[k] = IF k <= pos THEN s[k] ELSE s[k + n]
  BY WithoutEntries
<1>. HIDE DEF t
<1>2. \A k \in 1..Len(t) : Old(k) \in 1..Len(s) /\ t[k] = s[Old(k)]
  BY <1>1
<1>3. PICK k \in 1..Len(t), l \in 1..Len(t) : t[k] = b /\ t[l] = c
  BY DEF Entries, t
<1>4. PICK i \in 1..Len(s), j \in 1..Len(s) : i < j /\ s[i] = b /\ s[j] = c
  BY DEF Precedes
<1>5. Old(k) = i /\ Old(l) = j
  <2>. HIDE DEF Old
  <2>. QED  BY <1>2, <1>3, <1>4 DEF Distinct
<1>6. k < l
  BY <1>1, <1>4, <1>5
<1>. QED  BY <1>3, <1>6 DEF Precedes, t

LEMMA AppendKeepsOrder ==
  ASSUME NEW s \in Seq(Block), NEW x \in Block, NEW b, NEW c, Precedes(s, b, c)
  PROVE  Precedes(Append(s, x), b, c)
<1>1. /\ Len(s) \in Nat /\ Len(Append(s, x)) = Len(s) + 1
      /\ \A k \in 1..Len(s) : Append(s, x)[k] = s[k]
  BY AppendProperties
<1>2. \A k \in 1..Len(s) : k \in 1..Len(Append(s, x))
  BY <1>1
<1>. QED  BY <1>1, <1>2 DEF Precedes

(* Partitions and queues hold the same sectors, in the same order. *)
QueueFacts ==
  \A p \in Selector :
    /\ Queue(p) \in Seq(Block) /\ Distinct(Queue(p))
    /\ Held(p) = Entries(Queue(p))
    /\ \A b, c : Before(p, b, c) <=> Precedes(Queue(p), b, c)

LEMMA QueueFactsHold == AllocTypeOK /\ Ownership => QueueFacts
<1>. SUFFICES ASSUME AllocTypeOK, Ownership, NEW p \in Selector
              PROVE  /\ Queue(p) \in Seq(Block) /\ Distinct(Queue(p))
                     /\ Held(p) = Entries(Queue(p))
                     /\ \A b, c : Before(p, b, c) <=> Precedes(Queue(p), b, c)
  BY DEF QueueFacts
<1> DEFINE s == Queue(p)
           n == numblocks[p]
<1>1. /\ n \in Nat /\ s \in Seq(Block) /\ Len(s) = n
      /\ \A k \in 1..n : s[k] = slot[p][k - 1]
  BY QueueType
<1>2. \A k \in 1..n : k - 1 \in Live(p)
  BY NBlocksAssumption DEF AllocTypeOK, Live, Slot
<1>3. \A i \in Live(p) : i \in Int /\ i + 1 \in 1..n /\ s[i + 1] = slot[p][i]
  <2>1. \A i \in Live(p) : i \in Int /\ i + 1 \in 1..n /\ (i + 1) - 1 = i
    BY NBlocksAssumption DEF AllocTypeOK, Live, Slot
  <2>. HIDE DEF s, n
  <2>. QED  BY <1>1, <2>1
<1>. HIDE DEF s, n
<1>4. Distinct(s)
  <2>1. ASSUME NEW i \in 1..n, NEW j \in 1..n, s[i] = s[j]
        PROVE  i = j
    <3>1. i - 1 = j - 1
      BY <1>1, <1>2, <2>1 DEF Ownership
    <3>. QED  BY <3>1
  <2>. QED  BY <1>1, <2>1 DEF Distinct
<1>5. Held(p) = Entries(s)
  <2>1. Held(p) \subseteq Entries(s)
    BY <1>1, <1>3 DEF Held, Entries
  <2>2. Entries(s) \subseteq Held(p)
    BY <1>1, <1>2 DEF Held, Entries
  <2>. QED  BY <2>1, <2>2
<1>6. ASSUME NEW b, NEW c, Before(p, b, c)
      PROVE  Precedes(s, b, c)
  <2>1. PICK i \in Live(p), j \in Live(p) : i < j /\ slot[p][i] = b /\ slot[p][j] = c
    BY <1>6 DEF Before
  <2>2. i + 1 < j + 1
    BY <1>3, <2>1
  <2>. QED  BY <1>1, <1>3, <2>1, <2>2 DEF Precedes
<1>7. ASSUME NEW b, NEW c, Precedes(s, b, c)
      PROVE  Before(p, b, c)
  <2>1. PICK i \in 1..n, j \in 1..n : i < j /\ s[i] = b /\ s[j] = c
    BY <1>1, <1>7 DEF Precedes
  <2>2. i - 1 < j - 1
    BY <2>1
  <2>. QED  BY <1>1, <1>2, <2>1, <2>2 DEF Before
<1>. QED  BY <1>1, <1>4, <1>5, <1>6, <1>7 DEF s

LEMMA QueueFactsNext == AllocTypeOK' /\ Ownership' => QueueFacts'
  BY QueueFactsHold, PTL

(* Every step is a step of the queues, and no step of theirs reorders. *)
LEMMA OrderStep ==
  ASSUME IInv, [Next]_vars, NEW p \in Selector,
         NEW b \in Held(p) \cap Held(p)', NEW c \in Held(p) \cap Held(p)',
         Before(p, b, c)
  PROVE  Before(p, b, c)'
<1> DEFINE C == [q \in Selector |-> Queue(q)]
<1>1. QueueFacts /\ QueueFacts'
  BY IInvStep, TypeParts, QueueFactsHold, QueueFactsNext, AllocStep DEF IInv
<1>2. /\ Queue(p) \in Seq(Block) /\ Distinct(Queue(p))
      /\ Precedes(Queue(p), b, c)
      /\ b \in Entries(Queue(p)') /\ c \in Entries(Queue(p)')
      /\ Before(p, b, c)' <=> Precedes(Queue(p)', b, c)
  BY <1>1 DEF QueueFacts
<1>3. C[p] = Queue(p) /\ C'[p] = Queue(p)'
  OBVIOUS
<1>4. [Queues!Next]_(Queues!vars)
  BY QueuesStep
<1>5. Precedes(Queue(p)', b, c)
  <2>1. CASE UNCHANGED Queues!vars \/ Queues!Lose
    <3>1. C' = C
      BY <2>1 DEF Queues!vars, Queues!Lose
    <3>. QED  BY <1>2, <1>3, <3>1
  <2>2. ASSUME NEW q \in Selector, Queues!Add(q)
        PROVE  Precedes(Queue(p)', b, c)
    <3>1. PICK x \in Block : C' = [C EXCEPT ![q] = Append(C[q], x)]
      BY <2>2 DEF Queues!Add
    <3>2. Queue(p)' = IF p = q THEN Append(Queue(p), x) ELSE Queue(p)
      BY <1>3, <3>1
    <3>. QED  BY <1>2, <3>2, AppendKeepsOrder
  <2>3. ASSUME NEW q \in Selector, Queues!Remove(q)
        PROVE  Precedes(Queue(p)', b, c)
    <3>0. PICK pos \in 0..Len(C[q]) : \E n \in 0..(Len(C[q]) - pos) :
            C' = [C EXCEPT ![q] = Queues!Without(C[q], pos, n)]
      BY <2>3 DEF Queues!Remove
    <3>1. PICK n \in 0..(Len(C[q]) - pos) :
            C' = [C EXCEPT ![q] = Queues!Without(C[q], pos, n)]
      BY <3>0
    <3>2. CASE p = q
      <4>1. /\ Queue(p)' = Queues!Without(Queue(p), pos, n)
            /\ pos \in 0..Len(Queue(p)) /\ n \in 0..(Len(Queue(p)) - pos)
        BY <1>3, <3>1, <3>2
      <4>. QED  BY <1>2, <4>1, WithoutKeepsOrder
    <3>3. CASE p # q
      BY <1>2, <1>3, <3>1, <3>3
    <3>. QED  BY <3>2, <3>3
  <2>4. CASE Queues!Clear
    <3>1. Queue(p)' = <<>>
      BY <1>3, <2>4 DEF Queues!Clear
    <3>. QED  BY <1>2, <3>1 DEF Entries
  <2>. QED  BY <1>4, <2>1, <2>2, <2>3, <2>4 DEF Queues!Next
<1>. QED  BY <1>2, <1>5

(* Two sectors of a partition are never swapped, for any numbers of blocks and
   partitions: neither by closing the hole of a deletion, nor by the pointers the
   directory commands leave behind. *)
THEOREM OrderIsKept == Spec => OrderPreserved
<1>1. IInv /\ [Next]_vars =>
        [\A p \in Selector : \A b, c \in Held(p) \cap Held(p)' :
           Before(p, b, c) => Before(p, b, c)']_vars
  BY OrderStep
<1>. QED  BY <1>1, Invariance, PTL DEF Spec, OrderPreserved

(* What is not deleted stays in the queue. *)
LEMMA WithoutKeepsOthers ==
  ASSUME NEW s \in Seq(Block), NEW pos \in 0..Len(s), NEW n \in 0..(Len(s) - pos),
         NEW b \in Entries(s), b \notin {s[k] : k \in (pos + 1)..(pos + n)}
  PROVE  b \in Entries(Queues!Without(s, pos, n))
<1> DEFINE t == Queues!Without(s, pos, n)
<1>1. /\ Len(s) \in Nat /\ Len(t) = Len(s) - n
      /\ \A k \in 1..(Len(s) - n) : t[k] = IF k <= pos THEN s[k] ELSE s[k + n]
  BY WithoutEntries
<1>. HIDE DEF t
<1>2. PICK i \in 1..Len(s) : s[i] = b
  BY DEF Entries
<1>3. ~(i \in (pos + 1)..(pos + n))
  BY <1>2
<1>4. CASE i <= pos
  <2>1. i \in 1..Len(t) /\ t[i] = s[i]
    BY <1>1, <1>4
  <2>. QED  BY <1>2, <2>1 DEF Entries, t
<1>5. CASE i > pos + n
  <2>1. /\ i - n \in 1..Len(t) /\ i - n \in 1..(Len(s) - n)
        /\ ~(i - n <= pos) /\ (i - n) + n = i
    BY <1>1, <1>5
  <2>2. t[i - n] = s[i]
    BY <1>1, <2>1
  <2>. QED  BY <1>2, <2>1, <2>2 DEF Entries, t
<1>. QED  BY <1>1, <1>3, <1>4, <1>5

LEMMA NoLeakStep ==
  ASSUME DirReadFails = FALSE, IInv, NoLeak, [Next]_vars
  PROVE  NoLeak'
<1> DEFINE C == [q \in Selector |-> Queue(q)]
           Kept == \A b \in Taken : \E q \in Selector : b \in Entries(C[q])
<1>1. QueueFacts /\ QueueFacts'
  BY IInvStep, TypeParts, QueueFactsHold, QueueFactsNext, AllocStep DEF IInv
<1>2. Kept
  BY <1>1 DEF Taken, NoLeak, QueueFacts
<1>3. \A q \in Selector : C[q] \in Seq(Block)
  BY <1>1 DEF QueueFacts
<1>4. [Queues!Next]_(Queues!vars) /\ ~Queues!Lose
  BY QueuesStep DEF Queues!Lose
<1>5. Kept'
  <2>1. CASE UNCHANGED Queues!vars
    <3>1. C' = C /\ Taken' = Taken
      BY <2>1 DEF Queues!vars, Taken
    <3>. HIDE DEF C
    <3>. QED  BY <1>2, <3>1
  <2>2. ASSUME NEW q \in Selector, Queues!Add(q)
        PROVE  Kept'
    <3>1. PICK x \in Block : /\ C' = [C EXCEPT ![q] = Append(C[q], x)]
                             /\ Taken' = Taken \union {x}
      BY <2>2 DEF Queues!Add, Taken
    <3>2. Entries(Append(C[q], x)) = Entries(C[q]) \union {x}
      <4>1. /\ Len(C[q]) \in Nat /\ Len(Append(C[q], x)) = Len(C[q]) + 1
            /\ \A k \in 1..Len(C[q]) : Append(C[q], x)[k] = C[q][k]
            /\ Append(C[q], x)[Len(C[q]) + 1] = x
        BY <1>3, AppendProperties
      <4>2. \A k \in 1..(Len(C[q]) + 1) : k \in 1..Len(C[q]) \/ k = Len(C[q]) + 1
        BY <4>1
      <4>3. /\ \A k \in 1..Len(C[q]) : k \in 1..(Len(C[q]) + 1)
            /\ Len(C[q]) + 1 \in 1..(Len(C[q]) + 1)
        BY <4>1
      <4>. HIDE DEF C
      <4>4. Entries(Append(C[q], x)) \subseteq Entries(C[q]) \union {x}
        BY <4>1, <4>2 DEF Entries
      <4>5. Entries(C[q]) \union {x} \subseteq Entries(Append(C[q], x))
        BY <4>1, <4>3 DEF Entries
      <4>. QED  BY <4>4, <4>5
    <3>3. \A r \in Selector : Entries(C[r]) \subseteq Entries(C'[r])
      BY <3>1, <3>2
    <3>4. x \in Entries(C'[q])
      BY <3>1, <3>2
    <3>. HIDE DEF C
    <3>. QED  BY <1>2, <3>1, <3>3, <3>4
  <2>3. ASSUME NEW q \in Selector, Queues!Remove(q)
        PROVE  Kept'
    <3>1. PICK pos \in 0..Len(C[q]) : \E n \in 0..(Len(C[q]) - pos) :
            /\ C' = [C EXCEPT ![q] = Queues!Without(C[q], pos, n)]
            /\ Taken' = Taken \ {C[q][k] : k \in (pos + 1)..(pos + n)}
      BY <2>3 DEF Queues!Remove, Taken
    <3>2. PICK n \in 0..(Len(C[q]) - pos) :
            /\ C' = [C EXCEPT ![q] = Queues!Without(C[q], pos, n)]
            /\ Taken' = Taken \ {C[q][k] : k \in (pos + 1)..(pos + n)}
      BY <3>1
    <3>3. ASSUME NEW b \in Taken', NEW r \in Selector, b \in Entries(C[r])
          PROVE  b \in Entries(C'[r])
      <4>1. CASE r = q
        <5>1. C'[r] = Queues!Without(C[q], pos, n)
          BY <3>2, <4>1
        <5>2. b \notin {C[q][k] : k \in (pos + 1)..(pos + n)}
          BY <3>2, <3>3
        <5>. HIDE DEF C
        <5>. QED  BY <1>3, <3>3, <4>1, <5>1, <5>2, WithoutKeepsOthers
      <4>2. CASE r # q
        BY <3>2, <3>3, <4>2
      <4>. QED  BY <4>1, <4>2
    <3>4. Taken' \subseteq Taken
      BY <3>2
    <3>. HIDE DEF C
    <3>. QED  BY <1>2, <3>3, <3>4
  <2>4. CASE Queues!Clear
    BY <2>4 DEF Queues!Clear, Taken
  <2>. QED  BY <1>4, <2>1, <2>2, <2>3, <2>4 DEF Queues!Next
<1>. QED  BY <1>1, <1>5 DEF Taken, NoLeak, QueueFacts

(* As long as the drive reads every directory sector, every allocated block is in
   a partition, where the host can free it. *)
THEOREM NoBlockIsLost == ASSUME DirReadFails = FALSE PROVE Spec => []NoLeak
<1>1. Init => NoLeak
  BY DEF Init, NoLeak
<1>2. IInv /\ NoLeak /\ [Next]_vars => NoLeak'
  BY NoLeakStep
<1>. QED  BY <1>1, <1>2, Invariance, PTL DEF Spec

=============================================================================
