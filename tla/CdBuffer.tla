------------------------------ MODULE CdBuffer ------------------------------
(***************************************************************************)
(* The sector buffer of the CD block (src/src/cs2.c).                      *)
(*                                                                         *)
(* The buffer has MAX_BLOCKS blocks of one sector each.  A block is free   *)
(* when its size is -1; otherwise it should be held by one slot of one of  *)
(* the MAX_SELECTORS partitions.  A partition is an array block[] of       *)
(* pointers of which the first numblocks are live; the rest of the array   *)
(* is not always NULL.  The drive appends sectors to the partition the     *)
(* filters choose, the directory commands push a sector and pop it again,  *)
(* and the host reads sectors word by word, deletes them, or asks for both.*)
(*                                                                         *)
(* Filters are abstracted to the partition they choose (module CdFilter    *)
(* models the choice) and sector contents are left out: what matters here  *)
(* is which block belongs to whom, and how many blocks are free.           *)
(***************************************************************************)
EXTENDS Integers, FiniteSets

FSX == INSTANCE FiniteSetsExt

CONSTANTS
  NBlocks,        \* MAX_BLOCKS, 200 in cs2.h
  NSelectors,     \* MAX_SELECTORS, 24 in cs2.h
  NULL,           \* the null pointer in a slot
  SectorSizes,    \* bytes a stored sector can have: 2048, 2336, 2340, 2352
  UserDataSize,   \* the length Cs2Reset selects: 2048
  Form2Size,      \* bytes of a mode 2 form 2 sector: 2324
  FreeModulus,    \* 2^32: blockfreespace is a u32
  HostResetsAll,  \* TRUE iff the host uses ResetSelector with flag 0x04
  DirReadFails,   \* TRUE iff the drive may fail to read a directory sector
  Bursts,         \* long words a DMA channel may ask for at a time
  PartitionBound  \* model bound on the size kept by a partition

ASSUME NBlocksAssumption == NBlocks \in 1..255
ASSUME NSelectorsAssumption == NSelectors \in Nat \ {0}
ASSUME NullAssumption == NULL \notin Int
ASSUME SizesAssumption == /\ SectorSizes \subseteq Nat \ {0}
                          /\ UserDataSize \in SectorSizes
                          /\ Form2Size \in Nat \ {0}
ASSUME BurstsAssumption == Bursts \subseteq Nat
ASSUME ModulusAssumption == FreeModulus \in Nat /\ FreeModulus > NBlocks

Block    == 0..(NBlocks - 1)
Slot     == 0..(NBlocks - 1)
Selector == 0..(NSelectors - 1)

AllSizes == SectorSizes \union {Form2Size}

VARIABLES
  size,                \* block[b].size, -1 when the block is free
  slot,                \* partition[p].block[], indices into block[] or NULL
  numblocks,           \* partition[p].numblocks, a u8
  psize,               \* partition[p].size, -1 when reset
  blockfreespace,      \* free blocks, as GetBufferSize reports it
  isbufferfull,        \* the BFUL condition; the drive stops reading
  isonesectorstored,   \* the CSCT condition
  connected,           \* outconcddev # NULL
  getsectsize,         \* sector length the host selected
  datatranstype,       \* -1 none, 0 get sector data, 2 get then delete
  datatranspartition,  \* partition being transferred
  datatransoffset,     \* bytes already read of the current sector
  datanumsecttrans,    \* sectors already read
  datatranssectpos,    \* first sector asked for
  datasectstotrans,    \* number of sectors asked for
  cdwnum,              \* bytes transferred, reported by EndDataTransfer
  hostxfer,            \* the host has opened a transfer and not ended it
  burst,               \* count of Cs2RapidCopy, -1 when no burst is under way
  asked,               \* history: long words the burst was called for
  start                \* history: Position when it was called

blockVars == <<size, blockfreespace, isbufferfull>>
partVars  == <<slot, numblocks, psize>>
xferVars  == <<datatranstype, datatranspartition, datatransoffset,
               datanumsecttrans, datatranssectpos, datasectstotrans, cdwnum,
               hostxfer>>
confVars  == <<connected, getsectsize>>
burstVars == <<burst, asked, start>>
vars == <<blockVars, partVars, isonesectorstored, confVars, xferVars,
          burstVars>>

-----------------------------------------------------------------------------
(* Helpers                                                                 *)

FreeBlocks == {b \in Block : size[b] = -1}

(* The live slots of a partition, and the blocks they hold. *)
Live(p) == {i \in Slot : i < numblocks[p]}
Held(p) == {slot[p][i] : i \in Live(p)}

(* The bytes of the sectors a set of a partition's slots points to. *)
Bytes(p, slots) == FSX!MapThenSumSet(LAMBDA i : size[slot[p][i]], slots)

(* How many non-NULL pointers stand before index i. *)
Rank(f, i) == Cardinality({j \in Slot : j < i /\ f[j] # NULL})

(* Mutant: the holes a deletion leaves are not closed. *)
Mut_SortBlocks(f) == f

(* Cs2SortBlocks: move the non-NULL pointers to the front, in order. *)
SortBlocks(f) ==
  [k \in Slot |->
     IF \E i \in Slot : f[i] # NULL /\ Rank(f, i) = k
       THEN f[CHOOSE i \in Slot : f[i] # NULL /\ Rank(f, i) = k]
       ELSE NULL]

(* Cs2AllocateBlock takes the first free block of the array. *)
FirstFree == CHOOSE b \in FreeBlocks : \A c \in FreeBlocks : b <= c

(* Mutant: blockfreespace is signed and does not wrap. *)
Mut_Decremented == blockfreespace - 1

(* blockfreespace-- on a u32, and the test that follows it. *)
Decremented == (blockfreespace - 1) % FreeModulus
AllocatedFlags == /\ blockfreespace' = Decremented
                  /\ isbufferfull' = (isbufferfull \/ Decremented = 0)

(* Mutant: the pointer goes to the first entry that is NULL. *)
Mut_StoreAtEnd(p, v) ==
  [slot EXCEPT ![p] = [i \in Slot |->
     IF slot[p][i] = NULL /\ \A j \in Slot : j < i => slot[p][j] # NULL
       THEN v ELSE slot[p][i]]]

(* A pointer stored at block[numblocks]; nothing the array holds is changed
   when the index is one past its end. *)
StoreAtEnd(p, v) == [slot EXCEPT ![p] = [i \in Slot |->
                       IF i = numblocks[p] THEN v ELSE slot[p][i]]]

(* Mutant: the size of a reset partition is not cleared before the addition. *)
Mut_NonReset(s) == s

(* What the partition's size is once it holds something. *)
NonReset(s) == IF s = -1 THEN 0 ELSE s

(* The slots from pos on, n of them, and what Cs2FreeBlock, the NULL stores,
   Cs2SortBlocks and numblocks -= n make of partition p. *)
RangeOf(pos, n) == {i \in Slot : pos <= i /\ i < pos + n}

FreeRange(p, pos, n) ==
  LET freed == {i \in RangeOf(pos, n) : slot[p][i] # NULL} IN
  /\ size' = [b \in Block |-> IF \E i \in freed : slot[p][i] = b
                                THEN -1 ELSE size[b]]
  /\ blockfreespace' = (blockfreespace + Cardinality(freed)) % FreeModulus
  /\ isbufferfull' = (isbufferfull /\ freed = {})
  /\ slot' = [slot EXCEPT ![p] =
                SortBlocks([i \in Slot |-> IF i \in RangeOf(pos, n)
                                             THEN NULL ELSE slot[p][i]])]
  /\ numblocks' = [numblocks EXCEPT ![p] = (numblocks[p] - n) % 256]

(* Mutant: only the sectors that were read are deleted. *)
Mut_FreeTransferred ==
  /\ datatranstype' = -1
  /\ FreeRange(datatranspartition, datatranssectpos, datanumsecttrans)

(* Mutant: the transfer stays open after its deletion. *)
Mut_FreeTransferredOpen ==
  /\ UNCHANGED datatranstype
  /\ FreeRange(datatranspartition, datatranssectpos, datasectstotrans)

(* The sectors a type 2 transfer deletes when it ends. *)
FreeTransferred ==
  /\ datatranstype' = -1
  /\ FreeRange(datatranspartition, datatranssectpos, datasectstotrans)

-----------------------------------------------------------------------------
(* Initial state: Cs2Init followed by Cs2Reset.                            *)

ResetBuffers ==
  /\ size' = [b \in Block |-> -1]
  /\ slot' = [p \in Selector |-> [i \in Slot |-> NULL]]
  /\ numblocks' = [p \in Selector |-> 0]
  /\ psize' = [p \in Selector |-> -1]

Init ==
  /\ size = [b \in Block |-> -1]
  /\ slot = [p \in Selector |-> [i \in Slot |-> NULL]]
  /\ numblocks = [p \in Selector |-> 0]
  /\ psize = [p \in Selector |-> -1]
  /\ blockfreespace = NBlocks
  /\ isbufferfull = FALSE
  /\ isonesectorstored = FALSE
  /\ connected = FALSE
  /\ getsectsize = UserDataSize
  /\ datatranstype = -1
  /\ datatranspartition = NULL
  /\ datatransoffset = 0
  /\ datanumsecttrans = 0
  /\ datatranssectpos = 0
  /\ datasectstotrans = 0
  /\ cdwnum = 0
  /\ hostxfer = FALSE
  /\ burst = -1
  /\ asked = 0
  /\ start = <<0, 0, 0>>

-----------------------------------------------------------------------------
(* The drive                                                               *)

(* Cs2ReadFilteredSector: the drive has read a sector and the filters chose
   partition p; Cs2FilterData stores it.  A sector that is audio, that no
   filter lets through or that cannot be read changes nothing here. *)
StoreSector(p, bytes) ==
  /\ FreeBlocks # {}
  /\ psize[p] \in (-PartitionBound)..PartitionBound
  /\ size' = [size EXCEPT ![FirstFree] = bytes]
  /\ AllocatedFlags
  /\ slot' = StoreAtEnd(p, FirstFree)
  /\ psize' = [psize EXCEPT ![p] = NonReset(psize[p]) + bytes]
  /\ numblocks' = [numblocks EXCEPT ![p] = (numblocks[p] + 1) % 256]
  /\ isonesectorstored' = TRUE
  /\ UNCHANGED <<confVars, xferVars>>

(* Cs2FilterData finds no block: the sector is dropped as if filtered out.
   This happens when InitializeCDSystem cleared isbufferfull on a full
   buffer. *)
DropSector(p) ==
  /\ FreeBlocks = {}
  /\ slot' = StoreAtEnd(p, NULL)
  /\ isbufferfull' = TRUE
  /\ UNCHANGED <<size, blockfreespace, numblocks, psize, isonesectorstored,
                 confVars, xferVars>>

ReadFilteredSector ==
  /\ connected
  /\ ~isbufferfull
  /\ \E p \in Selector :
       \/ \E bytes \in {getsectsize, Form2Size} : StoreSector(p, bytes)
       \/ DropSector(p)

(* Mutant: the popped block is freed and not counted. *)
Mut_PushPopUncounted(p) ==
  /\ FreeBlocks # {}
  /\ slot' = [slot EXCEPT ![p] = SortBlocks(StoreAtEnd(p, FirstFree)[p])]
  /\ psize' = [psize EXCEPT ![p] = NonReset(psize[p])]
  /\ isbufferfull' = FALSE
  /\ blockfreespace' = Decremented
  /\ UNCHANGED <<size, numblocks>>

(* Mutant: popping the last free block leaves the full condition it caused. *)
Mut_PushPopStillFull(p) ==
  /\ FreeBlocks # {}
  /\ slot' = [slot EXCEPT ![p] = SortBlocks(StoreAtEnd(p, FirstFree)[p])]
  /\ psize' = [psize EXCEPT ![p] = NonReset(psize[p])]
  /\ isbufferfull' = (Decremented = 0)
  /\ UNCHANGED <<size, blockfreespace, numblocks>>

(* Cs2ReadFileSystem and Cs2GetIP through Cs2ReadUnFilteredSector: each
   directory sector is pushed on the partition and popped again.  The popped
   slot keeps its pointer.  Every sector of a directory takes the same block,
   so the sequence is one push and pop. *)
PushPop(p) ==
  /\ FreeBlocks # {}
  /\ slot' = [slot EXCEPT ![p] = SortBlocks(StoreAtEnd(p, FirstFree)[p])]
  /\ psize' = [psize EXCEPT ![p] = NonReset(psize[p])]
  /\ isbufferfull' = FALSE
  /\ UNCHANGED <<size, blockfreespace, numblocks>>

(* The drive fails on the first or on a later one of those sectors: the block
   taken for it stays allocated and no partition counts it. *)
PushFails(p) ==
  /\ DirReadFails
  /\ FreeBlocks # {}
  /\ size' = [size EXCEPT ![FirstFree] = getsectsize]
  /\ AllocatedFlags
  /\ \/ /\ slot' = StoreAtEnd(p, FirstFree)
        /\ UNCHANGED psize
     \/ /\ slot' = [slot EXCEPT ![p] = SortBlocks(StoreAtEnd(p, FirstFree)[p])]
        /\ psize' = [psize EXCEPT ![p] = NonReset(psize[p])]
  /\ UNCHANGED numblocks

PushFindsNoBlock(p) ==
  /\ FreeBlocks = {}
  /\ slot' = StoreAtEnd(p, NULL)
  /\ isbufferfull' = TRUE
  /\ UNCHANGED <<size, blockfreespace, numblocks, psize>>

ReadFileSystem ==
  /\ connected' = TRUE
  /\ \E p \in Selector :
       IF isbufferfull
         THEN UNCHANGED <<blockVars, partVars>>
         ELSE PushPop(p) \/ PushFails(p) \/ PushFindsNoBlock(p)
  /\ UNCHANGED <<isonesectorstored, getsectsize, xferVars>>

-----------------------------------------------------------------------------
(* Commands of the host                                                    *)

(* The host does not delete or reset the partition it is reading from. *)
MayRelease(p) == ~(hostxfer /\ datatranspartition = p)

SetCDDeviceConnection ==
  /\ connected' \in BOOLEAN
  /\ UNCHANGED <<blockVars, partVars, isonesectorstored, getsectsize, xferVars>>

SetSectorLength ==
  /\ getsectsize' \in SectorSizes
  /\ UNCHANGED <<blockVars, partVars, isonesectorstored, connected, xferVars>>

(* Cs2InitializeCDSystem clears the full condition and frees nothing. *)
InitializeCDSystem ==
  /\ isbufferfull' = FALSE
  /\ UNCHANGED <<size, blockfreespace, partVars, isonesectorstored, confVars,
                 xferVars>>

(* The three commands reject an empty partition.  They do not compare the
   sectors asked for with numblocks (a number of 0xFFFF means the rest of the
   partition): that the host asks for sectors it was told of is an assumption
   about the host. *)
SectorsThere(p, pos, n) ==
  /\ numblocks[p] # 0
  /\ pos + n <= numblocks[p]

(* Cs2GetSectorData (type 0) and Cs2GetThenDeleteSectorData (type 2) open a
   transfer of n sectors from sector pos on. *)
OpenTransfer(type, p, pos, n) ==
  /\ SectorsThere(p, pos, n)
  /\ cdwnum' = 0
  /\ datatranstype' = type
  /\ datatranspartition' = p
  /\ datatransoffset' = 0
  /\ datanumsecttrans' = 0
  /\ datatranssectpos' = pos
  /\ datasectstotrans' = n
  /\ hostxfer' = TRUE
  /\ UNCHANGED <<blockVars, partVars, isonesectorstored, confVars>>

GetSectorData ==
  \E p \in Selector, pos \in Slot, n \in 1..NBlocks : OpenTransfer(0, p, pos, n)

GetThenDeleteSectorData ==
  \E p \in Selector, pos \in Slot, n \in 1..NBlocks : OpenTransfer(2, p, pos, n)

(* How far a transfer is: bytes in all, bytes of the current sector, sectors. *)
Position == <<cdwnum, datatransoffset, datanumsecttrans>>

(* The sector a word comes from is the one at datanumsecttrans;
   datatranssectpos is not added. *)
SectorSize(n) == size[slot[datatranspartition][n]]

(* One long word leaves the buffer: the position behind it. *)
AfterWord(pos) ==
  IF pos[2] + 4 >= SectorSize(pos[3])
    THEN <<pos[1] + 4, 0, pos[3] + 1>>
    ELSE <<pos[1] + 4, pos[2] + 4, pos[3]>>

TakeWord ==
  LET next == AfterWord(Position) IN
  /\ datanumsecttrans < datasectstotrans
  /\ cdwnum' = next[1]
  /\ datatransoffset' = next[2]
  /\ datanumsecttrans' = next[3]

DeleteRead ==
  /\ FreeTransferred
  /\ psize' = [psize EXCEPT ![datatranspartition] = @ - cdwnum']

(* Cs2ReadLong at 0x18000: a word, or, once all the words are read, the
   deletion a type 2 transfer ends with. *)
Cs2ReadLong ==
  /\ hostxfer
  /\ datatranstype # -1
  /\ \/ /\ TakeWord
        /\ UNCHANGED <<blockVars, partVars, datatranstype>>
     \/ /\ datanumsecttrans >= datasectstotrans
        /\ datatranstype = 2
        /\ UNCHANGED <<cdwnum, datatransoffset, datanumsecttrans>>
        /\ DeleteRead
  /\ UNCHANGED <<isonesectorstored, confVars, datatranspartition,
                 datatranssectpos, datasectstotrans, hostxfer>>

(* Cs2RapidCopyT1 and T2, the burst of a DMA channel: the call, each turn of
   the loop, and what follows the loop.  Nothing else runs in between. *)
Cs2RapidCopy ==
  /\ burst = -1
  /\ hostxfer
  /\ datatranstype # -1
  /\ \E count \in Bursts : burst' = count /\ asked' = count
  /\ start' = Position
  /\ UNCHANGED <<blockVars, partVars, isonesectorstored, confVars, xferVars>>

CopyMore == burst > 0 /\ datanumsecttrans < datasectstotrans

(* Mutant: the bytes of the sector that were read before are not taken off. *)
Mut_Chunk == IF SectorSize(datanumsecttrans) < burst * 4
               THEN SectorSize(datanumsecttrans) ELSE burst * 4

(* What is left of the current sector, or less when the burst ends in it. *)
Chunk ==
  LET max == SectorSize(datanumsecttrans) - datatransoffset IN
  IF max < burst * 4 THEN max ELSE burst * 4

CopySector ==
  LET offset == datatransoffset + Chunk
      done   == offset >= SectorSize(datanumsecttrans)
  IN /\ CopyMore
     /\ burst' = burst - Chunk \div 4
     /\ cdwnum' = cdwnum + Chunk
     /\ datatransoffset' = IF done THEN 0 ELSE offset
     /\ datanumsecttrans' = IF done THEN datanumsecttrans + 1
                                    ELSE datanumsecttrans
     /\ UNCHANGED <<blockVars, partVars, isonesectorstored, confVars,
                    datatranstype, datatranspartition, datatranssectpos,
                    datasectstotrans, hostxfer, asked, start>>

(* The deletion is due when no word is left, also when reads have taken the
   last.  Words that were not there are dummy data. *)
EndRapidCopy ==
  /\ burst # -1
  /\ ~CopyMore
  /\ UNCHANGED <<cdwnum, datatransoffset, datanumsecttrans>>
  /\ IF datatranstype = 2 /\ datanumsecttrans >= datasectstotrans
       THEN DeleteRead
       ELSE UNCHANGED <<blockVars, partVars, datatranstype>>
  /\ burst' = -1 /\ asked' = 0 /\ start' = <<0, 0, 0>>
  /\ UNCHANGED <<isonesectorstored, confVars, datatranspartition,
                 datatranssectpos, datasectstotrans, hostxfer>>

(* "if (blockfreespace == 200) isonesectorstored = 0", after a deletion. *)
ClearStoredFlag ==
  isonesectorstored' = (isonesectorstored /\ blockfreespace' # NBlocks)

(* Cs2EndDataTransfer.  A type 0 transfer keeps its type; a type 2 transfer
   on a partition whose size is not positive keeps type and sectors. *)
EndDataTransfer ==
  /\ hostxfer
  /\ hostxfer' = FALSE
  /\ cdwnum' = 0
  /\ IF datatranstype = 2 /\ psize[datatranspartition] > 0
       THEN /\ FreeTransferred
            /\ psize' = [psize EXCEPT ![datatranspartition] = @ - cdwnum]
            /\ ClearStoredFlag
       ELSE UNCHANGED <<blockVars, partVars, datatranstype, isonesectorstored>>
  /\ UNCHANGED <<confVars, datatranspartition, datatransoffset,
                 datanumsecttrans, datatranssectpos, datasectstotrans>>

DeleteSectorData ==
  \E p \in Selector, pos \in Slot, n \in 1..NBlocks :
    /\ MayRelease(p)
    /\ SectorsThere(p, pos, n)
    /\ FreeRange(p, pos, n)
    /\ psize' = [psize EXCEPT ![p] = @ - Bytes(p, RangeOf(pos, n))]
    /\ ClearStoredFlag
    /\ UNCHANGED <<confVars, xferVars>>

(* Mutant: the loop over the partition's blocks stops one short. *)
Mut_ResetPartition ==
  \E p \in Selector :
    /\ MayRelease(p)
    /\ LET freed == {i \in Live(p) : slot[p][i] # NULL /\ i # numblocks[p] - 1} IN
       /\ size' = [b \in Block |-> IF \E i \in freed : slot[p][i] = b
                                     THEN -1 ELSE size[b]]
       /\ blockfreespace' = (blockfreespace + Cardinality(freed)) % FreeModulus
       /\ isbufferfull' = (isbufferfull /\ freed = {} /\ blockfreespace' = 0)
    /\ slot' = [slot EXCEPT ![p] = [i \in Slot |-> IF i < numblocks[p]
                                       THEN NULL ELSE slot[p][i]]]
    /\ numblocks' = [numblocks EXCEPT ![p] = 0]
    /\ psize' = [psize EXCEPT ![p] = -1]
    /\ ClearStoredFlag
    /\ UNCHANGED <<confVars, xferVars>>

(* Cs2ResetSelector with flags 0: the blocks of one partition. *)
ResetPartition ==
  \E p \in Selector :
    /\ MayRelease(p)
    /\ LET freed == {i \in Live(p) : slot[p][i] # NULL} IN
       /\ size' = [b \in Block |-> IF \E i \in freed : slot[p][i] = b
                                     THEN -1 ELSE size[b]]
       /\ blockfreespace' = (blockfreespace + Cardinality(freed)) % FreeModulus
       /\ isbufferfull' = (isbufferfull /\ freed = {} /\ blockfreespace' = 0)
    /\ slot' = [slot EXCEPT ![p] = [i \in Slot |-> IF i < numblocks[p]
                                       THEN NULL ELSE slot[p][i]]]
    /\ numblocks' = [numblocks EXCEPT ![p] = 0]
    /\ psize' = [psize EXCEPT ![p] = -1]
    /\ ClearStoredFlag
    /\ UNCHANGED <<confVars, xferVars>>

(* Cs2ResetSelector with flag 0x04: every partition and every block, but not
   blockfreespace. *)
ResetAllData ==
  /\ HostResetsAll
  /\ ~hostxfer
  /\ ResetBuffers
  /\ isbufferfull' = FALSE
  /\ isonesectorstored' = FALSE
  /\ UNCHANGED <<blockfreespace, confVars, xferVars>>

(* Cs2AbortFile *)
AbortFile ==
  /\ isonesectorstored' = FALSE
  /\ datatranstype' = -1
  /\ cdwnum' = 0
  /\ hostxfer' = FALSE
  /\ UNCHANGED <<blockVars, partVars, confVars, datatranspartition,
                 datatransoffset, datanumsecttrans, datatranssectpos,
                 datasectstotrans>>

(* Cs2Reset, when the console is reset: outconcddev and the transfer's
   position survive it. *)
Cs2Reset ==
  /\ ResetBuffers
  /\ blockfreespace' = NBlocks
  /\ isbufferfull' = FALSE
  /\ isonesectorstored' = FALSE
  /\ getsectsize' = UserDataSize
  /\ datatranstype' = -1
  /\ cdwnum' = 0
  /\ hostxfer' = FALSE
  /\ UNCHANGED <<connected, datatranspartition, datatransoffset,
                 datanumsecttrans, datatranssectpos, datasectstotrans>>

-----------------------------------------------------------------------------
Drive == ReadFilteredSector \/ ReadFileSystem

Host == \/ SetCDDeviceConnection
        \/ SetSectorLength
        \/ InitializeCDSystem
        \/ GetSectorData
        \/ GetThenDeleteSectorData
        \/ Cs2ReadLong
        \/ EndDataTransfer
        \/ DeleteSectorData
        \/ ResetPartition
        \/ ResetAllData
        \/ AbortFile

Burst == Cs2RapidCopy \/ CopySector \/ EndRapidCopy

Next ==
  \/ burst = -1 /\ UNCHANGED burstVars /\ (Drive \/ Host \/ Cs2Reset)
  \/ Burst

Spec == Init /\ [][Next]_vars
-----------------------------------------------------------------------------
(* Properties                                                              *)

(* The types of the variables; psize can drift (see SizeCoversBlocks), and its
   range is left to TLC. *)
TypeOK ==
  /\ size \in [Block -> {-1} \union AllSizes]
  /\ slot \in [Selector -> [Slot -> Block \union {NULL}]]
  /\ numblocks \in [Selector -> 0..NBlocks]
  /\ blockfreespace \in 0..(FreeModulus - 1)
  /\ isbufferfull \in BOOLEAN
  /\ isonesectorstored \in BOOLEAN
  /\ connected \in BOOLEAN
  /\ getsectsize \in SectorSizes
  /\ datatranstype \in {-1, 0, 2}
  /\ datatranspartition \in Selector \union {NULL}
  /\ datatransoffset \in Nat
  /\ datanumsecttrans \in Nat
  /\ datatranssectpos \in Slot
  /\ datasectstotrans \in 0..NBlocks
  /\ cdwnum \in Nat
  /\ hostxfer \in BOOLEAN
  /\ burst \in Nat \union {-1}
  /\ asked \in Nat
  /\ start \in Nat \X Nat \X Nat

(* Every live slot of every partition points to an allocated block, and no two
   live slots point to the same block: a sector the host can still read is never
   overwritten by one the drive reads, and never freed twice.  The code relies
   on it in every loop that dereferences block[i] without a test, while stale
   pointers are left behind the live slots by the directory commands. *)
Ownership ==
  /\ \A p \in Selector : \A i \in Live(p) :
       slot[p][i] # NULL /\ size[slot[p][i]] # -1
  /\ \A p, q \in Selector : \A i \in Live(p), j \in Live(q) :
       slot[p][i] = slot[q][j] => p = q /\ i = j

(* While the host holds a transfer open, the sectors it deletes at its end, and
   the sectors it reads, are live, whatever the drive has appended or the
   directory commands have pushed and popped in the meantime. *)
TransferInRange ==
  hostxfer /\ datatranstype # -1 =>
    /\ datatranspartition \in Selector
    /\ datatranssectpos + datasectstotrans <= numblocks[datatranspartition]

(* GetBufferSize answers with blockfreespace, and Cs2AllocateBlock sets the full
   condition from it, but a block is free when its size is -1: the two accounts
   agree. *)
FreeCount == blockfreespace = Cardinality(FreeBlocks)

(* The drive stalls on a full buffer only: the full condition, which is set by
   allocation and cleared by six different handlers, never outlives the lack of
   a free block. *)
StallsOnlyWhenFull == isbufferfull => FreeBlocks = {}

(* No block is lost: what is allocated is reachable through a partition and can
   be freed by the host.  Holds as long as the drive reads every directory
   sector (DirReadFails = FALSE). *)
NoLeak == \A b \in Block : size[b] # -1 => \E p \in Selector : b \in Held(p)

(* With sectors of one length, a partition that holds sectors has a size that
   covers them, so EndDataTransfer's test "size <= 0" never keeps the sectors of
   a get-then-delete transfer.  An early end adds the unread bytes to the size
   for good, which is why this is no equality. *)
SizeCoversBlocks ==
  \A p \in Selector : numblocks[p] > 0 =>
    psize[p] >= Bytes(p, Live(p))

(* The arrays, their counts and the sizes of the blocks implement queues of
   sectors (module CdPartitions), whatever stale pointers stand behind the live
   ones. *)
Queue(p) == [k \in 1..numblocks[p] |-> slot[p][k - 1]]
Queues == INSTANCE CdPartitions WITH
  content <- [p \in Selector |-> Queue(p)],
  taken <- {b \in Block : size[b] # -1},
  MayLose <- DirReadFails
QueuesSpec == Queues!Spec

(* EndDataTransfer on a get-then-delete transfer the host ends early deletes
   exactly the sectors that were asked for, however many were read. *)
EndDeletesRequested ==
  [][EndDataTransfer /\ datatranstype = 2 =>
       /\ Cardinality(FreeBlocks') = Cardinality(FreeBlocks) + datasectstotrans
       /\ datatranstype' = -1]_vars

(* Sectors of a partition are never reordered: of two that are in it before and
   after a step, the one in front stays in front.  QueuesSpec implies it. *)
Before(p, b, c) == \E i, j \in Live(p) : i < j /\ slot[p][i] = b /\ slot[p][j] = c
OrderPreserved ==
  [][\A p \in Selector : \A b, c \in Held(p) \cap Held(p)' :
       Before(p, b, c) => Before(p, b, c)']_vars

(* Where the words of the burst lead that are read one by one, as far as there
   are words. *)
AfterWords[n \in Nat] ==
  IF n = 0 THEN start
  ELSE IF AfterWords[n - 1][3] < datasectstotrans
         THEN AfterWord(AfterWords[n - 1])
         ELSE AfterWords[n - 1]

(* "Copy count 32-bit words from the CD buffer to type-1 memory dest, as though
   0x25818000 had been read that many times": the burst of a DMA channel, which
   copies what is left of one sector at a time, leaves the transfer where as many
   reads leave it, whatever position they begin at.  (Of transfers that delete, a
   burst deletes the sectors with the last word, and reads only with one more.) *)
RapidCopyAsReads == [][EndRapidCopy => Position' = AfterWords[asked]]_vars

(* "From sectoffset to last sector in partition": a word the host reads of a
   transfer comes from one of the sectors the transfer was opened for. *)
ReadsRequestedSectors ==
  [][hostxfer /\ datanumsecttrans < datasectstotrans /\ cdwnum' > cdwnum =>
       datanumsecttrans >= datatranssectpos]_vars
=============================================================================
