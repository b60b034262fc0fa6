--------------------------- MODULE ScuInterrupts ---------------------------
(***************************************************************************)
(* The interrupts of the master SH-2 (src/src/scu.c, src/src/sh2int.c).    *)
(*                                                                         *)
(* A device raises an interrupt at the SCU.  If its bit of the mask IMS is *)
(* clear the SCU hands it to the SH-2 at once; if not it goes to the SCU's *)
(* queue and its bit of the status IST is set.  A write of IMS hands over  *)
(* one interrupt of the queue.  The SH-2 has a queue of its own, fed by    *)
(* the SCU, by its on-chip modules and by the NMI line, and at the start   *)
(* of a slice takes the last entry if its level is above SR.I.             *)
(*                                                                         *)
(* Both queues refuse a vector they hold and are sorted by level, lowest   *)
(* first, by an exchange sort after each append.  What that sort does to a *)
(* sorted queue with one entry appended is the operator Sorted below.      *)
(***************************************************************************)
EXTENDS Integers, Sequences, FiniteSets

CONSTANTS
  Source,       \* interrupts of the SCU; one vector and one IST bit each
  OnChip,       \* vectors that the on-chip modules of the SH-2 use
  NMI,          \* vector 0xB
  Level,        \* [Source -> 0..15]
  Mask,         \* [Source -> MaskBit]
  MaskBit,      \* bits of IMS; the external interrupts share one of them
  OnChipLevel,  \* levels that the program gives on-chip modules in IPRA/IPRB
  ILevel        \* values of SR.I that the program loads

Vector   == Source \union OnChip \union {NMI}
Mut_NMILevel == 15  \* mutant: the highest level that SR.I can have
NMILevel == 16      \* 0x10
MaxI     == 15      \* SR.I has four bits

ASSUME VectorAssumption ==
  /\ NMI \notin Source \union OnChip
  /\ Source \intersect OnChip = {}
ASSUME LevelAssumption ==
  /\ Level \in [Source -> 0..MaxI]
  /\ OnChipLevel \subseteq 0..MaxI
  /\ ILevel \subseteq 0..MaxI
  /\ Mask \in [Source -> MaskBit]

VARIABLES
  IMS,          \* set of mask bits that are 1
  IST,          \* set of sources whose status bit is 1
  scuQ,         \* ScuRegs->interrupts
  sh2Q,         \* MSH2->interrupts
  I,            \* SR.part.I of the master SH-2
  due,          \* history: raised, and not accepted since
  credit        \* history: times raised less times accepted, up to Cap

vars == <<IMS, IST, scuQ, sh2Q, I, due, credit>>

Entry == [vector : Vector, level : 0..NMILevel]

(* The queues a vector may wait in; credit counts no further. *)
Cap(v) == IF v \in Source THEN 2 ELSE 1
-----------------------------------------------------------------------------
Holds(q, v) == \E k \in DOMAIN q : q[k].vector = v

(* The first entry of the run of equal levels that position k is in. *)
RunStart(q, k) ==
  CHOOSE j \in 1..k : /\ q[j].level = q[k].level
                      /\ \A m \in 1..(j - 1) : q[m].level # q[k].level

(* The exchange sort on q with e appended, q sorted.  e goes behind all    *)
(* entries of its level or lower; of every run of equal levels above it,   *)
(* the first entry moves to the end.                                       *)
Sorted(q, e) ==
  LET low == Cardinality({k \in DOMAIN q : q[k].level <= e.level})
  IN  [j \in 1..(Len(q) + 1) |->
         IF j <= low THEN q[j]
         ELSE IF j = low + 1 THEN e
         ELSE IF j <= Len(q) /\ q[j].level = q[j - 1].level THEN q[j]
         ELSE q[RunStart(q, j - 1)]]

(* SH2InterpreterSendInterrupt and ScuQueueInterrupt: a vector that is in  *)
(* the queue is not queued again.                                          *)
Queue(q, v, l) ==
  IF Holds(q, v) THEN q ELSE Sorted(q, [vector |-> v, level |-> l])

(* Mutants: the last entry goes, whichever was handed over; none goes. *)
Mut_WithoutLast(q, i) == SubSeq(q, 1, Len(q) - 1)
Mut_WithoutNone(q, i) == q

(* A queue without its entry i: the later entries move up. *)
Without(q, i) == [k \in 1..(Len(q) - 1) |-> IF k < i THEN q[k] ELSE q[k + 1]]
-----------------------------------------------------------------------------
(* After YabauseResetNoLoad: everything is masked, SR is 0xF0. *)
Init ==
  /\ IMS = MaskBit /\ IST = {} /\ scuQ = <<>>
  /\ sh2Q = <<>> /\ I = MaxI
  /\ due = {} /\ credit = [v \in Vector |-> 0]

Raised(v) ==
  /\ due' = due \union {v}
  /\ credit' = [credit EXCEPT ![v] = IF @ < Cap(v) THEN @ + 1 ELSE @]

(* SendInterrupt of scu.c, and with it the ScuSend functions. *)
SendInterrupt(s) ==
  /\ IF Mask[s] \notin IMS
       THEN /\ sh2Q' = Queue(sh2Q, s, Level[s])
            /\ UNCHANGED <<scuQ, IST>>
       ELSE /\ scuQ' = Queue(scuQ, s, Level[s])
            /\ IST' = IST \union {s}
            /\ UNCHANGED sh2Q
  /\ Raised(s)
  /\ UNCHANGED <<IMS, I>>

(* Queued interrupts that the mask ims lets through. *)
Open(q, ims) == {k \in DOMAIN q : Mask[q[k].vector] \notin ims}

(* Mutant: the search begins at the other end. *)
Mut_Chosen(q, ims) ==
  CHOOSE k \in Open(q, ims) : \A m \in Open(q, ims) : k <= m

(* The last of them. *)
Chosen(q, ims) ==
  CHOOSE k \in Open(q, ims) : \A m \in Open(q, ims) : m <= k

(* Mutant: the status bit stays. *)
Mut_Cleared(s) == IST

Cleared(s) == IST \ {s}

(* A write of IMS: ScuTestInterruptMask looks from the end of the queue    *)
(* and hands over the first interrupt that is not masked, only that one.   *)
WriteIMS(ims) ==
  /\ IMS' = ims
  /\ IF Open(scuQ, ims) = {} THEN UNCHANGED <<IST, scuQ, sh2Q>>
     ELSE LET i == Chosen(scuQ, ims)
              e == scuQ[i]
          IN  /\ sh2Q' = Queue(sh2Q, e.vector, e.level)
              /\ IST' = Cleared(e.vector)
              /\ scuQ' = Without(scuQ, i)
  /\ UNCHANGED <<I, due, credit>>

(* A write of IST clears the bits that are 0 in it; the queue stays. *)
WriteIST(ist) ==
  /\ IST' = IST \intersect ist
  /\ UNCHANGED <<IMS, scuQ, sh2Q, I, due, credit>>

(* An on-chip module (DIVU, FRT, WDT, DMA) sends its vector at its level. *)
SendOnChip(v, l) ==
  /\ sh2Q' = Queue(sh2Q, v, l)
  /\ Raised(v)
  /\ UNCHANGED <<IMS, IST, scuQ, I>>

(* NMIREQ and the reset button. *)
SendNMI ==
  /\ sh2Q' = Queue(sh2Q, NMI, NMILevel)
  /\ Raised(NMI)
  /\ UNCHANGED <<IMS, IST, scuQ, I>>

(* Mutant: all of the level. *)
Mut_FourBits(l) == l

FourBits(l) == l % (MaxI + 1)

(* SH2HandleInterrupts: SR.I takes the level, of which it keeps four bits. *)
HandleInterrupts ==
  /\ sh2Q # <<>>
  /\ LET top == sh2Q[Len(sh2Q)]
     IN  /\ top.level > I
         /\ I' = FourBits(top.level)
         /\ sh2Q' = Without(sh2Q, Len(sh2Q))
         /\ due' = due \ {top.vector}
         /\ credit' = [credit EXCEPT ![top.vector] = @ - 1]
  /\ UNCHANGED <<IMS, IST, scuQ>>

(* The program loads SR or returns from a handler. *)
SetI(i) ==
  /\ I' = i
  /\ UNCHANGED <<IMS, IST, scuQ, sh2Q, due, credit>>

(* CKCHG352 and CKCHG320: ScuReset, then SH2NMI(MSH2).  What the SCU held  *)
(* is gone; what the SH-2 holds stays.                                     *)
ClockChange ==
  LET lost(v) == IF Holds(scuQ, v) THEN 1 ELSE 0
  IN  /\ IMS' = MaskBit /\ IST' = {} /\ scuQ' = <<>>
      /\ sh2Q' = Queue(sh2Q, NMI, NMILevel)
      /\ due' = {v \in due : Holds(sh2Q, v)} \union {NMI}
      /\ credit' = [v \in Vector |->
           IF v = NMI THEN 1 ELSE credit[v] - lost(v)]
      /\ UNCHANGED I

(* YabauseResetNoLoad: SH2Reset(MSH2), ScuReset. *)
Reset ==
  /\ IMS' = MaskBit /\ IST' = {} /\ scuQ' = <<>>
  /\ sh2Q' = <<>> /\ I' = MaxI
  /\ due' = {} /\ credit' = [v \in Vector |-> 0]

Next ==
  \/ \E s \in Source : SendInterrupt(s)
  \/ \E v \in OnChip, l \in OnChipLevel : SendOnChip(v, l)
  \/ SendNMI
  \/ \E ims \in SUBSET MaskBit : WriteIMS(ims)
  \/ \E ist \in SUBSET Source : WriteIST(ist)
  \/ HandleInterrupts
  \/ \E i \in ILevel : SetI(i)
  \/ ClockChange
  \/ Reset

(* The main loop runs the master SH-2 in every slice, and SH2Exec begins   *)
(* with SH2HandleInterrupts.                                               *)
Spec == Init /\ [][Next]_vars /\ WF_vars(HandleInterrupts)
-----------------------------------------------------------------------------
TypeOK ==
  /\ IMS \subseteq MaskBit
  /\ IST \subseteq Source
  /\ scuQ \in Seq([vector : Source, level : 0..MaxI])
  /\ sh2Q \in Seq(Entry)
  /\ I \in 0..MaxI
  /\ due \subseteq Vector
  /\ credit \in [Vector -> 0..2] /\ \A v \in Vector : credit[v] <= Cap(v)

Ascending(q) == \A j, k \in DOMAIN q : j < k => q[j].level <= q[k].level
Distinct(q)  == \A j, k \in DOMAIN q : q[j].vector = q[k].vector => j = k

(* Both queues are sorted and hold a vector at most once, whatever was     *)
(* sent, merged, handed over and taken.  Everything that looks at the end  *)
(* of a queue for the highest level relies on it, and the arrays are only  *)
(* large enough (30 entries for the 30 sources of the SCU) because of it.  *)
QueuesOrdered ==
  /\ Ascending(scuQ) /\ Distinct(scuQ)
  /\ Ascending(sh2Q) /\ Distinct(sh2Q)

(* A raised interrupt waits in the SCU or in the SH-2 until the SH-2 takes *)
(* it, however often the masks and the status are written meanwhile: none  *)
(* falls out between the two queues.                                       *)
NothingLost == \A v \in due : Holds(scuQ, v) \/ Holds(sh2Q, v)

(* And none is made up: an interrupt that waits in both queues was raised  *)
(* twice more than it was taken.                                           *)
Copies(v) == (IF Holds(scuQ, v) THEN 1 ELSE 0) + (IF Holds(sh2Q, v) THEN 1 ELSE 0)
NothingInvented == \A v \in Vector : Copies(v) <= credit[v]

(* A status bit that is 1 stands for an interrupt the SCU still holds.     *)
(* (The converse fails: a write of IST clears bits and leaves the queue.)  *)
StatusIsQueued == \A s \in IST : Holds(scuQ, s)

(* No interrupt leaves the SH-2's queue while one of a higher level stays, *)
(* and none leaves the SCU's while one of a higher level stays that the    *)
(* mask lets through.                                                      *)
HighestFirst ==
  [][/\ \A k \in DOMAIN sh2Q : ~Holds(sh2Q', sh2Q[k].vector) =>
          \A m \in DOMAIN sh2Q' : sh2Q'[m].level <= sh2Q[k].level
     /\ \A k \in DOMAIN scuQ : ~Holds(scuQ', scuQ[k].vector) =>
          \A m \in Open(scuQ', IMS') : scuQ'[m].level <= scuQ[k].level]_vars

(* A non-maskable interrupt is taken, whatever SR.I is and whatever else   *)
(* is sent to the SH-2: its level is above all others, so it is the last   *)
(* entry of the queue.                                                     *)
NMITaken == Holds(sh2Q, NMI) ~> ~Holds(sh2Q, NMI)
=============================================================================
