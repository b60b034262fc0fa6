-------------------------- MODULE CddaRing_proofs --------------------------
(***************************************************************************)
(* Theorems about module CddaRing, for any number and size of sectors.     *)
(***************************************************************************)
EXTENDS CddaRing, TLAPS

-----------------------------------------------------------------------------
(* Positions: Base and Size are products, and all that the proofs need to  *)
(* know of them is in the next two lemmas.                                 *)

LEMMA Products ==
  ASSUME NEW i \in Nat, NEW n \in Nat, i < n, NEW s \in Nat \ {0}
  PROVE  /\ i * s \in Nat /\ n * s \in Nat
         /\ (i + 1) * s = i * s + s
         /\ i * s + s <= n * s
         /\ i + 1 = n => i * s + s = n * s
<1>1. i * s \in Nat /\ n * s \in Nat /\ (n - i - 1) * s \in Nat
  BY SMT
<1>2. (i + 1) * s = i * s + s
  BY SMT
<1>3. n * s = i * s + s + (n - i - 1) * s
  BY SMT
<1>4. i + 1 = n => (n - i - 1) * s = 0
  BY SMT
<1>5. QED
  BY <1>1, <1>2, <1>3, <1>4

LEMMA Positions ==
  ASSUME in \in 0..(N - 1)
  PROVE  /\ N \in Nat /\ S \in Nat \ {0} /\ Delay \in Nat
         /\ Batch \subseteq Nat \ {0}
         /\ Base \in Nat /\ Size \in Nat
         /\ Base + S <= Size
<1>1. in \in Nat /\ N \in Nat /\ in < N /\ S \in Nat \ {0}
  BY RingAssumption
<1>2. QED
  BY <1>1, Products, RingAssumption DEF Base, Size

(* Publish goes to the next sector, or from the last to the first.         *)
LEMMA NextSector ==
  ASSUME in \in 0..(N - 1), Publish
  PROVE  /\ in' \in 0..(N - 1)
         /\ \/ in # N - 1 /\ Base' = Base + S
            \/ in = N - 1 /\ Base' = 0 /\ Base + S = Size
<1>1. in \in Nat /\ N \in Nat /\ in < N /\ S \in Nat \ {0}
  BY RingAssumption
<1>2. CASE in = N - 1
  <2>1. in' = 0
    BY <1>1, <1>2, SMT DEF Publish
  <2>2. Base' = 0
    BY <2>1, <1>1, SMT DEF Base
  <2>3. Base + S = Size
    BY <1>1, <1>2, Products DEF Base, Size
  <2>4. QED
    BY <1>1, <1>2, <2>1, <2>2, <2>3
<1>3. CASE in # N - 1
  <2>1. in' = in + 1
    BY <1>1, <1>3, SMT DEF Publish
  <2>2. Base' = Base + S
    BY <1>1, <2>1, Products DEF Base
  <2>3. QED
    BY <1>1, <1>3, <2>1, <2>2
<1>4. QED
  BY <1>2, <1>3
-----------------------------------------------------------------------------
(* Types                                                                   *)

LEMMA TypeInit == Init => TypeOK
<1>1. 0 \in 0..(N - 1)
  BY RingAssumption
<1>2. SUFFICES ASSUME Init PROVE TypeOK
  OBVIOUS
<1>3. in \in 0..(N - 1)
  BY <1>1, <1>2 DEF Init
<1>4. 0 \in Cell /\ Size \in Nat /\ Delay \in Nat /\ S \in Nat
  BY <1>3, Positions DEF Cell
<1>5. filled \in BOOLEAN /\ fresh \subseteq Cell
  BY <1>2 DEF Init
<1>6. QED
  BY <1>2, <1>3, <1>4, <1>5 DEF Init, TypeOK

LEMMA TypeNext == TypeOK /\ [Next]_vars => TypeOK'
<1>1. SUFFICES ASSUME TypeOK, [Next]_vars PROVE TypeOK'
  OBVIOUS
<1>2. in \in 0..(N - 1)
  BY <1>1 DEF TypeOK
<1>3. /\ N \in Nat /\ S \in Nat \ {0} /\ Delay \in Nat
      /\ Batch \subseteq Nat \ {0} /\ Base \in Nat /\ Size \in Nat
      /\ Base + S <= Size
  BY <1>2, Positions
<1>4. Size' = Size /\ Cell' = Cell
  BY DEF Size, Cell
<1>5. CASE Receive
  BY <1>1, <1>3, <1>4, <1>5 DEF TypeOK, Receive, readerVars
<1>6. CASE CopyUnit
  BY <1>1, <1>3, <1>4, <1>6 DEF TypeOK, CopyUnit, readerVars, Cell
<1>7. CASE Publish
  <2>1. in' \in 0..(N - 1)
    BY <1>2, <1>7, NextSector
  <2>2. QED
    BY <1>1, <1>4, <1>7, <2>1 DEF TypeOK, Publish, readerVars
<1>8. ASSUME NEW n \in Batch, Generate(n)
      PROVE  TypeOK'
  BY <1>1, <1>3, <1>4, <1>8 DEF TypeOK, Generate, DelayLeft, writerVars
<1>9. CASE Look
  <2>1. OutLeft \in 0..Size /\ out + OutLeft <= Size
    BY <1>1, <1>3 DEF TypeOK, OutLeft, Cell
  <2>2. len' \in 0..Size /\ out + len' <= Size /\ len' <= samples
    BY <1>1, <1>3, <1>9, <2>1 DEF TypeOK, Look, Cell
  <2>3. QED
    BY <1>1, <1>3, <1>4, <1>9, <2>2 DEF TypeOK, Look, writerVars
<1>10. CASE PlayUnit
  BY <1>1, <1>3, <1>4, <1>10 DEF TypeOK, PlayUnit, writerVars
<1>11. CASE Advance
  <2>1. Past \in Cell
    BY <1>1, <1>3, <1>11 DEF TypeOK, Past, Cell
  <2>2. samples - len \in Nat
    BY <1>1, <1>11 DEF TypeOK, Advance
  <2>3. QED
    BY <1>1, <1>4, <1>11, <2>1, <2>2 DEF TypeOK, Advance, writerVars
<1>12. CASE EndGenerate
  BY <1>1, <1>3, <1>4, <1>12 DEF TypeOK, EndGenerate, writerVars
<1>13. CASE Reset
  <2>1. 0 \in 0..(N - 1) /\ 0 \in Cell
    BY <1>2, <1>3 DEF Cell
  <2>2. filled' \in BOOLEAN /\ fresh' \subseteq Cell
    BY <1>13 DEF Reset
  <2>3. QED
    BY <1>1, <1>3, <1>4, <1>13, <2>1, <2>2 DEF TypeOK, Reset
<1>14. CASE UNCHANGED vars
  BY <1>1, <1>4, <1>14 DEF TypeOK, vars, writerVars, readerVars
<1>15. QED
  BY <1>1, <1>5, <1>6, <1>7, <1>8, <1>9, <1>10, <1>11, <1>12, <1>13, <1>14
     DEF Next, SoundThread

(* Positions, counts and the set of stored units keep their types: in      *)
(* particular the sound thread never reads past the end of the ring.       *)
THEOREM TypeCorrect == Spec => []TypeOK
<1>1. Init => TypeOK
  BY TypeInit
<1>2. TypeOK /\ [Next]_vars => TypeOK'
  BY TypeNext
<1>3. QED
  BY <1>1, <1>2, PTL DEF Spec
-----------------------------------------------------------------------------
(* What is stored                                                          *)

PlayedOf == IF reader = "play" THEN played ELSE 0
CopiedOf == IF writer = "copy" THEN copied ELSE 0

(* The units from the reader to the writer, around the end of the ring     *)
(* when the reader is past the writer.                                     *)
InRing(c) ==
  IF out <= Base THEN out + PlayedOf <= c /\ c < Base + CopiedOf
                 ELSE out + PlayedOf <= c \/ c < Base + CopiedOf

Stored == {c \in Cell : InRing(c)}

(* Exactly the units from the reader to the writer are fresh, the room for *)
(* a sector lasts until it is stored, and what the reader has looked up    *)
(* does not go past the writer.                                            *)
Shape ==
  ~filled => /\ fresh = Stored
             /\ writer = "copy" => Room
             /\ reader = "play" /\ out <= Base => out + len <= Base

Inv == TypeOK /\ Shape

LEMMA InvIntact == Inv => Intact
<1>1. SUFFICES ASSUME TypeOK, Shape, ~filled
               PROVE  /\ ToPlay \subseteq fresh
                      /\ ToCopy \intersect fresh = {}
                      /\ reader # "play" /\ out = Base /\ writer = "idle"
                           => fresh = {}
  BY DEF Inv, Intact
<1>2. Base \in Nat /\ Size \in Nat /\ S \in Nat /\ Base + S <= Size
  BY <1>1, Positions DEF TypeOK
<1>3. fresh = Stored
  BY <1>1 DEF Shape
<1>4. ToPlay \subseteq fresh
  BY <1>1, <1>2, <1>3 DEF Shape, TypeOK, ToPlay, Stored, InRing, PlayedOf, CopiedOf, Cell
<1>5. ToCopy \intersect fresh = {}
  BY <1>1, <1>2, <1>3
     DEF Shape, TypeOK, ToCopy, Stored, InRing, PlayedOf, CopiedOf, Cell, Room
<1>6. reader # "play" /\ out = Base /\ writer = "idle" => fresh = {}
  BY <1>1, <1>2, <1>3 DEF TypeOK, Stored, InRing, PlayedOf, CopiedOf, Cell
<1>7. QED
  BY <1>4, <1>5, <1>6

LEMMA InvInit == Init => Inv
<1>1. SUFFICES ASSUME Init PROVE Shape
  BY TypeInit DEF Inv
<1>2. Base = 0
  BY <1>1, RingAssumption, SMT DEF Init, Base
<1>3. Stored = {}
  BY <1>1, <1>2 DEF Init, Stored, InRing, PlayedOf, CopiedOf, Cell
<1>4. QED
  BY <1>1, <1>3 DEF Init, Shape

LEMMA InvNext == Inv /\ [Next]_vars => Inv'
<1>1. SUFFICES ASSUME TypeOK, Shape, TypeOK', [Next]_vars, ~filled' PROVE Shape'
  BY TypeNext DEF Inv, Shape
<1>2. /\ N \in Nat /\ S \in Nat \ {0} /\ Base \in Nat /\ Size \in Nat
      /\ Base + S <= Size
  BY <1>1, Positions DEF TypeOK
<1>3. Size' = Size /\ Cell' = Cell
  BY DEF Size, Cell
<1>4. in' = in => Base' = Base
  BY DEF Base
<1>5. CASE Receive
  <2>1. ~filled /\ Base' = Base /\ Room'
    BY <1>1, <1>4, <1>5 DEF Receive, Room, readerVars
  <2>2. Stored' = Stored
    BY <1>1, <1>2, <1>3, <1>5, <2>1
       DEF Receive, readerVars, Stored, InRing, PlayedOf, CopiedOf, TypeOK
  <2>3. QED
    BY <1>1, <1>5, <2>1, <2>2 DEF Shape, Receive, readerVars
<1>6. CASE CopyUnit
  <2>1. ~filled /\ Base' = Base /\ Room'
    BY <1>1, <1>4, <1>6 DEF CopyUnit, Room, readerVars, Shape
  <2>2. Stored' = Stored \union {Base + copied}
    BY <1>1, <1>2, <1>3, <1>6, <2>1
       DEF CopyUnit, readerVars, Stored, InRing, PlayedOf, CopiedOf, TypeOK, Cell,
           Shape, Room
  <2>3. QED
    BY <1>1, <1>6, <2>1, <2>2 DEF Shape, CopyUnit, readerVars
<1>7. CASE Publish
  <2>1. /\ ~filled /\ Room /\ fresh = Stored
        /\ ~(in = N - 1 /\ out = 0)
    BY <1>1, <1>7 DEF Publish, Shape
  <2>2. \/ in # N - 1 /\ Base' = Base + S
        \/ in = N - 1 /\ Base' = 0 /\ Base + S = Size
    BY <1>1, <1>7, NextSector DEF TypeOK
  <2>3. Stored' = Stored
    BY <1>1, <1>2, <1>3, <1>7, <2>1, <2>2
       DEF Publish, readerVars, Stored, InRing, PlayedOf, CopiedOf, TypeOK, Cell, Room
  <2>4. reader' = "play" /\ out' <= Base' => out' + len' <= Base'
    BY <1>1, <1>2, <1>7, <2>1, <2>2 DEF Publish, readerVars, TypeOK, Cell, Room, Shape
  <2>5. QED
    BY <1>7, <2>1, <2>3, <2>4 DEF Shape, Publish
<1>8. ASSUME NEW n \in Batch, Generate(n)
      PROVE  Shape'
  <2>1. ~filled /\ Base' = Base /\ Room' = Room
    BY <1>1, <1>4, <1>8 DEF Generate, Room, writerVars
  <2>2. reader # "play" /\ reader' # "play"
    BY <1>1, <1>8 DEF Generate
  <2>3. Stored' = Stored
    BY <1>3, <1>8, <2>1, <2>2 DEF Generate, writerVars, Stored, InRing, PlayedOf, CopiedOf
  <2>4. QED
    BY <1>1, <1>8, <2>1, <2>2, <2>3 DEF Shape, Generate, writerVars
<1>9. CASE Look
  <2>1. ~filled /\ Base' = Base /\ Room' = Room
    BY <1>1, <1>4, <1>9 DEF Look, Room, writerVars
  <2>2. Stored' = Stored
    BY <1>3, <1>9, <2>1 DEF Look, writerVars, Stored, InRing, PlayedOf, CopiedOf
  <2>3. out <= Base => out + len' <= Base
    BY <1>1, <1>2, <1>9 DEF Look, OutLeft, TypeOK, Cell
  <2>4. QED
    BY <1>1, <1>9, <2>1, <2>2, <2>3 DEF Shape, Look, writerVars
<1>10. CASE PlayUnit
  <2>1. ~filled /\ Base' = Base /\ Room' = Room
    BY <1>1, <1>4, <1>10 DEF PlayUnit, Room, writerVars
  <2>2. Stored' = Stored \ {out + played}
    BY <1>1, <1>2, <1>3, <1>10, <2>1
       DEF PlayUnit, writerVars, Stored, InRing, PlayedOf, CopiedOf, TypeOK, Cell,
           Shape, Room
  <2>3. QED
    BY <1>1, <1>10, <2>1, <2>2 DEF Shape, PlayUnit, writerVars
<1>11. CASE Advance
  <2>1. ~filled /\ Base' = Base
    BY <1>1, <1>4, <1>11 DEF Advance, writerVars
  <2>2. out' = IF out + len >= Size THEN 0 ELSE out + len
    BY <1>11 DEF Advance, Past
  <2>3. writer' = "copy" => Room'
    BY <1>1, <1>2, <1>11, <2>1, <2>2
       DEF Advance, writerVars, Room, Shape, TypeOK, Cell
  <2>4. Stored' = Stored
    BY <1>1, <1>2, <1>3, <1>11, <2>1, <2>2
       DEF Advance, writerVars, Stored, InRing, PlayedOf, CopiedOf, TypeOK, Cell,
           Shape, Room
  <2>5. QED
    BY <1>1, <1>11, <2>1, <2>3, <2>4 DEF Shape, Advance, writerVars
<1>12. CASE EndGenerate
  <2>1. ~filled /\ Base' = Base /\ Room' = Room
    BY <1>1, <1>4, <1>12 DEF EndGenerate, Room, writerVars
  <2>2. Stored' = Stored
    BY <1>3, <1>12, <2>1
       DEF EndGenerate, writerVars, Stored, InRing, PlayedOf, CopiedOf
  <2>3. QED
    BY <1>1, <1>12, <2>1, <2>2 DEF Shape, EndGenerate, writerVars
<1>13. CASE Reset
  <2>1. Base' = 0
    BY <1>2, <1>13, SMT DEF Reset, Base
  <2>2. Stored' = {}
    BY <1>3, <1>13, <2>1 DEF Reset, Stored, InRing, PlayedOf, CopiedOf, Cell
  <2>3. QED
    BY <1>13, <2>2 DEF Shape, Reset
<1>14. CASE UNCHANGED vars
  <2>1. ~filled /\ Base' = Base /\ Room' = Room
    BY <1>1, <1>4, <1>14 DEF Room, vars, writerVars, readerVars
  <2>2. Stored' = Stored
    BY <1>3, <1>14, <2>1
       DEF vars, writerVars, readerVars, Stored, InRing, PlayedOf, CopiedOf
  <2>3. QED
    BY <1>1, <1>14, <2>1, <2>2 DEF Shape, vars, writerVars, readerVars
<1>15. QED
  BY <1>1, <1>5, <1>6, <1>7, <1>8, <1>9, <1>10, <1>11, <1>12, <1>13, <1>14
     DEF Next, SoundThread

(* Every unit is played once and as it was stored, at any interleaving of  *)
(* ScspReceiveCDDA and the sound thread, until the last sector is stored   *)
(* with the reader at 0.                                                   *)
THEOREM RingIsIntact == Spec => []Intact
<1>1. Init => Inv
  BY InvInit
<1>2. Inv /\ [Next]_vars => Inv'
  BY InvNext
<1>3. Inv => Intact
  BY InvIntact
<1>4. QED
  BY <1>1, <1>2, <1>3, PTL DEF Spec
=============================================================================
