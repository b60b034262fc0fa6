---------------------------- MODULE Frame_proofs ----------------------------
(***************************************************************************)
(* Proofs about the main loop and the system manager.                      *)
(*                                                                         *)
(* The inductive invariant is Inv.  PortInv says how much of the data that *)
(* was fetched has been returned: all of port 1 after any response, of     *)
(* port 2 what its offset says.  FrameInv adds to the two counting         *)
(* invariants that between frames nothing is counted, which a reset there  *)
(* relies on, and that only a running timer is timed.                      *)
(***************************************************************************)
EXTENDS Frame, TLAPS

PortInv ==
  /\ port1 \in PortData /\ port1.size = 0
  /\ port2 \in PortData
  /\ fetched \in 0..(2 * Bank)
  /\ stream \in Seq(0..(2 * Bank))
  /\ \A k \in DOMAIN stream : stream[k] = k - 1
  /\ port2.size = 0 => Len(stream) = fetched
  /\ port2.size # 0 => /\ port2.offset <= port2.size
                       /\ port2.size <= fetched
                       /\ Len(stream) = fetched - port2.size + port2.offset

RegInv ==
  /\ IREG0 \in Ireg0 /\ IREG1 \in BOOLEAN
  /\ COMREG \in Command /\ SF \in BOOLEAN
  /\ timing \in 0..MaxTime
  /\ intback \in BOOLEAN

LineType ==
  /\ slice \in 0..(declinenum - 1)
  /\ vblankLine \in VBlankLines /\ maxLine \in MaxLines
  /\ line \in 0..(maxLine - 1)
  /\ oneframeexec \in BOOLEAN /\ vblank \in BOOLEAN
  /\ steady \in BOOLEAN /\ vblanks \in Nat

TimerType ==
  /\ timer0 \in 0..TimerCap /\ T0C \in Compare /\ T1MD \in BOOLEAN
  /\ timed \in BOOLEAN /\ fires \in Nat

FrameInv ==
  /\ LineType
  /\ VBlankAsCounted
  /\ oneframeexec => line = 0 /\ slice = 0 /\ vblanks = 0

Timer0Inv ==
  /\ TimerType
  /\ Timer0CountsLines
  /\ timed => T1MD

Inv == PortInv /\ RegInv /\ FrameInv /\ Timer0Inv
-----------------------------------------------------------------------------
(* The data that a response returns.                                       *)

(* Numbers in order, continued by numbers in order, are in order.          *)
LEMMA Continued ==
  ASSUME NEW N \in Nat, NEW s \in Seq(0..N), NEW t \in Seq(Int),
         \A k \in DOMAIN s : s[k] = k - 1,
         \A k \in 1..Len(t) : t[k] = Len(s) + k - 1,
         Len(s) + Len(t) <= N
  PROVE  /\ s \o t \in Seq(0..N)
         /\ Len(s \o t) = Len(s) + Len(t)
         /\ \A k \in DOMAIN (s \o t) : (s \o t)[k] = k - 1
<1> DEFINE n == Len(t)
<1>0. n \in Nat /\ Len(s) \in Nat /\ DOMAIN t = 1..n
  OBVIOUS
<1>1. t \in Seq(0..N)
  <2>1. \A k \in 1..n : t[k] \in 0..N
    BY <1>0
  <2> QED BY <2>1, <1>0
<1>2. s \o t \in Seq(0..N) /\ Len(s \o t) = Len(s) + n
      /\ DOMAIN (s \o t) = 1..(Len(s) + n)
  BY <1>1
<1>3. ASSUME NEW k \in 1..(Len(s) + n)
      PROVE  (s \o t)[k] = k - 1
  <2>1. CASE k <= Len(s)
    BY <2>1, <1>1
  <2>2. CASE k > Len(s)
    <3>1. (s \o t)[k] = t[k - Len(s)]
      BY <2>2, <1>1
    <3>2. k - Len(s) \in 1..n
      BY <2>2, <1>0
    <3> QED BY <3>1, <3>2, <1>0
  <2> QED BY <2>1, <2>2
<1> QED BY <1>2, <1>3

LEMMA PortTypes ==
  ASSUME NEW p \in PortData
  PROVE  /\ p.size \in 0..(Bank - 1) /\ p.offset \in 0..Bank
         /\ Bank \in Nat \ {0}
         /\ p = [size |-> p.size, offset |-> p.offset]
         /\ [p EXCEPT !.size = 0] = [size |-> 0, offset |-> p.offset]
<1>1. p.size \in PortSize \union {0} /\ p.offset \in 0..Bank
  BY DEF PortData
<1>2. p = [size |-> p.size, offset |-> p.offset]
  BY DEF PortData
<1>3. [p EXCEPT !.size = 0] = [size |-> 0, offset |-> p.offset]
  BY DEF PortData
<1> QED BY <1>1, <1>2, <1>3, SizeAssumption

(* An empty port gives nothing; one whose rest fits gives all of it; one   *)
(* whose rest does not fit gives as much as fits.                          *)
LEMMA GivesNothing ==
  ASSUME NEW p \in PortData, NEW room \in Nat, p.size = 0
  PROVE  Given(p, room) = <<>> /\ Kept(p, room) = p
BY DEF Given, Kept

LEMMA GivesAll ==
  ASSUME NEW p \in PortData, NEW room \in Nat,
         p.size # 0, p.offset <= p.size, p.size - p.offset < room
  PROVE  /\ Given(p, room) \in Seq(Int)
         /\ Len(Given(p, room)) = p.size - p.offset
         /\ \A k \in 1..Len(Given(p, room)) : Given(p, room)[k] = p.offset + k - 1
         /\ Kept(p, room) \in PortData
         /\ Kept(p, room).size = 0
<1>1. p.size \in 0..(Bank - 1) /\ p.offset \in 0..Bank /\ Bank \in Nat \ {0}
  BY PortTypes
<1>2. room # 0
  BY <1>1
<1>3. Given(p, room) = [k \in 1..(p.size - p.offset) |-> p.offset + k - 1]
  BY <1>2 DEF Given, Bytes
<1>31. p.size - p.offset \in Nat
  BY <1>1
<1>4. Kept(p, room) = [size |-> 0, offset |-> p.offset]
  BY <1>2, PortTypes DEF Kept
<1> QED BY <1>1, <1>3, <1>31, <1>4 DEF PortData

LEMMA GivesPart ==
  ASSUME NEW p \in PortData, NEW room \in Nat,
         p.size # 0, p.offset = 0, room # 0, ~(p.size < room)
  PROVE  /\ Given(p, room) \in Seq(Int)
         /\ Len(Given(p, room)) = room
         /\ \A k \in 1..Len(Given(p, room)) : Given(p, room)[k] = k - 1
         /\ Kept(p, room) \in PortData
         /\ Kept(p, room).size = p.size
         /\ Kept(p, room).offset = room
<1>1. p.size \in 0..(Bank - 1) /\ p.offset \in 0..Bank /\ Bank \in Nat \ {0}
      /\ p = [size |-> p.size, offset |-> p.offset]
  BY PortTypes
<1>2. Given(p, room) = [k \in 1..room |-> 0 + k - 1]
  BY <1>1 DEF Given, Bytes
<1>3. Kept(p, room) = [p EXCEPT !.offset = @ + room]
  BY <1>1 DEF Kept
<1>4. Kept(p, room) = [size |-> p.size, offset |-> room]
  BY <1>1, <1>3
<1>5. p.size \in PortSize
  BY DEF PortData
<1> QED BY <1>1, <1>2, <1>4, <1>5 DEF PortData

LEMMA Shifted ==
  ASSUME NEW u \in Seq(Int), NEW b \in Int
  PROVE  /\ After(b, u) \in Seq(Int)
         /\ Len(After(b, u)) = Len(u)
         /\ \A k \in 1..Len(u) : After(b, u)[k] = b + u[k]
<1> DEFINE n == Len(u)
<1>1. n \in Nat /\ DOMAIN u = 1..n /\ \A k \in 1..n : u[k] \in Int
  OBVIOUS
<1>2. After(b, u) = [k \in 1..n |-> b + u[k]]
  BY <1>1 DEF After
<1> HIDE DEF n
<1>3. \A k \in 1..n : b + u[k] \in Int
  BY <1>1
<1>4. [k \in 1..n |-> b + u[k]] \in Seq(Int) /\ Len([k \in 1..n |-> b + u[k]]) = n
  BY <1>1, <1>3
<1> QED BY <1>2, <1>4 DEF n

(* A response keeps the order and the account, if what was returned and    *)
(* what the ports hold make up what was fetched.                           *)
LEMMA RespondKeeps ==
  ASSUME NEW p1 \in PortData, NEW p2 \in PortData,
         NEW total \in 0..(2 * Bank), NEW sent \in Seq(0..(2 * Bank)),
         \A k \in DOMAIN sent : sent[k] = k - 1,
         p1.offset = 0 \/ p1.size = 0,
         p1.size # 0 => sent = <<>> /\ p2.offset = 0,
         p2.size # 0 => p2.offset <= p2.size,
         total = Len(sent) + p1.size
                   + (IF p2.size = 0 THEN 0 ELSE p2.size - p2.offset),
         Respond(p1, p2, total, sent)
  PROVE  PortInv'
<1> DEFINE one == Given(p1, Bank)
           two == Given(p2, Bank - Len(one))
           first == sent \o one
           second == After(total - p2.size, two)
<1>1. /\ Bank \in Nat \ {0}
      /\ p1.size \in 0..(Bank - 1) /\ p2.size \in 0..(Bank - 1)
      /\ p1.offset \in 0..Bank /\ p2.offset \in 0..Bank
  BY PortTypes
<1>2. /\ one \in Seq(Int)
      /\ Len(one) = p1.size
      /\ \A k \in 1..Len(one) : one[k] = Len(sent) + k - 1
      /\ Kept(p1, Bank) \in PortData /\ Kept(p1, Bank).size = 0
  <2>1. CASE p1.size = 0
    <3>1. one = <<>> /\ Kept(p1, Bank) = p1
      BY <2>1, <1>1, GivesNothing
    <3> QED BY <3>1, <2>1
  <2>2. CASE p1.size # 0
    <3>1. p1.offset = 0 /\ Len(sent) = 0 /\ p1.size - p1.offset = p1.size
      BY <2>2, <1>1
    <3>2. /\ one \in Seq(Int)
          /\ Len(one) = p1.size - p1.offset
          /\ \A k \in 1..Len(one) : one[k] = p1.offset + k - 1
          /\ Kept(p1, Bank) \in PortData /\ Kept(p1, Bank).size = 0
      BY <2>2, <3>1, <1>1, GivesAll
    <3> QED BY <3>1, <3>2
  <2> QED BY <2>1, <2>2
<1>3. Len(sent) \in Nat
  OBVIOUS
<1>4. Len(sent) + p1.size <= 2 * Bank
  BY <1>1, <1>3
<1>5. /\ first \in Seq(0..(2 * Bank))
      /\ Len(first) = Len(sent) + p1.size
      /\ \A k \in DOMAIN first : first[k] = k - 1
  <2> HIDE DEF one
  <2>1. 2 * Bank \in Nat /\ Len(sent) + Len(one) <= 2 * Bank
    BY <1>1, <1>2, <1>4
  <2>2. /\ sent \o one \in Seq(0..(2 * Bank))
        /\ Len(sent \o one) = Len(sent) + Len(one)
        /\ \A k \in DOMAIN (sent \o one) : (sent \o one)[k] = k - 1
    <3> DEFINE N == 2 * Bank
    <3>1. N \in Nat /\ sent \in Seq(0..N) /\ Len(sent) + Len(one) <= N
      BY <2>1
    <3> HIDE DEF N
    <3>2. /\ sent \o one \in Seq(0..N)
          /\ Len(sent \o one) = Len(sent) + Len(one)
          /\ \A k \in DOMAIN (sent \o one) : (sent \o one)[k] = k - 1
      BY <1>2, <3>1, Continued
    <3> QED BY <3>2 DEF N
  <2> QED BY <1>2, <2>2
<1> DEFINE n == Len(two)
           room == Bank - Len(one)
<1>6. room \in Nat \ {0}
  BY <1>1, <1>2
<1>7. /\ second \in Seq(Int) /\ Len(second) = n
      /\ \A k \in 1..Len(second) : second[k] = Len(first) + k - 1
      /\ Len(first) + n <= total
      /\ Kept(p2, room) \in PortData
      /\ Kept(p2, room).size = 0 => Len(first) + n = total
      /\ Kept(p2, room).size # 0 =>
           /\ Kept(p2, room).offset <= Kept(p2, room).size
           /\ Kept(p2, room).size <= total
           /\ Len(first) + n = total - Kept(p2, room).size + Kept(p2, room).offset
  <2>0. Len(first) \in Nat /\ total \in Int
    BY <1>5
  <2>1. CASE p2.size = 0
    <3>1. two = <<>> /\ Kept(p2, room) = p2
      BY <2>1, <1>6, GivesNothing
    <3>2. second = <<>> /\ n = 0
      BY <3>1 DEF After
    <3>3. Len(first) = total
      BY <2>1, <1>1, <1>3, <1>5
    <3> HIDE DEF second, first, n, room
    <3> QED BY <3>1, <3>2, <3>3, <2>0, <2>1
  <2>2. CASE p2.size # 0 /\ p2.size - p2.offset < room
    <3>1. /\ two \in Seq(Int) /\ n = p2.size - p2.offset
          /\ \A k \in 1..n : two[k] = p2.offset + k - 1
          /\ Kept(p2, room) \in PortData /\ Kept(p2, room).size = 0
      BY <2>2, <1>6, GivesAll
    <3>2. n \in Nat /\ DOMAIN two = 1..n
      BY <3>1
    <3>3. total - p2.size + p2.offset = Len(first)
      BY <2>2, <1>1, <1>3, <1>5
    <3>4. total - p2.size \in Int /\ total - p2.size + p2.offset \in Int
      BY <1>1
    <3>41. /\ second \in Seq(Int) /\ Len(second) = n
           /\ \A k \in 1..n : second[k] = total - p2.size + two[k]
      BY <3>1, <3>4, Shifted
    <3> HIDE DEF second, first, two, n, room
    <3>5. /\ second \in Seq(Int) /\ Len(second) = n
          /\ \A k \in 1..n : second[k] = total - p2.size + (p2.offset + k - 1)
      BY <3>1, <3>41
    <3>6. ASSUME NEW k \in 1..n
          PROVE  second[k] = Len(first) + k - 1
      <4>1. second[k] = total - p2.size + (p2.offset + k - 1)
        BY <3>5
      <4>2. k \in Int /\ p2.size \in Int /\ p2.offset \in Int
        BY <3>2, <1>1
      <4>3. \A a, x, o, i \in Int : a - x + (o + i - 1) = (a - x + o) + i - 1
        OBVIOUS
      <4>4. total - p2.size + (p2.offset + k - 1) = (total - p2.size + p2.offset) + k - 1
        BY <4>2, <4>3, <2>0
      <4> QED BY <4>1, <4>4, <3>3
    <3>7. Len(first) + n = total
      BY <3>1, <3>3, <2>0, <1>1
    <3> QED BY <3>1, <3>5, <3>6, <3>7, <2>0
  <2>3. CASE p2.size # 0 /\ ~(p2.size - p2.offset < room)
    <3>1. p1.size # 0
      BY <2>3, <1>1, <1>2
    <3>2. p2.offset = 0
      BY <3>1
    <3>21. ~(p2.size < room)
      BY <2>3, <3>2, <1>1, <1>6
    <3>3. /\ two \in Seq(Int) /\ n = room
          /\ \A k \in 1..n : two[k] = k - 1
          /\ Kept(p2, room) \in PortData
          /\ Kept(p2, room).size = p2.size
          /\ Kept(p2, room).offset = room
      BY <2>3, <3>2, <3>21, <1>6, GivesPart
    <3>4. n \in Nat /\ DOMAIN two = 1..n
      BY <3>3
    <3>5. total - p2.size = Len(first)
      BY <2>3, <3>2, <1>1, <1>3, <1>5
    <3>6. /\ second \in Seq(Int) /\ Len(second) = n
          /\ \A k \in 1..n : second[k] = total - p2.size + two[k]
      <4>1. total - p2.size \in Int
        BY <1>1
      <4> QED BY <3>3, <4>1, Shifted
    <3> HIDE DEF second, first, two, n, room
    <3>7. /\ second \in Seq(Int) /\ Len(second) = n
          /\ \A k \in 1..n : second[k] = total - p2.size + (k - 1)
      BY <3>3, <3>6
    <3>8. \A k \in 1..n : second[k] = Len(first) + k - 1
      BY <3>5, <3>7, <3>4, <2>0
    <3>9. n <= p2.size /\ p2.size <= total /\ Len(first) + n <= total
      BY <3>21, <3>3, <3>4, <3>5, <2>0, <1>1
    <3> QED BY <3>3, <3>5, <3>7, <3>8, <3>9, <2>0, <2>3, <1>1
  <2> QED BY <2>1, <2>2, <2>3
<1>8. /\ first \o second \in Seq(0..(2 * Bank))
      /\ Len(first \o second) = Len(first) + n
      /\ \A k \in DOMAIN (first \o second) : (first \o second)[k] = k - 1
  <2> HIDE DEF first, second, n
  <2>1. 2 * Bank \in Nat /\ Len(first) + Len(second) <= 2 * Bank
    <3>1. Len(first) \in Nat /\ n \in Nat
      BY <1>5, <1>7
    <3> QED BY <3>1, <1>1, <1>7
  <2> QED BY <1>5, <1>7, <2>1, Continued
<1>9. /\ port1' = Kept(p1, Bank) /\ port2' = Kept(p2, room)
      /\ fetched' = total /\ stream' = first \o second
  BY DEF Respond
<1> QED
  <2> HIDE DEF first, second, n, room
  <2> QED BY <1>2, <1>7, <1>8, <1>9 DEF PortInv

(* Every peripheral response keeps PortInv: at a fetch both ports are new, *)
(* otherwise port 1 is empty.                                              *)
LEMMA PeripheralKeeps ==
  ASSUME PortInv, Peripheral
  PROVE  PortInv'
<1>1. Bank \in Nat \ {0} /\ \A p \in PortSize : p \in 1..(Bank - 1)
  BY SizeAssumption
<1>2. CASE port1.size = 0 /\ port2.size = 0
  <2>1. PICK s1 \in PortSize, s2 \in PortSize :
          Respond([size |-> s1, offset |-> 0], [size |-> s2, offset |-> 0],
                  s1 + s2, <<>>)
    BY <1>2 DEF Peripheral
  <2> DEFINE p1 == [size |-> s1, offset |-> 0]
             p2 == [size |-> s2, offset |-> 0]
  <2>2. p1 \in PortData /\ p2 \in PortData
    BY <1>1 DEF PortData
  <2>3. s1 \in 1..(Bank - 1) /\ s2 \in 1..(Bank - 1)
    BY <1>1
  <2>4. s1 + s2 \in 0..(2 * Bank) /\ <<>> \in Seq(0..(2 * Bank))
    BY <2>3, <1>1
  <2>5. s1 + s2 = Len(<<>>) + p1.size + (IF p2.size = 0 THEN 0 ELSE p2.size - p2.offset)
    BY <2>3, <1>1
  <2>6. p1.offset = 0 /\ p2.offset = 0 /\ p2.offset <= p2.size
    BY <2>3
  <2>7. \A k \in DOMAIN <<>> : <<>>[k] = k - 1
    OBVIOUS
  <2> HIDE DEF p1, p2
  <2>8. Respond(p1, p2, s1 + s2, <<>>)
    BY <2>1 DEF p1, p2
  <2> QED BY <2>2, <2>4, <2>5, <2>6, <2>7, <2>8, RespondKeeps
<1>3. CASE ~(port1.size = 0 /\ port2.size = 0)
  <2>1. Respond(port1, port2, fetched, stream)
    BY <1>3 DEF Peripheral
  <2>2. port1.size = 0 /\ port2.size # 0
    BY <1>3 DEF PortInv
  <2>3. /\ port1 \in PortData /\ port2 \in PortData
        /\ port2.size \in 0..(Bank - 1) /\ port2.offset \in 0..Bank
        /\ fetched \in 0..(2 * Bank) /\ stream \in Seq(0..(2 * Bank))
        /\ port2.offset <= port2.size
        /\ \A k \in DOMAIN stream : stream[k] = k - 1
        /\ Len(stream) = fetched - port2.size + port2.offset
    BY <2>2, PortTypes DEF PortInv
  <2>4. fetched = Len(stream) + port1.size
                    + (IF port2.size = 0 THEN 0 ELSE port2.size - port2.offset)
    BY <2>2, <2>3, <1>1
  <2> QED BY <2>1, <2>2, <2>3, <2>4, RespondKeeps
<1> QED BY <1>2, <1>3
-----------------------------------------------------------------------------
(* The counting.                                                           *)

LEMMA Marks ==
  ASSUME LineType
  PROVE  /\ declinenum \in Nat /\ declinenum > 1
         /\ slice \in Nat /\ slice < declinenum
         /\ line \in Nat /\ line < maxLine
         /\ vblankLine \in Nat /\ vblankLine > 0
         /\ maxLine \in Nat /\ maxLine > 0 /\ vblankLine # maxLine
         /\ ResetLine \in VBlankLines /\ ResetLine > 0
<1>1. /\ declinenum \in Nat /\ declinenum > 1
      /\ vblankLine \in Nat /\ vblankLine > 0 /\ vblankLine # maxLine
      /\ maxLine \in Nat /\ maxLine > 0
      /\ ResetLine \in VBlankLines /\ ResetLine > 0
  BY LineAssumption DEF LineType
<1> QED BY <1>1 DEF LineType

(* Both marks are reached and neither is passed: the line before a mark    *)
(* is followed by the mark, and the marks differ.                          *)
LEMMA CountLineKeeps ==
  ASSUME FrameInv, ~oneframeexec, oneframeexec' = VBlankOUT,
         UNCHANGED maxLine, CountLine
  PROVE  FrameInv'
<1> USE DEF HBlankOUT, VBlankIN, VBlankOUT
<1>0. LineType
  BY DEF FrameInv
<1>1. /\ declinenum \in Nat /\ declinenum > 1
      /\ slice \in Nat /\ slice < declinenum
      /\ line \in Nat /\ line < maxLine
      /\ vblankLine \in Nat /\ vblankLine > 0
      /\ maxLine \in Nat /\ maxLine > 0 /\ vblankLine # maxLine
  BY <1>0, Marks
<1>2. /\ vblank \in BOOLEAN /\ steady \in BOOLEAN /\ vblanks \in Nat
      /\ vblankLine \in VBlankLines /\ maxLine \in MaxLines
  BY <1>0 DEF LineType
<1>3. /\ slice' = IF HBlankOUT THEN 0 ELSE slice + 1
      /\ line' = IF VBlankOUT THEN 0 ELSE IF HBlankOUT THEN line + 1 ELSE line
      /\ vblank' = (VBlankIN \/ (vblank /\ ~VBlankOUT))
      /\ vblanks' = IF VBlankOUT THEN 0 ELSE IF VBlankIN THEN vblanks + 1 ELSE vblanks
      /\ steady' = (steady \/ VBlankOUT)
      /\ vblankLine' = vblankLine /\ maxLine' = maxLine
      /\ oneframeexec' = VBlankOUT
  BY DEF CountLine
<1>4. LineType'
  <2>1. slice' \in 0..(declinenum - 1)
    BY <1>1, <1>3
  <2>2. line' \in 0..(maxLine - 1)
    <3>1. line + 1 # maxLine \/ line + 1 = vblankLine \/ ~HBlankOUT \/ VBlankOUT
      OBVIOUS
    <3>2. line + 1 # maxLine \/ ~HBlankOUT \/ VBlankOUT
      BY <3>1, <1>1
    <3> QED BY <3>2, <1>1, <1>3
  <2>3. vblank' \in BOOLEAN /\ steady' \in BOOLEAN /\ oneframeexec' \in BOOLEAN
    BY <1>3
  <2>4. vblanks' \in Nat
    BY <1>2, <1>3
  <2> QED BY <2>1, <2>2, <2>3, <2>4, <1>2, <1>3 DEF LineType
<1>5. VBlankAsCounted'
  <2> SUFFICES ASSUME steady'
               PROVE  /\ vblank' <=> line' >= vblankLine
                      /\ vblanks' = IF line' >= vblankLine THEN 1 ELSE 0
    BY <1>3 DEF VBlankAsCounted
  <2>1. CASE VBlankOUT
    <3>1. line' = 0 /\ vblanks' = 0 /\ vblank' = FALSE
      BY <2>1, <1>3
    <3> QED BY <3>1, <1>1
  <2>2. CASE ~VBlankOUT
    <3>1. steady
      BY <2>2, <1>3
    <3>2. /\ vblank <=> line >= vblankLine
          /\ vblanks = IF line >= vblankLine THEN 1 ELSE 0
      BY <3>1 DEF FrameInv, VBlankAsCounted
    <3>3. CASE VBlankIN
      <4>1. line' = line + 1 /\ line + 1 = vblankLine
            /\ vblank' = TRUE /\ vblanks' = vblanks + 1
        BY <2>2, <3>3, <1>3
      <4>2. ~(line >= vblankLine) /\ line' >= vblankLine
        BY <4>1, <1>1
      <4> QED BY <4>1, <4>2, <3>2
    <3>4. CASE ~VBlankIN
      <4>1. vblank' = vblank /\ vblanks' = vblanks
        BY <2>2, <3>4, <1>2, <1>3
      <4>2. line' >= vblankLine <=> line >= vblankLine
        BY <2>2, <3>4, <1>1, <1>3
      <4> QED BY <4>1, <4>2, <3>2
    <3> QED BY <3>3, <3>4
  <2> QED BY <2>1, <2>2
<1>6. oneframeexec' => line' = 0 /\ slice' = 0 /\ vblanks' = 0
  BY <1>3
<1> QED BY <1>4, <1>5, <1>6 DEF FrameInv

(* A restarted frame, from any line of the old one.                        *)
LEMMA RestartKeeps ==
  ASSUME FrameInv, Restarted, slice' = 0, line' = 0,
         steady' = TRUE, vblanks' = 0, UNCHANGED maxLine,
         oneframeexec' \in BOOLEAN
  PROVE  FrameInv'
<1>1. LineType
  BY DEF FrameInv
<1>2. /\ declinenum \in Nat /\ declinenum > 1 /\ maxLine \in Nat /\ maxLine > 0
      /\ ResetLine \in VBlankLines /\ ResetLine \in Nat /\ ResetLine > 0
  BY <1>1, Marks, LineAssumption
<1>3. LineType'
  <2>1. maxLine' = maxLine /\ vblankLine' = ResetLine /\ vblank' = FALSE
    BY DEF Restarted
  <2>2. slice' \in 0..(declinenum - 1) /\ line' \in 0..(maxLine - 1)
    BY <1>2
  <2>3. maxLine \in MaxLines
    BY <1>1 DEF LineType
  <2> QED BY <2>1, <2>2, <2>3, <1>2 DEF LineType
<1>4. VBlankAsCounted'
  <2>1. ~(line' >= vblankLine')
    BY <1>2 DEF Restarted
  <2> QED BY <2>1 DEF VBlankAsCounted, Restarted
<1> QED BY <1>3, <1>4 DEF FrameInv

(* Timer 0 is raised before the end of the line it counts.  It stays below *)
(* its bound while it is timed, since it counts no more than the lines.    *)
LEMMA CountTimer0Keeps ==
  ASSUME FrameInv, Timer0Inv, CountLine, CountTimer0
  PROVE  Timer0Inv'
<1> USE DEF HBlankIN, HBlankOUT, VBlankIN, VBlankOUT
<1>0. LineType /\ TimerType
  BY DEF FrameInv, Timer0Inv
<1>1. /\ declinenum \in Nat /\ declinenum > 1
      /\ slice \in Nat /\ slice < declinenum
      /\ line \in Nat /\ line < maxLine
      /\ maxLine \in Nat /\ maxLine > 0
  BY <1>0, Marks
<1>2. /\ timer0 \in Nat /\ timer0 <= TimerCap /\ TimerCap \in Nat
      /\ T0C \in Nat /\ T0C < TimerCap /\ maxLine < TimerCap
      /\ T1MD \in BOOLEAN /\ timed \in BOOLEAN /\ fires \in Nat
      /\ T0C \in Compare
  BY <1>0, TimerAssumption DEF TimerType, LineType
<1>3. /\ slice' = IF HBlankOUT THEN 0 ELSE slice + 1
      /\ line' = IF VBlankOUT THEN 0 ELSE IF HBlankOUT THEN line + 1 ELSE line
      /\ T0C' = T0C /\ T1MD' = T1MD
  BY DEF CountLine, CountTimer0
<1>4. timed => /\ T1MD
               /\ timer0 = IF slice = declinenum - 1 THEN line + 1 ELSE line
               /\ fires = IF timer0 >= T0C THEN 1 ELSE 0
  BY DEF Timer0Inv, Timer0CountsLines
<1>5. CASE T1MD /\ HBlankIN
  <2>1. /\ timer0' = Counted /\ timed' = timed
        /\ fires' = IF Compared THEN fires + 1 ELSE fires
    BY <1>5 DEF CountTimer0
  <2>2. Counted \in 0..TimerCap
    BY <1>2 DEF Counted
  <2>3. TimerType'
    BY <2>1, <2>2, <1>2, <1>3 DEF TimerType
  <2>4. slice' = declinenum - 1 /\ line' = line /\ slice # declinenum - 1
    BY <1>5, <1>1, <1>3
  <2>5. ASSUME timed
        PROVE  timer0' = line + 1 /\ fires' = IF timer0' >= T0C THEN 1 ELSE 0
    <3>1. timer0 = line /\ fires = IF timer0 >= T0C THEN 1 ELSE 0
      BY <2>4, <2>5, <1>4
    <3>2. Counted = line + 1
      BY <3>1, <1>1, <1>2 DEF Counted
    <3>3. CASE line + 1 = T0C
      <4>1. fires = 0 /\ fires' = fires + 1
        BY <3>1, <3>2, <3>3, <2>1, <1>1, <1>2 DEF Compared
      <4> QED BY <4>1, <3>2, <3>3, <2>1, <1>1
    <3>4. CASE line + 1 # T0C
      <4>1. fires' = fires
        BY <3>2, <3>4, <2>1 DEF Compared
      <4>2. line + 1 >= T0C <=> line >= T0C
        BY <3>4, <1>1, <1>2
      <4> QED BY <4>1, <4>2, <3>1, <3>2, <2>1
    <3> QED BY <3>3, <3>4
  <2>6. Timer0CountsLines'
    BY <2>1, <2>4, <2>5, <1>3 DEF Timer0CountsLines
  <2> QED BY <2>1, <2>3, <2>6, <1>3, <1>4 DEF Timer0Inv
<1>6. CASE ~(T1MD /\ HBlankIN) /\ VBlankOUT
  <2>1. /\ timer0' = IF T1MD THEN 0 ELSE timer0
        /\ fires' = IF T1MD /\ T0C = 0 THEN 1 ELSE 0
        /\ timed' = T1MD
    BY <1>6 DEF CountTimer0
  <2>2. TimerType'
    BY <2>1, <1>2, <1>3 DEF TimerType
  <2>3. slice' = 0 /\ line' = 0 /\ 0 # declinenum - 1
    BY <1>6, <1>1, <1>3
  <2>4. Timer0CountsLines'
    <3> SUFFICES ASSUME timed'
                 PROVE  timer0' = 0 /\ fires' = IF 0 >= T0C THEN 1 ELSE 0
      BY <2>1, <2>3, <1>3 DEF Timer0CountsLines
    <3> QED BY <2>1, <1>2
  <2> QED BY <2>1, <2>2, <2>4, <1>3 DEF Timer0Inv
<1>7. CASE ~(T1MD /\ HBlankIN) /\ ~VBlankOUT
  <2>1. timer0' = timer0 /\ fires' = fires /\ timed' = timed
    BY <1>7 DEF CountTimer0
  <2>2. TimerType'
    BY <2>1, <1>2, <1>3 DEF TimerType
  <2>3. Timer0CountsLines'
    <3> SUFFICES ASSUME timed
                 PROVE  /\ timer0 = IF slice' = declinenum - 1 THEN line' + 1 ELSE line'
                        /\ fires = IF timer0 >= T0C THEN 1 ELSE 0
      BY <2>1, <1>3 DEF Timer0CountsLines
    <3>1. ~HBlankIN
      BY <1>4, <1>7
    <3>2. CASE HBlankOUT
      <4>1. slice = declinenum - 1 /\ slice' = 0 /\ line' = line + 1
        BY <3>2, <1>1, <1>3, <1>7
      <4>2. 0 # declinenum - 1
        BY <1>1
      <4> QED BY <4>1, <4>2, <1>4
    <3>3. CASE ~HBlankOUT
      <4>1. slice # declinenum - 1 /\ slice' # declinenum - 1 /\ line' = line
        BY <3>1, <3>3, <1>1, <1>3
      <4> QED BY <4>1, <1>4
    <3> QED BY <3>2, <3>3
  <2> QED BY <2>1, <2>2, <2>3, <1>3, <1>4 DEF Timer0Inv
<1> QED BY <1>5, <1>6, <1>7
-----------------------------------------------------------------------------
(* The steps.                                                              *)

LEMMA Initial == Init => Inv
<1> SUFFICES ASSUME Init PROVE Inv
  OBVIOUS
<1>1. Bank \in Nat \ {0} /\ <<>> \in Seq(0..(2 * Bank))
  BY SizeAssumption
<1>2. PortInv
  BY <1>1 DEF Init, SmpcInit, PortInv, PortData, NoData
<1>3. RegInv
  <2>1. 0 \in 0..MaxTime
    BY TimeAssumption DEF MaxTime
  <2> QED BY <2>1 DEF Init, SmpcInit, RegInv, Ireg0, Command
<1>4. maxLine \in Nat \ {0} /\ ResetLine \in Nat \ {0} /\ declinenum \in Nat \ {0, 1}
  BY LineAssumption DEF Init
<1>5. FrameInv
  <2>1. LineType
    <3>1. 0 \in 0..(declinenum - 1) /\ 0 \in 0..(maxLine - 1) /\ 0 \in Nat
      BY <1>4
    <3>2. ResetLine \in VBlankLines /\ maxLine \in MaxLines
      BY LineAssumption DEF Init
    <3> QED BY <3>1, <3>2 DEF Init, LineType
  <2>2. VBlankAsCounted
    BY <1>4 DEF Init, VBlankAsCounted
  <2> QED BY <2>1, <2>2 DEF Init, FrameInv
<1>6. Timer0Inv
  <2>1. 0 \in 0..TimerCap /\ 0 \in Nat
    BY TimerAssumption
  <2> QED BY <2>1 DEF Init, Timer0Inv, TimerType, Timer0CountsLines
<1> QED BY <1>2, <1>3, <1>5, <1>6 DEF Inv

(* A write of the program to the system manager leaves the ports alone.    *)
LEMMA SmpcWriteKeeps ==
  ASSUME Inv, SmpcWrite
  PROVE  Inv'
<1>0. RegInv /\ PortInv /\ FrameInv /\ Timer0Inv
  BY DEF Inv
<1>1. UNCHANGED portVars /\ UNCHANGED lineVars /\ UNCHANGED timer0Vars
  BY DEF SmpcWrite, WriteCOMREG, WriteSF, WriteIREG0, WriteIREG1, smpcVars
<1>2. PortInv'
  BY <1>0, <1>1 DEF PortInv, portVars
<1>3. FrameInv'
  BY <1>0, <1>1 DEF FrameInv, LineType, VBlankAsCounted, lineVars
<1>4. Timer0Inv'
  BY <1>0, <1>1 DEF Timer0Inv, TimerType, Timer0CountsLines, lineVars, timer0Vars
<1>5. RegInv'
  <2>0. IntbackTime \in 0..MaxTime /\ CommandTime \in 0..MaxTime
        /\ OtherTime \in 0..MaxTime /\ ContinueTime \in 0..MaxTime
    BY TimeAssumption DEF MaxTime, IntbackTime
  <2>1. ASSUME NEW c \in CommandsGiven, WriteCOMREG(c)
        PROVE  RegInv'
    <3>1. c \in Command
      BY ProgramAssumption
    <3>2. timing' \in 0..MaxTime
      BY <2>0, <2>1, <3>1, <1>0 DEF WriteCOMREG, SetTiming, Command, RegInv
    <3> QED BY <2>1, <3>1, <3>2, <1>0 DEF WriteCOMREG, SetTiming, RegInv
  <2>2. ASSUME NEW on \in BOOLEAN, WriteSF(on)
        PROVE  RegInv'
    BY <2>2, <1>0 DEF WriteSF, RegInv
  <2>3. ASSUME NEW bits \in BitsWritten, WriteIREG0(bits)
        PROVE  RegInv'
    <3>1. bits \in Ireg0 /\ IREG0' = bits /\ IREG1' = IREG1
      BY <2>3, ProgramAssumption DEF WriteIREG0
    <3>2. \/ Break
          \/ Continue
          \/ UNCHANGED <<timerVars, intback>>
      BY <2>3 DEF WriteIREG0
    <3>3. /\ COMREG' \in Command /\ SF' \in BOOLEAN
          /\ timing' \in 0..MaxTime /\ intback' \in BOOLEAN
      <4>1. CASE Break
        BY <4>1, <1>0 DEF Break, timerVars, RegInv
      <4>2. CASE Continue
        BY <4>2, <2>0, <1>0 DEF Continue, RegInv, Command
      <4>3. CASE UNCHANGED <<timerVars, intback>>
        BY <4>3, <1>0 DEF timerVars, RegInv
      <4> QED BY <3>2, <4>1, <4>2, <4>3
    <3> QED BY <3>1, <3>3, <1>0 DEF RegInv
  <2>4. ASSUME NEW peripheral \in BOOLEAN, WriteIREG1(peripheral)
        PROVE  RegInv'
    BY <2>4, <1>0 DEF WriteIREG1, RegInv, timerVars
  <2> QED BY <2>1, <2>2, <2>3, <2>4 DEF SmpcWrite
<1> QED BY <1>2, <1>3, <1>4, <1>5 DEF Inv

(* Between TVMD and T0C, what a write of the program moves is accounted    *)
(* for by steady and timed.                                                *)
LEMMA ProgramKeeps ==
  ASSUME Inv, Program
  PROVE  Inv'
<1>0. RegInv /\ PortInv /\ FrameInv /\ Timer0Inv /\ LineType /\ TimerType
  BY DEF Inv, FrameInv, Timer0Inv
<1>1. ASSUME NEW n \in VBlankLines, WriteTVMD(n)
      PROVE  Inv'
  <2>1. UNCHANGED smpcVars /\ UNCHANGED timer0Vars
    BY <1>1 DEF WriteTVMD
  <2>2. PortInv' /\ RegInv'
    BY <1>0, <2>1 DEF PortInv, RegInv, smpcVars, portVars, timerVars
  <2>3. LineType'
    BY <1>0, <1>1 DEF LineType, WriteTVMD
  <2>4. VBlankAsCounted'
    BY <1>0, <1>1 DEF FrameInv, VBlankAsCounted, WriteTVMD
  <2>5. FrameInv'
    BY <1>0, <1>1, <2>3, <2>4 DEF FrameInv, WriteTVMD
  <2>6. Timer0Inv'
    BY <1>0, <1>1, <2>1 DEF Timer0Inv, TimerType, Timer0CountsLines,
                            WriteTVMD, timer0Vars
  <2> QED BY <2>2, <2>5, <2>6 DEF Inv
<1>2. ASSUME NEW n \in Compare, WriteT0C(n)
      PROVE  Inv'
  <2>1. UNCHANGED smpcVars /\ UNCHANGED lineVars
    BY <1>2 DEF WriteT0C
  <2>2. PortInv' /\ RegInv'
    BY <1>0, <2>1 DEF PortInv, RegInv, smpcVars, portVars, timerVars
  <2>3. FrameInv'
    BY <1>0, <2>1 DEF FrameInv, LineType, VBlankAsCounted, lineVars
  <2>4. TimerType'
    BY <1>0, <1>2 DEF TimerType, WriteT0C
  <2>5. timed' => timed /\ T0C' = T0C
    BY <1>2 DEF WriteT0C
  <2>6. Timer0Inv'
    BY <1>0, <1>2, <2>1, <2>4, <2>5
       DEF Timer0Inv, Timer0CountsLines, WriteT0C, lineVars
  <2> QED BY <2>2, <2>3, <2>6 DEF Inv
<1>3. ASSUME NEW on \in BOOLEAN, WriteT1MD(on)
      PROVE  Inv'
  <2>1. UNCHANGED smpcVars /\ UNCHANGED lineVars
    BY <1>3 DEF WriteT1MD
  <2>2. PortInv' /\ RegInv'
    BY <1>0, <2>1 DEF PortInv, RegInv, smpcVars, portVars, timerVars
  <2>3. FrameInv'
    BY <1>0, <2>1 DEF FrameInv, LineType, VBlankAsCounted, lineVars
  <2>4. TimerType'
    BY <1>0, <1>3 DEF TimerType, WriteT1MD
  <2>5. timed' => timed /\ T1MD'
    BY <1>3 DEF WriteT1MD
  <2>6. Timer0Inv'
    BY <1>0, <1>3, <2>1, <2>4, <2>5
       DEF Timer0Inv, Timer0CountsLines, WriteT1MD, lineVars
  <2> QED BY <2>2, <2>3, <2>6 DEF Inv
<1> QED BY <1>1, <1>2, <1>3, SmpcWriteKeeps DEF Program

LEMMA PassKeeps ==
  ASSUME Inv, NEW t \in Usec, Pass(t)
  PROVE  Inv'
<1>0. RegInv /\ PortInv /\ FrameInv /\ Timer0Inv /\ LineType /\ TimerType
  BY DEF Inv, FrameInv, Timer0Inv
<1> DEFINE open == INTBACKEnd(VBlankIN)
<1>1. SmpcExec(t, open) /\ ~oneframeexec /\ oneframeexec' = VBlankOUT
      /\ UNCHANGED maxLine
  BY DEF Pass
<1>2. t \in Nat /\ open \in BOOLEAN
  BY <1>0, TimeAssumption DEF INTBACKEnd, RegInv
<1> HIDE DEF open
<1>3. RegInv'
  <2>1. timing' \in 0..MaxTime
    <3>1. timing \in 0..MaxTime /\ MaxTime \in Nat
      BY <1>0, TimeAssumption DEF RegInv, MaxTime
    <3> HIDE DEF MaxTime
    <3> QED BY <3>1, <1>1, <1>2 DEF SmpcExec
  <2>2. SF' \in BOOLEAN
    BY <1>1 DEF SmpcExec
  <2>3. intback' \in BOOLEAN
    <3>1. CASE RunsOut(t) /\ COMREG = "INTBACK"
      BY <3>1, <1>0, <1>1, <1>2 DEF SmpcExec, INTBACK, RegInv
    <3>2. CASE ~(RunsOut(t) /\ COMREG = "INTBACK")
      BY <3>2, <1>1, <1>2 DEF SmpcExec
    <3> QED BY <3>1, <3>2
  <2>4. UNCHANGED <<IREG0, IREG1, COMREG>>
    BY <1>1 DEF SmpcExec
  <2> QED BY <2>1, <2>2, <2>3, <2>4, <1>0 DEF RegInv
<1>4. PortInv'
  <2>1. Peripheral \/ UNCHANGED portVars
    BY <1>0, <1>1, <1>2 DEF SmpcExec, INTBACK, RegInv
  <2>2. CASE UNCHANGED portVars
    BY <2>2, <1>0 DEF PortInv, portVars
  <2> QED BY <2>1, <2>2, <1>0, PeripheralKeeps
<1>5. CASE RunsOut(t) /\ COMREG = "CKCHG"
  <2>1. ClockChange
    BY <1>5 DEF Pass
  <2>2. oneframeexec' \in BOOLEAN
    BY <1>1 DEF VBlankOUT
  <2>3. FrameInv'
    BY <2>1, <2>2, <1>0, <1>1, RestartKeeps DEF ClockChange
  <2>4. Timer0Inv'
    <3>1. TimerType'
      <4>1. 0 \in 0..TimerCap /\ 0 \in Nat
        BY TimerAssumption
      <4>2. timer0' = 0 /\ T1MD' = FALSE /\ T0C' = T0C /\ timed' = FALSE /\ fires' = 0
        BY <2>1 DEF ClockChange, ScuReset
      <4> QED BY <4>1, <4>2, <1>0 DEF TimerType
    <3> QED BY <2>1, <3>1 DEF ClockChange, Timer0Inv, Timer0CountsLines
  <2> QED BY <2>3, <2>4, <1>3, <1>4 DEF Inv
<1>6. CASE ~(RunsOut(t) /\ COMREG = "CKCHG")
  <2>1. CountLine /\ CountTimer0
    BY <1>6 DEF Pass
  <2>2. FrameInv'
    BY <2>1, <1>0, <1>1, CountLineKeeps
  <2>3. Timer0Inv'
    BY <2>1, <1>0, CountTimer0Keeps
  <2> QED BY <2>2, <2>3, <1>3, <1>4 DEF Inv
<1> QED BY <1>5, <1>6

LEMMA NextFrameKeeps ==
  ASSUME Inv, NextFrame
  PROVE  Inv'
<1>0. RegInv /\ PortInv /\ FrameInv /\ Timer0Inv
  BY DEF Inv
<1>1. PortInv' /\ RegInv'
  BY <1>0 DEF NextFrame, PortInv, RegInv, smpcVars, portVars, timerVars
<1>2. FrameInv'
  BY <1>0 DEF NextFrame, FrameInv, LineType, VBlankAsCounted
<1>3. Timer0Inv'
  BY <1>0 DEF NextFrame, Timer0Inv, TimerType, Timer0CountsLines, timer0Vars
<1> QED BY <1>1, <1>2, <1>3 DEF Inv

LEMMA ResetKeeps ==
  ASSUME Inv, Reset
  PROVE  Inv'
<1>0. FrameInv /\ Timer0Inv /\ TimerType /\ PortInv
  BY DEF Inv, Timer0Inv
<1>1. PortInv'
  <2>1. Bank \in Nat \ {0} /\ <<>> \in Seq(0..(2 * Bank))
    BY SizeAssumption
  <2> QED BY <2>1 DEF Reset, PortInv, PortData, NoData
<1>2. RegInv'
  <2>1. 0 \in 0..MaxTime
    BY TimeAssumption DEF MaxTime
  <2> QED BY <2>1 DEF Reset, RegInv, Ireg0, Command
<1>3. FrameInv'
  <2>1. /\ Restarted /\ slice' = 0 /\ line' = 0 /\ vblanks' = 0
        /\ steady' = TRUE /\ UNCHANGED maxLine /\ oneframeexec' \in BOOLEAN
    BY <1>0 DEF Reset, FrameInv
  <2> QED BY <2>1, <1>0, RestartKeeps
<1>4. Timer0Inv'
  <2>1. TimerType'
    <3>1. 0 \in 0..TimerCap
      BY TimerAssumption
    <3>2. timer0' = 0 /\ T1MD' = FALSE /\ T0C' = T0C /\ timed' = FALSE /\ fires' = fires
      BY DEF Reset, ScuReset
    <3> QED BY <3>1, <3>2, <1>0 DEF TimerType
  <2> QED BY <2>1 DEF Reset, Timer0Inv, Timer0CountsLines
<1> QED BY <1>1, <1>2, <1>3, <1>4 DEF Inv

LEMMA Inductive == Spec => []Inv
<1>1. Init => Inv
  BY Initial
<1>2. Inv /\ [Next]_vars => Inv'
  <2> SUFFICES ASSUME Inv, [Next]_vars PROVE Inv'
    OBVIOUS
  <2>1. CASE Program
    BY <2>1, ProgramKeeps
  <2>2. CASE \E t \in Usec : Pass(t)
    BY <2>2, PassKeeps
  <2>3. CASE NextFrame
    BY <2>3, NextFrameKeeps
  <2>4. CASE Reset
    BY <2>4, ResetKeeps
  <2>5. CASE UNCHANGED vars
    <3>1. RegInv /\ PortInv /\ FrameInv /\ Timer0Inv
      BY DEF Inv
    <3>2. PortInv' /\ RegInv'
      BY <2>5, <3>1 DEF PortInv, RegInv, vars, smpcVars, portVars, timerVars
    <3>3. FrameInv'
      BY <2>5, <3>1 DEF FrameInv, LineType, VBlankAsCounted, vars, lineVars
    <3>4. Timer0Inv'
      BY <2>5, <3>1 DEF Timer0Inv, TimerType, Timer0CountsLines, vars,
                        lineVars, timer0Vars
    <3> QED BY <3>2, <3>3, <3>4 DEF Inv
  <2> QED BY <2>1, <2>2, <2>3, <2>4, <2>5 DEF Next, MainLoop
<1> QED BY <1>1, <1>2, PTL DEF Spec
-----------------------------------------------------------------------------
(* Every register, count and port has its type; in particular the line is  *)
(* always one of the frame, although the ends are tested for equality.     *)
THEOREM TypeCorrect == Spec => []TypeOK
<1>1. Inv => TypeOK
  BY DEF Inv, PortInv, RegInv, FrameInv, LineType, Timer0Inv, TimerType,
         TypeOK, SmpcTypeOK
<1> QED BY <1>1, Inductive, PTL

(* One V-blank-IN per frame and TVSTAT in step with the lines, whatever    *)
(* the numbers of lines and slices are and whenever the clock changes.     *)
THEOREM VBlankCorrect == Spec => []VBlankAsCounted
<1>1. Inv => VBlankAsCounted
  BY DEF Inv, FrameInv
<1> QED BY <1>1, Inductive, PTL

(* Timer 0 counts every line once and interrupts at T0C, once a frame.     *)
THEOREM Timer0Correct == Spec => []Timer0CountsLines
<1>1. Inv => Timer0CountsLines
  BY DEF Inv, Timer0Inv
<1> QED BY <1>1, Inductive, PTL

(* Responses return the data of the ports in order and completely, for     *)
(* all sizes that the front end can make.                                  *)
THEOREM DataReturned == Spec => []DataInOrder
<1>1. Inv => DataInOrder
  BY DEF Inv, PortInv, DataInOrder
<1> QED BY <1>1, Inductive, PTL
=============================================================================
