--------------------------- MODULE CdFilter_proofs ---------------------------
(***************************************************************************)
(* Proofs about CdFilter, for any number of filters and any width of the   *)
(* addresses.  The inductive invariant is TypeOK with RangeNeverWraps and  *)
(* LastBufferIsDestination; both need the types only.                      *)
(***************************************************************************)
EXTENDS CdFilter, TLAPS

(* A command gives filter i a record f and changes nothing else, or resets every
   filter at once. *)
LEMMA ProgramKeepsType ==
  ASSUME NEW i \in Selector, NEW f \in Filter, TypeOK, Program(i, f)
  PROVE  TypeOK'
BY DEF TypeOK, Program, loopVars

LEMMA NoConditionType == NoCondition \in Condition
BY InputsAssumption DEF NoCondition, Condition

(* What the resets make of a filter is a filter. *)
LEMMA ResetTypes ==
  ASSUME NEW f \in Filter, NEW i \in Selector
  PROVE  /\ ResetConditions(f) \in Filter
         /\ ResetTrue(f, i) \in Filter
         /\ ResetFalse(f) \in Filter
<1>1. 0 \in 0..(Modulus - 1) /\ Modulus - 1 \in 0..(Modulus - 1)
  BY WidthAssumption
<1>2. QED
  BY <1>1, NoConditionType DEF ResetConditions, ResetTrue, ResetFalse, Filter

(* A new range, or cleared conditions, make a filter of a filter. *)
LEMMA UpdateTypes ==
  ASSUME NEW f \in Filter, NEW a \in 0..(Modulus - 1),
         NEW r \in 0..(Modulus - 1), NEW c \in Condition
  PROVE  /\ [f EXCEPT !.FAD = a, !.range = r] \in Filter
         /\ [f EXCEPT !.FAD = a, !.range = r, !.mode = {}, !.cond = c] \in Filter
BY DEF Filter

LEMMA ConnectorsKeepType ==
  ASSUME NEW f \in Filter, NEW p \in Selector, NEW j \in Selector \union {None}
  PROVE  LET g == [f EXCEPT !.condtrue = p, !.condfalse = j]
         IN g \in Filter /\ g.FAD = f.FAD /\ g.range = f.range
<1> DEFINE h == [f EXCEPT !.condtrue = p]
           g == [h EXCEPT !.condfalse = j]
<1>1. h \in Filter /\ h.FAD = f.FAD /\ h.range = f.range
  BY DEF Filter
<1> HIDE DEF h
<1>2. g \in Filter /\ g.FAD = h.FAD /\ g.range = h.range
  BY <1>1 DEF Filter
<1> HIDE DEF g
<1>3. g \in Filter /\ g.FAD = f.FAD /\ g.range = f.range
  BY <1>1, <1>2
<1>4. QED
  BY <1>3 DEF g, h

(* The commands keep the types: each gives a filter a record of the type. *)
LEMMA CommandKeepsType ==
  ASSUME TypeOK, Command
  PROVE  TypeOK'
<1>0. \A i \in Selector : filter[i] \in Filter
  BY DEF TypeOK
<1>1. CASE SetCDDeviceConnection
  BY <1>1 DEF TypeOK, SetCDDeviceConnection, loopVars
<1>2. CASE ResetSelector
  <2>1. PICK flags \in SUBSET {"condfalse", "condtrue", "conditions"} :
          filter' = [i \in Selector |->
            LET f == IF "conditions" \in flags THEN ResetConditions(filter[i])
                                               ELSE filter[i]
                g == IF "condtrue" \in flags THEN ResetTrue(f, i) ELSE f
            IN IF "condfalse" \in flags THEN ResetFalse(g) ELSE g]
    BY <1>2 DEF ResetSelector
  <2>2. ASSUME NEW i \in Selector PROVE filter'[i] \in Filter
    <3> DEFINE f == IF "conditions" \in flags THEN ResetConditions(filter[i])
                                              ELSE filter[i]
               g == IF "condtrue" \in flags THEN ResetTrue(f, i) ELSE f
    <3>1. f \in Filter
      BY <1>0, ResetTypes
    <3> HIDE DEF f
    <3>2. g \in Filter
      BY <3>1, ResetTypes
    <3>3. filter'[i] = IF "condfalse" \in flags THEN ResetFalse(g) ELSE g
      BY <2>1 DEF f
    <3> HIDE DEF g
    <3>4. QED
      BY <3>2, <3>3, ResetTypes
  <2>3. filter' \in [Selector -> Filter]
    BY <2>1, <2>2
  <2>4. QED
    BY <1>2, <2>3 DEF TypeOK, ResetSelector, loopVars
<1>3. ASSUME NEW i \in Selector, SetFilterRange(i) PROVE TypeOK'
  <2>1. PICK r \in Ranges :
          Program(i, [filter[i] EXCEPT !.FAD = r.FAD, !.range = r.range])
    BY <1>3 DEF SetFilterRange
  <2>2. r.FAD \in Address /\ r.range \in Address
    BY InputsAssumption
  <2>3. /\ r.FAD \in Nat /\ r.FAD + r.FAD < Modulus
        /\ r.range \in Nat /\ r.range + r.range < Modulus
        /\ Modulus \in Nat
    BY <2>2, WidthAssumption
  <2>4. [filter[i] EXCEPT !.FAD = r.FAD, !.range = r.range] \in Filter
    <3> DEFINE a == r.FAD
               n == r.range
    <3>1. a \in 0..(Modulus - 1) /\ n \in 0..(Modulus - 1)
      <4> HIDE DEF a, n
      <4>1. a \in Nat /\ a + a < Modulus /\ n \in Nat /\ n + n < Modulus
        BY <2>3 DEF a, n
      <4>2. QED
        BY <4>1, <2>3
    <3> HIDE DEF a, n
    <3>2. [filter[i] EXCEPT !.FAD = a, !.range = n] \in Filter
      BY <1>0, <3>1, UpdateTypes, NoConditionType
    <3>3. QED
      BY <3>2 DEF a, n
  <2>5. QED
    BY <2>1, <2>4, ProgramKeepsType
<1>4. ASSUME NEW i \in Selector, SetFilterSubheaderConditions(i) PROVE TypeOK'
  <2>1. PICK c \in Conditions : Program(i, [filter[i] EXCEPT !.cond = c])
    BY <1>4 DEF SetFilterSubheaderConditions
  <2>2. [filter[i] EXCEPT !.cond = c] \in Filter
    BY <1>0, InputsAssumption DEF Filter
  <2>3. QED
    BY <2>1, <2>2, ProgramKeepsType
<1>5. ASSUME NEW i \in Selector, SetFilterMode(i) PROVE TypeOK'
  <2>1. [NoCondition EXCEPT !.fid = filter[i].cond.fid] \in Condition
    BY <1>0, NoConditionType DEF Filter, Condition
  <2>2. 0 \in 0..(Modulus - 1)
    BY WidthAssumption
  <2>3. [filter[i] EXCEPT
           !.FAD = 0, !.range = 0, !.mode = {},
           !.cond = [NoCondition EXCEPT !.fid = filter[i].cond.fid]] \in Filter
    BY <1>0, <2>1, <2>2, UpdateTypes
  <2>4. ASSUME NEW m \in ModeSets
        PROVE  [filter[i] EXCEPT !.mode = m] \in Filter
    BY <1>0, InputsAssumption DEF Filter
  <2>5. QED
    BY <1>5, <2>3, <2>4, ProgramKeepsType DEF SetFilterMode
<1>6. ASSUME NEW i \in Selector, SetFilterConnection(i) PROVE TypeOK'
  <2>1. ASSUME NEW p \in Selector, NEW j \in Selector \union {None}
        PROVE  [filter[i] EXCEPT !.condtrue = p, !.condfalse = j] \in Filter
    BY <1>0, <2>1, ConnectorsKeepType
  <2>2. QED
    BY <1>6, <2>1, ProgramKeepsType DEF SetFilterConnection
<1>7. QED
  BY <1>1, <1>2, <1>3, <1>4, <1>5, <1>6 DEF Command

(* The variables keep their types under every command and every sector. *)
LEMMA TypeStep == TypeOK /\ [Next]_vars => TypeOK'
<1> SUFFICES ASSUME TypeOK, [Next]_vars PROVE TypeOK'
  OBVIOUS
<1>1. CASE Command
  BY <1>1, CommandKeepsType
<1>2. CASE ReadFilteredSector
  BY <1>2, InputsAssumption DEF TypeOK, ReadFilteredSector
<1>3. CASE FilterData
  <2>1. curfilter \in Selector /\ filter[curfilter] \in Filter
    BY <1>3 DEF FilterData, Idle, TypeOK
  <2>2. /\ filter[curfilter].condtrue \in Selector
        /\ filter[curfilter].condfalse \in Selector \union {None}
    BY <2>1 DEF Filter
  <2>3. Verdict(filter[curfilter], workblock, condresults) \in BOOLEAN
    BY DEF TypeOK, Verdict, SubheaderFails, RangeFails
  <2>4. curfilter' \in Selector \union {None}
    BY <1>3, <2>2 DEF FilterData, Accept, Reject
  <2>5. lastbuffer' \in Selector \union {None}
    BY <1>3, <2>2 DEF FilterData, Accept, Reject
  <2>6. fltpartition' \in Selector \union {None}
    BY <1>3, <2>2 DEF FilterData, Accept, Reject, TypeOK
  <2>7. condresults' \in BOOLEAN
    BY <1>3, <2>3 DEF FilterData
  <2>8. QED
    BY <1>3, <2>4, <2>5, <2>6, <2>7 DEF FilterData, TypeOK
<1>4. CASE UNCHANGED vars
  BY <1>4 DEF TypeOK, vars, loopVars
<1>5. QED
  BY <1>1, <1>2, <1>3, <1>4 DEF Next

LEMMA TypeInit == Init => TypeOK
<1> SUFFICES ASSUME Init PROVE TypeOK
  OBVIOUS
<1>1. 0 \in Selector /\ 0 \in 0..(Modulus - 1) /\ Modulus - 1 \in 0..(Modulus - 1)
  BY NFiltersAssumption, WidthAssumption DEF Selector
<1>2. [FAD |-> 0, range |-> Modulus - 1, mode |-> {}, cond |-> NoCondition,
       condtrue |-> 0, condfalse |-> None] \in Filter
  BY <1>1, NoConditionType DEF Filter
<1>3. filter \in [Selector -> Filter]
  BY <1>2 DEF Init
<1>4. QED
  BY <1>3, InputsAssumption DEF Init, TypeOK

(* The variables of the filters have their types, for any constants. *)
THEOREM TypeCorrect == Spec => []TypeOK
BY TypeInit, TypeStep, PTL DEF Spec

-----------------------------------------------------------------------------
(* RangeNeverWraps is inductive with TypeOK: every writer of FAD or range gives
   both numbers anew.                                                      *)

LEMMA RangeInit == Init => RangeNeverWraps
BY WidthAssumption DEF Init, RangeNeverWraps

(* The step of one filter: the sum it had, or that of a new record. *)
LEMMA ProgramKeepsRange ==
  ASSUME NEW i \in Selector, NEW f, TypeOK, RangeNeverWraps, Program(i, f),
         f.FAD + f.range < Modulus
  PROVE  RangeNeverWraps'
BY DEF RangeNeverWraps, Program, TypeOK

LEMMA CommandKeepsRange ==
  ASSUME TypeOK, RangeNeverWraps, Command
  PROVE  RangeNeverWraps'
<1>0. \A i \in Selector : /\ filter[i] \in Filter
                          /\ filter[i].FAD + filter[i].range < Modulus
  BY DEF TypeOK, RangeNeverWraps
<1>1. CASE SetCDDeviceConnection
  BY <1>1 DEF RangeNeverWraps, SetCDDeviceConnection
<1>2. CASE ResetSelector
  <2>1. PICK flags \in SUBSET {"condfalse", "condtrue", "conditions"} :
          filter' = [i \in Selector |->
            LET f == IF "conditions" \in flags THEN ResetConditions(filter[i])
                                               ELSE filter[i]
                g == IF "condtrue" \in flags THEN ResetTrue(f, i) ELSE f
            IN IF "condfalse" \in flags THEN ResetFalse(g) ELSE g]
    BY <1>2 DEF ResetSelector
  <2>2. ASSUME NEW i \in Selector
        PROVE  filter'[i].FAD + filter'[i].range < Modulus
    <3> DEFINE f == IF "conditions" \in flags THEN ResetConditions(filter[i])
                                              ELSE filter[i]
               g == IF "condtrue" \in flags THEN ResetTrue(f, i) ELSE f
    <3>1. f \in Filter /\ f.FAD + f.range < Modulus
      <4>1. CASE "conditions" \in flags
        <5>1. f = ResetConditions(filter[i])
          BY <4>1
        <5> HIDE DEF f
        <5>2. f \in Filter
          BY <5>1, <1>0, ResetTypes
        <5>3. f.FAD = 0 /\ f.range = Modulus - 1
          BY <5>1, <1>0 DEF ResetConditions, Filter
        <5>4. QED
          BY <5>2, <5>3, WidthAssumption
      <4>2. CASE "conditions" \notin flags
        BY <4>2, <1>0
      <4>3. QED
        BY <4>1, <4>2
    <3> HIDE DEF f
    <3>2. g.FAD = f.FAD /\ g.range = f.range /\ g \in Filter
      BY <3>1, ResetTypes DEF ResetTrue, Filter
    <3>3. filter'[i] = IF "condfalse" \in flags THEN ResetFalse(g) ELSE g
      BY <2>1 DEF f
    <3> HIDE DEF g
    <3>4. filter'[i].FAD = g.FAD /\ filter'[i].range = g.range
      BY <3>2, <3>3 DEF ResetFalse, Filter
    <3>5. QED
      BY <3>1, <3>2, <3>4
  <2>3. QED
    BY <2>2 DEF RangeNeverWraps
<1>3. ASSUME NEW i \in Selector, SetFilterRange(i) PROVE RangeNeverWraps'
  <2>1. PICK r \in Ranges :
          Program(i, [filter[i] EXCEPT !.FAD = r.FAD, !.range = r.range])
    BY <1>3 DEF SetFilterRange
  <2>2. r.FAD \in Address /\ r.range \in Address
    BY InputsAssumption
  <2>3. r.FAD + r.range < Modulus
    BY <2>2, WidthAssumption
  <2> DEFINE f == [filter[i] EXCEPT !.FAD = r.FAD, !.range = r.range]
  <2>4. f.FAD = r.FAD /\ f.range = r.range
    BY <1>0 DEF Filter
  <2>5. Program(i, f)
    BY <2>1
  <2> HIDE DEF f
  <2>6. QED
    BY <2>3, <2>4, <2>5, ProgramKeepsRange
<1>4. ASSUME NEW i \in Selector, NEW f \in Filter, Program(i, f),
             f.FAD = filter[i].FAD, f.range = filter[i].range
      PROVE  RangeNeverWraps'
  BY <1>0, <1>4, ProgramKeepsRange
<1>5. ASSUME NEW i \in Selector, SetFilterSubheaderConditions(i)
      PROVE RangeNeverWraps'
  <2>1. PICK c \in Conditions : Program(i, [filter[i] EXCEPT !.cond = c])
    BY <1>5 DEF SetFilterSubheaderConditions
  <2> DEFINE f == [filter[i] EXCEPT !.cond = c]
  <2>2. f \in Filter /\ f.FAD = filter[i].FAD /\ f.range = filter[i].range
    BY <1>0, InputsAssumption DEF Filter
  <2>3. Program(i, f)
    BY <2>1
  <2> HIDE DEF f
  <2>4. QED
    BY <2>2, <2>3, <1>4
<1>6. ASSUME NEW i \in Selector, SetFilterMode(i) PROVE RangeNeverWraps'
  <2>1. CASE \E m \in ModeSets : Program(i, [filter[i] EXCEPT !.mode = m])
    <3>1. PICK m \in ModeSets : Program(i, [filter[i] EXCEPT !.mode = m])
      BY <2>1
    <3> DEFINE f == [filter[i] EXCEPT !.mode = m]
    <3>2. f \in Filter /\ f.FAD = filter[i].FAD /\ f.range = filter[i].range
      BY <1>0, InputsAssumption DEF Filter
    <3>3. Program(i, f)
      BY <3>1
    <3> HIDE DEF f
    <3>4. QED
      BY <3>2, <3>3, <1>4
  <2> DEFINE f == [filter[i] EXCEPT
                     !.FAD = 0, !.range = 0, !.mode = {},
                     !.cond = [NoCondition EXCEPT !.fid = filter[i].cond.fid]]
  <2>2. CASE Program(i, f)
    <3>1. f.FAD = 0 /\ f.range = 0
      BY <1>0 DEF Filter
    <3> HIDE DEF f
    <3>2. f.FAD + f.range < Modulus
      BY <3>1, WidthAssumption
    <3>3. QED
      BY <2>2, <3>2, ProgramKeepsRange
  <2>3. QED
    BY <1>6, <2>1, <2>2 DEF SetFilterMode
<1>7. ASSUME NEW i \in Selector, SetFilterConnection(i) PROVE RangeNeverWraps'
  <2>1. PICK p \in Selector, j \in Selector \union {None} :
          Program(i, [filter[i] EXCEPT !.condtrue = p, !.condfalse = j])
    BY <1>7 DEF SetFilterConnection
  <2> DEFINE f == [filter[i] EXCEPT !.condtrue = p, !.condfalse = j]
  <2>2. f \in Filter /\ f.FAD = filter[i].FAD /\ f.range = filter[i].range
    BY <1>0, ConnectorsKeepType
  <2>3. Program(i, f)
    BY <2>1
  <2> HIDE DEF f
  <2>4. QED
    BY <2>2, <2>3, <1>4
<1>8. QED
  BY <1>1, <1>2, <1>3, <1>5, <1>6, <1>7 DEF Command

LEMMA RangeStep ==
  TypeOK /\ RangeNeverWraps /\ [Next]_vars => RangeNeverWraps'
<1> SUFFICES ASSUME TypeOK, RangeNeverWraps, [Next]_vars PROVE RangeNeverWraps'
  OBVIOUS
<1>1. CASE Command
  BY <1>1, CommandKeepsRange
<1>2. CASE ReadFilteredSector \/ FilterData \/ UNCHANGED vars
  BY <1>2 DEF RangeNeverWraps, ReadFilteredSector, FilterData, vars
<1>3. QED
  BY <1>1, <1>2 DEF Next

(* The sum of a filter's start and length never leaves 32 bits: the 24 bits of
   the commands leave room, and the largest length comes with the start 0. *)
THEOREM RangesFit == Spec => []RangeNeverWraps
BY TypeInit, TypeStep, RangeInit, RangeStep, PTL DEF Spec

-----------------------------------------------------------------------------
(* The loop                                                                *)

LEMMA DestinationStep ==
  TypeOK /\ LastBufferIsDestination /\ [Next]_vars => LastBufferIsDestination'
<1> SUFFICES ASSUME TypeOK, LastBufferIsDestination, [Next]_vars
             PROVE  LastBufferIsDestination'
  OBVIOUS
<1>1. CASE Command
  <2>1. UNCHANGED loopVars
    BY <1>1 DEF Command, SetCDDeviceConnection, ResetSelector, SetFilterRange,
       SetFilterSubheaderConditions, SetFilterMode, SetFilterConnection, Program
  <2>2. QED
    BY <2>1 DEF loopVars, LastBufferIsDestination, Idle
<1>2. CASE ReadFilteredSector
  BY <1>2 DEF ReadFilteredSector, LastBufferIsDestination, Idle, TypeOK
<1>3. CASE FilterData
  BY <1>3 DEF FilterData, Accept, Reject, LastBufferIsDestination, Idle
<1>4. CASE UNCHANGED vars
  BY <1>4 DEF vars, loopVars, LastBufferIsDestination, Idle
<1>5. QED
  BY <1>1, <1>2, <1>3, <1>4 DEF Next

(* GetLastBufferDestination names where the last sector went, for chains of any
   length. *)
THEOREM DestinationIsReported == Spec => []LastBufferIsDestination
<1>1. Init => LastBufferIsDestination
  BY DEF Init, LastBufferIsDestination
<1>2. QED
  BY <1>1, TypeInit, TypeStep, DestinationStep, PTL DEF Spec

(* The verdict of an iteration that comes with 1 is what the filter promises: the
   sequence of tests, with the reversal in its middle, and the sum on 32 bits. *)
LEMMA VerdictIsPasses ==
  ASSUME NEW f \in Filter, NEW s \in Sector, f.FAD + f.range < Modulus
  PROVE  Verdict(f, s, TRUE) <=> Passes(f, s)
<1>1. RangeFails(f, s) <=> ~("fad" \in f.mode => s.FAD \in f.FAD..(f.FAD + f.range))
  <2>1. f.FAD \in Nat /\ f.range \in Nat /\ s.FAD \in Nat
    <3>1. f.FAD \in 0..(Modulus - 1) /\ f.range \in 0..(Modulus - 1)
      BY DEF Filter
    <3>2. s.FAD \in Nat
      BY WidthAssumption DEF Sector
    <3> DEFINE a == f.FAD
               n == f.range
    <3>3. a \in Nat /\ n \in Nat
      <4>1. a \in 0..(Modulus - 1) /\ n \in 0..(Modulus - 1)
        BY <3>1
      <4> HIDE DEF a, n
      <4>2. QED
        BY <4>1, WidthAssumption
    <3>4. QED
      BY <3>2, <3>3
  <2>2. (f.FAD + f.range) % Modulus = f.FAD + f.range
    BY <2>1, WidthAssumption
  <2>3. s.FAD \in f.FAD..(f.FAD + f.range)
           <=> s.FAD >= f.FAD /\ s.FAD <= f.FAD + f.range
    BY <2>1
  <2>4. QED
    BY <2>2, <2>3 DEF RangeFails
<1>2. SubheaderFails(f, s) <=>
       ~ /\ "fn" \in f.mode => s.fn = f.cond.fid
         /\ "cn" \in f.mode => s.cn = f.cond.chan
         /\ "sm" \in f.mode => s.sm \intersect f.cond.smmask = f.cond.smval
         /\ "ci" \in f.mode => s.ci \intersect f.cond.cimask = f.cond.cival
  BY DEF SubheaderFails
<1>3. s.mode2 \in BOOLEAN
  BY DEF Sector
<1>4. QED
  BY <1>1, <1>2, <1>3, Zenon DEF Verdict, Passes

(* The filter the drive is connected to keeps its promise. *)
THEOREM FirstFilterIsRight == Spec => FirstFilterDecides
<1>1. ASSUME TypeOK, RangeNeverWraps, [Next]_vars
      PROVE  [curfilter # None /\ condresults =>
               (condresults' <=> Passes(filter[curfilter], workblock))]_vars
  <2> SUFFICES ASSUME curfilter # None, condresults, Next
               PROVE  condresults' <=> Passes(filter[curfilter], workblock)
    BY <1>1
  <2>1. FilterData
    BY DEF Next, Command, ReadFilteredSector, Idle
  <2>2. curfilter \in Selector /\ filter[curfilter] \in Filter
        /\ workblock \in Sector
    BY <1>1 DEF TypeOK
  <2>3. filter[curfilter].FAD + filter[curfilter].range < Modulus
    BY <2>2, <1>1 DEF RangeNeverWraps
  <2>4. condresults' = Verdict(filter[curfilter], workblock, condresults)
    BY <2>1 DEF FilterData
  <2>5. condresults = TRUE
    BY <1>1 DEF TypeOK
  <2>6. QED
    BY <2>2, <2>3, <2>4, <2>5, VerdictIsPasses
<1>2. QED
  BY <1>1, TypeInit, TypeStep, RangeInit, RangeStep, PTL
  DEF Spec, FirstFilterDecides
=============================================================================
