------------------------------ MODULE CdFilter ------------------------------
(***************************************************************************)
(* The sector filters of the CD block (src/src/cs2.c).                     *)
(*                                                                         *)
(* MAX_SELECTORS filters stand between the drive and the partitions of     *)
(* module CdBuffer.  The drive is connected to one of them; a sector that  *)
(* meets a filter's conditions goes to the partition at the filter's true  *)
(* connector, any other goes to the filter at its false connector, and is  *)
(* dropped where there is none.  The host programs the filters one command *)
(* at a time, between two sectors; a step of FilterData is one iteration   *)
(* of the loop of Cs2FilterData, so a sector takes a step for each filter. *)
(***************************************************************************)
EXTENDS Integers

CONSTANTS
  NFilters,     \* MAX_SELECTORS, 24 in cs2.h
  None,         \* 0xFF in a connector, the null pointer in outconcddev
  Modulus,      \* 2^32: FAD and range are u32
  Address,      \* what 24 bits of a command can give: 0..2^24-1
  Number,       \* values of a byte of the subheader
  Bit,          \* bits of the submode and coding information bytes
  ModeSets,     \* the sets of tests the host asks for
  Conditions,   \* the subheader conditions the host asks for
  Ranges,       \* the pairs of FAD and range the host asks for
  Sectors       \* the sectors the drive reads

Selector == 0..(NFilters - 1)
Test     == {"fn", "cn", "sm", "ci", "reverse", "fad"}   \* bits 0-4 and 6

Condition == [fid : Number, chan : Number, smmask : SUBSET Bit,
              smval : SUBSET Bit, cimask : SUBSET Bit, cival : SUBSET Bit]
Sector == [mode2 : BOOLEAN, fn : Number, cn : Number, sm : SUBSET Bit,
           ci : SUBSET Bit, FAD : Address]
Filter == [FAD : 0..(Modulus - 1), range : 0..(Modulus - 1),
           mode : SUBSET Test, cond : Condition,
           condtrue : Selector, condfalse : Selector \union {None}]

ASSUME NFiltersAssumption == NFilters \in Nat \ {0}
ASSUME NoneAssumption == None \notin Selector
ASSUME WidthAssumption ==
  /\ Modulus \in Nat \ {0}
  /\ Address \subseteq Nat
  /\ \A a, r \in Address : a + r < Modulus
ASSUME InputsAssumption ==
  /\ 0 \in Number
  /\ ModeSets \subseteq SUBSET Test
  /\ Conditions \subseteq Condition
  /\ Ranges \subseteq [FAD : Address, range : Address]
  /\ Sectors \subseteq Sector

VARIABLES
  filter,       \* filter[i]; masks and values of a byte are sets of its bits
  outconcddev,  \* the filter the drive is connected to, or None
  workblock,    \* the sector being filtered
  curfilter,    \* the filter the loop tries next, None outside the loop
  condresults,  \* the loop's verdict so far
  lastbuffer,   \* what GetLastBufferDestination reports
  fltpartition  \* partition the last sector went to, None if it was dropped

loopVars == <<workblock, curfilter, condresults, lastbuffer, fltpartition>>
vars == <<filter, outconcddev, loopVars>>

Idle == curfilter = None

-----------------------------------------------------------------------------
(* Initial state: Cs2Reset                                                 *)

NoCondition == [fid |-> 0, chan |-> 0, smmask |-> {}, smval |-> {},
                cimask |-> {}, cival |-> {}]

(* Mutant: the start of the range is left where the host put it. *)
Mut_ResetConditions(f) == [f EXCEPT !.range = Modulus - 1, !.mode = {},
                                    !.cond = NoCondition]

(* The conditions Cs2Reset and ResetSelector give a filter: every sector. *)
ResetConditions(f) == [f EXCEPT !.FAD = 0, !.range = Modulus - 1,
                                !.mode = {}, !.cond = NoCondition]

(* Mutant: partitions are counted from 1. *)
Mut_ResetTrue(f, i) == [f EXCEPT !.condtrue = i + 1]

(* The true connector ResetSelector gives filter i: partition i. *)
ResetTrue(f, i) == [f EXCEPT !.condtrue = i]
ResetFalse(f)   == [f EXCEPT !.condfalse = None]

Init ==
  /\ filter = [i \in Selector |->
                 [FAD |-> 0, range |-> Modulus - 1, mode |-> {},
                  cond |-> NoCondition, condtrue |-> 0, condfalse |-> None]]
  /\ outconcddev = None
  /\ workblock \in Sectors
  /\ curfilter = None
  /\ condresults = TRUE
  /\ lastbuffer = None
  /\ fltpartition = None

-----------------------------------------------------------------------------
(* Commands of the host, which the CD block executes between two sectors   *)

SetCDDeviceConnection ==
  /\ outconcddev' \in Selector \union {None}
  /\ UNCHANGED <<filter, loopVars>>

Program(i, f) == /\ filter' = [filter EXCEPT ![i] = f]
                 /\ UNCHANGED <<outconcddev, loopVars>>

SetFilterRange(i) ==
  \E r \in Ranges :
    Program(i, [filter[i] EXCEPT !.FAD = r.FAD, !.range = r.range])

SetFilterSubheaderConditions(i) ==
  \E c \in Conditions : Program(i, [filter[i] EXCEPT !.cond = c])

(* Bit 7 of the mode clears every condition of the filter but fid. *)
SetFilterMode(i) ==
  \/ \E m \in ModeSets : Program(i, [filter[i] EXCEPT !.mode = m])
  \/ Program(i, [filter[i] EXCEPT
                   !.FAD = 0, !.range = 0, !.mode = {},
                   !.cond = [NoCondition EXCEPT !.fid = filter[i].cond.fid]])

(* Either connector, or both: one that is not sent keeps its value.  Nothing
   keeps the host from closing a circle of false connectors. *)
SetFilterConnection(i) ==
  \E p \in Selector, j \in Selector \union {None} :
    Program(i, [filter[i] EXCEPT !.condtrue = p, !.condfalse = j])

(* Cs2ResetSelector, flags 0x80, 0x40 and 0x10 in any combination. *)
ResetSelector ==
  \E flags \in SUBSET {"condfalse", "condtrue", "conditions"} :
    /\ flags # {}
    /\ filter' = [i \in Selector |->
         LET f == IF "conditions" \in flags THEN ResetConditions(filter[i])
                                            ELSE filter[i]
             g == IF "condtrue" \in flags THEN ResetTrue(f, i) ELSE f
         IN IF "condfalse" \in flags THEN ResetFalse(g) ELSE g]
    /\ UNCHANGED <<outconcddev, loopVars>>

Command ==
  /\ Idle
  /\ \/ SetCDDeviceConnection
     \/ ResetSelector
     \/ \E i \in Selector : \/ SetFilterRange(i)
                            \/ SetFilterSubheaderConditions(i)
                            \/ SetFilterMode(i)
                            \/ SetFilterConnection(i)

-----------------------------------------------------------------------------
(* The filter loop                                                         *)

(* Cs2ReadFilteredSector has read a sector that is not audio and passes it to
   the filter the drive is connected to. *)
ReadFilteredSector ==
  /\ Idle
  /\ outconcddev # None
  /\ workblock' \in Sectors
  /\ curfilter' = outconcddev
  /\ condresults' = TRUE
  /\ UNCHANGED <<filter, outconcddev, lastbuffer, fltpartition>>

(* The tests that set condresults to 0. *)
SubheaderFails(f, s) ==
  \/ "fn" \in f.mode /\ s.fn # f.cond.fid
  \/ "cn" \in f.mode /\ s.cn # f.cond.chan
  \/ "sm" \in f.mode /\ s.sm \intersect f.cond.smmask # f.cond.smval
  \/ "ci" \in f.mode /\ s.ci \intersect f.cond.cimask # f.cond.cival

RangeFails(f, s) ==
  "fad" \in f.mode /\ ~(s.FAD >= f.FAD /\ s.FAD <= (f.FAD + f.range) % Modulus)

(* Mutant: the range check comes before the reversal. *)
Mut_Verdict(f, s, results) ==
  LET r == results /\ ~RangeFails(f, s)
      v == r /\ ~SubheaderFails(f, s)
  IN IF ~s.mode2 THEN r ELSE IF "reverse" \in f.mode THEN ~v ELSE v

(* The verdict of one iteration, from the verdict the loop came with. *)
Verdict(f, s, results) ==
  LET sub == IF ~s.mode2 THEN results
             ELSE LET r == results /\ ~SubheaderFails(f, s)
                  IN IF "reverse" \in f.mode THEN ~r ELSE r
  IN sub /\ ~RangeFails(f, s)

(* Mutant: the last buffer is recorded for the sectors that are stored only. *)
Mut_Reject(f) ==
  /\ curfilter' = f.condfalse
  /\ fltpartition' = IF f.condfalse = None THEN None ELSE fltpartition
  /\ UNCHANGED lastbuffer

Accept(f) ==
  /\ curfilter' = None
  /\ lastbuffer' = f.condtrue
  /\ fltpartition' = f.condtrue

(* The false connector: no filter there drops the sector. *)
Reject(f) ==
  /\ curfilter' = f.condfalse
  /\ lastbuffer' = f.condfalse
  /\ fltpartition' = IF f.condfalse = None THEN None ELSE fltpartition

(* Mutant: the loop tries the filter it has just tried. *)
Mut_FilterData ==
  /\ ~Idle
  /\ LET f == filter[curfilter] IN
     /\ condresults' = Verdict(f, workblock, condresults)
     /\ \/ condresults' /\ Accept(f)
        \/ ~condresults' /\ f.condfalse = None /\ Reject(f)
        \/ ~condresults' /\ f.condfalse # None
           /\ UNCHANGED <<curfilter, lastbuffer, fltpartition>>
  /\ UNCHANGED <<filter, outconcddev, workblock>>

FilterData ==
  /\ ~Idle
  /\ LET f == filter[curfilter] IN
     /\ condresults' = Verdict(f, workblock, condresults)
     /\ \/ condresults' /\ Accept(f)
        \/ ~condresults' /\ Reject(f)
  /\ UNCHANGED <<filter, outconcddev, workblock>>

Next == Command \/ ReadFilteredSector \/ FilterData

(* The loop runs to its end within one call. *)
Spec == Init /\ [][Next]_vars /\ WF_vars(FilterData)
-----------------------------------------------------------------------------
(* Properties                                                              *)

TypeOK ==
  /\ filter \in [Selector -> Filter]
  /\ outconcddev \in Selector \union {None}
  /\ workblock \in Sector
  /\ curfilter \in Selector \union {None}
  /\ condresults \in BOOLEAN
  /\ lastbuffer \in Selector \union {None}
  /\ fltpartition \in Selector \union {None}

(* The end of a filter's range, FAD + range on u32, never wraps around, although
   four commands set the two numbers and a reset makes the range as large as it
   can be: no sector is rejected because the sum overflowed. *)
RangeNeverWraps == \A i \in Selector : filter[i].FAD + filter[i].range < Modulus

(* Between two sectors, the answer of GetLastBufferDestination is the partition
   the last sector went to, or none, also when that sector went through several
   filters and each of them has written lastbuffer. *)
LastBufferIsDestination == Idle => lastbuffer = fltpartition

(* What a filter promises, whatever was tried before it: the subheader tests it
   asks for all hold, or do not all hold if it reverses them, and the sector is in
   its range.  Subheader tests are for mode 2 sectors. *)
Passes(f, s) ==
  /\ s.mode2 => (("reverse" \in f.mode) <=>
       ~ /\ "fn" \in f.mode => s.fn = f.cond.fid
         /\ "cn" \in f.mode => s.cn = f.cond.chan
         /\ "sm" \in f.mode => s.sm \intersect f.cond.smmask = f.cond.smval
         /\ "ci" \in f.mode => s.ci \intersect f.cond.cimask = f.cond.cival)
  /\ "fad" \in f.mode => s.FAD \in f.FAD..(f.FAD + f.range)

(* The filter the drive is connected to decides as it promises: the sector stays
   with it exactly when it passes, whatever sectors and verdicts came before.
   (A filter behind a false connector does not: the verdict is carried along.) *)
FirstFilterDecides ==
  [][curfilter # None /\ condresults =>
       (condresults' <=> Passes(filter[curfilter], workblock))]_vars

(* A verdict that has become false stays so behind a filter unless that filter
   reverses it and has the sector in its range. *)
Turns(f, s) == /\ s.mode2
               /\ "reverse" \in f.mode
               /\ "fad" \in f.mode => s.FAD \in f.FAD..(f.FAD + f.range)

(* The loop is caught: the verdict is false, and the false connectors lead from
   filter to filter without an end and past none that turns it. *)
Caught ==
  /\ ~condresults
  /\ \E circle \in SUBSET Selector :
       /\ curfilter \in circle
       /\ \A i \in circle : /\ filter[i].condfalse \in circle
                             /\ ~Turns(filter[i], workblock)

(* The loop has no bound, and its verdict is carried along and can change at every
   filter it passes, also when it passes one again: it ends for every sector but
   in the one case that no filter it can reach turns the verdict and no false
   connector it can reach is left open.  Then it never ends, and the emulator
   hangs. *)
FilteringEnds == ~Idle ~> (Idle \/ Caught)
=============================================================================
