------------------------------- MODULE Frame -------------------------------
(***************************************************************************)
(* The main loop (YabauseEmulate, src/src/yabause.c): slices, lines and    *)
(* frames, with the events of the VDP2 that they cause (src/src/vdp2.c),   *)
(* timer 0 of the SCU that counts them (src/src/scu.c), and the system     *)
(* manager, whose INTBACK ends at V-blank-IN and whose change of the clock *)
(* begins the frame anew.                                                  *)
(*                                                                         *)
(* Lines are counted up to two marks that are tested for equality: the     *)
(* line of V-blank-IN, which the program moves by a write of TVMD, and the *)
(* last line.  A pass of the loop is one step; the writes of the program   *)
(* happen in the SH-2's part of a pass, before the rest of it.             *)
(***************************************************************************)
EXTENDS Smpc

CONSTANTS
  declinenum,      \* slices of a line: 10; on the Wii 2 to 17
  VBlankLines,     \* 224 and what TVMD makes of it: 240, 256, 272
  ResetLine,       \* 224
  MaxLines,        \* 263 and 313
  Compare,         \* values of T0C
  TimerCap,        \* bound on the count of timer 0: it stays there
  BitsWritten,               \* values of IREG0 that the program writes
  CommandsGiven            \* commands that the program gives

ASSUME LineAssumption ==
  /\ declinenum \in Nat \ {0, 1}
  /\ VBlankLines \subseteq Nat \ {0} /\ ResetLine \in VBlankLines
  /\ MaxLines \subseteq Nat \ {0}
  /\ VBlankLines \intersect MaxLines = {}
ASSUME TimerAssumption ==
  /\ Compare \subseteq Nat /\ TimerCap \in Nat
  /\ \A n \in MaxLines \union Compare : n < TimerCap
ASSUME ProgramAssumption == BitsWritten \subseteq Ireg0 /\ CommandsGiven \subseteq Command

VARIABLES
  slice,           \* DecilineCount
  line,            \* LineCount
  vblankLine,      \* VBlankLineCount
  maxLine,         \* MaxLineCount, by the video format
  oneframeexec,    \* the frame is over
  vblank,          \* TVSTAT: VBLANK
  timer0, T0C,
  T1MD,            \* its bit 0
  steady,          \* history: no write of TVMD moved V-blank-IN across line
  vblanks,         \* history: V-blank-INs of this frame
  timed,           \* history: timer 0 is on and T0C unchanged since reset
  fires            \* history: interrupts of timer 0 since reset

lineVars  == <<slice, line, vblankLine, maxLine, oneframeexec, vblank, steady, vblanks>>
timer0Vars == <<timer0, T0C, T1MD, timed, fires>>
vars == <<smpcVars, lineVars, timer0Vars>>

Init ==
  /\ SmpcInit
  /\ slice = 0 /\ line = 0 /\ vblankLine = ResetLine /\ maxLine \in MaxLines
  /\ oneframeexec = TRUE /\ vblank = FALSE
  /\ steady = TRUE /\ vblanks = 0
  /\ timer0 = 0 /\ T0C \in Compare /\ T1MD = FALSE
  /\ timed = FALSE /\ fires = 0
-----------------------------------------------------------------------------
(* Writes of the program                                                   *)

WriteTVMD(n) ==
  /\ vblankLine' = n
  /\ steady' = (steady /\ (line >= n <=> line >= vblankLine))
  /\ UNCHANGED <<slice, line, maxLine, oneframeexec, vblank, vblanks,
                 smpcVars, timer0Vars>>

WriteT0C(n) ==
  /\ T0C' = n
  /\ timed' = (timed /\ n = T0C)
  /\ UNCHANGED <<timer0, T1MD, fires, smpcVars, lineVars>>

WriteT1MD(on) ==
  /\ T1MD' = on
  /\ timed' = (timed /\ on)
  /\ UNCHANGED <<timer0, T0C, fires, smpcVars, lineVars>>

SmpcWrite ==
  /\ \/ \E c \in CommandsGiven : WriteCOMREG(c)
     \/ \E on \in BOOLEAN : WriteSF(on)
     \/ \E bits \in BitsWritten : WriteIREG0(bits)
     \/ \E peripheral \in BOOLEAN : WriteIREG1(peripheral)
  /\ UNCHANGED <<lineVars, timer0Vars>>

Program ==
  /\ ~oneframeexec
  /\ \/ \E n \in VBlankLines : WriteTVMD(n)
     \/ \E n \in Compare : WriteT0C(n)
     \/ \E on \in BOOLEAN : WriteT1MD(on)
     \/ SmpcWrite
-----------------------------------------------------------------------------
(* A pass of the main loop                                                 *)

(* Mutant: the count is tested before it is raised. *)
Mut_HBlankOUT == slice = declinenum

HBlankIN  == slice + 1 = declinenum - 1
HBlankOUT == slice + 1 = declinenum
VBlankIN  == HBlankOUT /\ line + 1 = vblankLine
VBlankOUT == HBlankOUT /\ ~VBlankIN /\ line + 1 = maxLine

CountLine ==
  /\ slice' = IF HBlankOUT THEN 0 ELSE slice + 1
  /\ line' = IF VBlankOUT THEN 0 ELSE IF HBlankOUT THEN line + 1 ELSE line
  /\ vblank' = (VBlankIN \/ (vblank /\ ~VBlankOUT))
  /\ vblanks' = IF VBlankOUT THEN 0 ELSE IF VBlankIN THEN vblanks + 1 ELSE vblanks
  /\ steady' = (steady \/ VBlankOUT)
  /\ UNCHANGED vblankLine

Counted == IF timer0 < TimerCap THEN timer0 + 1 ELSE timer0

(* Mutant: the comparison comes before the count. *)
Mut_Compared == timer0 = T0C

Compared == Counted = T0C

(* Timer 0 in ScuSendHBlankIN and ScuSendVBlankOUT. *)
CountTimer0 ==
  /\ IF T1MD /\ HBlankIN
       THEN /\ timer0' = Counted
            /\ fires' = IF Compared THEN fires + 1 ELSE fires
            /\ UNCHANGED timed
     ELSE IF VBlankOUT
       THEN /\ timer0' = IF T1MD THEN 0 ELSE timer0
            /\ fires' = IF T1MD /\ T0C = 0 THEN 1 ELSE 0
            /\ timed' = T1MD
     ELSE UNCHANGED <<timer0, fires, timed>>
  /\ UNCHANGED <<T0C, T1MD>>

(* Mutant: Vdp2Reset leaves TVSTAT as it is. *)
Mut_Restarted == vblankLine' = ResetLine /\ UNCHANGED vblank

(* Vdp2Reset. *)
Restarted == vblankLine' = ResetLine /\ vblank' = FALSE

(* ScuReset. *)
ScuReset == timer0' = 0 /\ T1MD' = FALSE /\ UNCHANGED T0C

(* CKCHG352 and CKCHG320: Vdp2Reset, ScuReset and YabauseChangeTiming, at  *)
(* the end of the pass, whatever the pass has counted.                     *)
ClockChange ==
  /\ Restarted
  /\ slice' = 0 /\ line' = 0
  /\ ScuReset
  /\ steady' = TRUE /\ vblanks' = 0 /\ timed' = FALSE /\ fires' = 0

Pass(t) ==
  /\ ~oneframeexec
  /\ oneframeexec' = VBlankOUT
  /\ UNCHANGED maxLine
  /\ SmpcExec(t, INTBACKEnd(VBlankIN))
  /\ IF RunsOut(t) /\ COMREG = "CKCHG" THEN ClockChange
     ELSE CountLine /\ CountTimer0

(* YabauseEmulate is called again. *)
NextFrame ==
  /\ oneframeexec
  /\ oneframeexec' = FALSE
  /\ UNCHANGED <<slice, line, vblankLine, maxLine, vblank, steady, vblanks,
                 smpcVars, timer0Vars>>

(* YabauseResetNoLoad, between two frames. *)
Reset ==
  /\ oneframeexec
  /\ IREG0' = {} /\ IREG1' = FALSE /\ COMREG' = "other" /\ SF' = FALSE
  /\ timing' = 0 /\ intback' = FALSE
  /\ port1' = NoData /\ port2' = NoData
  /\ fetched' = 0 /\ stream' = <<>>
  /\ Restarted /\ ScuReset
  /\ steady' = TRUE /\ timed' = FALSE
  /\ UNCHANGED <<slice, line, maxLine, oneframeexec, vblanks, fires>>

MainLoop == (\E t \in Usec : Pass(t)) \/ NextFrame

Next == Program \/ MainLoop \/ Reset

(* The front end calls YabauseEmulate as long as it runs, and the loop in  *)
(* it goes on until the frame is over.                                     *)
Spec == Init /\ [][Next]_vars /\ WF_vars(MainLoop)
-----------------------------------------------------------------------------
TypeOK ==
  /\ SmpcTypeOK
  /\ slice \in 0..(declinenum - 1)
  /\ vblankLine \in VBlankLines /\ maxLine \in MaxLines
  /\ line \in 0..(maxLine - 1)
  /\ oneframeexec \in BOOLEAN /\ vblank \in BOOLEAN
  /\ timer0 \in 0..TimerCap /\ T0C \in Compare /\ T1MD \in BOOLEAN
  /\ steady \in BOOLEAN /\ timed \in BOOLEAN
  /\ vblanks \in Nat /\ fires \in Nat

(* A frame has one V-blank-IN, at its line, and TVSTAT tells so, unless    *)
(* the program moves that line across the line that is being shown: if it  *)
(* moves it below there is none, and if above a second one.  A change of   *)
(* the clock in the middle of a frame makes no exception: it begins a new  *)
(* frame outside V-blank.                                                  *)
VBlankAsCounted ==
  steady => /\ vblank <=> line >= vblankLine
            /\ vblanks = IF line >= vblankLine THEN 1 ELSE 0

(* Timer 0 counts the lines of the frame and interrupts once, when it      *)
(* reaches T0C: at V-blank-OUT for 0, never for a line the frame lacks.    *)
Timer0CountsLines ==
  timed => /\ timer0 = IF slice = declinenum - 1 THEN line + 1 ELSE line
           /\ fires = IF timer0 >= T0C THEN 1 ELSE 0

(* The data of the ports is returned from the first byte of port 1 to the  *)
(* last of port 2, each byte once, over however many responses, breaks and *)
(* V-blanks; and new data is fetched only when all was returned.           *)
DataInOrder ==
  /\ \A k \in DOMAIN stream : stream[k] = k - 1
  /\ port1.size = 0 /\ port2.size = 0 => Len(stream) = fetched

(* From some time on the timer is not started again. *)
NotStarted == <>[][timing' <= timing]_vars

(* A command whose timer runs ends, and with it SF falls, if the program   *)
(* does not for ever start the timer anew: whether a break, a V-blank, a   *)
(* change of the clock or a command without timer comes in between.        *)
TimerEnds == NotStarted => (timing > 0 ~> timing = 0 /\ ~SF)
=============================================================================
