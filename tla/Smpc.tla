-------------------------------- MODULE Smpc --------------------------------
(***************************************************************************)
(* The system manager (src/src/smpc.c): the command timer and INTBACK.     *)
(*                                                                         *)
(* A write of COMREG starts the timer; when it has run out the command     *)
(* that is in COMREG at that time is executed and the busy flag SF falls.  *)
(* INTBACK opens a session if the program wants peripheral data; a write   *)
(* of IREG0 then continues it or breaks it, and V-blank-IN ends it.  A     *)
(* response has the registers of one bank for the data of both ports; what *)
(* does not fit waits for the next response.                               *)
(*                                                                         *)
(* This module has the steps; Frame composes them with the main loop.      *)
(***************************************************************************)
EXTENDS Integers, Sequences

CONSTANTS
  Bank,            \* OREG0 to OREG31
  PortSize,        \* bytes that a port of the front end has
  CommandTime, OtherTime, StatusTime, PeripheralTime, ContinueTime, \* us
  Usec             \* us that one pass of the main loop may take

(* PerAddPeripheral makes a port of at most six devices of at most four    *)
(* bytes with their identifiers, and one byte before them: less than 32.   *)
ASSUME SizeAssumption ==
  /\ Bank \in Nat \ {0}
  /\ PortSize \subseteq 1..(Bank - 1)
ASSUME TimeAssumption ==
  /\ {CommandTime, OtherTime, StatusTime, PeripheralTime, ContinueTime}
       \subseteq Nat \ {0}
  /\ Usec \subseteq Nat

(* "other" stands for the commands that end in a call of another component *)
(* or only in an OREG: SSHON, SSHOFF, SNDON, SNDOFF, SETSMEM, NMIREQ,      *)
(* RESENAB, RESDISA, and those that are not implemented but are timed.     *)
Command == {"INTBACK", "CKCHG", "other", "unknown"}
Ireg0   == SUBSET {"status", "break", "continue"}   \* bits 0, 6 and 7

VARIABLES
  IREG0,
  IREG1,           \* its bit 3: peripheral data is wanted
  COMREG,
  SF,
  timing,          \* us left; 0 stands for all that is not positive
  intback,         \* a session is open
  port1, port2,    \* what the SMPC holds of the ports: size and offset
  fetched,         \* history: bytes that were fetched last
  stream           \* history: which of them were returned, in order

timerVars == <<COMREG, SF, timing>>
portVars  == <<port1, port2, fetched, stream>>
smpcVars  == <<IREG0, IREG1, timerVars, intback, portVars>>

MaxTime == OtherTime + CommandTime + StatusTime + PeripheralTime + ContinueTime
NoData  == [size |-> 0, offset |-> 0]
PortData == [size : PortSize \union {0}, offset : 0..Bank]

SmpcTypeOK ==
  /\ IREG0 \in Ireg0 /\ IREG1 \in BOOLEAN
  /\ COMREG \in Command /\ SF \in BOOLEAN
  /\ timing \in 0..MaxTime
  /\ intback \in BOOLEAN
  /\ port1 \in PortData /\ port2 \in PortData
  /\ fetched \in 0..(2 * Bank)
  /\ stream \in Seq(0..(2 * Bank))

(* SmpcReset; COMREG is 0, which is MSHON. *)
SmpcInit ==
  /\ IREG0 = {} /\ IREG1 = FALSE /\ COMREG = "other" /\ SF = FALSE
  /\ timing = 0 /\ intback = FALSE
  /\ port1 = NoData /\ port2 = NoData
  /\ fetched = 0 /\ stream = <<>>
-----------------------------------------------------------------------------
(* Writes of the program                                                   *)

(* SmpcSetTiming for INTBACK. *)
IntbackTime ==
  IF intback THEN ContinueTime
  ELSE CommandTime + (IF IREG0 = {"status"} THEN StatusTime ELSE 0)
                   + (IF IREG1 THEN PeripheralTime ELSE 0)

(* SmpcSetTiming; a command it does not know leaves the timer running. *)
SetTiming(c) ==
  /\ timing' = CASE c = "INTBACK" -> IntbackTime
                 [] c = "CKCHG"   -> OtherTime
                 [] c = "other"   -> CommandTime
                 [] c = "unknown" -> timing
  /\ SF' = (SF /\ c # "unknown")

WriteCOMREG(c) ==
  /\ COMREG' = c
  /\ SetTiming(c)
  /\ UNCHANGED <<IREG0, IREG1, intback, portVars>>

WriteSF(on) ==
  /\ SF' = on
  /\ UNCHANGED <<IREG0, IREG1, COMREG, timing, intback, portVars>>

WriteIREG1(peripheral) ==
  /\ IREG1' = peripheral
  /\ UNCHANGED <<IREG0, timerVars, intback, portVars>>

Continue ==
  /\ COMREG' = "INTBACK" /\ timing' = ContinueTime /\ SF' = TRUE
  /\ UNCHANGED intback

(* A break; the timer of a continue that came before it runs on. *)
Break ==
  /\ intback' = FALSE
  /\ UNCHANGED timerVars

(* While a session is open, IREG0 is also its break and continue request. *)
WriteIREG0(bits) ==
  /\ IREG0' = bits
  /\ CASE intback /\ "break" \in bits -> Break
       [] intback /\ "break" \notin bits /\ "continue" \in bits -> Continue
       [] ~intback \/ bits \intersect {"break", "continue"} = {} ->
            UNCHANGED <<timerVars, intback>>
  /\ UNCHANGED <<IREG1, portVars>>
-----------------------------------------------------------------------------
(* What a port gives to a response that has room for so many bytes: which  *)
(* of its bytes, and what it keeps.  If more is left than fits, the bytes  *)
(* are taken from the beginning and the offset moves.                      *)
Bytes(from, n) == [k \in 1..n |-> from + k - 1]

(* Mutant: the rest is taken from the beginning, too. *)
Mut_Given(p, room) ==
  IF p.size = 0 \/ room = 0 THEN <<>>
  ELSE IF p.size - p.offset < room THEN Bytes(0, p.size - p.offset)
  ELSE Bytes(0, room)

Given(p, room) ==
  IF p.size = 0 \/ room = 0 THEN <<>>
  ELSE IF p.size - p.offset < room THEN Bytes(p.offset, p.size - p.offset)
  ELSE Bytes(0, room)

Kept(p, room) ==
  IF p.size = 0 \/ room = 0 THEN p
  ELSE IF p.size - p.offset < room THEN [p EXCEPT !.size = 0]
  ELSE [p EXCEPT !.offset = @ + room]

(* The bytes of a port, as numbers among all that were fetched: those of   *)
(* the second port are the last ones.                                      *)
After(before, bytes) == [k \in DOMAIN bytes |-> before + bytes[k]]

(* A response with what the ports p1 and p2 hold, after those in sent. *)
Respond(p1, p2, total, sent) ==
  LET one == Given(p1, Bank)
      two == Given(p2, Bank - Len(one))
  IN  /\ port1' = Kept(p1, Bank)
      /\ port2' = Kept(p2, Bank - Len(one))
      /\ stream' = sent \o one \o After(total - p2.size, two)
      /\ fetched' = total

(* SmpcINTBACKPeripheral: new data is fetched when both ports are empty.   *)
(* SR, which flags the first response of a session, is left out.           *)
Peripheral ==
  IF port1.size = 0 /\ port2.size = 0
  THEN \E s1, s2 \in PortSize :
         Respond([size |-> s1, offset |-> 0], [size |-> s2, offset |-> 0],
                 s1 + s2, <<>>)
  ELSE Respond(port1, port2, fetched, stream)

(* SmpcINTBACK.  Data is returned in an open session and at the beginning  *)
(* of one without status; a status opens a session if IREG1 asks for data. *)
INTBACK(open) ==
  CASE open -> intback' = TRUE /\ Peripheral
    [] ~open /\ "status" \in IREG0 -> intback' = IREG1 /\ UNCHANGED portVars
    [] ~open /\ "status" \notin IREG0 /\ IREG1 -> intback' = TRUE /\ Peripheral
    [] ~open /\ "status" \notin IREG0 /\ ~IREG1 ->
         intback' = FALSE /\ UNCHANGED portVars

(* SmpcINTBACKEnd, which the main loop calls at V-blank-IN: whether a      *)
(* session is open after it.                                               *)
INTBACKEnd(vblankIN) == intback /\ ~vblankIN

(* Mutant: only a timer that ends at zero has run out. *)
Mut_RunsOut(t) == timing = t

(* The timer runs out in a call of SmpcExec. *)
RunsOut(t) == timing > 0 /\ timing <= t

(* SmpcExec, in a pass of the main loop after which a session is open or   *)
(* not.  Frame has what CKCHG does.                                        *)
SmpcExec(t, open) ==
  /\ timing' = IF timing > t THEN timing - t ELSE 0
  /\ SF' = (SF /\ ~RunsOut(t))
  /\ IF RunsOut(t) /\ COMREG = "INTBACK" THEN INTBACK(open)
     ELSE intback' = open /\ UNCHANGED portVars
  /\ UNCHANGED <<IREG0, IREG1, COMREG>>
=============================================================================
