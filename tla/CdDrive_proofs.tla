--------------------------- MODULE CdDrive_proofs ----------------------------
(***************************************************************************)
(* Proofs about CdDrive, for every disc and all arguments: the registers   *)
(* belong to the host's command from the write of CR1 to the read of CR4,  *)
(* and therefore every step of the program is a step of the channel of     *)
(* module CdCommand or changes nothing there.  A play makes the passes it  *)
(* was asked for, and all variables keep their types.                      *)
(***************************************************************************)
EXTENDS CdDrive, TLAPS

(* The invariant, with what the mapping needs of the types of the host's
   variables. *)
HostTypeOK == /\ asked \in Command \union {None}
              /\ host \in {"idle", "ready", "writing", "waiting", "reading"}
              /\ host \in {"writing", "waiting", "reading"} => asked \in Command
IInv == HostTypeOK /\ RegistersBelong

LEMMA InvInit == Init => IInv
BY NoneAssumption DEF Init, IInv, HostTypeOK, RegistersBelong

(* The drive's part of a command leaves the registers and the host alone, so what
   Cs2Execute does to them is in its own conjuncts. *)
LEMMA InvExecute ==
  ASSUME IInv, Cs2Execute
  PROVE  IInv'
<1>1. host = "waiting" /\ host' = host /\ asked' = asked /\ got' = got
  BY DEF IInv, RegistersBelong, Cs2Execute, hostVars
<1>2. ~peri /\ command /\ cr1.of = asked
  BY <1>1 DEF IInv, RegistersBelong, Cs2Execute, Asked
<1>3. /\ cr1' = [kind |-> "response", of |-> asked]
      /\ cr4' = [kind |-> "response", of |-> asked]
      /\ cmok' = TRUE /\ timing' = FALSE /\ command' = command /\ peri' = peri
  BY <1>2 DEF Cs2Execute
<1>4. HostTypeOK'
  BY <1>1 DEF IInv, HostTypeOK
<1>5. RegistersBelong'
  BY <1>1, <1>2, <1>3 DEF RegistersBelong, Asked
<1>6. QED
  BY <1>4, <1>5 DEF IInv

LEMMA InvEndOfExec ==
  ASSUME IInv, EndOfExec
  PROVE  IInv'
<1>1. UNCHANGED <<host, asked, got, cmok, command, timing>> /\ ~executing'
  BY DEF EndOfExec, hostVars
<1>2. command => UNCHANGED <<cr1, cr4>>
  BY DEF EndOfExec, Period, NoPeriod
<1>3. command /\ ~peri => ~peri'
  BY DEF EndOfExec, Period, NoPeriod
<1>4. QED
  BY <1>1, <1>2, <1>3 DEF IInv, HostTypeOK, RegistersBelong, Asked

LEMMA InvHost ==
  ASSUME IInv, Host
  PROVE  IInv'
<1> USE DEF IInv, HostTypeOK, RegistersBelong, Asked
<1>0. ~executing /\ UNCHANGED executing
  BY DEF Host
<1>1. CASE ClearCMOK
  BY <1>0, <1>1 DEF ClearCMOK
<1>2. CASE ClearPEND \/ ReleaseBlock
  BY <1>0, <1>2 DEF ClearPEND, ReleaseBlock, hostVars, regVars
<1>3. CASE WriteCR1
  BY <1>0, <1>3 DEF WriteCR1
<1>4. CASE WriteCR4
  BY <1>0, <1>4 DEF WriteCR4
<1>5. CASE ReadCR1
  BY <1>0, <1>5 DEF ReadCR1, regVars
<1>6. CASE ReadCR4
  BY <1>0, <1>6 DEF ReadCR4
<1>7. CASE SkipAnswer
  BY <1>0, <1>7 DEF SkipAnswer, regVars
<1>8. QED
  BY <1>1, <1>2, <1>3, <1>4, <1>5, <1>6, <1>7 DEF Host

LEMMA InvStep == IInv /\ [Next]_vars => IInv'
<1>1. ASSUME IInv, UNCHANGED vars PROVE IInv'
  BY <1>1 DEF IInv, HostTypeOK, RegistersBelong, Asked, vars, hostVars, regVars
<1>2. QED
  BY <1>1, InvHost, InvExecute, InvEndOfExec DEF Next

(* The registers hold the host's command, then the answer to it, and no report
   gets between them, for any disc, any commands and any number of periods. *)
THEOREM RegistersAreTheHosts == Spec => []RegistersBelong
<1>1. IInv => RegistersBelong
  BY DEF IInv
<1>2. QED
  BY <1>1, InvInit, InvStep, PTL DEF Spec

-----------------------------------------------------------------------------
(* The refinement                                                          *)

LEMMA ChannelInit == Init => Channel!Init
BY DEF Init, Channel!Init, NothingRead

(* The steps that leave the host's variables and CMOK alone do not show. *)
LEMMA Hidden ==
  ASSUME UNCHANGED <<host, asked, cmok, collected>>
  PROVE  UNCHANGED Channel!vars
BY DEF Channel!vars

LEMMA ChannelStep == IInv /\ [Next]_vars => [Channel!Next]_(Channel!vars)
<1> SUFFICES ASSUME IInv, [Next]_vars PROVE [Channel!Next]_(Channel!vars)
  OBVIOUS
<1> USE DEF IInv, HostTypeOK, RegistersBelong, Asked
<1>1. CASE Cs2Execute
  <2>1. host = "waiting" /\ timing /\ ~cmok /\ cmok'
    BY <1>1 DEF Cs2Execute
  <2>2. UNCHANGED <<host, asked, collected>>
    BY <1>1 DEF Cs2Execute, hostVars
  <2>3. Channel!Answer
    BY <2>1, <2>2 DEF Channel!Answer
  <2>4. QED
    BY <2>3 DEF Channel!Next
<1>2. CASE EndOfExec
  BY <1>2, Hidden DEF EndOfExec, hostVars
<1>3. CASE UNCHANGED vars
  BY <1>3, Hidden DEF vars, hostVars, regVars
<1>4. CASE Host
  <2>1. CASE ClearCMOK
    <3>1. Channel!Forget
      BY <2>1 DEF ClearCMOK, Channel!Forget, NothingRead
    <3>2. QED
      BY <3>1 DEF Channel!Next
  <2>2. CASE ClearPEND \/ ReleaseBlock
    BY <2>2, Hidden DEF ClearPEND, ReleaseBlock, hostVars, regVars
  <2>3. CASE WriteCR1
    BY <2>3 DEF WriteCR1, Channel!vars
  <2>4. CASE WriteCR4
    <3>1. Channel!Request
      BY <2>4 DEF WriteCR4, Channel!Request
    <3>2. QED
      BY <3>1 DEF Channel!Next
  <2>5. CASE ReadCR1
    BY <2>5 DEF ReadCR1, regVars, Channel!vars
  <2>6. CASE ReadCR4
    <3>1. collected' = [kind |-> "response", of |-> asked]
      BY <2>6 DEF ReadCR4
    <3>2. host = "reading" /\ host' = "idle" /\ cmok
      BY <2>6 DEF ReadCR4
    <3>3. collected'.kind = "response" /\ collected'.of = asked
      BY <3>1
    <3>4. Channel!Collect
      BY ONLY <3>2, <3>3 DEF Channel!Collect
    <3>5. QED
      BY <3>4 DEF Channel!Next
  <2>7. CASE SkipAnswer
    <3>1. Channel!Skip
      BY <2>7 DEF SkipAnswer, regVars, Channel!Skip
    <3>2. QED
      BY <3>1 DEF Channel!Next
  <2>8. QED
    BY <1>4, <2>1, <2>2, <2>3, <2>4, <2>5, <2>6, <2>7 DEF Host
<1>5. QED
  BY <1>1, <1>2, <1>3, <1>4 DEF Next

(* The registers implement the command channel: no answer is torn, lost to a
   report, or collected for another command.  That the answer comes is left to
   the model checker. *)
THEOREM ChannelImplemented ==
  Spec => Channel!Init /\ [][Channel!Next]_(Channel!vars)
BY InvInit, InvStep, ChannelInit, ChannelStep, PTL DEF Spec

-----------------------------------------------------------------------------
(* Repetitions.  While a play runs, repcnt is what the play began with and the
   passes since, up to the cap, and a number of repetitions within the cap is
   never passed.  After a failed seek repcnt is above every such number and no pass
   is repeated.  A play that is not running keeps no such promise: seeking resets
   repcnt.                                                                 *)

Counts == 0..RepeatCap \union {NoRepeatInfo}

RepeatTypeOK == /\ repcnt \in Counts
                /\ before \in Counts
                /\ maxrepeat \in 0..KeepRepeat
                /\ passes \in 0..(RepeatCap + 1)

Repetitions == IF before < maxrepeat THEN maxrepeat - before ELSE 0

Counted ==
  status = "PLAY" =>
    \/ before = NoRepeatInfo /\ repcnt = NoRepeatInfo /\ passes = 0
    \/ /\ before \in 0..RepeatCap
       /\ repcnt = IF before + passes <= RepeatCap THEN before + passes
                                                   ELSE RepeatCap
       /\ maxrepeat <= RepeatCap => passes <= Repetitions

PassInv == RepeatTypeOK /\ Counted

(* The end of a play, as PassCount states it. *)
OwnEnd == status = "PLAY" /\ status' # "PLAY" =>
            /\ passes = Repetitions
            /\ maxrepeat <= RepeatCap \/ before = NoRepeatInfo

LEMMA PassInit == Init => PassInv
BY RepeatAssumption DEF Init, PassInv, RepeatTypeOK, Counts, Counted

(* One sector: the next frame, the next pass or the end. *)
LEMMA PassAdvance ==
  ASSUME PassInv, NEW fad, Advance(fad), UNCHANGED <<maxrepeat, before>>
  PROVE  PassInv' /\ OwnEnd
<1>0. /\ RepeatCap \in Nat /\ KeepRepeat \in Nat /\ NoRepeatInfo \in Nat
      /\ RepeatCap < KeepRepeat /\ KeepRepeat < NoRepeatInfo
  BY RepeatAssumption
<1> USE DEF PassInv, RepeatTypeOK, Counts, Counted, Repetitions, OwnEnd
<1>1. CASE ~AtEnd(fad)
  BY <1>1 DEF Advance
<1>2. CASE AtEnd(fad) /\ PassesDone
  <2>1. status' = "PAUSE" /\ UNCHANGED <<repcnt, passes>> /\ repcnt >= maxrepeat
    BY <1>2 DEF Advance, PassesDone
  <2>2. QED
    BY <2>1, <1>0
<1>3. CASE AtEnd(fad) /\ ~PassesDone
  <2>1. /\ repcnt' = IF repcnt < RepeatCap THEN repcnt + 1 ELSE repcnt
        /\ passes' = IF passes <= RepeatCap THEN passes + 1 ELSE passes
        /\ UNCHANGED status
        /\ ~(repcnt >= maxrepeat)
    BY <1>3 DEF Advance, PassesDone
  <2>2. RepeatTypeOK'
    BY <2>1, <1>0
  <2>3. Counted'
    BY <2>1, <1>0
  <2>4. QED
    BY <2>1, <2>2, <2>3
<1>4. QED
  BY <1>1, <1>2, <1>3

LEMMA PassEndOfExec ==
  ASSUME PassInv, EndOfExec
  PROVE  PassInv' /\ OwnEnd
<1>1. CASE UNCHANGED <<status, repcnt, passes, maxrepeat, before>>
  BY <1>1 DEF PassInv, RepeatTypeOK, Counted, Repetitions, OwnEnd
<1>2. CASE ReadSector /\ UNCHANGED <<maxrepeat, before>>
  <2>1. Advance(FAD + 1)
    BY <1>2 DEF ReadSector
  <2>2. QED
    BY <2>1, <1>2, PassAdvance
<1>3. CASE Period
  <2>1. UNCHANGED <<maxrepeat, before>>
    BY <1>3 DEF Period
  <2>2. ReadSector \/ UNCHANGED <<status, repcnt, passes>>
    BY <1>3 DEF Period, ReadNothing
  <2>3. QED
    BY <2>1, <2>2, <1>1, <1>2
<1>4. CASE NoPeriod
  BY <1>1, <1>4 DEF NoPeriod, playVars
<1>5. QED
  BY <1>3, <1>4 DEF EndOfExec

(* The commands: the two that start a play begin the count with repcnt. *)
LEMMA CountStarts ==
  ASSUME NEW r \in Counts, NEW m \in 0..KeepRepeat,
         repcnt' = r, maxrepeat' = m, before' = r, passes' = 0
  PROVE  PassInv'
<1>0. /\ RepeatCap \in Nat /\ KeepRepeat \in Nat /\ NoRepeatInfo \in Nat
      /\ RepeatCap < KeepRepeat /\ KeepRepeat < NoRepeatInfo
  BY RepeatAssumption
<1>1. RepeatTypeOK'
  BY <1>0 DEF RepeatTypeOK
<1>2. CASE r = NoRepeatInfo
  BY <1>1, <1>2 DEF PassInv, Counted
<1>3. CASE r \in 0..RepeatCap
  <2>1. r + 0 = r /\ r <= RepeatCap
    BY <1>0, <1>3
  <2>2. 0 <= IF r < m THEN m - r ELSE 0
    BY <1>0, <1>3
  <2>3. QED
    BY <1>1, <1>3, <2>1, <2>2 DEF PassInv, Counted, Repetitions
<1>4. QED
  BY <1>2, <1>3 DEF Counts

LEMMA PassExecute ==
  ASSUME PassInv, Cs2Execute
  PROVE  PassInv'
<1>0. /\ RepeatCap \in Nat /\ KeepRepeat \in Nat /\ NoRepeatInfo \in Nat
      /\ RepeatCap < KeepRepeat /\ KeepRepeat < NoRepeatInfo
  BY RepeatAssumption
<1> USE DEF PassInv, RepeatTypeOK, Counts, Counted, Repetitions
<1>1. CASE \/ GetStatus \/ GetToc \/ GetSessionInfo \/ InitializeCDSystem
           \/ AbortFile \/ SetCDDeviceConnection
  BY <1>1 DEF GetStatus, GetToc, GetSessionInfo, InitializeCDSystem, AbortFile,
     SetCDDeviceConnection, playVars
<1>2. CASE SeekDisc
  BY <1>0, <1>2 DEF SeekDisc
<1>3. CASE PlayDisc
  <2>1. PICK a \in PlayArgs :
          /\ PlayFrom(a)
          /\ maxrepeat' = IF a.repeat = KeepRepeat THEN maxrepeat ELSE a.repeat
          /\ before' = repcnt' /\ passes' = 0
    BY <1>3 DEF PlayDisc, StartCount
  <2>2. maxrepeat' \in 0..KeepRepeat
    BY <2>1, ArgsAssumption DEF PlayArg
  <2>3. repcnt' \in Counts
    BY <1>0, <2>1 DEF PlayFrom
  <2> HIDE DEF PassInv, Counts
  <2>4. QED
    BY <2>1, <2>2, <2>3, CountStarts
<1>4. CASE ReadFile
  <2>1. /\ maxrepeat' = 0 /\ repcnt' \in {0, repcnt}
        /\ before' = repcnt' /\ passes' = 0
    BY <1>4 DEF ReadFile, StartCount
  <2>2. maxrepeat' \in 0..KeepRepeat /\ repcnt' \in Counts
    BY <2>1, <1>0
  <2> HIDE DEF PassInv, Counts
  <2>3. QED
    BY <2>1, <2>2, CountStarts
<1>5. QED
  BY <1>1, <1>2, <1>3, <1>4 DEF Cs2Execute, Handler

(* A play that ends by itself has made the repetitions it was asked for, less those
   repcnt counted before it began, for every number the host can ask for. *)
THEOREM PassesAreCounted == Spec => PassCount
<1>1. ASSUME PassInv, Next
      PROVE  PassInv' /\ (UNCHANGED timing => OwnEnd)
  <2>1. CASE Host
    <3>1. UNCHANGED playVars
      BY <2>1 DEF Host, ClearCMOK, ClearPEND, WriteCR1, WriteCR4, ReadCR1,
         ReadCR4, SkipAnswer, ReleaseBlock, driveVars
    <3>2. QED
      BY <1>1, <3>1 DEF playVars, PassInv, RepeatTypeOK, Counted, Repetitions,
         OwnEnd
  <2>2. CASE Cs2Execute
    <3>1. ~UNCHANGED timing
      BY <2>2 DEF Cs2Execute
    <3>2. QED
      BY <2>2, <3>1, <1>1, PassExecute
  <2>3. CASE EndOfExec
    BY <2>3, <1>1, PassEndOfExec
  <2>4. QED
    BY <2>1, <2>2, <2>3, <1>1 DEF Next
<1>2. PassInv /\ UNCHANGED vars => PassInv'
  BY DEF vars, playVars, PassInv, RepeatTypeOK, Counted, Repetitions
<1>3. PassInv /\ [Next]_vars => PassInv'
  BY <1>1, <1>2
<1>4. PassInv /\ [Next]_vars =>
        [status = "PLAY" /\ status' # "PLAY" /\ UNCHANGED timing =>
           /\ passes = IF before < maxrepeat THEN maxrepeat - before ELSE 0
           /\ maxrepeat <= RepeatCap \/ before = NoRepeatInfo]_vars
  BY <1>1 DEF OwnEnd, Repetitions
<1>5. QED
  BY PassInit, <1>3, <1>4, PTL DEF Spec, PassCount

-----------------------------------------------------------------------------
(* Types, in two parts: the registers with the host's side of them, and the
   drive.                                                                  *)

RegisterTypes ==
  /\ host \in {"idle", "ready", "writing", "waiting", "reading"}
  /\ asked \in Command \union {None}
  /\ got \in Content /\ collected \in Content
  /\ cr1 \in Content /\ cr4 \in Content
  /\ cmok \in BOOLEAN /\ command \in BOOLEAN /\ timing \in BOOLEAN
  /\ executing \in BOOLEAN /\ peri \in BOOLEAN

DriveTypes ==
  /\ status \in {"PAUSE", "STANDBY", "PLAY"}
  /\ FAD \in Frame /\ playFAD \in Frame /\ playendFAD \in Frame
  /\ repcnt \in 0..RepeatCap \union {NoRepeatInfo}
  /\ maxrepeat \in 0..KeepRepeat
  /\ before \in 0..RepeatCap \union {NoRepeatInfo}
  /\ passes \in 0..(RepeatCap + 1)
  /\ pend \in BOOLEAN /\ tocread \in BOOLEAN /\ connected \in BOOLEAN
  /\ free \in 0..NBlocks /\ isbufferfull \in BOOLEAN

LEMMA TypesSplit == TypeOK <=> RegisterTypes /\ DriveTypes
BY DEF TypeOK, RegisterTypes, DriveTypes

(* The constants, as the steps use them. *)
LEMMA Bounds ==
  /\ Modulus \in Nat /\ LeadOut \in Nat /\ Absent \in Nat
  /\ LeadOut < Absent /\ Absent < Modulus - 1 /\ 0 < LeadOut
  /\ \A t \in Track : TrackStart[t] \in Nat /\ 0 < TrackStart[t]
                        /\ TrackStart[t] < LeadOut
  /\ 1 \in Track
<1>1. 1 \in Track
  BY DiscAssumption DEF Track
<1>2. \A t \in Track : TrackStart[t] \in Nat
  BY DiscAssumption
<1>3. QED
  BY <1>1, <1>2, DiscAssumption

(* What the table of contents gives is a FAD, and not 0: the frame before it,
   with which a play up to the end of a track ends, is one too. *)
LEMMA EntriesAreFrames ==
  ASSUME NEW t
  PROVE  Entry(t) \in Frame /\ TrackEnd(t) \in Frame /\ TOC101 \in Frame
<1>1. \A u : Entry(u) \in Nat /\ 0 < Entry(u) /\ Entry(u) < Modulus - 1
  BY Bounds DEF Entry
<1>2. Entry(t + 1) \in Nat /\ 0 < Entry(t + 1) /\ Entry(t + 1) < Modulus - 1
  BY <1>1
<1>3. TOC101 \in Frame
  BY Bounds DEF TOC101, Frame
<1>4. QED
  BY <1>1, <1>2, <1>3, Bounds DEF TrackEnd, Frame

(* The last frame of a play wraps around like the u32 it is. *)
LEMMA EndIsFrame ==
  ASSUME NEW fad \in Frame, NEW n \in Frame
  PROVE  EndAfter(fad, n) \in Frame
<1>1. fad + n \in Int /\ Modulus \in Nat \ {0}
  BY Bounds DEF Frame
<1>2. (fad + n) % Modulus \in 0..(Modulus - 1)
  BY <1>1
<1>3. QED
  BY <1>2 DEF EndAfter, Frame

LEMMA TypeInit == Init => TypeOK
<1>1. NoFAD \in Frame /\ TrackStart[1] \in Frame
  BY Bounds DEF NoFAD, Frame
<1>2. NoContent \in Content /\ NothingRead \in Content
  BY DEF NoContent, NothingRead, Content
<1>3. Init => RegisterTypes
  BY <1>2 DEF Init, RegisterTypes
<1>4. Init => DriveTypes
  <2>1. SUFFICES ASSUME Init PROVE DriveTypes
    OBVIOUS
  <2>2. /\ FAD \in Frame /\ playFAD \in Frame /\ playendFAD \in Frame
        /\ status = "PAUSE"
    BY <1>1, <2>1 DEF Init
  <2>3. /\ repcnt \in 0..RepeatCap /\ maxrepeat \in 0..KeepRepeat
        /\ before \in 0..RepeatCap
        /\ passes \in 0..(RepeatCap + 1) /\ free \in 0..NBlocks
    BY <2>1, RepeatAssumption, ArgsAssumption DEF Init
  <2>4. /\ pend \in BOOLEAN /\ tocread \in BOOLEAN /\ connected \in BOOLEAN
        /\ isbufferfull \in BOOLEAN
    BY <2>1 DEF Init
  <2>5. QED
    BY <2>2, <2>3, <2>4 DEF DriveTypes
<1>5. QED
  BY <1>3, <1>4, TypesSplit

LEMMA TypeHost ==
  ASSUME IInv, RegisterTypes, DriveTypes, Host
  PROVE  RegisterTypes' /\ DriveTypes'
<1>1. RegisterTypes'
  <2> USE DEF RegisterTypes, Content
  <2>0. executing' \in BOOLEAN
    BY DEF Host
  <2>1. CASE ClearCMOK
    BY <2>0, <2>1 DEF ClearCMOK, NothingRead
  <2>2. CASE ClearPEND \/ ReleaseBlock
    BY <2>0, <2>2 DEF ClearPEND, ReleaseBlock, hostVars, regVars
  <2>3. CASE WriteCR1
    BY <2>0, <2>3 DEF WriteCR1
  <2>4. CASE WriteCR4
    <3>1. asked \in Command
      BY <2>4 DEF WriteCR4, IInv, HostTypeOK
    <3>2. QED
      BY <2>0, <2>4, <3>1 DEF WriteCR4
  <2>5. CASE ReadCR1 \/ SkipAnswer
    BY <2>0, <2>5 DEF ReadCR1, SkipAnswer, regVars
  <2>6. CASE ReadCR4
    BY <2>0, <2>6 DEF ReadCR4, NoContent
  <2>7. QED
    BY <2>1, <2>2, <2>3, <2>4, <2>5, <2>6 DEF Host
<1>2. DriveTypes'
  <2>1. CASE ReleaseBlock
    <3>1. free' \in 0..NBlocks
      BY <2>1, ArgsAssumption DEF ReleaseBlock, DriveTypes
    <3>2. isbufferfull' \in BOOLEAN
      BY <2>1 DEF ReleaseBlock
    <3>3. UNCHANGED <<pend, playVars, discVars>>
      BY <2>1 DEF ReleaseBlock
    <3>4. QED
      BY <3>1, <3>2, <3>3 DEF DriveTypes, playVars, discVars
  <2>2. CASE ClearPEND
    BY <2>2 DEF ClearPEND, DriveTypes, driveVars, playVars, discVars, bufVars
  <2>3. CASE ~ReleaseBlock /\ ~ClearPEND
    <3>1. UNCHANGED <<driveVars, pend>>
      BY <2>3 DEF Host, ClearCMOK, WriteCR1, WriteCR4, ReadCR1, ReadCR4, SkipAnswer
    <3>2. QED
      BY <3>1 DEF DriveTypes, driveVars, playVars, discVars, bufVars
  <2>4. QED
    BY <2>1, <2>2, <2>3
<1>3. QED
  BY <1>1, <1>2

(* The FADs that PlayDisc sets are its arguments, entries of the TOC, or sums that
   wrap around. *)
LEMMA TypePlayDisc ==
  ASSUME DriveTypes, PlayDisc
  PROVE  DriveTypes'
<1>1. PICK a \in PlayArgs :
        /\ PlayFrom(a)
        /\ PlayTo(a)
        /\ maxrepeat' = IF a.repeat = KeepRepeat THEN maxrepeat ELSE a.repeat
        /\ before' = repcnt' /\ passes' = 0
  BY DEF PlayDisc, StartCount
<1>2. /\ status' = "PLAY"
      /\ UNCHANGED <<tocread, connected, free, isbufferfull, pend>>
  BY DEF PlayDisc, discVars, bufVars
<1>3. /\ a.at \in Frame /\ a.to \in Frame /\ a.repeat \in 0..KeepRepeat
      /\ a.end \in {"keep", "length", "trackstart", "trackend", "leadout"}
  BY ArgsAssumption DEF PlayArg
<1>4. maxrepeat' \in 0..KeepRepeat
  BY <1>1, <1>3 DEF DriveTypes
<1>5. /\ FAD' \in Frame /\ playFAD' \in Frame
      /\ repcnt' \in 0..RepeatCap \union {NoRepeatInfo}
  <2>1. Entry(a.at) \in Frame /\ RepeatCap \in Nat
    BY EntriesAreFrames, RepeatAssumption
  <2>2. CASE a.start = "keep" /\ PlayFrom(a)
    BY <2>1, <2>2 DEF PlayFrom, DriveTypes
  <2>3. CASE a.start = "fad" /\ PlayFrom(a)
    BY <2>1, <2>3, <1>3 DEF PlayFrom, DriveTypes
  <2>4. CASE a.start = "track" /\ PlayFrom(a)
    BY <2>1, <2>4 DEF PlayFrom, DriveTypes
  <2>5. QED
    BY <1>1, <2>2, <2>3, <2>4 DEF PlayFrom
<1>6. playendFAD' \in Frame
  <2>1. /\ EndAfter(playFAD', a.to) \in Frame
        /\ Entry(a.to) \in Frame /\ TrackEnd(a.to) \in Frame /\ TOC101 \in Frame
    BY <1>3, <1>5, EndIsFrame, EntriesAreFrames
  <2>2. QED
    BY <1>1, <1>3, <2>1 DEF PlayTo, DriveTypes
<1>7. /\ before' \in 0..RepeatCap \union {NoRepeatInfo}
      /\ passes' \in 0..(RepeatCap + 1)
  BY <1>1, <1>5, RepeatAssumption
<1>8. QED
  BY <1>2, <1>4, <1>5, <1>6, <1>7 DEF DriveTypes

LEMMA TypeHandler ==
  ASSUME DriveTypes, NEW c, Handler(c)
  PROVE  DriveTypes'
<1>0. RepeatCap \in Nat /\ KeepRepeat \in Nat
  BY RepeatAssumption
<1>1. CASE GetStatus \/ GetToc \/ GetSessionInfo \/ AbortFile
           \/ SetCDDeviceConnection
  BY <1>1 DEF GetStatus, GetToc, GetSessionInfo, AbortFile,
     SetCDDeviceConnection, DriveTypes, playVars, discVars, bufVars
<1>2. CASE InitializeCDSystem
  <2>1. TrackStart[1] \in Frame
    BY Bounds DEF Frame
  <2>2. QED
    BY <1>2, <2>1 DEF InitializeCDSystem, DriveTypes, discVars
<1>3. CASE PlayDisc
  BY <1>3, TypePlayDisc
<1>4. CASE SeekDisc
  <2>1. NoFAD \in Frame /\ \A t \in Track : Entry(t) \in Frame
    BY EntriesAreFrames, Bounds DEF NoFAD, Frame
  <2>2. FAD' \in Frame
    BY <1>4, <2>1 DEF SeekDisc, DriveTypes
  <2>3. /\ repcnt' \in 0..RepeatCap \union {NoRepeatInfo}
        /\ status' \in {"PAUSE", "STANDBY", "PLAY"}
    BY <1>0, <1>4 DEF SeekDisc, DriveTypes
  <2>4. UNCHANGED <<playFAD, playendFAD, maxrepeat, before, passes, discVars,
                   bufVars, pend>>
    BY <1>4 DEF SeekDisc
  <2>5. QED
    BY <2>2, <2>3, <2>4 DEF DriveTypes, discVars, bufVars
<1>5. CASE ReadFile
  <2>1. PICK f \in Files : /\ FAD' = f.lba /\ playFAD' = f.lba
                           /\ playendFAD' = EndAfter(f.lba, f.sectors)
    BY <1>5 DEF ReadFile
  <2>2. f.lba \in Frame /\ f.sectors \in Frame
    BY ArgsAssumption
  <2>3. FAD' \in Frame /\ playFAD' \in Frame /\ playendFAD' \in Frame
    BY <2>1, <2>2, EndIsFrame
  <2>4. /\ maxrepeat' = 0 /\ status' = "PLAY" /\ connected' = TRUE
        /\ repcnt' \in {0, repcnt} /\ before' = repcnt' /\ passes' = 0
        /\ UNCHANGED <<tocread, free, isbufferfull, pend>>
    BY <1>5 DEF ReadFile, StartCount, bufVars
  <2>5. QED
    BY <1>0, <2>3, <2>4 DEF DriveTypes
<1>6. QED
  BY <1>1, <1>2, <1>3, <1>4, <1>5 DEF Handler

(* A sector is read at a FAD that is not NoFAD, so the next one is a FAD. *)
LEMMA TypeEndOfExec ==
  ASSUME RegisterTypes, DriveTypes, EndOfExec
  PROVE  RegisterTypes' /\ DriveTypes'
<1>1. UNCHANGED <<host, asked, got, collected, cmok, command, timing>>
  BY DEF EndOfExec, hostVars
<1>2. executing' \in BOOLEAN
  BY DEF EndOfExec
<1>3. CASE NoPeriod
  <2>1. UNCHANGED <<cr1, cr4, peri>>
    BY <1>3 DEF NoPeriod
  <2>2. RegisterTypes'
    BY <1>1, <1>2, <2>1 DEF RegisterTypes
  <2>3. DriveTypes'
    BY <1>3 DEF NoPeriod, DriveTypes, playVars, discVars, bufVars
  <2>4. QED
    BY <2>2, <2>3
<1>4. CASE Period
  <2>1. RegisterTypes'
    <3>1. cr1' \in Content /\ cr4' \in Content
      BY <1>4 DEF Period, RegisterTypes, Content
    <3>2. peri' \in BOOLEAN
      BY <1>4 DEF Period, RegisterTypes
    <3>3. QED
      BY <1>1, <1>2, <3>1, <3>2 DEF RegisterTypes
  <2>2. UNCHANGED <<playFAD, playendFAD, maxrepeat, before, tocread, connected>>
    BY <1>4 DEF Period, discVars
  <2>3. CASE UNCHANGED <<FAD, status, repcnt, pend, passes, bufVars>>
    BY <2>1, <2>2, <2>3 DEF DriveTypes, bufVars
  <2>4. CASE ReadSector
    <3>1. FAD + 1 \in Frame
      BY <2>4, Bounds DEF ReadSector, DriveTypes, Frame, NoFAD
    <3>2. /\ FAD' \in Frame /\ status' \in {status, "PAUSE"} /\ pend' \in BOOLEAN
          /\ repcnt' \in {repcnt, repcnt + 1} /\ (repcnt' = repcnt \/ repcnt < RepeatCap)
          /\ passes' \in {passes, passes + 1}
          /\ (passes' = passes \/ passes <= RepeatCap)
      <4>1. Advance(FAD + 1)
        BY <2>4 DEF ReadSector
      <4>2. QED
        BY <3>1, <4>1 DEF Advance, DriveTypes
    <3>3. free' \in 0..NBlocks
      BY <2>4, ArgsAssumption DEF ReadSector, DriveTypes, bufVars
    <3>4. isbufferfull' \in BOOLEAN
      BY <2>4 DEF ReadSector, DriveTypes, bufVars
    <3>5. /\ repcnt' \in 0..RepeatCap \union {NoRepeatInfo}
          /\ passes' \in 0..(RepeatCap + 1)
      BY <3>2, RepeatAssumption DEF DriveTypes
    <3>6. FAD' \in Frame /\ pend' \in BOOLEAN
          /\ status' \in {"PAUSE", "STANDBY", "PLAY"}
      BY <3>2 DEF DriveTypes
    <3>7. QED
      BY <2>1, <2>2, <3>3, <3>4, <3>5, <3>6 DEF DriveTypes
  <2>5. ReadSector \/ UNCHANGED <<FAD, status, repcnt, pend, passes, bufVars>>
    BY <1>4 DEF Period, ReadNothing
  <2>6. QED
    BY <2>3, <2>4, <2>5
<1>5. QED
  BY <1>3, <1>4 DEF EndOfExec

LEMMA TypeExecute ==
  ASSUME RegisterTypes, DriveTypes, Cs2Execute
  PROVE  RegisterTypes' /\ DriveTypes'
<1>1. DriveTypes'
  BY TypeHandler DEF Cs2Execute
<1>2. RegisterTypes'
  BY DEF Cs2Execute, RegisterTypes, Content, hostVars
<1>3. QED
  BY <1>1, <1>2

(* Whatever the host asks for, FADs stay 32-bit numbers, the repeat counter stays
   within its range or holds the mark of a failed seek, and the count of free
   blocks is never negative. *)
THEOREM TypeCorrect == Spec => []TypeOK
<1>1. IInv /\ TypeOK /\ [Next]_vars => TypeOK'
  <2>1. SUFFICES ASSUME IInv, RegisterTypes, DriveTypes, [Next]_vars
                 PROVE  RegisterTypes' /\ DriveTypes'
    <3>1. TypeOK' <=> RegisterTypes' /\ DriveTypes'
      BY DEF TypeOK, RegisterTypes, DriveTypes
    <3>2. QED
      BY <3>1, TypesSplit
  <2>2. CASE UNCHANGED vars
    BY <2>1, <2>2 DEF vars, hostVars, regVars, playVars, discVars, bufVars,
       RegisterTypes, DriveTypes
  <2>3. QED
    BY <2>1, <2>2, TypeHost, TypeExecute, TypeEndOfExec DEF Next
<1>2. QED
  BY InvInit, InvStep, TypeInit, <1>1, PTL DEF Spec
=============================================================================
