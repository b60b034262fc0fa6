------------------------------ MODULE CdDrive -------------------------------
(***************************************************************************)
(* Commands and playing of the CD block (src/src/cs2.c).                   *)
(*                                                                         *)
(* The host gives a command by writing CR1 to CR4, polls CMOK in HIRQ, and *)
(* reads the answer from the same four registers.  Cs2Exec, which the main *)
(* loop calls between two slices of the host's processors, executes the    *)
(* command and, once a period, reads a sector if the drive is playing and  *)
(* writes a report to the registers unless the host is using them.  CR2    *)
(* and CR3 go with CR4.                                                    *)
(*                                                                         *)
(* A call of Cs2Exec is two steps, of which the first is skipped when no   *)
(* command is due; no step of the host comes between them.  The cycle      *)
(* counter is left out: any call may be the one that ends a period.        *)
(***************************************************************************)
EXTENDS Integers

CONSTANTS
  None,         \* no command
  NTracks,      \* tracks on the disc
  TrackStart,   \* the FAD each track starts at
  LeadOut,      \* the FAD after the last sector
  Absent,       \* 0xFFFFFF: the FAD in an empty entry of the TOC
  Modulus,      \* 2^32: FAD is a u32
  RepeatCap,    \* 0xE: repcnt stays there
  KeepRepeat,   \* 0x7F: PlayDisc leaves maxrepeat alone
  NoRepeatInfo, \* 0xFF: repcnt after a failed seek
  PlayArgs,     \* arguments of PlayDisc
  Files,        \* [lba, sectors] of the files ReadFile may be given
  NBlocks       \* MAX_BLOCKS

Track == 1..NTracks
Frame == 0..(Modulus - 1)
NoFAD == Modulus - 1                \* 0xFFFFFFFF
Disc  == TrackStart[1]..(LeadOut - 1)

(* Commands that write the registers and raise CMOK only, then the others. *)
Command == {"getStatus", "getToc", "getSessionInfo", "initializeCDSystem",
            "playDisc", "seekDisc", "setCDDeviceConnection", "readFile",
            "abortFile"}

PlayArg == [start : {"keep", "fad", "track"}, at : Frame,
            preserve : BOOLEAN, repeat : 0..KeepRepeat,
            end : {"keep", "length", "trackstart", "trackend", "leadout"},
            to : Frame]

ASSUME NoneAssumption == None \notin Command
ASSUME DiscAssumption ==
  /\ NTracks \in Nat \ {0}
  /\ TrackStart \in [Track -> Nat]
  /\ LeadOut \in Nat /\ Absent \in Nat /\ Modulus \in Nat
  /\ \A t \in Track : 0 < TrackStart[t] /\ TrackStart[t] < LeadOut
  /\ LeadOut < Absent /\ Absent < Modulus - 1
ASSUME RepeatAssumption ==
  /\ RepeatCap \in Nat /\ KeepRepeat \in Nat /\ NoRepeatInfo \in Nat
  /\ RepeatCap < KeepRepeat /\ KeepRepeat < NoRepeatInfo
ASSUME ArgsAssumption ==
  /\ PlayArgs \subseteq PlayArg
  /\ Files \subseteq [lba : Frame, sectors : Frame]
  /\ NBlocks \in Nat \ {0}

VARIABLES
  host,         \* what the host is doing with the registers
  asked,        \* the command it has given last
  got,          \* what it has read from CR1, until it reads CR4
  collected,    \* the answer it has read from CR1 to CR4, until it starts anew
  cr1, cr4,     \* what the registers hold
  cmok,         \* CMOK of HIRQ
  pend,         \* PEND of HIRQ
  command,      \* _command: the host is using the registers
  timing,       \* _commandtiming > 0
  executing,    \* between the two steps of Cs2Exec
  status,       \* the drive's status
  peri,         \* CDB_STAT_PERI in status
  FAD, playFAD, playendFAD, repcnt, maxrepeat,
  tocread,      \* the TOC has been read
  connected,    \* outconcddev # NULL
  free,         \* blockfreespace
  isbufferfull,
  before,       \* history: repcnt when this play was started
  passes        \* history: passes of this play that came to their end

hostVars == <<host, asked, got, collected>>
regVars  == <<cr1, cr4, cmok, command, timing>>
playVars == <<status, FAD, playFAD, playendFAD, repcnt, maxrepeat, before,
              passes>>
discVars == <<tocread, connected>>
bufVars  == <<free, isbufferfull>>
vars == <<hostVars, regVars, pend, executing, peri, playVars, discVars, bufVars>>

Content == [kind : {"command", "response", "report"}, of : Command \union {None}]
NoContent == [kind |-> "report", of |-> None]
NothingRead == [kind |-> "response", of |-> None]

-----------------------------------------------------------------------------
(* Initial state: Cs2Reset.  HIRQ is 0xFFFF. *)
Init ==
  /\ host = "idle" /\ asked = None /\ got = NoContent /\ collected = NothingRead
  /\ cr1 = NoContent /\ cr4 = NoContent
  /\ cmok = TRUE /\ pend = TRUE
  /\ command = FALSE /\ timing = FALSE /\ executing = FALSE
  /\ status = "PAUSE" /\ peri = FALSE
  /\ FAD = TrackStart[1] /\ playFAD = NoFAD /\ playendFAD = NoFAD
  /\ repcnt = 0 /\ maxrepeat = 0 /\ before = 0 /\ passes = 0
  /\ tocread = FALSE /\ connected = FALSE
  /\ free = NBlocks /\ isbufferfull = FALSE

-----------------------------------------------------------------------------
(* The host, through Cs2ReadWord and Cs2WriteWord                          *)

driveVars == <<playVars, discVars, bufVars>>

(* HIRQ &= ~CMOK before a command. *)
ClearCMOK ==
  /\ host = "idle"
  /\ host' = "ready"
  /\ cmok' = FALSE
  /\ asked' = None
  /\ collected' = NothingRead
  /\ UNCHANGED <<got, cr1, cr4, command, timing, pend, peri,
                 driveVars>>

(* HIRQ &= ~PEND, when the host has seen the end of a play. *)
ClearPEND ==
  /\ pend
  /\ pend' = FALSE
  /\ UNCHANGED <<hostVars, regVars, peri, driveVars>>

(* Mutant: writing CR1 does not keep the reports away. *)
Mut_WriteCR1 ==
  /\ host = "ready"
  /\ host' = "writing"
  /\ asked' \in Command
  /\ cr1' = [kind |-> "command", of |-> asked']
  /\ peri' = FALSE
  /\ UNCHANGED <<got, collected, cr4, cmok, command, timing, pend, driveVars>>

WriteCR1 ==
  /\ host = "ready"
  /\ host' = "writing"
  /\ asked' \in Command
  /\ cr1' = [kind |-> "command", of |-> asked']
  /\ command' = TRUE
  /\ peri' = FALSE
  /\ UNCHANGED <<got, collected, cr4, cmok, timing, pend, driveVars>>

(* CR4 starts the command: Cs2SetCommandTiming. *)
WriteCR4 ==
  /\ host = "writing"
  /\ host' = "waiting"
  /\ cr4' = [kind |-> "command", of |-> asked]
  /\ timing' = TRUE
  /\ UNCHANGED <<asked, got, collected, cr1, cmok, command, pend, peri, driveVars>>

(* Mutant: reading CR1 already lets the reports in again. *)
Mut_ReadCR1 ==
  /\ host = "waiting"
  /\ cmok
  /\ host' = "reading"
  /\ got' = cr1
  /\ command' = FALSE
  /\ UNCHANGED <<asked, collected, cr1, cr4, cmok, timing, pend, peri, driveVars>>

(* The host has seen CMOK and reads CR1, *)
ReadCR1 ==
  /\ host = "waiting"
  /\ cmok
  /\ host' = "reading"
  /\ got' = cr1
  /\ UNCHANGED <<asked, collected, regVars, pend, peri, driveVars>>

(* and the other registers; CR4 lets the reports in again.  What was read counts
   as an answer only if all of it is the same answer. *)
ReadCR4 ==
  /\ host = "reading"
  /\ host' = "idle"
  /\ collected' = IF got = cr4 THEN got ELSE NoContent
  /\ got' = NoContent
  /\ command' = FALSE
  /\ UNCHANGED <<asked, cr1, cr4, cmok, timing, pend, peri, driveVars>>

(* The host is content with CMOK and leaves CR4 unread: no report is made
   until it has read the answer to some later command. *)
SkipAnswer ==
  /\ host = "waiting"
  /\ cmok
  /\ host' = "idle"
  /\ UNCHANGED <<asked, got, collected, regVars, pend, peri, driveVars>>

(* Deletions and the ends of transfers free blocks (module CdBuffer). *)
ReleaseBlock ==
  /\ free < NBlocks
  /\ free' = free + 1
  /\ isbufferfull' = FALSE
  /\ UNCHANGED <<hostVars, regVars, pend, peri, playVars, discVars>>

Host ==
  /\ ~executing
  /\ UNCHANGED executing
  /\ \/ ClearCMOK \/ ClearPEND \/ WriteCR1 \/ WriteCR4 \/ ReadCR1 \/ ReadCR4
     \/ SkipAnswer \/ ReleaseBlock

-----------------------------------------------------------------------------
(* The commands                                                            *)

(* The TOC: empty entries hold 0xFFFFFFFF, of which the low 24 bits count. *)
Entry(t) == IF tocread /\ t \in Track THEN TrackStart[t] ELSE Absent
TOC101 == IF tocread THEN LeadOut ELSE Absent

(* Cs2FADToTrack finds a track for this FAD. *)
TrackFound(fad) == tocread /\ TrackStart[1] <= fad /\ fad < Absent

(* Cs2TrackToFAD with index 0x63. *)
TrackEnd(t) == Entry(t + 1) - 1

(* Mutant: the last frame is computed on more than 32 bits. *)
Mut_EndAfter(fad, n) == fad + n

(* n sectors from fad on, on a u32. *)
EndAfter(fad, n) == (fad + n) % Modulus

GetStatus == UNCHANGED <<playVars, discVars, bufVars, pend>>

GetToc == /\ tocread' = TRUE
          /\ status' = "PAUSE"
          /\ UNCHANGED <<FAD, playFAD, playendFAD, repcnt, maxrepeat, before,
                         passes, connected, bufVars, pend>>

GetSessionInfo ==
  /\ status' = "PAUSE"
  /\ UNCHANGED <<FAD, playFAD, playendFAD, repcnt, maxrepeat, before, passes,
                 discVars, bufVars, pend>>

(* HIRQ & 0xFFE5 clears PEND; the full condition goes too. *)
InitializeCDSystem ==
  /\ status' = "PAUSE"
  /\ FAD' = TrackStart[1]
  /\ isbufferfull' = FALSE
  /\ pend' = FALSE
  /\ UNCHANGED <<playFAD, playendFAD, repcnt, maxrepeat, before, passes,
                 discVars, free>>

(* The start position of PlayDisc.  Cs2SetupDefaultPlayStats resets repcnt. *)
PlayFrom(a) ==
  \/ /\ a.start = "keep"
     /\ UNCHANGED <<FAD, playFAD, repcnt>>
  \/ /\ a.start = "fad"
     /\ playFAD' = a.at
     /\ FAD' = IF a.preserve THEN FAD ELSE a.at
     /\ repcnt' = IF TrackFound(a.at) THEN 0 ELSE repcnt
  \/ /\ a.start = "track"
     /\ repcnt' = 0
     /\ FAD' = IF a.preserve THEN FAD ELSE Entry(a.at)
     /\ playFAD' = IF a.preserve THEN playFAD ELSE Entry(a.at)

(* The count of a play's passes goes on from what repcnt is when it starts. *)
StartCount == before' = repcnt' /\ passes' = 0

PlayTo(a) ==
  playendFAD' = CASE a.end = "keep"       -> playendFAD
                  [] a.end = "length"     -> EndAfter(playFAD', a.to)
                  [] a.end = "trackstart" -> Entry(a.to)
                  [] a.end = "trackend"   -> TrackEnd(a.to)
                  [] a.end = "leadout"    -> TOC101

PlayDisc ==
  \E a \in PlayArgs :
    /\ PlayFrom(a)
    /\ PlayTo(a)
    /\ StartCount
    /\ maxrepeat' = IF a.repeat = KeepRepeat THEN maxrepeat ELSE a.repeat
    /\ status' = "PLAY"
    /\ UNCHANGED <<discVars, bufVars, pend>>

(* Seek by FAD pauses, or is not supported; by track it moves the pickup, and
   track 0 is an error. *)
SeekDisc ==
  /\ \/ /\ status' \in {status, "PAUSE"}
        /\ UNCHANGED <<FAD, repcnt>>
     \/ /\ status' = "PAUSE"
        /\ \E t \in Track : FAD' = Entry(t)
        /\ repcnt' = 0
     \/ /\ status' = "STANDBY"
        /\ FAD' = NoFAD
        /\ repcnt' = NoRepeatInfo
  /\ UNCHANGED <<playFAD, playendFAD, maxrepeat, before, passes, discVars, bufVars, pend>>

SetCDDeviceConnection ==
  /\ connected' \in BOOLEAN
  /\ UNCHANGED <<playVars, tocread, bufVars, pend>>

ReadFile ==
  \E f \in Files :
    /\ FAD' = f.lba
    /\ playFAD' = f.lba
    /\ playendFAD' = EndAfter(f.lba, f.sectors)
    /\ maxrepeat' = 0
    /\ repcnt' = IF TrackFound(f.lba) THEN 0 ELSE repcnt
    /\ StartCount
    /\ status' = "PLAY"
    /\ connected' = TRUE
    /\ UNCHANGED <<tocread, bufVars, pend>>

AbortFile ==
  /\ status' = "PAUSE"
  /\ UNCHANGED <<FAD, playFAD, playendFAD, repcnt, maxrepeat, before, passes,
                 discVars, bufVars, pend>>

(* The handler for command c. *)
Handler(c) ==
  \/ c = "getStatus" /\ GetStatus
  \/ c = "getToc" /\ GetToc
  \/ c = "getSessionInfo" /\ GetSessionInfo
  \/ c = "initializeCDSystem" /\ InitializeCDSystem
  \/ c = "playDisc" /\ PlayDisc
  \/ c = "seekDisc" /\ SeekDisc
  \/ c = "setCDDeviceConnection" /\ SetCDDeviceConnection
  \/ c = "readFile" /\ ReadFile
  \/ c = "abortFile" /\ AbortFile

(* Cs2Execute: the answer replaces the command in the registers.  Its CR1 looks
   like a report to the host when status has CDB_STAT_PERI. *)
Cs2Execute ==
  /\ timing
  /\ ~executing
  /\ cr1.kind = "command" /\ cr4.kind = "command"
  /\ Handler(cr1.of)
  /\ cr1' = [kind |-> IF peri THEN "report" ELSE "response", of |-> cr1.of]
  /\ cr4' = [kind |-> "response", of |-> cr1.of]
  /\ cmok' = TRUE
  /\ timing' = FALSE
  /\ executing' = TRUE
  /\ UNCHANGED <<hostVars, command, peri>>

-----------------------------------------------------------------------------
(* The period                                                              *)

(* Mutant: the play ends only at the very frame it was to end at. *)
Mut_AtEnd(fad) == fad = playendFAD
AtEnd(fad) == fad >= playendFAD

(* Mutant: one pass too many. *)
Mut_PassesDone == repcnt > maxrepeat
PassesDone == repcnt >= maxrepeat

(* After a sector the filters kept or dropped: the next one, the next pass or
   the end of the play. *)
Advance(fad) ==
  IF ~AtEnd(fad)
    THEN /\ FAD' = fad
         /\ UNCHANGED <<status, repcnt, pend, passes>>
    ELSE IF PassesDone
      THEN /\ FAD' = fad
           /\ status' = "PAUSE"
           /\ pend' = TRUE
           /\ UNCHANGED <<repcnt, passes>>
      ELSE /\ FAD' = playFAD
           /\ repcnt' = IF repcnt < RepeatCap THEN repcnt + 1 ELSE repcnt
           /\ passes' = IF passes <= RepeatCap THEN passes + 1 ELSE passes
           /\ UNCHANGED <<status, pend>>

(* Cs2ReadFilteredSector: the sector is stored, or goes nowhere (audio, filtered
   out, or no block is free). *)
ReadSector ==
  /\ connected /\ ~isbufferfull
  /\ FAD # NoFAD
  /\ Advance(FAD + 1)
  /\ \/ /\ free > 0
        /\ free' = free - 1
        /\ isbufferfull' = (free = 1)
     \/ /\ free = 0
        /\ isbufferfull' = TRUE
        /\ UNCHANGED free
     \/ UNCHANGED bufVars

(* Nothing is read: no connection, a full buffer, or a read that fails, which it
   may at any FAD.  FAD does not move, and the next period tries again, however
   often that was. *)
ReadNothing == UNCHANGED <<FAD, status, repcnt, pend, passes, bufVars>>

(* The periodic part of Cs2Exec. *)
Period ==
  /\ IF status = "PLAY"
       THEN ReadSector \/ ReadNothing
       ELSE UNCHANGED <<FAD, status, repcnt, pend, passes, bufVars>>
  /\ IF command
       THEN /\ peri' = (peri /\ status' = status)
            /\ UNCHANGED <<cr1, cr4>>
       ELSE /\ peri' = TRUE
            /\ cr1' = [kind |-> "report", of |-> None]
            /\ cr4' = [kind |-> "report", of |-> None]
  /\ UNCHANGED <<playFAD, playendFAD, maxrepeat, before, discVars>>

(* The end of Cs2Exec, with or without the end of a period. *)
NoPeriod == UNCHANGED <<cr1, cr4, pend, peri, playVars, discVars, bufVars>>

EndOfExec ==
  /\ executing \/ ~timing
  /\ executing' = FALSE
  /\ Period \/ NoPeriod
  /\ UNCHANGED <<hostVars, cmok, command, timing>>

Next == Host \/ Cs2Execute \/ EndOfExec

(* The main loop calls Cs2Exec again and again, and periods end again and again;
   nothing is assumed of the host. *)
Spec == /\ Init /\ [][Next]_vars
        /\ WF_vars(Cs2Execute)
        /\ SF_vars(EndOfExec /\ Period)
-----------------------------------------------------------------------------
(* Properties                                                              *)

TypeOK ==
  /\ host \in {"idle", "ready", "writing", "waiting", "reading"}
  /\ asked \in Command \union {None}
  /\ {got, collected, cr1, cr4} \subseteq Content
  /\ {cmok, pend, command, timing, executing, peri, tocread, connected,
      isbufferfull} \subseteq BOOLEAN
  /\ status \in {"PAUSE", "STANDBY", "PLAY"}
  /\ {FAD, playFAD, playendFAD} \subseteq Frame
  /\ repcnt \in 0..RepeatCap \union {NoRepeatInfo}
  /\ maxrepeat \in 0..KeepRepeat
  /\ free \in 0..NBlocks
  /\ before \in 0..RepeatCap \union {NoRepeatInfo}
  /\ passes \in 0..(RepeatCap + 1)

(* From the write of CR1 to the read of CR4 the registers belong to the host's
   command: they hold the command until it is executed and its answer after,
   marked as an answer and not as a report, whatever the drive does meanwhile. *)
Asked(kind) == [kind |-> kind, of |-> asked]
RegistersBelong ==
  /\ host \in {"writing", "waiting", "reading"} => command /\ ~peri
  /\ host \in {"ready", "writing"} => ~cmok
  /\ host = "writing" => cr1 = Asked("command")
  /\ host = "waiting" /\ timing =>
       ~cmok /\ cr1 = Asked("command") /\ cr4 = Asked("command")
  /\ host = "waiting" /\ ~timing =>
       cmok /\ cr1 = Asked("response") /\ cr4 = Asked("response")
  /\ host = "reading" =>
       cmok /\ got = Asked("response") /\ cr4 = Asked("response")
  /\ timing => host = "waiting" /\ ~executing

(* Commands are answered, each answer is the answer to the command given last,
   and the host collects it whole: the registers implement the channel of module
   CdCommand, reports notwithstanding. *)
Channel == INSTANCE CdCommand WITH
  channel <- IF host \notin {"waiting", "reading"} THEN "free"
             ELSE IF cmok THEN "answer" ELSE "request",
  what <- IF host \in {"waiting", "reading"} THEN asked ELSE None,
  collected <- IF collected.kind = "response" THEN collected.of ELSE "no answer"
ChannelSpec == Channel!Spec

(* Each pass of a play is counted once, and the play ends by itself with the pass
   that brings repcnt to maxrepeat: the first, when repcnt is already there.  A
   play by track, or by FAD with the TOC read, starts from 0 and is repeated
   maxrepeat times, also when maxrepeat is the largest number repcnt can reach.
   Others go on from what an earlier play, or a failed seek, has left in repcnt,
   and are repeated less often.  Above that number a play ends by itself after a
   failed seek only. *)
PassCount ==
  [][status = "PLAY" /\ status' # "PLAY" /\ UNCHANGED timing =>
       /\ passes = IF before < maxrepeat THEN maxrepeat - before ELSE 0
       /\ maxrepeat <= RepeatCap \/ before = NoRepeatInfo]_vars

(* A command that moves, stops or restarts the drive is due. *)
DriveCommand == timing /\ cr1.of # "getStatus"

OnDisc == {FAD, playFAD} \subseteq Disc

(* A period that reads a sector of the disc. *)
DiscRead == /\ status = "PLAY" /\ FAD \in Disc
            /\ EndOfExec /\ Period /\ ReadSector

(* What ends a play, or stops it for good: no connection, and a buffer that stays
   full.  One that is full and emptied again only delays it. *)
Finished == \/ status # "PLAY" \/ DriveCommand
            \/ ~connected \/ []isbufferfull

(* If the sectors of the disc can be read, however often a read fails before, a
   play within the disc comes to its end, with all its repetitions and each time
   the buffer is full, while the host empties the buffer, polls the status or
   gives no command.  The code retries a read without bound: a sector that can
   never be read holds the play for ever. *)
PlayFinishes ==
  SF_vars(DiscRead) =>
    (status = "PLAY" /\ OnDisc /\ playendFAD <= LeadOut /\ maxrepeat <= RepeatCap
       ~> Finished)

(* "Return End of Track": so does a play up to the end of the last track. *)
TrackPlayFinishes ==
  SF_vars(DiscRead) =>
    (status = "PLAY" /\ OnDisc /\ tocread /\ playendFAD = TrackEnd(NTracks)
         /\ maxrepeat <= RepeatCap
       ~> Finished)
=============================================================================
