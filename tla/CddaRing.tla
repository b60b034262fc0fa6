------------------------------ MODULE CddaRing ------------------------------
(***************************************************************************)
(* The ring of CD audio sectors (src/src/scsp2.c) between the CD block,    *)
(* which stores a sector when it has read one, and the sound thread, which *)
(* adds the samples to what it generates.                                  *)
(*                                                                         *)
(* Each side has its own position, which the other reads without a lock;   *)
(* positions that are equal mean that there is no data.  The copy of a     *)
(* sector and of samples is not atomic: each unit (one stereo sample) is a *)
(* step, as is each read and write of a position.                          *)
(***************************************************************************)
EXTENDS Integers

CONSTANTS
  N,          \* CDDA_NUM_BUFFERS
  S,          \* units of a sector: 2352 / 4
  Delay,      \* CDDA_DELAY_SAMPLES
  Batch       \* samples that one call of ScspGenerateAudio may ask for

ASSUME RingAssumption ==
  /\ N \in Nat /\ N >= 3      \* "must be at least 3"
  /\ S \in Nat \ {0}
  /\ Delay \in Nat
  /\ Batch \subseteq Nat \ {0}

VARIABLES
  in,         \* cdda_next_in, a sector
  out,        \* cdda_next_out, in units
  delay,      \* cdda_delay
  writer,     \* the main thread: "idle" or in the "copy" of a sector
  copied,     \* units that it has copied
  reader,     \* the sound thread: "idle", "look" at in, "play", "end"
  samples,    \* that it has still to generate
  len,        \* this_len
  played,     \* units of these that it has played
  fresh,      \* history: cells with a unit that was stored and not played
  filled      \* history: the last sector was stored with the reader at 0

writerVars == <<in, writer, copied, filled>>
readerVars == <<out, delay, reader, samples, len, played>>
vars == <<writerVars, readerVars, fresh>>

Size == N * S       \* units of the ring
Base == in * S      \* the unit where the sector at in begins
Cell == 0..(Size - 1)

Init ==
  /\ in = 0 /\ out = 0 /\ delay = Delay
  /\ writer = "idle" /\ copied = 0
  /\ reader = "idle" /\ samples = 0 /\ len = 0 /\ played = 0
  /\ fresh = {} /\ filled = FALSE
-----------------------------------------------------------------------------
(* ScspReceiveCDDA                                                         *)

(* Mutant: a reader at the end of the sector is forgotten. *)
Mut_Room == ~(out > Base /\ out < Base + S)

(* The sector at in may be written: the reader is neither in it nor at the *)
(* beginning of the next, where in would meet it.                          *)
Room == ~(out > Base /\ out <= Base + S)

(* Without room the sector is discarded. *)
Receive ==
  /\ writer = "idle" /\ Room
  /\ writer' = "copy" /\ copied' = 0
  /\ UNCHANGED <<in, filled, readerVars, fresh>>

CopyUnit ==
  /\ writer = "copy" /\ copied < S
  /\ fresh' = fresh \union {Base + copied}
  /\ copied' = copied + 1
  /\ UNCHANGED <<in, writer, filled, readerVars>>

Publish ==
  /\ writer = "copy" /\ copied = S
  /\ in' = (in + 1) % N
  /\ writer' = "idle"
  /\ filled' = (filled \/ (in = N - 1 /\ out = 0))
  /\ UNCHANGED <<copied, readerVars, fresh>>
-----------------------------------------------------------------------------
(* ScspGenerateAudio and ScspGenerateAudioForCDDA                          *)

(* Mutant: a delay that is longer than the call is not shortened. *)
Mut_DelayLeft(n) == IF n > delay THEN 0 ELSE delay

DelayLeft(n) == IF n > delay THEN 0 ELSE delay - n

Generate(n) ==
  /\ reader = "idle"
  /\ IF out # Base
       THEN /\ delay' = DelayLeft(n)
            /\ samples' = IF n > delay THEN n - delay ELSE 0
            /\ reader' = IF delay' = 0 THEN "look" ELSE "end"
       ELSE reader' = "end" /\ UNCHANGED <<delay, samples>>
  /\ UNCHANGED <<out, len, played, writerVars, fresh>>

(* Units up to in, or up to the end of the ring. *)
OutLeft == IF Base < out THEN Size - out ELSE Base - out

Look ==
  /\ reader = "look"
  /\ len' = IF samples > OutLeft THEN OutLeft ELSE samples
  /\ played' = 0
  /\ reader' = IF len' = 0 THEN "end" ELSE "play"
  /\ UNCHANGED <<out, delay, samples, writerVars, fresh>>

PlayUnit ==
  /\ reader = "play" /\ played < len
  /\ fresh' = fresh \ {out + played}
  /\ played' = played + 1
  /\ UNCHANGED <<out, delay, reader, samples, len, writerVars>>

(* Mutant: the end of the ring is not taken for its beginning. *)
Mut_Past == IF out + len > Size THEN 0 ELSE out + len

Past == IF out + len >= Size THEN 0 ELSE out + len

Advance ==
  /\ reader = "play" /\ played = len
  /\ out' = Past
  /\ samples' = samples - len
  /\ reader' = "look"
  /\ UNCHANGED <<delay, len, played, writerVars, fresh>>

(* With no data left the delay begins anew. *)
EndGenerate ==
  /\ reader = "end"
  /\ reader' = "idle"
  /\ delay' = IF out = Base THEN Delay ELSE delay
  /\ UNCHANGED <<out, samples, len, played, writerVars, fresh>>

(* ScspReset, by the main thread, when the sound thread has caught up. *)
Reset ==
  /\ writer = "idle" /\ reader = "idle"
  /\ in' = 0 /\ out' = 0 /\ delay' = Delay
  /\ fresh' = {} /\ filled' = FALSE
  /\ UNCHANGED <<writer, copied, reader, samples, len, played>>

SoundThread ==
  \/ \E n \in Batch : Generate(n)
  \/ Look
  \/ PlayUnit
  \/ Advance
  \/ EndGenerate

Next == Receive \/ CopyUnit \/ Publish \/ SoundThread \/ Reset

(* The sound thread generates as long as the emulation runs. *)
Spec == Init /\ [][Next]_vars /\ WF_vars(SoundThread)
-----------------------------------------------------------------------------
TypeOK ==
  /\ in \in 0..(N - 1) /\ out \in Cell
  /\ delay \in 0..Delay
  /\ writer \in {"idle", "copy"} /\ copied \in 0..S
  /\ reader \in {"idle", "look", "play", "end"}
  /\ samples \in Nat /\ len \in 0..Size /\ played \in 0..len
  /\ reader = "play" => out + len <= Size /\ len <= samples
  /\ fresh \subseteq Cell /\ filled \in BOOLEAN

(* Cells that the sound thread has looked up and not played, and those     *)
(* that the copy has not reached.                                          *)
ToPlay == {c \in Cell : reader = "play" /\ out + played <= c /\ c < out + len}
ToCopy == {c \in Cell : writer = "copy" /\ Base + copied <= c /\ c < Base + S}

(* Every unit is played once and as it was stored: the sound thread plays  *)
(* only units that were stored and not yet played, and no copy overwrites  *)
(* one, at any interleaving of the two threads; unless the last sector was *)
(* stored with the reader at 0, which Room does not see: in then meets out *)
(* and the full ring looks empty.                                          *)
Intact ==
  ~filled => /\ ToPlay \subseteq fresh
             /\ ToCopy \intersect fresh = {}
             /\ reader # "play" /\ out = Base /\ writer = "idle" => fresh = {}

(* What was stored is played to the end when no more sectors come: in the end
   no unit is fresh but those of a copy under way.  Here too a sector that was
   stored with the reader at 0, at the end of the ring, is the exception. *)
Copied == {c \in Cell : writer = "copy" /\ Base <= c /\ c < Base + copied}
BufferedIsPlayed ==
  <>[][in' = in]_vars => <>[](filled \/ fresh \subseteq Copied)
=============================================================================
