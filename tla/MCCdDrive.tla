------------------------------ MODULE MCCdDrive ------------------------------
(* CdDrive on a disc of two tracks of one sector each. *)
EXTENDS CdDrive

MCTrackStart == <<1, 2>>

Arg(start, at, preserve, repeat, end, to) ==
  [start |-> start, at |-> at, preserve |-> preserve, repeat |-> repeat,
   end |-> end, to |-> to]

MCPlayArgs ==
  {Arg("fad", 1, TRUE, 1, "length", 2),
   Arg("track", 1, FALSE, 2, "leadout", 0),
   Arg("keep", 0, FALSE, KeepRepeat, "keep", 0)}

(* The last track, from its start to its end. *)
MCLastTrack == {Arg("track", 2, FALSE, 0, "trackend", 2)}

MCFiles == {[lba |-> 1, sectors |-> 1], [lba |-> 1, sectors |-> 6]}
=============================================================================
