----------------------------- MODULE CdCommand ------------------------------
(***************************************************************************)
(* What the CD block promises the host about its commands: a command the   *)
(* host has given is answered, the answer is the answer to that command,   *)
(* and it is still there, whole, when the host collects it.  Reports the   *)
(* block makes on its own do not show at this level.  Module CdDrive shows *)
(* that src/src/cs2.c keeps the promise.                                   *)
(***************************************************************************)
CONSTANTS Command, None

VARIABLES
  channel,    \* "free", "request" or "answer"
  what,       \* the command under way, None when the channel is free
  collected   \* the command whose answer the host has collected

vars == <<channel, what, collected>>

Init == channel = "free" /\ what = None /\ collected = None

Request == /\ channel = "free"
           /\ channel' = "request"
           /\ what' \in Command
           /\ UNCHANGED collected

Answer == /\ channel = "request"
          /\ channel' = "answer"
          /\ UNCHANGED <<what, collected>>

(* The host reads the whole answer, or turns to the next command. *)
Collect == /\ channel = "answer"
           /\ channel' = "free"
           /\ collected' = what
           /\ what' = None

Skip == /\ channel = "answer"
        /\ channel' = "free"
        /\ what' = None
        /\ UNCHANGED collected

(* The host has no more use for the answer it collected. *)
Forget == /\ channel = "free"
          /\ collected' = None
          /\ UNCHANGED <<channel, what>>

Next == Request \/ Answer \/ Collect \/ Skip \/ Forget

Spec == Init /\ [][Next]_vars /\ WF_vars(Answer)
=============================================================================
