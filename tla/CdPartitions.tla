---------------------------- MODULE CdPartitions -----------------------------
(***************************************************************************)
(* What the sector buffer of the CD block promises: its partitions are     *)
(* queues of sectors.  Each sector is in a block of the pool that no other *)
(* sector uses; sectors are added at the end of a queue and consecutive    *)
(* ones are taken out of it; the others stay what and where they were.     *)
(* Arrays, counts and pointers do not show at this level, and neither do   *)
(* the sectors the directory commands push and pop again.  Module CdBuffer *)
(* shows that src/src/cs2.c keeps the promise.                             *)
(***************************************************************************)
EXTENDS Integers, Sequences

CONSTANTS
  Block,      \* the blocks of the pool
  Selector,   \* the partitions
  MayLose     \* TRUE iff a block can be taken for no sector

VARIABLES
  content,    \* the blocks of each partition's sectors, first to last
  taken       \* the blocks that are not free

vars == <<content, taken>>

Init == /\ content = [p \in Selector |-> <<>>]
        /\ taken = {}

Add(p) ==
  \E b \in Block \ taken :
    /\ content' = [content EXCEPT ![p] = Append(content[p], b)]
    /\ taken' = taken \union {b}

(* The sequence s without the n entries after the first pos. *)
Without(s, pos, n) == SubSeq(s, 1, pos) \o SubSeq(s, pos + n + 1, Len(s))

Remove(p) ==
  \E pos \in 0..Len(content[p]) :
    \E n \in 0..(Len(content[p]) - pos) :
      /\ content' = [content EXCEPT ![p] = Without(content[p], pos, n)]
      /\ taken' = taken \ {content[p][k] : k \in (pos + 1)..(pos + n)}

(* A failure leaves a block taken that is in no partition. *)
Lose ==
  /\ MayLose
  /\ \E b \in Block \ taken : taken' = taken \union {b}
  /\ UNCHANGED content

Clear == /\ content' = [p \in Selector |-> <<>>]
         /\ taken' = {}

Next == (\E p \in Selector : Add(p) \/ Remove(p)) \/ Lose \/ Clear

Spec == Init /\ [][Next]_vars
=============================================================================
