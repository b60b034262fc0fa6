---------------------------- MODULE MCScspThread ----------------------------
(* Clocks that wrap at 8, slices of 3 cycles, calls that add up to 2. *)
EXTENDS ScspThread

MCWrites == {"w1", "w2"}
=============================================================================
