----------------------------- MODULE MCCddaRing -----------------------------
(***************************************************************************)
(* Three sectors of two units, and calls shorter and longer than a sector. *)
(***************************************************************************)
EXTENDS CddaRing

MCBatch == {1, 3}
=============================================================================
