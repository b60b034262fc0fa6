------------------------------ MODULE MCFrame ------------------------------
(***************************************************************************)
(* Frames of a few lines of two slices.                                    *)
(***************************************************************************)
EXTENDS Frame

MCBits    == {{}, {"status"}, {"break"}, {"continue"}}
MCNoBits  == {{}}
=============================================================================
