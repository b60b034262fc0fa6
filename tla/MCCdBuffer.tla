----------------------------- MODULE MCCdBuffer -----------------------------
(* CdBuffer on small instances. *)
EXTENDS CdBuffer

(* Sectors of one length: two long words. *)
OneLength == {8}
OneWord == {4}
=============================================================================
