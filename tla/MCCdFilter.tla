----------------------------- MODULE MCCdFilter -----------------------------
(* CdFilter with two filters and inputs that tell its tests apart: each test
   passes with one of the conditions and fails with the other. *)
EXTENDS CdFilter

MCAddress == 0..2
MCModeSets == {{"fn", "sm", "ci"}, {"cn", "reverse", "fad"}}
MCConditions ==
  {NoCondition,
   [fid |-> 1, chan |-> 1, smmask |-> {0}, smval |-> {0},
    cimask |-> {1}, cival |-> {1}]}
MCRanges == {[FAD |-> 2, range |-> 2]}
MCSectors ==
  {[mode2 |-> FALSE, fn |-> 0, cn |-> 0, sm |-> {}, ci |-> {}, FAD |-> 1],
   [mode2 |-> TRUE, fn |-> 1, cn |-> 1, sm |-> {0, 1}, ci |-> {1}, FAD |-> 2]}
=============================================================================
