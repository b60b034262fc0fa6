-------------------------- MODULE MCScuInterrupts --------------------------
(***************************************************************************)
(* Two sources of one level and one below it, two of them behind one mask  *)
(* bit, and one on-chip vector: a run of equal levels below which another  *)
(* entry is inserted, in both queues.                                      *)
(***************************************************************************)
EXTENDS ScuInterrupts, SequencesExt, TLC
CONSTANTS systemManager, pad, level0DMA, frt, nmi, m1, m2

MCSource == {systemManager, pad, level0DMA}
MCLevel  == systemManager :> 8 @@ pad :> 8 @@ level0DMA :> 5
MCMask   == systemManager :> m1 @@ pad :> m2 @@ level0DMA :> m2

(* The two nested loops that sort a queue after an append. *)
ExchangeSort(q) ==
  LET swap(s, i, j) == [s EXCEPT ![i] = s[j], ![j] = s[i]]
      from(i)       == [k \in 1..(Len(q) - i) |-> i + k]
      inner(s, i)   == FoldLeft(LAMBDA t, j : IF t[i].level > t[j].level
                                              THEN swap(t, i, j) ELSE t,
                                s, from(i))
  IN  FoldLeft(inner, q, from(0))

(* On every sorted queue of up to six entries with levels 1 to 4, Sorted   *)
(* does what the loops do.                                                 *)
ASSUME SortAssumption ==
  \A n \in 0..6 : \A l \in [1..(n + 1) -> 1..4] :
    LET q == [k \in 1..n |-> [vector |-> k, level |-> l[k]]]
        e == [vector |-> n + 1, level |-> l[n + 1]]
    IN  Ascending(q) => Sorted(q, e) = ExchangeSort(Append(q, e))
=============================================================================
