----------------------- MODULE ScuInterrupts_proofs -----------------------
(***************************************************************************)
(* Theorems about module ScuInterrupts, for any set of sources with any    *)
(* levels and masks.                                                       *)
(***************************************************************************)
EXTENDS ScuInterrupts, FiniteSetTheorems, WellFoundedInduction, TLAPS

-----------------------------------------------------------------------------
(* Sequences                                                               *)

LEMMA FunctionIsSequence ==
  ASSUME NEW S, NEW n \in Nat, NEW f \in [1..n -> S]
  PROVE  f \in Seq(S) /\ Len(f) = n /\ DOMAIN f = 1..n
OBVIOUS

LEMMA SequenceParts ==
  ASSUME NEW S, NEW q \in Seq(S)
  PROVE  /\ Len(q) \in Nat /\ DOMAIN q = 1..Len(q)
         /\ \A k \in 1..Len(q) : q[k] \in S
OBVIOUS

(* What stays when one entry is taken out. *)
LEMMA WithoutFacts ==
  ASSUME NEW S, NEW q \in Seq(S), NEW i \in 1..Len(q)
  PROVE  /\ Without(q, i) \in Seq(S)
         /\ Len(Without(q, i)) = Len(q) - 1
         /\ DOMAIN Without(q, i) = 1..(Len(q) - 1)
         /\ \A k \in 1..(Len(q) - 1) :
              Without(q, i)[k] = IF k < i THEN q[k] ELSE q[k + 1]
         /\ \A k \in 1..Len(q) : k # i =>
              \E m \in 1..(Len(q) - 1) : Without(q, i)[m] = q[k]
<1>1. Len(q) - 1 \in Nat /\ Without(q, i) \in [1..(Len(q) - 1) -> S]
  BY DEF Without
<1>2. /\ Without(q, i) \in Seq(S) /\ Len(Without(q, i)) = Len(q) - 1
      /\ DOMAIN Without(q, i) = 1..(Len(q) - 1)
  BY <1>1, FunctionIsSequence
<1>3. \A k \in 1..(Len(q) - 1) :
        Without(q, i)[k] = IF k < i THEN q[k] ELSE q[k + 1]
  BY DEF Without
<1>4. ASSUME NEW k \in 1..Len(q), k # i
      PROVE  \E m \in 1..(Len(q) - 1) : Without(q, i)[m] = q[k]
  <2>1. CASE k < i
    <3>1. k \in 1..(Len(q) - 1) /\ Without(q, i)[k] = q[k]
      BY <2>1, <1>3
    <3>2. QED
      BY <3>1
  <2>2. CASE k > i
    <3>1. k - 1 \in 1..(Len(q) - 1) /\ Without(q, i)[k - 1] = q[k]
      BY <2>2, <1>3
    <3>2. QED
      BY <3>1
  <2>3. QED
    BY <1>4, <2>1, <2>2
<1>5. QED
  BY <1>2, <1>3, <1>4

(* A set of naturals has a least element. *)
LEMMA Least ==
  ASSUME NEW H \in SUBSET Nat, H # {}
  PROVE  \E h \in H : \A m \in H : h <= m
<1> DEFINE R == {ss \in Nat \X Nat : ss[1] < ss[2]}
<1>1. IsWellFoundedOn(R, Nat)
  BY NatLessThanWellFounded DEF OpToRel
<1>2. PICK h \in H : \A m \in H : ~(<<m, h>> \in R)
  BY <1>1, WFMin
<1>3. ASSUME NEW m \in H PROVE h <= m
  <2>1. m \in Nat /\ h \in Nat /\ ~(<<m, h>> \in R)
    BY <1>2
  <2>2. ~(m < h)
    BY <2>1, Zenon
  <2>3. QED
    BY <2>1, <2>2
<1>4. QED
  BY <1>3

-----------------------------------------------------------------------------
(* The sort                                                                *)

Entries(V, L) == [vector : V, level : L]

(* In a sorted queue the entries up to a level are the first ones. *)
LEMMA LowPrefix ==
  ASSUME NEW V, NEW L \in SUBSET Nat, NEW q \in Seq(Entries(V, L)),
         Ascending(q), NEW l \in Nat
  PROVE  \E p \in 0..Len(q) :
           /\ Cardinality({k \in DOMAIN q : q[k].level <= l}) = p
           /\ \A k \in 1..Len(q) : q[k].level <= l <=> k <= p
<1> DEFINE n == Len(q)
           H == {k \in 1..(n + 1) : k = n + 1 \/ q[k].level > l}
<1>0. n \in Nat /\ DOMAIN q = 1..n /\ \A k \in 1..n : q[k] \in Entries(V, L)
  BY SequenceParts
<1>1. n \in Nat /\ DOMAIN q = 1..n /\ \A k \in 1..n : q[k].level \in Nat
  BY <1>0 DEF Entries
<1>2. H \in SUBSET Nat /\ n + 1 \in H
  BY <1>1
<1>3. PICK h \in H : \A m \in H : h <= m
  BY <1>2, Least
<1>4. h \in 1..(n + 1) /\ h - 1 \in 0..n
  BY <1>1, <1>3
<1>5. ASSUME NEW k \in 1..n PROVE q[k].level <= l <=> k <= h - 1
  <2>1. CASE k <= h - 1
    <3>1. k \notin H
      BY <2>1, <1>3, <1>4, <1>1
    <3>2. QED
      BY <3>1, <2>1, <1>1
  <2>2. CASE k > h - 1
    <3>1. h \in 1..n /\ q[h].level > l
      BY <2>2, <1>4, <1>3, <1>1
    <3>2. q[h].level <= q[k].level
      BY <3>1, <2>2, <1>1 DEF Ascending
    <3>3. QED
      BY <3>1, <3>2, <2>2, <1>1, <1>4
  <2>3. QED
    BY <2>1, <2>2, <1>4, <1>1
<1>6. {k \in DOMAIN q : q[k].level <= l} = 1..(h - 1)
  BY <1>5, <1>1, <1>4
<1>7. Cardinality(1..(h - 1)) = h - 1
  BY <1>4, FS_Interval
<1>8. QED
  BY <1>4, <1>5, <1>6, <1>7

LEMMA RunStartFacts ==
  ASSUME NEW V, NEW L \in SUBSET Nat, NEW q \in Seq(Entries(V, L)),
         NEW k \in 1..Len(q)
  PROVE  /\ RunStart(q, k) \in 1..k
         /\ q[RunStart(q, k)].level = q[k].level
         /\ \A m \in 1..(RunStart(q, k) - 1) : q[m].level # q[k].level
<1> DEFINE H == {j \in 1..k : q[j].level = q[k].level}
<1>1. H \in SUBSET Nat /\ k \in H
  OBVIOUS
<1>2. PICK h \in H : \A m \in H : h <= m
  BY <1>1, Least
<1>3. /\ h \in 1..k /\ q[h].level = q[k].level
      /\ \A m \in 1..(h - 1) : q[m].level # q[k].level
  BY <1>2
<1>4. QED
  BY <1>3 DEF RunStart

(* Where the sort takes the entry of position j of its result from, for an
   entry that was in the queue before. *)
From(q, j) == IF j <= Len(q) /\ q[j].level = q[j - 1].level
                THEN j ELSE RunStart(q, j - 1)

(* The result of the sort, with p entries up to the new one's level. *)
Shape(q, e, p) ==
  LET r == Sorted(q, e)
  IN  /\ \A k \in 1..Len(q) : q[k].level <= e.level <=> k <= p
      /\ \A j \in 1..p : r[j] = q[j]
      /\ r[p + 1] = e
      /\ \A j \in (p + 2)..(Len(q) + 1) :
           /\ r[j] = q[From(q, j)]
           /\ From(q, j) \in (p + 1)..Len(q)
           /\ r[j].level = q[j - 1].level

LEMMA SortedShape ==
  ASSUME NEW V, NEW L \in SUBSET Nat, NEW q \in Seq(Entries(V, L)),
         Ascending(q), NEW e \in Entries(V, L)
  PROVE  /\ Sorted(q, e) \in Seq(Entries(V, L))
         /\ Len(Sorted(q, e)) = Len(q) + 1
         /\ \E p \in 0..Len(q) : Shape(q, e, p)
<1> DEFINE n == Len(q)
           r == Sorted(q, e)
<1>0. n \in Nat /\ DOMAIN q = 1..n /\ \A k \in 1..n : q[k] \in Entries(V, L)
  BY SequenceParts
<1>1. e.level \in Nat /\ \A k \in 1..n : q[k].level \in Nat
  BY <1>0 DEF Entries
<1>2. PICK p \in 0..n :
        /\ Cardinality({k \in DOMAIN q : q[k].level <= e.level}) = p
        /\ \A k \in 1..n : q[k].level <= e.level <=> k <= p
  BY <1>1, LowPrefix
<1>3. r = [j \in 1..(n + 1) |->
             IF j <= p THEN q[j] ELSE IF j = p + 1 THEN e
             ELSE IF j <= n /\ q[j].level = q[j - 1].level THEN q[j]
             ELSE q[RunStart(q, j - 1)]]
  BY <1>2 DEF Sorted
<1>4. (\A j \in 1..p : r[j] = q[j]) /\ r[p + 1] = e
  BY <1>0, <1>2, <1>3
<1>5. ASSUME NEW j \in (p + 2)..(n + 1)
      PROVE  /\ r[j] = q[From(q, j)] /\ From(q, j) \in (p + 1)..n
             /\ r[j].level = q[j - 1].level
  <2>1. j \in 1..(n + 1) /\ j - 1 \in 1..n /\ j - 1 > p /\ j > p + 1
    BY <1>0, <1>2
  <2>2. r[j] = q[From(q, j)]
    <3>1. r[j] = IF j <= n /\ q[j].level = q[j - 1].level THEN q[j]
                 ELSE q[RunStart(q, j - 1)]
      BY <2>1, <1>3, <1>2
    <3>2. QED
      BY <3>1 DEF From
  <2>3. CASE j <= n /\ q[j].level = q[j - 1].level
    <3>1. From(q, j) = j
      BY <2>3 DEF From
    <3>2. QED
      BY <3>1, <2>2, <2>1, <2>3, <1>2
  <2>4. CASE ~(j <= n /\ q[j].level = q[j - 1].level)
    <3>1. From(q, j) = RunStart(q, j - 1)
      BY <2>4 DEF From
    <3>2. /\ RunStart(q, j - 1) \in 1..(j - 1)
          /\ q[RunStart(q, j - 1)].level = q[j - 1].level
      BY <2>1, RunStartFacts
    <3>3. RunStart(q, j - 1) > p
      BY <3>2, <2>1, <1>2, <1>0, <1>1
    <3>4. QED
      BY <3>1, <3>2, <3>3, <2>1, <2>2, <1>0, <1>2
  <2>5. QED
    BY <2>3, <2>4
<1>6. r \in [1..(n + 1) -> Entries(V, L)]
  <2>1. ASSUME NEW j \in 1..(n + 1) PROVE r[j] \in Entries(V, L)
    <3>1. CASE j <= p
      BY <3>1, <1>4, <1>0, <1>2
    <3>2. CASE j = p + 1
      BY <3>2, <1>4
    <3>3. CASE j > p + 1
      <4>1. j \in (p + 2)..(n + 1)
        BY <3>3, <1>0, <1>2
      <4>2. From(q, j) \in 1..n /\ r[j] = q[From(q, j)]
        BY <4>1, <1>5, <1>2, <1>0
      <4>3. QED
        BY <4>2, <1>0
    <3>4. QED
      BY <3>1, <3>2, <3>3, <1>2
  <2>2. QED
    BY <2>1, <1>3
<1>7. r \in Seq(Entries(V, L)) /\ Len(r) = n + 1
  BY <1>6, <1>0, FunctionIsSequence
<1>8. Shape(q, e, p)
  BY <1>2, <1>4, <1>5 DEF Shape
<1>9. QED
  BY <1>7, <1>8

(* No entry is taken twice. *)
LEMMA FromInjective ==
  ASSUME NEW V, NEW L \in SUBSET Nat, NEW q \in Seq(Entries(V, L)),
         Ascending(q), NEW i \in 2..(Len(q) + 1), NEW j \in 2..(Len(q) + 1),
         i < j
  PROVE  From(q, i) # From(q, j)
<1> DEFINE stays(k) == k <= Len(q) /\ q[k].level = q[k - 1].level
<1>0. /\ Len(q) \in Nat /\ DOMAIN q = 1..Len(q)
      /\ \A k \in 1..Len(q) : q[k] \in Entries(V, L)
  BY SequenceParts
<1>1. \A k \in 1..Len(q) : q[k].level \in Nat
  BY <1>0 DEF Entries
<1>2. i - 1 \in 1..Len(q) /\ j - 1 \in 1..Len(q) /\ i \in 1..Len(q)
  BY <1>0
<1>3. /\ RunStart(q, i - 1) \in 1..(i - 1)
      /\ q[RunStart(q, i - 1)].level = q[i - 1].level
  BY <1>2, RunStartFacts
<1>4. /\ RunStart(q, j - 1) \in 1..(j - 1)
      /\ q[RunStart(q, j - 1)].level = q[j - 1].level
      /\ \A m \in 1..(RunStart(q, j - 1) - 1) : q[m].level # q[j - 1].level
  BY <1>2, RunStartFacts
<1>5. CASE stays(j)
  BY <1>5, <1>3, <1>2, <1>0 DEF From
<1>6. CASE ~stays(j) /\ stays(i)
  <2>1. From(q, i) = i /\ From(q, j) = RunStart(q, j - 1)
    BY <1>6 DEF From
  <2>2. ASSUME i = RunStart(q, j - 1) PROVE FALSE
    <3>1. i - 1 \in 1..(RunStart(q, j - 1) - 1)
      BY <2>2, <1>2, <1>0
    <3>2. q[i - 1].level # q[j - 1].level
      BY <3>1, <1>4
    <3>3. QED
      BY <3>2, <1>6, <2>2, <1>4
  <2>3. QED
    BY <2>1, <2>2
<1>7. CASE ~stays(j) /\ ~stays(i)
  <2>1. From(q, i) = RunStart(q, i - 1) /\ From(q, j) = RunStart(q, j - 1)
    BY <1>7 DEF From
  <2>2. ASSUME RunStart(q, i - 1) = RunStart(q, j - 1) PROVE FALSE
    <3>1. q[i - 1].level = q[j - 1].level
      BY <2>2, <1>3, <1>4
    <3>2. q[i - 1].level <= q[i].level
      BY <1>2, <1>0 DEF Ascending
    <3>3. q[i].level <= q[j - 1].level
      BY <1>2, <1>0, <1>1 DEF Ascending
    <3>4. q[i].level = q[i - 1].level
      BY <3>1, <3>2, <3>3, <1>1, <1>2
    <3>5. QED
      BY <3>4, <1>7, <1>2
  <2>3. QED
    BY <2>1, <2>2
<1>8. QED
  BY <1>5, <1>6, <1>7

(* And every entry is taken. *)
LEMMA FromSurjective ==
  ASSUME NEW V, NEW L \in SUBSET Nat, NEW q \in Seq(Entries(V, L)),
         Ascending(q), NEW e \in Entries(V, L), NEW p \in 0..Len(q),
         Shape(q, e, p), NEW k \in (p + 1)..Len(q)
  PROVE  \E j \in (p + 2)..(Len(q) + 1) : From(q, j) = k
<1> DEFINE n == Len(q)
<1>0. n \in Nat /\ DOMAIN q = 1..n /\ \A m \in 1..n : q[m] \in Entries(V, L)
  BY SequenceParts
<1>1. \A m \in 1..n : q[m].level \in Nat
  BY <1>0 DEF Entries
<1>2. k \in 1..n /\ p \in Nat
  BY <1>0
<1> DEFINE l == e.level
<1>2a. l \in Nat /\ \A m \in 1..n : q[m].level <= l <=> m <= p
  BY DEF Shape, Entries
<1> HIDE DEF l
<1>3. CASE k > p + 1 /\ q[k].level = q[k - 1].level
  <2>1. From(q, k) = k /\ k \in (p + 2)..(n + 1)
    BY <1>3, <1>2, <1>0 DEF From
  <2>2. QED
    BY <2>1
<1>4. CASE ~(k > p + 1 /\ q[k].level = q[k - 1].level)
  <2> DEFINE H == {d \in 0..(n - k) : q[n - d].level = q[k].level}
  <2>1. H \in SUBSET Nat /\ n - k \in H
    BY <1>2, <1>0
  <2>2. PICK d \in H : \A m \in H : d <= m
    BY <2>1, Least
  <2>3. n - d \in k..n /\ q[n - d].level = q[k].level
    BY <2>2, <1>2, <1>0
  <2>4. ~(n - d + 1 <= n /\ q[n - d + 1].level = q[n - d + 1 - 1].level)
    <3>1. SUFFICES ASSUME n - d + 1 <= n, q[n - d + 1].level = q[n - d].level
                   PROVE  FALSE
      BY <2>3, <1>0
    <3>2. d - 1 \in 0..(n - k) /\ n - (d - 1) = n - d + 1
      BY <3>1, <2>2, <1>0, <1>2
    <3>3. d - 1 \in H
      BY <3>1, <3>2, <2>3
    <3>4. d \in Nat /\ d <= d - 1
      BY <3>3, <2>1, <2>2
    <3>5. QED
      BY <3>4
  <2>5. From(q, n - d + 1) = RunStart(q, n - d)
    <3>1. n - d + 1 - 1 = n - d
      BY <2>3, <1>0
    <3>2. QED
      BY <3>1, <2>4 DEF From
  <2>6. /\ RunStart(q, n - d) \in 1..(n - d)
        /\ q[RunStart(q, n - d)].level = q[k].level
        /\ \A m \in 1..(RunStart(q, n - d) - 1) : q[m].level # q[k].level
    <3>1. n - d \in 1..n
      BY <2>3, <1>2, <1>0
    <3>2. QED
      BY <3>1, <2>3, RunStartFacts
  <2>7. RunStart(q, n - d) <= k
    BY <2>6, <1>2
  <2>8. ASSUME RunStart(q, n - d) < k PROVE FALSE
    <3> DEFINE s == RunStart(q, n - d)
    <3>0. s \in 1..n /\ s \in Nat
      BY <2>3, <2>6, <1>2, <1>0
    <3>1. k - 1 \in 1..n /\ s <= k - 1
      BY <2>8, <3>0, <1>2, <1>0
    <3> HIDE DEF s
    <3>2. q[s].level <= q[k - 1].level
      <4>1. CASE s = k - 1
        BY <4>1, <3>0, <1>1
      <4>2. CASE s < k - 1
        BY <4>2, <3>0, <3>1, <1>0 DEF Ascending
      <4>3. QED
        BY <4>1, <4>2, <3>0, <3>1
    <3> USE DEF s
    <3>3. q[k - 1].level <= q[k].level
      BY <3>1, <1>2, <1>0 DEF Ascending
    <3>4. q[k - 1].level = q[k].level
      BY <3>2, <3>3, <2>6, <1>1, <3>1, <1>2
    <3>5. k = p + 1
      BY <3>4, <1>4, <1>2
    <3>6. q[k].level <= l
      BY <3>4, <3>5, <3>1, <1>1, <1>2a
    <3>7. QED
      BY <3>6, <3>5, <1>2, <1>2a
  <2>9. n - d + 1 \in (p + 2)..(n + 1) /\ From(q, n - d + 1) = k
    BY <2>3, <2>5, <2>6, <2>7, <2>8, <1>0, <1>2
  <2>10. QED
    BY <2>9
<1>5. QED
  BY <1>3, <1>4

Ordered(q) == Ascending(q) /\ Distinct(q)

(* The sort keeps a queue sorted. *)
LEMMA SortedAscending ==
  ASSUME NEW V, NEW L \in SUBSET Nat, NEW q \in Seq(Entries(V, L)),
         Ascending(q), NEW e \in Entries(V, L)
  PROVE  Ascending(Sorted(q, e))
<1> DEFINE n == Len(q)
           r == Sorted(q, e)
<1>0. n \in Nat /\ DOMAIN q = 1..n /\ \A k \in 1..n : q[k] \in Entries(V, L)
  BY SequenceParts
<1>1. e.level \in Nat /\ \A k \in 1..n : q[k].level \in Nat
  BY <1>0 DEF Entries
<1>2. r \in Seq(Entries(V, L)) /\ Len(r) = n + 1
  BY SortedShape
<1>2a. PICK p \in 0..n : Shape(q, e, p)
  BY SortedShape
<1>3. /\ p \in Nat /\ p <= n
      /\ \A k \in 1..n : q[k].level <= e.level <=> k <= p
      /\ \A j \in 1..p : r[j] = q[j]
      /\ r[p + 1] = e
      /\ \A j \in (p + 2)..(n + 1) : r[j].level = q[j - 1].level
  BY <1>0, <1>2a DEF Shape
<1>4. DOMAIN r = 1..(n + 1)
  BY <1>2, <1>0
<1> HIDE DEF r, n
<1>5. ASSUME NEW j \in 1..(n + 1), NEW k \in 1..(n + 1), j < k
      PROVE  r[j].level <= r[k].level
  <2>1. CASE k <= p
    BY <2>1, <1>0, <1>3, <1>5 DEF Ascending
  <2>2. CASE k = p + 1
    <3>1. j \in 1..p /\ j \in 1..n
      BY <2>2, <1>0, <1>3, <1>5
    <3>2. QED
      BY <3>1, <2>2, <1>3
  <2>3. CASE k > p + 1
    <3>1. k \in (p + 2)..(n + 1) /\ k - 1 \in 1..n /\ k - 1 > p
      BY <2>3, <1>0
    <3>2. r[k].level = q[k - 1].level
      BY <3>1, <1>3
    <3>3. CASE j <= p
      <4>1. j \in 1..p /\ j \in 1..n /\ r[j] = q[j]
        BY <3>3, <1>0, <1>3
      <4>2. q[j].level <= q[k - 1].level
        BY <4>1, <3>1, <3>3, <1>0 DEF Ascending
      <4>3. QED
        BY <4>1, <4>2, <3>2
    <3>4. CASE j = p + 1
      BY <3>4, <3>1, <3>2, <1>3, <1>1
    <3>5. CASE j > p + 1
      <4>1. j \in (p + 2)..(n + 1) /\ j - 1 \in 1..n /\ j - 1 < k - 1
        BY <3>5, <3>1, <1>0, <1>3, <1>5
      <4>2. r[j].level = q[j - 1].level
        BY <4>1, <1>3
      <4>3. q[j - 1].level <= q[k - 1].level
        BY <4>1, <3>1, <1>0 DEF Ascending
      <4>4. QED
        BY <4>2, <4>3, <3>2
    <3>6. QED
      BY <3>3, <3>4, <3>5, <1>0
  <2>4. QED
    BY <2>1, <2>2, <2>3, <1>0
<1>6. QED
  BY <1>4, <1>5 DEF Ascending, r

(* It loses no entry and adds only the new one. *)
LEMMA SortedHolds ==
  ASSUME NEW V, NEW L \in SUBSET Nat, NEW q \in Seq(Entries(V, L)),
         Ascending(q), NEW e \in Entries(V, L), NEW w
  PROVE  Holds(Sorted(q, e), w) <=> Holds(q, w) \/ w = e.vector
<1> DEFINE n == Len(q)
           r == Sorted(q, e)
<1>0. n \in Nat /\ DOMAIN q = 1..n /\ \A k \in 1..n : q[k] \in Entries(V, L)
  BY SequenceParts
<1>2. r \in Seq(Entries(V, L)) /\ Len(r) = n + 1 /\ DOMAIN r = 1..(n + 1)
  BY SortedShape, SequenceParts
<1>2a. PICK p \in 0..n : Shape(q, e, p)
  BY SortedShape
<1>3. /\ p \in Nat /\ p <= n
      /\ \A k \in 1..n : q[k].level <= e.level <=> k <= p
      /\ \A j \in 1..p : r[j] = q[j]
      /\ r[p + 1] = e
      /\ \A j \in (p + 2)..(n + 1) :
           r[j] = q[From(q, j)] /\ From(q, j) \in (p + 1)..n
  BY <1>0, <1>2a DEF Shape
<1> HIDE DEF r, n
<1>4. ASSUME NEW j \in 1..(n + 1)
      PROVE  Holds(q, r[j].vector) \/ r[j].vector = e.vector
  <2>1. CASE j <= p
    BY <2>1, <1>0, <1>3 DEF Holds
  <2>2. CASE j = p + 1
    BY <2>2, <1>3
  <2>3. CASE j > p + 1
    <3>1. j \in (p + 2)..(n + 1)
      BY <2>3, <1>0
    <3>2. From(q, j) \in 1..n /\ r[j] = q[From(q, j)]
      BY <3>1, <1>3, <1>0
    <3>3. QED
      BY <3>2, <1>0 DEF Holds
  <2>4. QED
    BY <2>1, <2>2, <2>3, <1>0
<1>5. ASSUME NEW k \in 1..n
      PROVE  Holds(r, q[k].vector)
  <2>1. CASE k <= p
    <3>1. k \in 1..p /\ k \in 1..(n + 1)
      BY <2>1, <1>0
    <3>2. QED
      BY <3>1, <1>3, <1>2 DEF Holds
  <2>2. CASE k > p
    <3>1. k \in (p + 1)..n
      BY <2>2, <1>0
    <3>2. PICK j \in (p + 2)..(n + 1) : From(q, j) = k
      <4>1. p \in 0..Len(q) /\ k \in (p + 1)..Len(q)
        BY <3>1, <1>2a DEF n
      <4>2. QED
        BY <4>1, <1>2a, FromSurjective DEF n
    <3>3. j \in 1..(n + 1) /\ r[j] = q[k]
      BY <3>2, <1>3, <1>0
    <3>4. QED
      BY <3>3, <1>2 DEF Holds
  <2>3. QED
    BY <2>1, <2>2, <1>0
<1>6. Holds(r, e.vector)
  <2>1. p + 1 \in DOMAIN r
    BY <1>0, <1>2
  <2>2. QED
    BY <2>1, <1>3 DEF Holds
<1>7. QED
  BY <1>0, <1>2, <1>4, <1>5, <1>6 DEF Holds, r

(* It keeps vectors apart. *)
LEMMA SortedDistinct ==
  ASSUME NEW V, NEW L \in SUBSET Nat, NEW q \in Seq(Entries(V, L)),
         Ascending(q), Distinct(q), NEW e \in Entries(V, L),
         ~Holds(q, e.vector)
  PROVE  Distinct(Sorted(q, e))
<1> DEFINE n == Len(q)
           r == Sorted(q, e)
<1>0. n \in Nat /\ DOMAIN q = 1..n
  BY SequenceParts
<1>2. r \in Seq(Entries(V, L)) /\ Len(r) = n + 1 /\ DOMAIN r = 1..(n + 1)
  BY SortedShape, SequenceParts
<1>2a. PICK p \in 0..n : Shape(q, e, p)
  BY SortedShape
<1>3. /\ p \in Nat /\ p <= n
      /\ \A j \in 1..p : r[j] = q[j]
      /\ r[p + 1] = e
      /\ \A j \in (p + 2)..(n + 1) :
           r[j] = q[From(q, j)] /\ From(q, j) \in (p + 1)..n
  BY <1>0, <1>2a DEF Shape
<1>4. ASSUME NEW j \in 1..(n + 1), NEW k \in 1..(n + 1), j < k
      PROVE  r[j].vector # r[k].vector
  <2> HIDE DEF r
  <2> DEFINE Old(x, y) == y \in 1..n /\ r[x] = q[y]
  <2>1. ASSUME NEW x \in 1..(n + 1), x > p + 1
        PROVE  Old(x, From(q, x)) /\ From(q, x) > p /\ x \in 2..(n + 1)
    <3>1. x \in (p + 2)..(n + 1)
      BY <2>1, <1>0
    <3>2. QED
      BY <3>1, <1>3, <1>0
  <2>2. ASSUME NEW x \in 1..(n + 1), x <= p
        PROVE  Old(x, x)
    BY <2>2, <1>3, <1>0
  <2>3. ASSUME NEW x, NEW y, Old(j, x), Old(k, y), x # y
        PROVE  r[j].vector # r[k].vector
    BY <2>3, <1>0 DEF Distinct
  <2>4. ASSUME NEW x \in 1..(n + 1), NEW y, Old(x, y)
        PROVE  r[x].vector # e.vector
    BY <2>4, <1>0 DEF Holds
  <2> HIDE DEF Old, n
  <2>5. CASE j > p + 1
    <3>1. k > p + 1
      BY <2>5, <1>0, <1>3, <1>4
    <3>2. From(q, j) # From(q, k)
      BY <2>5, <3>1, <2>1, <1>4, FromInjective DEF n
    <3>3. QED
      BY <2>1, <2>3, <2>5, <3>1, <3>2
  <2>6. CASE j = p + 1
    <3>1. k > p + 1
      BY <2>6, <1>4
    <3>2. QED
      BY <2>6, <3>1, <2>1, <2>4, <1>3
  <2>7. CASE j <= p /\ k > p + 1
    <3>1. j # From(q, k)
      BY <2>7, <2>1, <1>0, <1>3
    <3>2. QED
      BY <2>7, <3>1, <2>1, <2>2, <2>3
  <2>8. CASE j <= p /\ k = p + 1
    BY <2>8, <2>2, <2>4, <1>3
  <2>9. CASE j <= p /\ k <= p
    BY <2>9, <2>2, <2>3, <1>4
  <2>10. QED
    BY <2>5, <2>6, <2>7, <2>8, <2>9, <1>0, <1>3
<1>5. ASSUME NEW j \in 1..(n + 1), NEW k \in 1..(n + 1),
             r[j].vector = r[k].vector
      PROVE  j = k
  <2>1. ~(j < k) /\ ~(k < j)
    BY <1>4, <1>5
  <2>2. QED
    BY <2>1, <1>0
<1>6. QED
  BY <1>2, <1>5 DEF Distinct

-----------------------------------------------------------------------------
(* The two operations on a queue                                           *)

LEMMA QueueFacts ==
  ASSUME NEW V, NEW L \in SUBSET Nat, NEW q \in Seq(Entries(V, L)),
         Ordered(q), NEW v \in V, NEW l \in L
  PROVE  /\ Queue(q, v, l) \in Seq(Entries(V, L))
         /\ Ordered(Queue(q, v, l))
         /\ \A w : Holds(Queue(q, v, l), w) <=> Holds(q, w) \/ w = v
<1> DEFINE e == [vector |-> v, level |-> l]
<1>1. e \in Entries(V, L) /\ e.vector = v
  BY DEF Entries
<1>2. CASE Holds(q, v)
  BY <1>2 DEF Queue
<1>3. CASE ~Holds(q, v)
  <2>1. Queue(q, v, l) = Sorted(q, e)
    BY <1>3 DEF Queue
  <2> HIDE DEF e
  <2>2. Sorted(q, e) \in Seq(Entries(V, L))
    BY <1>1, SortedShape DEF Ordered
  <2>3. Ascending(Sorted(q, e)) /\ Distinct(Sorted(q, e))
    BY <1>1, <1>3, SortedAscending, SortedDistinct DEF Ordered
  <2>4. ASSUME NEW w
        PROVE  Holds(Sorted(q, e), w) <=> Holds(q, w) \/ w = v
    BY <1>1, SortedHolds DEF Ordered
  <2>5. QED
    BY <2>1, <2>2, <2>3, <2>4 DEF Ordered
<1>4. QED
  BY <1>2, <1>3

LEMMA WithoutHolds ==
  ASSUME NEW V, NEW L \in SUBSET Nat, NEW q \in Seq(Entries(V, L)),
         Ordered(q), NEW i \in 1..Len(q)
  PROVE  /\ Without(q, i) \in Seq(Entries(V, L))
         /\ Ordered(Without(q, i))
         /\ \A w : Holds(Without(q, i), w) <=> Holds(q, w) /\ w # q[i].vector
<1> DEFINE n == Len(q)
           r == Without(q, i)
<1>0. n \in Nat /\ DOMAIN q = 1..n /\ n - 1 \in Nat
  BY SequenceParts
<1>1. /\ r \in Seq(Entries(V, L)) /\ DOMAIN r = 1..(n - 1)
      /\ \A k \in 1..(n - 1) : r[k] = IF k < i THEN q[k] ELSE q[k + 1]
      /\ \A k \in 1..n : k # i => \E m \in 1..(n - 1) : r[m] = q[k]
  BY WithoutFacts
<1> HIDE DEF r, n
<1> DEFINE at(k) == IF k < i THEN k ELSE k + 1
<1>2. ASSUME NEW k \in 1..(n - 1)
      PROVE  at(k) \in 1..n /\ at(k) # i /\ r[k] = q[at(k)]
  BY <1>0, <1>1 DEF n
<1>3. ASSUME NEW j \in 1..(n - 1), NEW k \in 1..(n - 1)
      PROVE  (j < k => at(j) < at(k)) /\ (at(j) = at(k) => j = k)
  BY <1>0 DEF n
<1> HIDE DEF at
<1>4. Ascending(r)
  BY <1>0, <1>1, <1>2, <1>3 DEF Ascending, Ordered
<1>5. Distinct(r)
  BY <1>0, <1>1, <1>2, <1>3 DEF Distinct, Ordered
<1>6. ASSUME NEW w
      PROVE  Holds(r, w) <=> Holds(q, w) /\ w # q[i].vector
  <2>1. ASSUME Holds(r, w) PROVE Holds(q, w) /\ w # q[i].vector
    <3>1. PICK k \in 1..(n - 1) : r[k].vector = w
      BY <2>1, <1>1 DEF Holds
    <3>2. at(k) \in DOMAIN q /\ q[at(k)].vector = w /\ at(k) # i
      BY <3>1, <1>2, <1>0
    <3>3. i \in DOMAIN q
      BY <1>0 DEF n
    <3>4. QED
      BY <3>2, <3>3 DEF Holds, Ordered, Distinct
  <2>2. ASSUME Holds(q, w), w # q[i].vector PROVE Holds(r, w)
    <3>1. PICK k \in 1..n : q[k].vector = w
      BY <2>2, <1>0 DEF Holds
    <3>2. PICK m \in 1..(n - 1) : r[m] = q[k]
      BY <3>1, <2>2, <1>1
    <3>3. QED
      BY <3>1, <3>2, <1>1 DEF Holds
  <2>3. QED
    BY <2>1, <2>2
<1>7. QED
  BY <1>1, <1>4, <1>5, <1>6 DEF Ordered, r

(* A set of positions that is not empty has a last one. *)
LEMMA LastPosition ==
  ASSUME NEW n \in Nat, NEW P \in SUBSET (1..n), P # {}
  PROVE  \E k \in P : \A m \in P : m <= k
<1> DEFINE H == {n - k : k \in P}
<1>1. H \in SUBSET Nat /\ H # {}
  <2>1. ASSUME NEW k \in P PROVE n - k \in Nat /\ n - k \in H
    OBVIOUS
  <2>2. QED
    BY <2>1
<1>2. PICK h \in H : \A m \in H : h <= m
  BY <1>1, Least
<1>3. PICK k \in P : h = n - k
  BY <1>2
<1>4. ASSUME NEW m \in P PROVE m <= k
  <2>1. n - k <= n - m
    BY <1>2, <1>3
  <2>2. QED
    BY <2>1
<1>5. QED
  BY <1>4

-----------------------------------------------------------------------------
(* The invariant                                                           *)

IInv == /\ TypeOK /\ QueuesOrdered
        /\ NothingLost /\ NothingInvented /\ StatusIsQueued

SourceEntries == Entries(Source, 0..MaxI)
SH2Entries    == Entries(Vector, 0..NMILevel)

LEMMA Queues ==
  ASSUME TypeOK, QueuesOrdered
  PROVE  /\ scuQ \in Seq(SourceEntries) /\ Ordered(scuQ)
         /\ sh2Q \in Seq(SH2Entries) /\ Ordered(sh2Q)
BY DEF TypeOK, QueuesOrdered, Ordered, SourceEntries, SH2Entries, Entries, Entry

LEMMA Limits == 0..MaxI \in SUBSET Nat /\ 0..NMILevel \in SUBSET Nat
                /\ 0..MaxI \subseteq 0..NMILevel
BY DEF MaxI, NMILevel

(* What a vector sent to the SH-2 does to its queue. *)
LEMMA Sent ==
  ASSUME TypeOK, QueuesOrdered, NEW v \in Vector, NEW l \in 0..NMILevel
  PROVE  /\ Queue(sh2Q, v, l) \in Seq(SH2Entries)
         /\ Ordered(Queue(sh2Q, v, l))
         /\ \A w : Holds(Queue(sh2Q, v, l), w) <=> Holds(sh2Q, w) \/ w = v
<1>1. sh2Q \in Seq(Entries(Vector, 0..NMILevel)) /\ Ordered(sh2Q)
  BY Queues DEF SH2Entries
<1> DEFINE L == 0..NMILevel
<1>2. L \in SUBSET Nat /\ l \in L /\ sh2Q \in Seq(Entries(Vector, L))
  BY <1>1, Limits
<1> HIDE DEF L
<1>3. /\ Queue(sh2Q, v, l) \in Seq(Entries(Vector, L))
      /\ Ordered(Queue(sh2Q, v, l))
      /\ \A w : Holds(Queue(sh2Q, v, l), w) <=> Holds(sh2Q, w) \/ w = v
  BY <1>1, <1>2, QueueFacts
<1>4. QED
  BY <1>3 DEF SH2Entries, L

(* What an interrupt queued in the SCU does to that queue. *)
LEMMA Masked ==
  ASSUME TypeOK, QueuesOrdered, NEW s \in Source, NEW l \in 0..MaxI
  PROVE  /\ Queue(scuQ, s, l) \in Seq(SourceEntries)
         /\ Ordered(Queue(scuQ, s, l))
         /\ \A w : Holds(Queue(scuQ, s, l), w) <=> Holds(scuQ, w) \/ w = s
<1>1. scuQ \in Seq(Entries(Source, 0..MaxI)) /\ Ordered(scuQ)
  BY Queues DEF SourceEntries
<1> DEFINE L == 0..MaxI
<1>2. L \in SUBSET Nat /\ l \in L /\ scuQ \in Seq(Entries(Source, L))
  BY <1>1, Limits
<1> HIDE DEF L
<1>3. /\ Queue(scuQ, s, l) \in Seq(Entries(Source, L))
      /\ Ordered(Queue(scuQ, s, l))
      /\ \A w : Holds(Queue(scuQ, s, l), w) <=> Holds(scuQ, w) \/ w = s
  BY <1>1, <1>2, QueueFacts
<1>4. QED
  BY <1>3 DEF SourceEntries, L

(* Only sources wait in the SCU. *)
LEMMA ScuHoldsSources ==
  ASSUME TypeOK, NEW v, Holds(scuQ, v)
  PROVE  v \in Source
<1>1. \A k \in DOMAIN scuQ : scuQ[k] \in [vector : Source, level : 0..MaxI]
  BY SequenceParts DEF TypeOK
<1>2. QED
  BY <1>1 DEF Holds

(* The invariant, for a step that changes the queues in a known way. *)
LEMMA InvFrom ==
  ASSUME scuQ' \in Seq(SourceEntries), Ordered(scuQ'),
         sh2Q' \in Seq(SH2Entries), Ordered(sh2Q'),
         IMS' \subseteq MaskBit, IST' \subseteq Source, I' \in 0..MaxI,
         due' \subseteq Vector, credit' \in [Vector -> 0..2],
         \A v \in Vector : credit'[v] <= Cap(v),
         \A v \in due' : Holds(scuQ', v) \/ Holds(sh2Q', v),
         \A v \in Vector : Copies(v)' <= credit'[v],
         \A s \in IST' : Holds(scuQ', s)
  PROVE  IInv'
BY DEF IInv, TypeOK, QueuesOrdered, NothingLost, NothingInvented,
       StatusIsQueued, Ordered, SourceEntries, SH2Entries, Entries, Entry

LEMMA EmptyQueue ==
  ASSUME NEW S
  PROVE  /\ <<>> \in Seq(S) /\ Ordered(<<>>)
         /\ \A v : ~Holds(<<>>, v)
BY DEF Ordered, Ascending, Distinct, Holds

LEMMA InvInit == Init => IInv
<1> SUFFICES ASSUME Init PROVE IInv
  OBVIOUS
<1>1. TypeOK
  BY EmptyQueue DEF Init, TypeOK, MaxI, Cap
<1>2. \A v : ~Holds(scuQ, v) /\ ~Holds(sh2Q, v)
  BY EmptyQueue DEF Init
<1>3. QED
  BY <1>1, <1>2, EmptyQueue
  DEF Init, IInv, QueuesOrdered, NothingLost, NothingInvented, StatusIsQueued,
      Ordered, Copies

LEMMA SourceFacts ==
  ASSUME NEW s \in Source
  PROVE  /\ Level[s] \in 0..MaxI /\ Level[s] \in 0..NMILevel
         /\ s \in Vector /\ Cap(s) = 2 /\ s # NMI
BY LevelAssumption, VectorAssumption, Limits DEF Vector, Cap

LEMMA OnChipFacts ==
  ASSUME NEW v \in OnChip, NEW l \in OnChipLevel
  PROVE  /\ l \in 0..NMILevel /\ v \in Vector /\ v \notin Source
         /\ Cap(v) = 1
BY LevelAssumption, VectorAssumption, Limits DEF Vector, Cap

LEMMA NMIFacts ==
  /\ NMILevel \in 0..NMILevel /\ NMI \in Vector /\ NMI \notin Source
  /\ Cap(NMI) = 1
BY VectorAssumption DEF Vector, Cap, NMILevel

LEMMA RaisedFacts ==
  ASSUME TypeOK, NEW v \in Vector, Raised(v)
  PROVE  /\ due' = due \union {v} /\ due' \subseteq Vector
         /\ credit \in [Vector -> 0..2]
         /\ \A w \in Vector : credit[w] <= Cap(w)
         /\ credit' \in [Vector -> 0..2]
         /\ \A w \in Vector : credit'[w] =
              IF w = v /\ credit[w] < Cap(w) THEN credit[w] + 1 ELSE credit[w]
BY DEF TypeOK, Raised, Cap

(* A vector is sent to the SH-2 and counted as raised: the SCU is not
   involved. *)
LEMMA RaisedAtSH2 ==
  ASSUME IInv, NEW v \in Vector, NEW l \in 0..NMILevel,
         sh2Q' = Queue(sh2Q, v, l), Raised(v), UNCHANGED <<IMS, IST, scuQ, I>>
  PROVE  IInv'
<1> USE DEF IInv
<1>1. /\ sh2Q' \in Seq(SH2Entries) /\ Ordered(sh2Q')
      /\ \A w : Holds(sh2Q', w) <=> Holds(sh2Q, w) \/ w = v
  BY Sent
<1>2. scuQ' \in Seq(SourceEntries) /\ Ordered(scuQ')
  BY Queues
<1>3. /\ due' = due \union {v} /\ due' \subseteq Vector
      /\ credit \in [Vector -> 0..2]
      /\ \A w \in Vector : credit[w] <= Cap(w)
      /\ credit' \in [Vector -> 0..2]
      /\ \A w \in Vector : credit'[w] =
           IF w = v /\ credit[w] < Cap(w) THEN credit[w] + 1 ELSE credit[w]
  BY RaisedFacts
<1>4. \A w \in Vector : credit'[w] <= Cap(w)
  BY <1>3 DEF Cap
<1>5. ASSUME NEW w \in due' PROVE Holds(scuQ', w) \/ Holds(sh2Q', w)
  BY <1>1, <1>3 DEF NothingLost
<1>6. ASSUME NEW w \in Vector PROVE Copies(w)' <= credit'[w]
  <2>1. Copies(w) <= credit[w]
    BY DEF NothingInvented
  <2>2. CASE w = v
    <3>1. Copies(w)' <= Cap(w)
      BY ScuHoldsSources DEF Copies, Cap
    <3>2. credit'[w] = IF credit[w] < Cap(w) THEN credit[w] + 1 ELSE credit[w]
      BY <1>3, <2>2
    <3>3. Copies(w)' <= Copies(w) + 1
      BY <1>1 DEF Copies
    <3>4. credit[w] \in 0..2 /\ Cap(w) \in Nat
      BY <1>3 DEF Cap
    <3>5. Copies(w) \in Nat /\ Copies(w)' \in Nat
      BY DEF Copies
    <3>6. QED
      BY <3>1, <3>2, <3>3, <3>4, <3>5, <2>1, <1>3
  <2>3. CASE w # v
    <3>1. Copies(w)' = Copies(w) /\ credit'[w] = credit[w]
      BY <1>1, <1>3, <2>3 DEF Copies
    <3>2. QED
      BY <3>1, <2>1
  <2>4. QED
    BY <2>2, <2>3
<1>7. QED
  BY <1>1, <1>2, <1>3, <1>4, <1>5, <1>6, InvFrom DEF TypeOK, StatusIsQueued

LEMMA InvSendInterrupt ==
  ASSUME IInv, NEW s \in Source, SendInterrupt(s)
  PROVE  IInv'
<1> USE DEF IInv
<1>1. CASE Mask[s] \notin IMS
  BY <1>1, SourceFacts, RaisedAtSH2 DEF SendInterrupt
<1>2. CASE Mask[s] \in IMS
  <2>1. /\ scuQ' = Queue(scuQ, s, Level[s]) /\ IST' = IST \union {s}
        /\ Raised(s) /\ UNCHANGED <<IMS, sh2Q, I>>
    BY <1>2 DEF SendInterrupt
  <2>2. /\ scuQ' \in Seq(SourceEntries) /\ Ordered(scuQ')
        /\ \A w : Holds(scuQ', w) <=> Holds(scuQ, w) \/ w = s
    BY <2>1, SourceFacts, Masked
  <2>3. sh2Q' \in Seq(SH2Entries) /\ Ordered(sh2Q')
    BY <2>1, Queues
  <2>4. /\ due' = due \union {s} /\ due' \subseteq Vector
        /\ credit \in [Vector -> 0..2]
        /\ \A w \in Vector : credit[w] <= Cap(w)
        /\ credit' \in [Vector -> 0..2]
        /\ \A w \in Vector : credit'[w] =
             IF w = s /\ credit[w] < Cap(w) THEN credit[w] + 1 ELSE credit[w]
    BY <2>1, SourceFacts, RaisedFacts
  <2>5. \A w \in Vector : credit'[w] <= Cap(w)
    BY <2>4 DEF Cap
  <2>6. ASSUME NEW w \in due' PROVE Holds(scuQ', w) \/ Holds(sh2Q', w)
    BY <2>1, <2>2, <2>4 DEF NothingLost
  <2>7. ASSUME NEW w \in Vector PROVE Copies(w)' <= credit'[w]
    <3>1. Copies(w) <= credit[w]
      BY DEF NothingInvented
    <3>2. CASE w = s
      <4>1. /\ credit'[w] = IF credit[w] < 2 THEN credit[w] + 1 ELSE credit[w]
            /\ credit[w] \in 0..2
        BY <2>4, <3>2, SourceFacts
      <4>2. Copies(w)' <= 2 /\ Copies(w)' <= Copies(w) + 1
        BY <2>1, <2>2 DEF Copies
      <4>3. Copies(w) \in Nat /\ Copies(w)' \in Nat
        BY DEF Copies
      <4>4. QED
        BY <4>1, <4>2, <4>3, <3>1
    <3>3. CASE w # s
      <4>1. Copies(w)' = Copies(w) /\ credit'[w] = credit[w]
        BY <2>1, <2>2, <2>4, <3>3 DEF Copies
      <4>2. QED
        BY <4>1, <3>1
    <3>4. QED
      BY <3>2, <3>3
  <2>8. \A t \in IST' : Holds(scuQ', t)
    BY <2>1, <2>2 DEF StatusIsQueued
  <2>9. QED
    BY <2>1, <2>2, <2>3, <2>4, <2>5, <2>6, <2>7, <2>8, InvFrom DEF TypeOK
<1>3. QED
  BY <1>1, <1>2

LEMMA InvSendOnChip ==
  ASSUME IInv, NEW v \in OnChip, NEW l \in OnChipLevel, SendOnChip(v, l)
  PROVE  IInv'
BY OnChipFacts, RaisedAtSH2 DEF SendOnChip

LEMMA InvSendNMI ==
  ASSUME IInv, SendNMI
  PROVE  IInv'
BY NMIFacts, RaisedAtSH2 DEF SendNMI

(* The interrupt that a write of the mask hands over. *)
LEMMA ChosenFacts ==
  ASSUME TypeOK, NEW ims, Open(scuQ, ims) # {}
  PROVE  LET i == Chosen(scuQ, ims)
         IN  /\ i \in 1..Len(scuQ) /\ i \in Open(scuQ, ims)
             /\ \A m \in Open(scuQ, ims) : m <= i
             /\ scuQ[i].vector \in Source /\ scuQ[i].level \in 0..MaxI
<1>1. /\ Len(scuQ) \in Nat /\ DOMAIN scuQ = 1..Len(scuQ)
      /\ \A k \in 1..Len(scuQ) :
           scuQ[k] \in [vector : Source, level : 0..MaxI]
  BY SequenceParts DEF TypeOK
<1>2. Open(scuQ, ims) \in SUBSET (1..Len(scuQ))
  BY <1>1 DEF Open
<1>3. \E k \in Open(scuQ, ims) : \A m \in Open(scuQ, ims) : m <= k
  BY <1>1, <1>2, LastPosition
<1>4. /\ Chosen(scuQ, ims) \in Open(scuQ, ims)
      /\ \A m \in Open(scuQ, ims) : m <= Chosen(scuQ, ims)
  BY <1>3 DEF Chosen
<1>5. QED
  BY <1>1, <1>2, <1>4

LEMMA HandOver ==
  ASSUME IInv, NEW ims, WriteIMS(ims), Open(scuQ, ims) # {}
  PROVE  LET i == Chosen(scuQ, ims)
             e == scuQ[i]
         IN  /\ sh2Q' = Queue(sh2Q, e.vector, e.level)
             /\ IST' = IST \ {e.vector}
             /\ scuQ' = Without(scuQ, i)
             /\ UNCHANGED <<I, due, credit>>
BY DEF WriteIMS, Cleared

LEMMA InvWriteIMS ==
  ASSUME IInv, NEW ims \in SUBSET MaskBit, WriteIMS(ims)
  PROVE  IInv'
<1> USE DEF IInv
<1>1. CASE Open(scuQ, ims) = {}
  BY <1>1 DEF WriteIMS, TypeOK, QueuesOrdered, NothingLost,
              NothingInvented, StatusIsQueued, Copies
<1>2. CASE Open(scuQ, ims) # {}
  <2> DEFINE i == Chosen(scuQ, ims)
             e == scuQ[i]
  <2>1. /\ sh2Q' = Queue(sh2Q, e.vector, e.level)
        /\ IST' = IST \ {e.vector}
        /\ scuQ' = Without(scuQ, i)
        /\ UNCHANGED <<I, due, credit>> /\ IMS' = ims
    BY <1>2, HandOver DEF WriteIMS
  <2>2. i \in 1..Len(scuQ) /\ e.vector \in Source /\ e.level \in 0..MaxI
    BY <1>2, ChosenFacts
  <2> HIDE DEF i
  <2>3. e.vector \in Vector /\ e.level \in 0..NMILevel
    BY <2>2, SourceFacts, Limits
  <2>4. /\ sh2Q' \in Seq(SH2Entries) /\ Ordered(sh2Q')
        /\ \A w : Holds(sh2Q', w) <=> Holds(sh2Q, w) \/ w = e.vector
    BY <2>1, <2>3, Sent
  <2>5. /\ scuQ' \in Seq(SourceEntries) /\ Ordered(scuQ')
        /\ \A w : Holds(scuQ', w) <=> Holds(scuQ, w) /\ w # e.vector
    <3>1. scuQ \in Seq(Entries(Source, 0..MaxI)) /\ Ordered(scuQ)
      BY Queues DEF SourceEntries
    <3>2. QED
      BY <3>1, <2>1, <2>2, Limits, WithoutHolds DEF SourceEntries
  <2>6. Holds(scuQ, e.vector)
    BY <2>2, SequenceParts DEF TypeOK, Holds
  <2> HIDE DEF e
  <2>7. ASSUME NEW w \in Vector PROVE Copies(w)' <= credit'[w]
    <3>1. Copies(w) <= credit[w] /\ credit[w] \in 0..2
      BY DEF NothingInvented, TypeOK
    <3>2. Copies(w)' <= Copies(w)
      BY <2>4, <2>5, <2>6 DEF Copies
    <3>3. Copies(w) \in Nat /\ Copies(w)' \in Nat
      BY DEF Copies
    <3>4. QED
      BY <3>1, <3>2, <3>3, <2>1
  <2>8. \A w \in due' : Holds(scuQ', w) \/ Holds(sh2Q', w)
    BY <2>1, <2>4, <2>5 DEF NothingLost
  <2>9. \A s \in IST' : Holds(scuQ', s)
    BY <2>1, <2>5 DEF StatusIsQueued
  <2>10. QED
    BY <2>1, <2>4, <2>5, <2>7, <2>8, <2>9, InvFrom DEF TypeOK
<1>3. QED
  BY <1>1, <1>2

LEMMA InvWriteIST ==
  ASSUME IInv, NEW ist \in SUBSET Source, WriteIST(ist)
  PROVE  IInv'
BY DEF IInv, WriteIST, TypeOK, QueuesOrdered, NothingLost, NothingInvented,
       StatusIsQueued, Copies

LEMMA Taken ==
  ASSUME IInv, HandleInterrupts
  PROVE  LET top == sh2Q[Len(sh2Q)]
         IN  /\ Len(sh2Q) \in 1..Len(sh2Q)
             /\ top.vector \in Vector /\ top.level \in 0..NMILevel
             /\ Holds(sh2Q, top.vector)
             /\ sh2Q' \in Seq(SH2Entries) /\ Ordered(sh2Q')
             /\ \A w : Holds(sh2Q', w) <=> Holds(sh2Q, w) /\ w # top.vector
<1> USE DEF IInv
<1>1. sh2Q \in Seq(SH2Entries) /\ Ordered(sh2Q)
  BY Queues
<1>2. /\ Len(sh2Q) \in Nat /\ DOMAIN sh2Q = 1..Len(sh2Q)
      /\ \A k \in 1..Len(sh2Q) : sh2Q[k] \in SH2Entries
  BY <1>1, SequenceParts
<1>3. Len(sh2Q) \in 1..Len(sh2Q)
  BY <1>1, <1>2 DEF HandleInterrupts
<1>4. /\ sh2Q[Len(sh2Q)].vector \in Vector
      /\ sh2Q[Len(sh2Q)].level \in 0..NMILevel
  BY <1>2, <1>3 DEF SH2Entries, Entries
<1>5. sh2Q \in Seq(Entries(Vector, 0..NMILevel))
  BY <1>1 DEF SH2Entries
<1> DEFINE r == Without(sh2Q, Len(sh2Q))
<1>6. /\ r \in Seq(SH2Entries) /\ Ordered(r)
      /\ \A w : Holds(r, w) <=> Holds(sh2Q, w) /\ w # sh2Q[Len(sh2Q)].vector
  BY <1>1, <1>3, <1>5, Limits, WithoutHolds DEF SH2Entries
<1>7. sh2Q' = r
  BY DEF HandleInterrupts
<1>8. QED
  BY <1>2, <1>3, <1>4, <1>6, <1>7 DEF Holds

LEMMA InvHandleInterrupts ==
  ASSUME IInv, HandleInterrupts
  PROVE  IInv'
<1> USE DEF IInv
<1> DEFINE top == sh2Q[Len(sh2Q)]
<1>1. /\ top.vector \in Vector /\ top.level \in 0..NMILevel
      /\ Holds(sh2Q, top.vector)
      /\ sh2Q' \in Seq(SH2Entries) /\ Ordered(sh2Q')
      /\ \A w : Holds(sh2Q', w) <=> Holds(sh2Q, w) /\ w # top.vector
  BY Taken
<1>2. /\ I' = top.level % (MaxI + 1) /\ due' = due \ {top.vector}
      /\ credit' = [credit EXCEPT ![top.vector] = @ - 1]
      /\ UNCHANGED <<IMS, IST, scuQ>>
  BY DEF HandleInterrupts, FourBits
<1> HIDE DEF top
<1>3. I' \in 0..MaxI
  BY <1>1, <1>2 DEF MaxI, NMILevel
<1>4. credit \in [Vector -> 0..2]
  BY DEF TypeOK
<1>5. Copies(top.vector) \in 1..2
  BY <1>1 DEF Copies
<1>6. credit[top.vector] \in 1..2
  BY <1>1, <1>4, <1>5 DEF NothingInvented
<1>7. /\ credit' \in [Vector -> 0..2]
      /\ \A w \in Vector : credit'[w] =
           IF w = top.vector THEN credit[w] - 1 ELSE credit[w]
  BY <1>1, <1>2, <1>4, <1>6
<1>8. \A w \in Vector : credit'[w] <= Cap(w)
  BY <1>4, <1>7 DEF TypeOK, Cap
<1>9. ASSUME NEW w \in Vector PROVE Copies(w)' <= credit'[w]
  <2>1. Copies(w) <= credit[w]
    BY DEF NothingInvented
  <2>2. Copies(w)' = IF w = top.vector THEN Copies(w) - 1 ELSE Copies(w)
    BY <1>1, <1>2 DEF Copies
  <2>3. credit[w] \in 0..2 /\ Copies(w) \in Nat
    BY <1>4 DEF Copies
  <2>4. QED
    BY <2>1, <2>2, <2>3, <1>7
<1>10. \A w \in due' : Holds(scuQ', w) \/ Holds(sh2Q', w)
  BY <1>1, <1>2 DEF NothingLost
<1>11. \A s \in IST' : Holds(scuQ', s)
  BY <1>2 DEF StatusIsQueued
<1>12. scuQ' \in Seq(SourceEntries) /\ Ordered(scuQ')
  BY <1>2, Queues
<1>13. QED
  BY <1>1, <1>2, <1>3, <1>7, <1>8, <1>9, <1>10, <1>11, <1>12, InvFrom
  DEF TypeOK

LEMMA InvSetI ==
  ASSUME IInv, NEW i \in ILevel, SetI(i)
  PROVE  IInv'
BY LevelAssumption
DEF IInv, SetI, TypeOK, QueuesOrdered, NothingLost, NothingInvented,
    StatusIsQueued, Copies

LEMMA InvClockChange ==
  ASSUME IInv, ClockChange
  PROVE  IInv'
<1> USE DEF IInv
<1>1. /\ sh2Q' \in Seq(SH2Entries) /\ Ordered(sh2Q')
      /\ \A w : Holds(sh2Q', w) <=> Holds(sh2Q, w) \/ w = NMI
  BY NMIFacts, Sent DEF ClockChange
<1>2. /\ scuQ' \in Seq(SourceEntries) /\ Ordered(scuQ')
      /\ \A w : ~Holds(scuQ', w)
  BY EmptyQueue DEF ClockChange
<1>3. /\ IMS' = MaskBit /\ IST' = {} /\ UNCHANGED I
      /\ due' = {v \in due : Holds(sh2Q, v)} \union {NMI}
      /\ credit' = [v \in Vector |->
           IF v = NMI THEN 1
           ELSE credit[v] - (IF Holds(scuQ, v) THEN 1 ELSE 0)]
  BY DEF ClockChange
<1>4. ASSUME NEW w \in Vector
      PROVE  /\ credit'[w] \in 0..2 /\ credit'[w] <= Cap(w)
             /\ Copies(w)' <= credit'[w]
  <2>1. credit[w] \in 0..2 /\ credit[w] <= Cap(w) /\ Copies(w) <= credit[w]
    BY DEF TypeOK, NothingInvented
  <2>2. CASE w = NMI
    <3>1. credit'[w] = 1 /\ Cap(w) = 1
      BY <2>2, <1>3, NMIFacts
    <3>2. Copies(w)' <= 1
      BY <1>2 DEF Copies
    <3>3. QED
      BY <3>1, <3>2
  <2>3. CASE w # NMI
    <3>1. credit'[w] = credit[w] - (IF Holds(scuQ, w) THEN 1 ELSE 0)
      BY <2>3, <1>3
    <3>2. Copies(w)' = Copies(w) - (IF Holds(scuQ, w) THEN 1 ELSE 0)
      BY <2>3, <1>1, <1>2 DEF Copies
    <3>3. Copies(w) \in 0..2 /\ (Holds(scuQ, w) => Copies(w) >= 1)
      BY DEF Copies
    <3>4. Cap(w) \in 1..2
      BY DEF Cap
    <3>5. QED
      BY <3>1, <3>2, <3>3, <3>4, <2>1
  <2>4. QED
    BY <2>2, <2>3
<1>5. credit' \in [Vector -> 0..2]
  BY <1>3, <1>4
<1>6. due' \subseteq Vector
  BY <1>3, NMIFacts DEF TypeOK
<1>7. \A w \in due' : Holds(scuQ', w) \/ Holds(sh2Q', w)
  BY <1>1, <1>3
<1>8. I' \in 0..MaxI
  BY <1>3 DEF TypeOK
<1>9. QED
  BY <1>1, <1>2, <1>3, <1>4, <1>5, <1>6, <1>7, <1>8, InvFrom

LEMMA InvReset ==
  ASSUME Reset
  PROVE  IInv'
<1>1. TypeOK'
  BY EmptyQueue DEF Reset, TypeOK, MaxI, Cap
<1>2. \A v : ~Holds(scuQ', v) /\ ~Holds(sh2Q', v)
  BY EmptyQueue DEF Reset
<1>3. QED
  BY <1>1, <1>2, EmptyQueue
  DEF Reset, IInv, QueuesOrdered, NothingLost, NothingInvented,
      StatusIsQueued, Ordered, Copies

LEMMA InvStep == IInv /\ [Next]_vars => IInv'
<1> SUFFICES ASSUME IInv, [Next]_vars PROVE IInv'
  OBVIOUS
<1>1. CASE \E s \in Source : SendInterrupt(s)
  BY <1>1, InvSendInterrupt
<1>2. CASE \E v \in OnChip, l \in OnChipLevel : SendOnChip(v, l)
  BY <1>2, InvSendOnChip
<1>3. CASE SendNMI
  BY <1>3, InvSendNMI
<1>4. CASE \E ims \in SUBSET MaskBit : WriteIMS(ims)
  BY <1>4, InvWriteIMS
<1>5. CASE \E ist \in SUBSET Source : WriteIST(ist)
  BY <1>5, InvWriteIST
<1>6. CASE HandleInterrupts
  BY <1>6, InvHandleInterrupts
<1>7. CASE \E i \in ILevel : SetI(i)
  BY <1>7, InvSetI
<1>8. CASE ClockChange
  BY <1>8, InvClockChange
<1>9. CASE Reset
  BY <1>9, InvReset
<1>10. CASE UNCHANGED vars
  BY <1>10 DEF vars, IInv, TypeOK, QueuesOrdered, NothingLost,
               NothingInvented, StatusIsQueued, Copies
<1>11. QED
  BY <1>1, <1>2, <1>3, <1>4, <1>5, <1>6, <1>7, <1>8, <1>9, <1>10 DEF Next

(* The variables keep their types, and both queues stay sorted and hold a
   vector once: for any sources, levels and masks, and any sequence of
   writes. *)
THEOREM TypeCorrect == Spec => [](TypeOK /\ QueuesOrdered)
<1>1. IInv => TypeOK /\ QueuesOrdered
  BY DEF IInv
<1>2. QED
  BY <1>1, InvInit, InvStep, PTL DEF Spec

(* Every interrupt that was raised and not taken waits in one of the queues. *)
THEOREM InterruptsAreKept == Spec => []NothingLost
<1>1. IInv => NothingLost
  BY DEF IInv
<1>2. QED
  BY <1>1, InvInit, InvStep, PTL DEF Spec

(* No more of them wait than were raised. *)
THEOREM InterruptsAreReal == Spec => []NothingInvented
<1>1. IInv => NothingInvented
  BY DEF IInv
<1>2. QED
  BY <1>1, InvInit, InvStep, PTL DEF Spec

(* A status bit stands for an interrupt in the SCU's queue. *)
THEOREM StatusBitsAreReal == Spec => []StatusIsQueued
<1>1. IInv => StatusIsQueued
  BY DEF IInv
<1>2. QED
  BY <1>1, InvInit, InvStep, PTL DEF Spec

-----------------------------------------------------------------------------
(* Highest level first                                                     *)

LeavesSH2 == \A k \in DOMAIN sh2Q : ~Holds(sh2Q', sh2Q[k].vector) =>
               \A m \in DOMAIN sh2Q' : sh2Q'[m].level <= sh2Q[k].level
LeavesSCU == \A k \in DOMAIN scuQ : ~Holds(scuQ', scuQ[k].vector) =>
               \A m \in Open(scuQ', IMS') : scuQ'[m].level <= scuQ[k].level

(* A step that keeps what a queue holds takes nothing out of it. *)
LEMMA NoneLeaves ==
  /\ (\A w : Holds(sh2Q, w) => Holds(sh2Q', w)) => LeavesSH2
  /\ (\A w : Holds(scuQ, w) => Holds(scuQ', w)) => LeavesSCU
BY DEF Holds, LeavesSH2, LeavesSCU

(* A sorted queue without its last entry has nothing above that entry. *)
LEMMA TopLeaves ==
  ASSUME IInv, HandleInterrupts
  PROVE  LeavesSH2
<1> DEFINE n == Len(sh2Q)
<1>1. sh2Q \in Seq(SH2Entries) /\ Ordered(sh2Q)
  BY Queues DEF IInv
<1>2. n \in Nat /\ n \in 1..n /\ DOMAIN sh2Q = 1..n
  BY <1>1, Taken, SequenceParts
<1>3. /\ sh2Q' = Without(sh2Q, n) /\ DOMAIN sh2Q' = 1..(n - 1)
      /\ \A k \in 1..(n - 1) : sh2Q'[k] = sh2Q[k]
  <2>1. sh2Q' = Without(sh2Q, n)
    BY DEF HandleInterrupts
  <2>2. \A k \in 1..(n - 1) :
          Without(sh2Q, n)[k] = IF k < n THEN sh2Q[k] ELSE sh2Q[k + 1]
    BY <1>1, <1>2, WithoutFacts
  <2>3. DOMAIN Without(sh2Q, n) = 1..(n - 1)
    BY <1>1, <1>2, WithoutFacts
  <2>4. QED
    BY <1>2, <2>1, <2>2, <2>3
<1> HIDE DEF n
<1>4. ASSUME NEW k \in 1..n, k < n PROVE Holds(sh2Q', sh2Q[k].vector)
  <2>1. k \in 1..(n - 1)
    BY <1>2, <1>4
  <2>2. QED
    BY <2>1, <1>3 DEF Holds
<1>5. ASSUME NEW m \in DOMAIN sh2Q' PROVE sh2Q'[m].level <= sh2Q[n].level
  <2>1. m \in 1..n /\ m < n /\ sh2Q'[m] = sh2Q[m]
    BY <1>2, <1>3
  <2>2. QED
    BY <2>1, <1>1, <1>2 DEF Ordered, Ascending
<1>6. QED
  <2>1. ASSUME NEW k \in 1..n, ~Holds(sh2Q', sh2Q[k].vector) PROVE k = n
    BY <2>1, <1>4, <1>2
  <2>2. QED
    BY <2>1, <1>5, <1>2 DEF LeavesSH2

(* The last interrupt that the mask lets through leaves; the others that it
   lets through were before it in the sorted queue. *)
LEMMA ChosenLeaves ==
  ASSUME IInv, NEW ims \in SUBSET MaskBit, WriteIMS(ims)
  PROVE  LeavesSCU
<1> USE DEF IInv
<1>1. CASE Open(scuQ, ims) = {}
  BY <1>1, NoneLeaves DEF WriteIMS
<1>2. CASE Open(scuQ, ims) # {}
  <2> DEFINE i == Chosen(scuQ, ims)
             n == Len(scuQ)
  <2>1. scuQ' = Without(scuQ, i) /\ IMS' = ims
    BY <1>2, HandOver DEF WriteIMS
  <2>2. /\ i \in 1..n /\ \A m \in Open(scuQ, ims) : m <= i
        /\ scuQ[i].level \in 0..MaxI
    BY <1>2, ChosenFacts
  <2> HIDE DEF i
  <2>3. scuQ \in Seq(SourceEntries) /\ Ordered(scuQ)
    BY Queues
  <2>4. n \in Nat /\ DOMAIN scuQ = 1..n
    BY <2>3, SequenceParts
  <2>5. /\ DOMAIN scuQ' = 1..(n - 1)
        /\ \A k \in 1..(n - 1) :
             scuQ'[k] = IF k < i THEN scuQ[k] ELSE scuQ[k + 1]
        /\ \A k \in 1..n : k # i =>
             \E m \in 1..(n - 1) : scuQ'[m] = scuQ[k]
    BY <2>1, <2>2, <2>3, WithoutFacts
  <2> HIDE DEF n
  <2>6. ASSUME NEW m \in Open(scuQ', IMS')
        PROVE  scuQ'[m].level <= scuQ[i].level
    <3>1. m \in 1..(n - 1) /\ Mask[scuQ'[m].vector] \notin ims
      BY <2>1, <2>5 DEF Open
    <3>2. PICK k \in 1..n : scuQ'[m] = scuQ[k]
      BY <3>1, <2>4, <2>5
    <3>3. k \in Open(scuQ, ims)
      BY <3>1, <3>2, <2>4 DEF Open
    <3>4. k <= i
      BY <3>3, <2>2
    <3>5. CASE k = i
      BY <3>5, <3>2, <2>2 DEF MaxI
    <3>6. CASE k < i
      BY <3>6, <3>2, <2>2, <2>3, <2>4 DEF Ordered, Ascending
    <3>7. QED
      BY <3>4, <3>5, <3>6, <2>2, <2>4
  <2>7. ASSUME NEW k \in 1..n, ~Holds(scuQ', scuQ[k].vector) PROVE k = i
    BY <2>5, <2>7 DEF Holds
  <2>8. QED
    BY <2>4, <2>6, <2>7 DEF LeavesSCU
<1>3. QED
  BY <1>1, <1>2

LEMMA LeavesStep == IInv /\ [Next]_vars => LeavesSH2 /\ LeavesSCU
<1> SUFFICES ASSUME IInv, [Next]_vars PROVE LeavesSH2 /\ LeavesSCU
  OBVIOUS
<1> USE DEF IInv
<1>1. CASE \E s \in Source : SendInterrupt(s)
  <2>1. PICK s \in Source : SendInterrupt(s)
    BY <1>1
  <2>2. /\ \A w : Holds(sh2Q, w) => Holds(sh2Q', w)
        /\ \A w : Holds(scuQ, w) => Holds(scuQ', w)
    BY <2>1, SourceFacts, Sent, Masked DEF SendInterrupt
  <2>3. QED
    BY <2>2, NoneLeaves
<1>2. CASE \E v \in OnChip, l \in OnChipLevel : SendOnChip(v, l)
  <2>1. PICK v \in OnChip, l \in OnChipLevel : SendOnChip(v, l)
    BY <1>2
  <2>2. /\ \A w : Holds(sh2Q, w) => Holds(sh2Q', w)
        /\ \A w : Holds(scuQ, w) => Holds(scuQ', w)
    BY <2>1, OnChipFacts, Sent DEF SendOnChip
  <2>3. QED
    BY <2>2, NoneLeaves
<1>3. CASE SendNMI
  <2>1. /\ \A w : Holds(sh2Q, w) => Holds(sh2Q', w)
        /\ \A w : Holds(scuQ, w) => Holds(scuQ', w)
    BY <1>3, NMIFacts, Sent DEF SendNMI
  <2>2. QED
    BY <2>1, NoneLeaves
<1>4. CASE \E ims \in SUBSET MaskBit : WriteIMS(ims)
  <2>1. PICK ims \in SUBSET MaskBit : WriteIMS(ims)
    BY <1>4
  <2>2. CASE Open(scuQ, ims) = {}
    BY <2>1, <2>2, NoneLeaves DEF WriteIMS
  <2>3. CASE Open(scuQ, ims) # {}
    <3> DEFINE e == scuQ[Chosen(scuQ, ims)]
    <3>1. e.vector \in Vector /\ e.level \in 0..NMILevel
      BY <2>3, ChosenFacts, SourceFacts, Limits
    <3>2. sh2Q' = Queue(sh2Q, e.vector, e.level)
      BY <2>1, <2>3, HandOver
    <3>3. \A w : Holds(sh2Q, w) => Holds(sh2Q', w)
      BY <3>1, <3>2, Sent
    <3>4. QED
      BY <3>3, <2>1, NoneLeaves, ChosenLeaves
  <2>4. QED
    BY <2>2, <2>3
<1>5. CASE \E ist \in SUBSET Source : WriteIST(ist)
  BY <1>5, NoneLeaves DEF WriteIST
<1>6. CASE HandleInterrupts
  BY <1>6, NoneLeaves, TopLeaves DEF HandleInterrupts
<1>7. CASE \E i \in ILevel : SetI(i)
  BY <1>7, NoneLeaves DEF SetI
<1>8. CASE ClockChange
  <2>1. \A w : Holds(sh2Q, w) => Holds(sh2Q', w)
    BY <1>8, NMIFacts, Sent DEF ClockChange
  <2>2. LeavesSCU
    BY <1>8 DEF ClockChange, LeavesSCU, Open
  <2>3. QED
    BY <2>1, <2>2, NoneLeaves
<1>9. CASE Reset
  BY <1>9 DEF Reset, LeavesSH2, LeavesSCU, Open
<1>10. CASE UNCHANGED vars
  BY <1>10, NoneLeaves DEF vars
<1>11. QED
  BY <1>1, <1>2, <1>3, <1>4, <1>5, <1>6, <1>7, <1>8, <1>9, <1>10 DEF Next

(* Neither queue lets an interrupt go while it could let one of a higher
   level go. *)
THEOREM HighestFirstHolds == Spec => HighestFirst
<1>1. IInv /\ [Next]_vars => [LeavesSH2 /\ LeavesSCU]_vars
  BY LeavesStep
<1>2. QED
  BY <1>1, InvInit, InvStep, PTL
  DEF Spec, HighestFirst, LeavesSH2, LeavesSCU

-----------------------------------------------------------------------------
(* The size of the queues                                                  *)

LEMMA DistinctBound ==
  ASSUME NEW V, IsFiniteSet(V), NEW q, Len(q) \in Nat, DOMAIN q = 1..Len(q),
         \A k \in 1..Len(q) : q[k].vector \in V, Distinct(q)
  PROVE  Len(q) <= Cardinality(V)
<1> DEFINE f == [k \in 1..Len(q) |-> q[k].vector]
<1>1. f \in Injection(1..Len(q), V)
  BY DEF Injection, IsInjective, Distinct
<1>2. Cardinality(1..Len(q)) <= Cardinality(V)
  BY <1>1, FS_Injection
<1>3. Cardinality(1..Len(q)) = Len(q)
  BY FS_Interval
<1>4. QED
  BY <1>2, <1>3

(* The arrays never hold more entries than there are vectors, so the 30
   entries of the SCU are enough for its 30 sources. *)
THEOREM QueuesFit ==
  ASSUME IsFiniteSet(Vector)
  PROVE  Spec => [](/\ Len(scuQ) <= Cardinality(Source)
                    /\ Len(sh2Q) <= Cardinality(Vector))
<1>1. ASSUME IInv
      PROVE  /\ Len(scuQ) <= Cardinality(Source)
             /\ Len(sh2Q) <= Cardinality(Vector)
  <2>1. IsFiniteSet(Source)
    BY FS_Subset DEF Vector
  <2>2. /\ Len(scuQ) \in Nat /\ DOMAIN scuQ = 1..Len(scuQ)
        /\ \A k \in 1..Len(scuQ) :
             scuQ[k] \in [vector : Source, level : 0..MaxI]
        /\ Len(sh2Q) \in Nat /\ DOMAIN sh2Q = 1..Len(sh2Q)
        /\ \A k \in 1..Len(sh2Q) : sh2Q[k] \in Entry
    BY <1>1, SequenceParts DEF IInv, TypeOK
  <2>3. Distinct(scuQ) /\ Distinct(sh2Q)
    BY <1>1 DEF IInv, QueuesOrdered
  <2>4. /\ \A k \in 1..Len(scuQ) : scuQ[k].vector \in Source
        /\ \A k \in 1..Len(sh2Q) : sh2Q[k].vector \in Vector
    BY <2>2 DEF Entry
  <2>5. QED
    BY <2>1, <2>2, <2>3, <2>4, DistinctBound
<1>2. QED
  BY <1>1, InvInit, InvStep, PTL DEF Spec
=============================================================================
