---------------------------- MODULE RecordProofs ----------------------------
(***************************************************************************)
(* Proofs about the records of a dump: what their cells are masked to      *)
(* (RecordMasking) and which of them a subset has (Subset).  The two       *)
(* models share nothing; their proofs need the same facts of loops.        *)
(*                                                                         *)
(* Masking is for any tables, rules, composite keys and records.           *)
(* mask_record is two folds over a record that is half masked by then.     *)
(* Both have an invariant (KeyedBy, RuledBy): what the composite keys and  *)
(* the rules so far have made of each cell is said of the raw record.  In  *)
(* a table that is Orderly, the column that the next rule masks, and the   *)
(* one its condition reads, are as they came.  So Result says what a       *)
(* record is masked to and what is counted for it.                         *)
(*                                                                         *)
(* Subsetting is for any dumps, foreign keys and limits.  Each pass has an *)
(* invariant over the rows it has met: HasInferred over the DDL lines,     *)
(* HasCollected for the sample of the root table, HasPassed for the second *)
(* pass, which joins what is counted (Tally), the order of the rows        *)
(* (IsSelected), the rows of the root table (RootsAmong) and, where the    *)
(* foreign keys are a tree whose parents come first, which rows deserve to *)
(* be kept (Cascades).  Statements of many rows are loops inside a step,   *)
(* so these invariants are first those of one more row, then of a          *)
(* statement, then of a step (SubsetInv).                                  *)
(***************************************************************************)
EXTENDS RecordMasking, Subset, FiniteSetTheorems, SequenceTheorems, TLAPS

-----------------------------------------------------------------------------
(* Numbers and sequences. *)

LEMMA LeastOfNumbers ==
  ASSUME NEW T, T \subseteq Nat, T # {}
  PROVE  \E n \in T : \A m \in T : n <= m
<1>1. PICK n \in T : \A m \in T : ~(<<m, n>> \in OpToRel(<, Nat))
  BY NatLessThanWellFounded, WFMin
<1>2. \A m \in T : ~(m < n)
  BY <1>1 DEF OpToRel
<1>. QED
  BY <1>2

(* Sequences are concatenated in whatever order. *)
LEMMA ConcatThree ==
  ASSUME NEW S, NEW s \in Seq(S), NEW t \in Seq(S), NEW u \in Seq(S)
  PROVE  (s \o t) \o u = s \o (t \o u)
BY ConcatAssociative

LEMMA ConcatAppend ==
  ASSUME NEW S, NEW s \in Seq(S), NEW t \in Seq(S), NEW x \in S
  PROVE  s \o Append(t, x) = Append(s \o t, x) /\ s \o Append(t, x) \in Seq(S)
<1>. PICK u : u = <<x>>
  OBVIOUS
<1>1. Append(t, x) = t \o u /\ u \in Seq(S) /\ Append(t, x) \in Seq(S)
  BY AppendIsConcat, AppendProperties
<1>2. s \o t \in Seq(S) /\ s \o Append(t, x) \in Seq(S)
  BY <1>1, ConcatProperties
<1>3. Append(s \o t, x) = (s \o t) \o u
  BY <1>2, AppendIsConcat
<1>4. (s \o t) \o u = s \o (t \o u)
  BY <1>1, ConcatThree
<1>. QED
  BY <1>1, <1>2, <1>3, <1>4

(* The first n elements, and one more. *)
LEMMA PrefixNext ==
  ASSUME NEW S, NEW s \in Seq(S), NEW n \in 1 .. Len(s)
  PROVE  /\ SubSeq(s, 1, n) = Append(SubSeq(s, 1, n - 1), s[n])
         /\ SubSeq(s, 1, n - 1) \in Seq(S) /\ s[n] \in S
         /\ SubSeq(s, 1, n) \in Seq(S)
<1>1. n - 1 \in 0 .. Len(s) /\ n - 1 < n /\ Len(s) \in Nat
  OBVIOUS
<1>2. s[n] \in S
  BY ElementOfSeq
<1>3. SubSeq(s, 1, n - 1) \in Seq(S) /\ SubSeq(s, 1, n) \in Seq(S)
  <2>1. \A i \in 1 .. n : s[i] \in S
    BY ElementOfSeq
  <2>2. \A i \in 1 .. n - 1 : s[i] \in S
    BY <2>1
  <2>. QED
    BY <2>1, <2>2, SubSeqProperties
<1>4. SubSeq(s, 1, n) = SubSeq(s, 1, n - 1) \o <<s[n]>>
  BY SubSeqRecursiveSecond
<1>5. SubSeq(s, 1, n) = Append(SubSeq(s, 1, n - 1), s[n])
  BY <1>2, <1>3, <1>4, AppendIsConcat
<1>. QED
  BY <1>2, <1>3, <1>5

-----------------------------------------------------------------------------
(* RecordMasking: the loops, and what is said about them. *)

CF == INSTANCE FoldLaws WITH Op <- ApplyComposite
RF == INSTANCE FoldLaws WITH Op <- ApplyRule

(* Composite key i of the record's table puts a value into column k. *)
Hits(r, i, k) ==
  LET c == Composites[r.table][i] IN k \in ToSet(c.cols) /\ Complete(c, r.cells)

(* Rule i masks column k, as it should be decided: of the raw record. *)
Applies(r, i, k) ==
  LET rule == Rules[r.table][i] IN rule.col = k /\ Holds(rule, r.cells)

(* What a cell of the record may hold. *)
Values(r) ==
  {r.cells[k] : k \in DOMAIN r.cells}
    \cup {Part(c, r.cells, k) : c \in ToSet(Composites[r.table]), k \in DOMAIN r.cells}
    \cup {Transform(rule, r.cells[k]) : rule \in ToSet(Rules[r.table]), k \in DOMAIN r.cells}

Accumulator(r) == [raw : {r.cells}, cells : [DOMAIN r.cells -> Values(r)], count : Nat]

Differing(r, cells) == {k \in DOMAIN r.cells : cells[k] # r.cells[k]}

(* After the first n composite keys. *)
KeyedBy(r, n) ==
  {a \in Accumulator(r) :
     /\ \A k \in DOMAIN r.cells :
          /\ \A i \in 1 .. n :
               Hits(r, i, k) => a.cells[k] = Part(Composites[r.table][i], r.cells, k)
          /\ (\A i \in 1 .. n : ~Hits(r, i, k)) => a.cells[k] = r.cells[k]
     /\ a.count = Cardinality(Differing(r, a.cells))}

(* After the first n rules, too. *)
RuledCells(r, n, cells) ==
  \A k \in DOMAIN r.cells :
    /\ \A i \in 1 .. n :
         Applies(r, i, k) => cells[k] = Transform(Rules[r.table][i], r.cells[k])
    /\ (\A i \in 1 .. n : ~Applies(r, i, k)) => cells[k] = ApplyComposites(r).cells[k]

KeepsNulls(r) ==
  \A rule \in ToSet(Rules[r.table]) :
    rule.col \in DOMAIN r.cells /\ r.cells[rule.col] = Null => rule.keepNull

RuledBy(r, n) ==
  {a \in Accumulator(r) :
     /\ RuledCells(r, n, a.cells)
     /\ KeepsNulls(r) => a.count = Cardinality(Differing(r, a.cells))}

-----------------------------------------------------------------------------
(* The operators of the community modules are the same in the instances. *)
LEMMA SameOperators ==
  /\ \A r : ApplyComposites(r)
              = CF!FoldLeft(ApplyComposite, NothingMasked(r), Composites[r.table])
  /\ \A a, s : FoldLeft(ApplyRule, a, s) = RF!FoldLeft(ApplyRule, a, s)
<1>1. ASSUME NEW r
      PROVE  ApplyComposites(r)
               = CF!FoldLeft(ApplyComposite, NothingMasked(r), Composites[r.table])
  BY DEF ApplyComposites, FoldLeft, CF!FoldLeft, MapThenFoldSet, CF!MapThenFoldSet, Max, CF!Max
<1>2. ASSUME NEW a, NEW s
      PROVE  FoldLeft(ApplyRule, a, s) = RF!FoldLeft(ApplyRule, a, s)
  BY DEF FoldLeft, RF!FoldLeft, MapThenFoldSet, RF!MapThenFoldSet, Max, RF!Max
<1>. QED
  BY <1>1, <1>2

(* A record has a table, whose rules and composite keys are sequences. *)
LEMMA RecordFacts ==
  ASSUME NEW r \in Input
  PROVE  /\ r.table \in Table
         /\ Rules[r.table] \in Seq(ToSet(Rules[r.table]))
         /\ Composites[r.table] \in Seq(ToSet(Composites[r.table]))
         /\ IsFiniteSet(DOMAIN r.cells)
         /\ r.cells \in [DOMAIN r.cells -> Values(r)]
<1>1. /\ r.table \in Table /\ IsFiniteSet(DOMAIN r.cells)
      /\ r.cells = [k \in DOMAIN r.cells |-> r.cells[k]]
  BY RecordAssumption
<1>2. /\ Rules[r.table] \in Seq(ToSet(Rules[r.table]))
      /\ Composites[r.table] \in Seq(ToSet(Composites[r.table]))
  BY <1>1, RecordAssumption
<1>3. \A k \in DOMAIN r.cells : r.cells[k] \in Values(r)
  BY DEF Values
<1>. QED
  BY <1>1, <1>2, <1>3

(* The n-th of its composite keys. *)
LEMMA CompositeFacts ==
  ASSUME NEW r \in Input, NEW n \in 1 .. Len(Composites[r.table])
  PROVE  LET c == Composites[r.table][n]
         IN  /\ c \in ToSet(Composites[r.table])
             /\ c.cols \in Seq(ToSet(c.cols))
             /\ DOMAIN Composites[r.table] = 1 .. Len(Composites[r.table])
<1>. PICK C : C = Composites[r.table]
  OBVIOUS
<1>1. C \in Seq(ToSet(C))
  BY RecordFacts
<1>2. DOMAIN C = 1 .. Len(C)
  BY <1>1
<1>3. C[n] \in ToSet(C)
  BY <1>2 DEF ToSet
<1>4. r.table \in Table
  BY RecordFacts
<1>5. \A c \in ToSet(C) : c.cols \in Seq(ToSet(c.cols))
  BY <1>4, RecordAssumption
<1>. QED
  BY <1>2, <1>3, <1>5

(* The n-th of its rules. *)
LEMMA RuleFacts ==
  ASSUME NEW r \in Input, NEW n \in 1 .. Len(Rules[r.table])
  PROVE  /\ Rules[r.table][n] \in ToSet(Rules[r.table])
         /\ DOMAIN Rules[r.table] = 1 .. Len(Rules[r.table])
<1>. PICK R : R = Rules[r.table]
  OBVIOUS
<1>1. R \in Seq(ToSet(R))
  BY RecordFacts
<1>2. DOMAIN R = 1 .. Len(R)
  BY <1>1
<1>. QED
  BY <1>2 DEF ToSet

(* A sequence without repetition has as many elements as positions. *)
LEMMA DistinctCount ==
  ASSUME NEW S, NEW s \in Seq(S), IsInjective(s)
  PROVE  IsFiniteSet(ToSet(s)) /\ Cardinality(ToSet(s)) = Len(s)
<1>1. Len(s) \in Nat /\ DOMAIN s = 1 .. Len(s)
  OBVIOUS
<1>2. s \in [1 .. Len(s) -> ToSet(s)]
  BY <1>1 DEF ToSet
<1>3. s \in Bijection(1 .. Len(s), ToSet(s))
  BY <1>1, <1>2 DEF Bijection, Injection, Surjection, IsInjective, ToSet
<1>4. ExistsBijection(1 .. Len(s), ToSet(s))
  BY <1>3 DEF ExistsBijection
<1>5. Cardinality(ToSet(s)) = Len(s)
  BY <1>1, <1>4, FS_CountingElements
<1>6. IsFiniteSet(ToSet(s))
  BY <1>1, <1>4, FS_NatBijection
<1>. QED
  BY <1>5, <1>6

(* How an accumulator is made. *)
LEMMA MakesAccumulator ==
  ASSUME NEW r, NEW f \in [DOMAIN r.cells -> Values(r)], NEW n \in Nat
  PROVE  [raw |-> r.cells, cells |-> f, count |-> n] \in Accumulator(r)
BY DEF Accumulator

(* A masked value is not the raw one. *)
LEMMA PartIsNew ==
  ASSUME NEW r \in Input, NEW c, NEW k \in DOMAIN r.cells, r.cells[k] # Null
  PROVE  Part(c, r.cells, k) # r.cells[k]
<1>1. r.cells[k].type \in {"int", "str"}
  BY RecordAssumption
<1>2. Part(c, r.cells, k).type = "masked"
  BY DEF Part, CompositeKey
<1>. QED
  BY <1>1, <1>2

(* A rule changes every value but NULL. *)
LEMMA TransformIsNew ==
  ASSUME NEW r \in Input, NEW rule, NEW k \in DOMAIN r.cells
  PROVE  Transform(rule, r.cells[k]) # r.cells[k] <=> r.cells[k] # Null
<1>1. CASE r.cells[k] = Null
  BY <1>1 DEF Transform
<1>2. CASE r.cells[k] # Null
  <2>1. r.cells[k].type \in {"int", "str"}
    BY <1>2, RecordAssumption
  <2>2. Transform(rule, r.cells[k]).type = "masked"
    BY <1>2 DEF Transform, Key, Constant
  <2>. QED
    BY <1>2, <2>1, <2>2
<1>. QED
  BY <1>1, <1>2

-----------------------------------------------------------------------------
(* One composite key more. *)
LEMMA KeyedNext ==
  ASSUME NEW r \in Input, Orderly(r.table), NEW n \in 1 .. Len(Composites[r.table]),
         NEW a \in KeyedBy(r, n - 1)
  PROVE  ApplyComposite(a, Composites[r.table][n]) \in KeyedBy(r, n)
<1>. PICK c : c = Composites[r.table][n]
  OBVIOUS
<1>. PICK C : C = Composites[r.table]
  OBVIOUS
<1>0. /\ n \in Nat /\ n - 1 \in Nat /\ n \in 1 .. Len(C) /\ Len(C) \in Nat
      /\ \A i \in 1 .. n : i \in 1 .. n - 1 \/ i = n
      /\ \A i \in 1 .. n - 1 : i \in 1 .. n /\ i \in 1 .. Len(C) /\ i # n
  <2>1. Len(C) \in Nat
    BY RecordFacts
  <2>. QED
    BY <2>1
<1>1. c \in ToSet(C) /\ c.cols \in Seq(ToSet(c.cols)) /\ DOMAIN C = 1 .. Len(C)
  BY CompositeFacts
<1>2. /\ IsInjective(c.cols)
      /\ \A i \in DOMAIN C \ {n} : ToSet(c.cols) \cap ToSet(C[i].cols) = {}
  <2>1. n \in DOMAIN C
    BY <1>0, <1>1
  <2>. QED
    BY <2>1 DEF Orderly
<1>3. a \in Accumulator(r)
  BY DEF KeyedBy
<1>4. /\ a.raw = r.cells /\ a.cells \in [DOMAIN r.cells -> Values(r)] /\ a.count \in Nat
      /\ a = [raw |-> a.raw, cells |-> a.cells, count |-> a.count]
  BY <1>3 DEF Accumulator
<1>5. /\ \A k \in DOMAIN r.cells :
           /\ \A i \in 1 .. n - 1 : Hits(r, i, k) => a.cells[k] = Part(C[i], r.cells, k)
           /\ (\A i \in 1 .. n - 1 : ~Hits(r, i, k)) => a.cells[k] = r.cells[k]
      /\ a.count = Cardinality(Differing(r, a.cells))
  BY DEF KeyedBy
<1>6. \A k : Hits(r, n, k) <=> k \in ToSet(c.cols) /\ Complete(c, r.cells)
  BY DEF Hits
<1>7. CASE ~Complete(c, r.cells)
  <2>1. ApplyComposite(a, c) = a
    BY <1>4, <1>7 DEF ApplyComposite
  <2>2. \A k : ~Hits(r, n, k)
    BY <1>6, <1>7
  <2>3. \A k \in DOMAIN r.cells :
          /\ \A i \in 1 .. n : Hits(r, i, k) => a.cells[k] = Part(C[i], r.cells, k)
          /\ (\A i \in 1 .. n : ~Hits(r, i, k)) => a.cells[k] = r.cells[k]
    BY <1>0, <1>5, <2>2
  <2>. QED
    BY <1>3, <1>5, <2>1, <2>3 DEF KeyedBy
<1>8. CASE Complete(c, r.cells)
  <2>. DEFINE cells == [k \in DOMAIN r.cells |->
                          IF k \in ToSet(c.cols) THEN Part(c, r.cells, k) ELSE a.cells[k]]
              b == [raw |-> r.cells, cells |-> cells, count |-> a.count + Len(c.cols)]
  <2>1. ApplyComposite(a, c) = b
    BY <1>4, <1>8 DEF ApplyComposite
  <2>2. \A k \in ToSet(c.cols) : k \in DOMAIN r.cells /\ r.cells[k] # Null
    BY <1>8 DEF Complete, ToSet
  <2>3. \A k \in ToSet(c.cols) : \A i \in 1 .. n - 1 : ~Hits(r, i, k)
    BY <1>0, <1>1, <1>2 DEF Hits
  <2>4. \A k \in DOMAIN r.cells : cells[k] \in Values(r)
    <3>1. \A k \in DOMAIN r.cells : Part(c, r.cells, k) \in Values(r)
      BY <1>1 DEF Values
    <3>. QED
      BY <1>4, <3>1
  <2>5. Len(c.cols) \in Nat
    BY <1>1
  <2>6. b \in Accumulator(r)
    <3>1. cells \in [DOMAIN r.cells -> Values(r)]
      BY <2>4
    <3>2. a.count + Len(c.cols) \in Nat
      <4>1. a.count \in Nat
        BY <1>4
      <4>. QED
        BY <2>5, <4>1
    <3>. HIDE DEF cells
    <3>. QED
      BY <3>1, <3>2, MakesAccumulator
  <2>7. ASSUME NEW k \in DOMAIN r.cells
        PROVE  /\ \A i \in 1 .. n : Hits(r, i, k) => cells[k] = Part(C[i], r.cells, k)
               /\ (\A i \in 1 .. n : ~Hits(r, i, k)) => cells[k] = r.cells[k]
    <3>1. CASE k \in ToSet(c.cols)
      <4>1. cells[k] = Part(C[n], r.cells, k) /\ Hits(r, n, k)
        BY <1>6, <1>8, <3>1
      <4>. QED
        BY <1>0, <2>3, <3>1, <4>1
    <3>2. CASE k \notin ToSet(c.cols)
      <4>1. cells[k] = a.cells[k] /\ ~Hits(r, n, k)
        BY <1>6, <3>2
      <4>. QED
        BY <1>0, <1>5, <4>1
    <3>. QED
      BY <3>1, <3>2
  <2>8. Differing(r, cells) = Differing(r, a.cells) \cup ToSet(c.cols)
    <3>1. ASSUME NEW k \in ToSet(c.cols)
          PROVE  cells[k] # r.cells[k]
      <4>1. cells[k] = Part(c, r.cells, k)
        BY <2>2
      <4>. QED
        BY <2>2, <4>1, PartIsNew
    <3>2. ASSUME NEW k \in DOMAIN r.cells, k \notin ToSet(c.cols)
          PROVE  cells[k] = a.cells[k]
      BY <3>2
    <3>. HIDE DEF cells
    <3>. QED
      BY <2>2, <3>1, <3>2 DEF Differing
  <2>9. Differing(r, a.cells) \cap ToSet(c.cols) = {}
    BY <1>5, <2>2, <2>3 DEF Differing
  <2>10. Cardinality(Differing(r, cells)) = a.count + Len(c.cols)
    <3>1. IsFiniteSet(Differing(r, a.cells))
      <4>1. Differing(r, a.cells) \subseteq DOMAIN r.cells
        BY DEF Differing
      <4>. QED
        BY <4>1, RecordFacts, FS_Subset
    <3>2. IsFiniteSet(ToSet(c.cols)) /\ Cardinality(ToSet(c.cols)) = Len(c.cols)
      BY <1>1, <1>2, DistinctCount
    <3>3. Cardinality(Differing(r, a.cells) \cup ToSet(c.cols))
            = Cardinality(Differing(r, a.cells)) + Cardinality(ToSet(c.cols))
              - Cardinality(Differing(r, a.cells) \cap ToSet(c.cols))
      BY <3>1, <3>2, FS_Union
    <3>4. Cardinality(Differing(r, a.cells) \cap ToSet(c.cols)) = 0
      BY <2>9, FS_EmptySet
    <3>. HIDE DEF cells
    <3>. QED
      BY <1>4, <1>5, <2>5, <2>8, <3>2, <3>3, <3>4
  <2>. HIDE DEF cells
  <2>11. b \in KeyedBy(r, n)
    BY <2>6, <2>7, <2>10 DEF KeyedBy
  <2>. QED
    BY <2>1, <2>11 DEF b
<1>. QED
  BY <1>7, <1>8

(* All composite keys of a table that is orderly. *)
LEMMA Keyed ==
  ASSUME NEW r \in Input, Orderly(r.table)
  PROVE  ApplyComposites(r) \in KeyedBy(r, Len(Composites[r.table]))
<1>. PICK C : C = Composites[r.table]
  OBVIOUS
<1>. PICK T : T = [n \in 0 .. Len(C) |-> KeyedBy(r, n)]
  OBVIOUS
<1>0. Len(C) \in Nat /\ C \in Seq(ToSet(C))
  BY RecordFacts
<1>1. NothingMasked(r) \in T[0]
  <2>1. Differing(r, r.cells) = {}
    BY DEF Differing
  <2>2. NothingMasked(r) \in Accumulator(r)
    BY RecordFacts DEF NothingMasked, Accumulator
  <2>3. NothingMasked(r) \in KeyedBy(r, 0)
    <3>1. /\ NothingMasked(r).cells = r.cells /\ NothingMasked(r).count = 0
          /\ \A i \in 1 .. 0 : FALSE
      BY DEF NothingMasked
    <3>2. 0 = Cardinality(Differing(r, r.cells))
      BY <2>1, FS_EmptySet
    <3>. QED
      BY <2>2, <3>1, <3>2 DEF KeyedBy
  <2>. QED
    BY <1>0, <2>3
<1>2. \A n \in 1 .. Len(C) : \A a \in T[n - 1] : ApplyComposite(a, C[n]) \in T[n]
  <2>1. ASSUME NEW n \in 1 .. Len(C), NEW a \in T[n - 1]
        PROVE  ApplyComposite(a, C[n]) \in T[n]
    <3>1. n \in 0 .. Len(C) /\ n - 1 \in 0 .. Len(C)
      BY <1>0
    <3>2. a \in KeyedBy(r, n - 1)
      BY <3>1
    <3>3. ApplyComposite(a, C[n]) \in KeyedBy(r, n)
      BY <3>2, KeyedNext
    <3>. QED
      BY <3>1, <3>3
  <2>. QED
    BY <2>1
<1>3. CF!FoldLeft(ApplyComposite, NothingMasked(r), C) \in T[Len(C)]
  BY <1>0, <1>1, <1>2, CF!FoldInvariant
<1>. QED
  BY <1>0, <1>3, SameOperators

(* What the composite keys have left, where no rule has a say. *)
LEMMA KeyedOnce ==
  ASSUME NEW r \in Input, Orderly(r.table)
  PROVE  /\ ApplyComposites(r) \in Accumulator(r)
         /\ ApplyComposites(r).count = Cardinality(Differing(r, ApplyComposites(r).cells))
         /\ \A k \in DOMAIN r.cells \ CompositeColumns(r.table) :
              ApplyComposites(r).cells[k] = r.cells[k]
         /\ \A k \in DOMAIN r.cells : \A c \in ToSet(Composites[r.table]) :
              k \in ToSet(c.cols) /\ Complete(c, r.cells)
                => ApplyComposites(r).cells[k] = Part(c, r.cells, k)
         /\ \A k \in DOMAIN r.cells :
              (\A c \in ToSet(Composites[r.table]) : ~(k \in ToSet(c.cols) /\ Complete(c, r.cells)))
                => ApplyComposites(r).cells[k] = r.cells[k]
<1>. PICK C : C = Composites[r.table]
  OBVIOUS
<1>. PICK a : a = ApplyComposites(r)
  OBVIOUS
<1>1. DOMAIN C = 1 .. Len(C)
  BY RecordFacts
<1>2. a \in KeyedBy(r, Len(C))
  BY Keyed
<1>3. /\ a \in Accumulator(r) /\ a.count = Cardinality(Differing(r, a.cells))
      /\ \A k \in DOMAIN r.cells :
           /\ \A i \in 1 .. Len(C) : Hits(r, i, k) => a.cells[k] = Part(C[i], r.cells, k)
           /\ (\A i \in 1 .. Len(C) : ~Hits(r, i, k)) => a.cells[k] = r.cells[k]
  BY <1>2 DEF KeyedBy
<1>4. \A k : \A i \in 1 .. Len(C) :
        Hits(r, i, k) <=> k \in ToSet(C[i].cols) /\ Complete(C[i], r.cells)
  BY DEF Hits
<1>5. ToSet(C) = {C[i] : i \in 1 .. Len(C)}
  BY <1>1 DEF ToSet
<1>6. \A k \in DOMAIN r.cells \ CompositeColumns(r.table) : a.cells[k] = r.cells[k]
  <2>1. ASSUME NEW k \in DOMAIN r.cells \ CompositeColumns(r.table), NEW i \in 1 .. Len(C)
        PROVE  ~Hits(r, i, k)
    BY <1>4, <1>5 DEF CompositeColumns
  <2>. QED
    BY <1>3, <2>1
<1>7. ASSUME NEW k \in DOMAIN r.cells, NEW c \in ToSet(C),
             k \in ToSet(c.cols), Complete(c, r.cells)
      PROVE  a.cells[k] = Part(c, r.cells, k)
  <2>1. PICK i \in 1 .. Len(C) : c = C[i]
    BY <1>5
  <2>. QED
    BY <1>3, <1>4, <1>7, <2>1
<1>8. ASSUME NEW k \in DOMAIN r.cells,
             \A c \in ToSet(C) : ~(k \in ToSet(c.cols) /\ Complete(c, r.cells))
      PROVE  a.cells[k] = r.cells[k]
  <2>1. \A i \in 1 .. Len(C) : ~Hits(r, i, k)
    BY <1>4, <1>5, <1>8
  <2>. QED
    BY <1>3, <2>1
<1>. QED
  BY <1>3, <1>6, <1>7, <1>8

(* One rule more.  The column it masks and the one its condition reads are as
   they came. *)
LEMMA RuledNext ==
  ASSUME NEW r \in Input, Orderly(r.table), NEW n \in 1 .. Len(Rules[r.table]),
         NEW a \in RuledBy(r, n - 1)
  PROVE  ApplyRule(a, Rules[r.table][n]) \in RuledBy(r, n)
<1>. PICK R : R = Rules[r.table]
  OBVIOUS
<1>. PICK rule : rule = R[n]
  OBVIOUS
<1>. PICK keyed : keyed = ApplyComposites(r).cells
  OBVIOUS
<1>0. /\ n \in Nat /\ n - 1 \in Nat /\ n \in 1 .. Len(R) /\ Len(R) \in Nat
      /\ \A i \in 1 .. n : i \in 1 .. n - 1 \/ i = n
      /\ \A i \in 1 .. n - 1 : i \in 1 .. n /\ i \in 1 .. Len(R) /\ i # n
  <2>1. Len(R) \in Nat
    BY RecordFacts
  <2>. QED
    BY <2>1
<1>1. rule \in ToSet(R) /\ DOMAIN R = 1 .. Len(R)
  BY RuleFacts
<1>2. /\ rule.col \notin CompositeColumns(r.table)
      /\ rule.on \notin CompositeColumns(r.table)
      /\ \A i \in 1 .. n - 1 : R[i].col # rule.col /\ R[i].col # rule.on
  <2>1. n \in DOMAIN R
    BY <1>0, <1>1
  <2>. QED
    BY <2>1 DEF Orderly
<1>3. a \in Accumulator(r)
  BY DEF RuledBy
<1>4. /\ a.raw = r.cells /\ a.cells \in [DOMAIN r.cells -> Values(r)] /\ a.count \in Nat
      /\ a = [raw |-> a.raw, cells |-> a.cells, count |-> a.count]
  BY <1>3 DEF Accumulator
<1>5. \A k \in DOMAIN r.cells :
        /\ \A i \in 1 .. n - 1 : Applies(r, i, k) => a.cells[k] = Transform(R[i], r.cells[k])
        /\ (\A i \in 1 .. n - 1 : ~Applies(r, i, k)) => a.cells[k] = keyed[k]
  BY DEF RuledBy, RuledCells
<1>6. \A k : Applies(r, n, k) <=> k = rule.col /\ Holds(rule, r.cells)
  BY DEF Applies
<1>7. \A k \in DOMAIN r.cells : k \in {rule.col, rule.on} => a.cells[k] = r.cells[k]
  <2>1. ASSUME NEW k \in DOMAIN r.cells, k \in {rule.col, rule.on}
        PROVE  a.cells[k] = r.cells[k]
    <3>1. \A i \in 1 .. n - 1 : ~Applies(r, i, k)
      BY <1>2, <2>1 DEF Applies
    <3>2. keyed[k] = r.cells[k]
      BY <1>2, <2>1, KeyedOnce
    <3>. QED
      BY <1>5, <3>1, <3>2
  <2>. QED
    BY <2>1
<1>8. Holds(rule, a.cells) <=> Holds(rule, r.cells)
  BY <1>4, <1>7 DEF Holds, Read
<1>9. KeepsNulls(r) => a.count = Cardinality(Differing(r, a.cells))
  BY DEF RuledBy
<1>10. CASE rule.col \notin DOMAIN r.cells \/ ~Holds(rule, r.cells)
  <2>1. ApplyRule(a, rule) = a
    BY <1>4, <1>8, <1>10 DEF ApplyRule
  <2>2. \A k \in DOMAIN r.cells : ~Applies(r, n, k)
    BY <1>6, <1>10
  <2>3. RuledCells(r, n, a.cells)
    BY <1>0, <1>5, <2>2 DEF RuledCells
  <2>. QED
    BY <1>3, <1>9, <2>1, <2>3 DEF RuledBy
<1>11. CASE rule.col \in DOMAIN r.cells /\ Holds(rule, r.cells)
  <2>. PICK v : v = Transform(rule, r.cells[rule.col])
    OBVIOUS
  <2>. PICK cells : cells = [a.cells EXCEPT ![rule.col] = v]
    OBVIOUS
  <2>0. /\ cells \in [DOMAIN r.cells -> Values(r)]
        /\ cells[rule.col] = v
        /\ \A k \in DOMAIN r.cells \ {rule.col} : cells[k] = a.cells[k]
    <3>1. v \in Values(r)
      BY <1>1, <1>11 DEF Values
    <3>. QED
      BY <1>4, <1>11, <3>1
  <2>1. \A k \in DOMAIN r.cells :
          /\ \A i \in 1 .. n : Applies(r, i, k) => cells[k] = Transform(R[i], r.cells[k])
          /\ (\A i \in 1 .. n : ~Applies(r, i, k)) => cells[k] = keyed[k]
    <3>1. ASSUME NEW k \in DOMAIN r.cells, k # rule.col
          PROVE  /\ \A i \in 1 .. n : Applies(r, i, k) => cells[k] = Transform(R[i], r.cells[k])
                 /\ (\A i \in 1 .. n : ~Applies(r, i, k)) => cells[k] = keyed[k]
      <4>1. ~Applies(r, n, k) /\ cells[k] = a.cells[k]
        BY <1>6, <2>0, <3>1
      <4>. QED
        BY <1>0, <1>5, <4>1
    <3>2. /\ \A i \in 1 .. n : Applies(r, i, rule.col)
                                => cells[rule.col] = Transform(R[i], r.cells[rule.col])
          /\ Applies(r, n, rule.col)
      <4>1. Applies(r, n, rule.col)
        BY <1>6, <1>11
      <4>2. \A i \in 1 .. n - 1 : ~Applies(r, i, rule.col)
        BY <1>2 DEF Applies
      <4>3. cells[rule.col] = Transform(R[n], r.cells[rule.col])
        BY <2>0
      <4>. QED
        BY <1>0, <4>1, <4>2, <4>3
    <3>3. n \in 1 .. n
      BY <1>0
    <3>4. ASSUME NEW k \in DOMAIN r.cells, k = rule.col
          PROVE  /\ \A i \in 1 .. n : Applies(r, i, k) => cells[k] = Transform(R[i], r.cells[k])
                 /\ (\A i \in 1 .. n : ~Applies(r, i, k)) => cells[k] = keyed[k]
      BY <3>2, <3>3, <3>4
    <3>. QED
      BY <3>1, <3>4
  <2>2. RuledCells(r, n, cells)
    BY <2>1 DEF RuledCells
  <2>3. CASE a.cells[rule.col] = Null /\ rule.keepNull
    <3>1. ApplyRule(a, rule) = a
      BY <2>3 DEF ApplyRule
    <3>2. v = a.cells[rule.col]
      BY <1>7, <1>11, <2>3 DEF Transform
    <3>3. cells = a.cells
      BY <1>4, <2>0, <3>2
    <3>. QED
      BY <1>3, <1>9, <2>2, <3>1, <3>3 DEF RuledBy
  <2>4. CASE ~(a.cells[rule.col] = Null /\ rule.keepNull)
    <3>. PICK b : b = [raw |-> r.cells, cells |-> cells, count |-> a.count + 1]
      OBVIOUS
    <3>1. ApplyRule(a, rule) = b
      <4>1. rule.col \in DOMAIN a.cells /\ Holds(rule, a.cells)
        BY <1>4, <1>8, <1>11
      <4>2. a.cells[rule.col] = r.cells[rule.col]
        BY <1>7, <1>11
      <4>3. ApplyRule(a, rule)
              = [raw   |-> a.raw,
                 cells |-> [a.cells EXCEPT ![rule.col] = Transform(rule, a.cells[rule.col])],
                 count |-> a.count + 1]
        BY <2>4, <4>1 DEF ApplyRule
      <4>. QED
        BY <1>4, <4>2, <4>3
    <3>2. b \in Accumulator(r)
      <4>1. a.count + 1 \in Nat
        BY <1>4
      <4>. QED
        BY <2>0, <4>1, MakesAccumulator
    <3>3. KeepsNulls(r) => b.count = Cardinality(Differing(r, b.cells))
      <4>. SUFFICES ASSUME KeepsNulls(r)
                    PROVE  a.count + 1 = Cardinality(Differing(r, cells))
        OBVIOUS
      <4>1. r.cells[rule.col] # Null
        BY <1>1, <1>7, <1>11, <2>4 DEF KeepsNulls
      <4>2. v # r.cells[rule.col]
        BY <1>11, <4>1, TransformIsNew
      <4>3. /\ Differing(r, cells) = Differing(r, a.cells) \cup {rule.col}
            /\ rule.col \notin Differing(r, a.cells)
        <5>1. rule.col \in DOMAIN r.cells /\ a.cells[rule.col] = r.cells[rule.col]
          BY <1>7, <1>11
        <5>2. cells[rule.col] # r.cells[rule.col]
          BY <2>0, <4>2
        <5>3. \A k \in DOMAIN r.cells : k # rule.col => cells[k] = a.cells[k]
          BY <2>0
        <5>. QED
          BY <5>1, <5>2, <5>3 DEF Differing
      <4>4. IsFiniteSet(Differing(r, a.cells))
        <5>1. Differing(r, a.cells) \subseteq DOMAIN r.cells
          BY DEF Differing
        <5>. QED
          BY <5>1, RecordFacts, FS_Subset
      <4>. QED
        BY <1>9, <4>3, <4>4, FS_AddElement
    <3>4. b.cells = cells
      OBVIOUS
    <3>. QED
      <4>1. b \in RuledBy(r, n)
        BY <2>2, <3>2, <3>3, <3>4 DEF RuledBy
      <4>. QED
        BY <3>1, <4>1
  <2>. QED
    BY <2>3, <2>4
<1>. QED
  BY <1>10, <1>11

(* All rules of a table that is orderly. *)
LEMMA Ruled ==
  ASSUME NEW r \in Input, Orderly(r.table)
  PROVE  FoldLeft(ApplyRule, ApplyComposites(r), Rules[r.table])
           \in RuledBy(r, Len(Rules[r.table]))
<1>. PICK R : R = Rules[r.table]
  OBVIOUS
<1>. PICK keyed : keyed = ApplyComposites(r)
  OBVIOUS
<1>. PICK T : T = [n \in 0 .. Len(R) |-> RuledBy(r, n)]
  OBVIOUS
<1>0. Len(R) \in Nat /\ R \in Seq(ToSet(R))
  BY RecordFacts
<1>1. keyed \in T[0]
  <2>1. keyed \in Accumulator(r) /\ keyed.count = Cardinality(Differing(r, keyed.cells))
    BY KeyedOnce
  <2>2. RuledCells(r, 0, keyed.cells)
    <3>1. \A i \in 1 .. 0 : FALSE
      OBVIOUS
    <3>. QED
      BY <3>1 DEF RuledCells
  <2>3. keyed \in RuledBy(r, 0)
    BY <2>1, <2>2 DEF RuledBy
  <2>. QED
    BY <1>0, <2>3
<1>2. \A n \in 1 .. Len(R) : \A a \in T[n - 1] : ApplyRule(a, R[n]) \in T[n]
  <2>1. ASSUME NEW n \in 1 .. Len(R), NEW a \in T[n - 1]
        PROVE  ApplyRule(a, R[n]) \in T[n]
    <3>1. n \in 0 .. Len(R) /\ n - 1 \in 0 .. Len(R)
      BY <1>0
    <3>2. a \in RuledBy(r, n - 1)
      BY <3>1
    <3>3. ApplyRule(a, R[n]) \in RuledBy(r, n)
      BY <3>2, RuledNext
    <3>. QED
      BY <3>1, <3>3
  <2>. QED
    BY <2>1
<1>3. RF!FoldLeft(ApplyRule, keyed, R) \in T[Len(R)]
  BY <1>0, <1>1, <1>2, RF!FoldInvariant
<1>. QED
  BY <1>0, <1>3, SameOperators

(* The composite keys and the rules a cell is masked by. *)
MaskedBy(r, cells) ==
  \A k \in DOMAIN r.cells :
    /\ \A c \in ToSet(Composites[r.table]) :
         k \in ToSet(c.cols) /\ Complete(c, r.cells) => cells[k] = Part(c, r.cells, k)
    /\ \A rule \in ToSet(Rules[r.table]) :
         rule.col = k /\ Holds(rule, r.cells) => cells[k] = Transform(rule, r.cells[k])
    /\ \/ \E c \in ToSet(Composites[r.table]) : k \in ToSet(c.cols) /\ Complete(c, r.cells)
       \/ \E rule \in ToSet(Rules[r.table]) : rule.col = k /\ Holds(rule, r.cells)
       \/ cells[k] = r.cells[k]

(* What the composite keys and the rules together have made of a record. *)
LEMMA RuledOnce ==
  ASSUME NEW r \in Input, Orderly(r.table), NEW m \in RuledBy(r, Len(Rules[r.table]))
  PROVE  MaskedBy(r, m.cells)
<1>. PICK R : R = Rules[r.table]
  OBVIOUS
<1>. PICK C : C = Composites[r.table]
  OBVIOUS
<1>. PICK keyed : keyed = ApplyComposites(r).cells
  OBVIOUS
<1>1. DOMAIN R = 1 .. Len(R) /\ ToSet(R) = {R[i] : i \in 1 .. Len(R)}
  BY RecordFacts DEF ToSet
<1>2. \A k \in DOMAIN r.cells :
        /\ \A i \in 1 .. Len(R) : Applies(r, i, k) => m.cells[k] = Transform(R[i], r.cells[k])
        /\ (\A i \in 1 .. Len(R) : ~Applies(r, i, k)) => m.cells[k] = keyed[k]
  BY DEF RuledBy, RuledCells
<1>3. \A k : \A i \in 1 .. Len(R) : Applies(r, i, k) <=> R[i].col = k /\ Holds(R[i], r.cells)
  BY DEF Applies
<1>4. ASSUME NEW k \in DOMAIN r.cells, NEW c \in ToSet(C),
             k \in ToSet(c.cols), Complete(c, r.cells)
      PROVE  m.cells[k] = Part(c, r.cells, k)
  <2>1. k \in CompositeColumns(r.table)
    BY <1>4 DEF CompositeColumns
  <2>2. \A i \in 1 .. Len(R) : ~Applies(r, i, k)
    BY <1>1, <1>3, <2>1 DEF Orderly
  <2>3. keyed[k] = Part(c, r.cells, k)
    BY <1>4, KeyedOnce
  <2>. QED
    BY <1>2, <2>2, <2>3
<1>5. ASSUME NEW k \in DOMAIN r.cells, NEW rule \in ToSet(R), rule.col = k, Holds(rule, r.cells)
      PROVE  m.cells[k] = Transform(rule, r.cells[k])
  BY <1>1, <1>2, <1>3, <1>5
<1>6. ASSUME NEW k \in DOMAIN r.cells,
             \A c \in ToSet(C) : ~(k \in ToSet(c.cols) /\ Complete(c, r.cells)),
             \A rule \in ToSet(R) : ~(rule.col = k /\ Holds(rule, r.cells))
      PROVE  m.cells[k] = r.cells[k]
  <2>1. \A i \in 1 .. Len(R) : ~Applies(r, i, k)
    BY <1>1, <1>3, <1>6
  <2>2. keyed[k] = r.cells[k]
    BY <1>6, KeyedOnce
  <2>. QED
    BY <1>2, <2>1, <2>2
<1>. QED
  BY <1>4, <1>5, <1>6 DEF MaskedBy

(* What mask_record returns, and how many cells it adds to its count. *)
LEMMA Result ==
  ASSUME NEW r \in Input, Orderly(r.table)
  PROVE  /\ MaskRecord(r).cells \in [DOMAIN r.cells -> Values(r)]
         /\ Bypassed(r) => MaskRecord(r).cells = r.cells
         /\ ~Bypassed(r) => MaskedBy(r, MaskRecord(r).cells)
         /\ KeepsNulls(r) /\ (Bypassed(r) => Composites[r.table] = <<>>)
              => MaskRecord(r).count = Cardinality(Differing(r, MaskRecord(r).cells))
<1>. PICK keyed : keyed = ApplyComposites(r)
  OBVIOUS
<1>. PICK m : m = MaskRecord(r)
  OBVIOUS
<1>1. /\ keyed \in Accumulator(r)
      /\ keyed.count = Cardinality(Differing(r, keyed.cells))
  BY KeyedOnce
<1>2. /\ keyed.cells \in [DOMAIN r.cells -> Values(r)]
      /\ keyed = [raw |-> keyed.raw, cells |-> keyed.cells, count |-> keyed.count]
  BY <1>1 DEF Accumulator
<1>3. r.cells \in [DOMAIN r.cells -> Values(r)]
  BY RecordFacts
<1>4. CASE Rules[r.table] = <<>>
  <2>1. m = keyed
    BY <1>4 DEF MaskRecord
  <2>2. ~Bypassed(r)
    BY <1>4 DEF Bypassed
  <2>3. MaskedBy(r, keyed.cells)
    <3>1. ToSet(Rules[r.table]) = {}
      BY <1>4 DEF ToSet
    <3>2. \A k \in DOMAIN r.cells :
            /\ \A c \in ToSet(Composites[r.table]) :
                 k \in ToSet(c.cols) /\ Complete(c, r.cells) => keyed.cells[k] = Part(c, r.cells, k)
            /\ \/ \E c \in ToSet(Composites[r.table]) : k \in ToSet(c.cols) /\ Complete(c, r.cells)
               \/ keyed.cells[k] = r.cells[k]
      BY KeyedOnce
    <3>. QED
      BY <3>1, <3>2 DEF MaskedBy
  <2>. QED
    BY <1>1, <1>2, <2>1, <2>2, <2>3
<1>5. CASE Rules[r.table] # <<>> /\ Old(r)
  <2>1. m = [keyed EXCEPT !.cells = r.cells]
    BY <1>5 DEF MaskRecord
  <2>2. m.cells = r.cells /\ m.count = keyed.count
    BY <1>2, <2>1
  <2>3. Bypassed(r)
    BY <1>5 DEF Bypassed
  <2>4. ASSUME Composites[r.table] = <<>>
        PROVE  keyed.cells = r.cells
    <3>1. ToSet(Composites[r.table]) = {}
      BY <2>4 DEF ToSet
    <3>2. \A k \in DOMAIN r.cells : keyed.cells[k] = r.cells[k]
      BY <3>1, KeyedOnce
    <3>. QED
      BY <1>2, <1>3, <3>2
  <2>. QED
    BY <1>1, <1>3, <2>2, <2>3, <2>4
<1>6. CASE Rules[r.table] # <<>> /\ ~Old(r)
  <2>1. m = FoldLeft(ApplyRule, keyed, Rules[r.table])
    BY <1>6 DEF MaskRecord
  <2>2. ~Bypassed(r)
    BY <1>6 DEF Bypassed
  <2>3. m \in RuledBy(r, Len(Rules[r.table]))
    BY <2>1, Ruled
  <2>4. m \in Accumulator(r) /\ (KeepsNulls(r) => m.count = Cardinality(Differing(r, m.cells)))
    BY <2>3 DEF RuledBy
  <2>5. m.cells \in [DOMAIN r.cells -> Values(r)]
    BY <2>4 DEF Accumulator
  <2>. QED
    BY <2>2, <2>3, <2>4, <2>5, RuledOnce
<1>. QED
  BY <1>4, <1>5, <1>6

-----------------------------------------------------------------------------
(* What is written is what mask_record returned. *)
Written == \A w \in written : w.raw \in Input /\ w.cells = MaskRecord(w.raw).cells

(* Whatever is written came from a record of the input and is what mask_record
   has made of it. *)
THEOREM RecordsFollow == Spec => []Written
<1>1. Init => Written
  BY DEF Init, Written
<1>2. Written /\ [Next]_vars => Written'
  <2>. SUFFICES ASSUME Written, [Next]_vars
                PROVE  Written'
    OBVIOUS
  <2>1. ASSUME NEW r \in Input, Mask(r)
        PROVE  Written'
    <3>1. written' = written \cup {[raw |-> r, cells |-> MaskRecord(r).cells]}
      BY <2>1 DEF Mask
    <3>. QED
      BY <3>1 DEF Written
  <2>2. CASE UNCHANGED vars
    BY <2>2 DEF vars, Written
  <2>. QED
    BY <2>1, <2>2 DEF Next
<1>. QED
  BY <1>1, <1>2, PTL DEF Spec

(* Each cell is masked as the configuration says of the raw record, and no
   other is touched, although conditions and rules see a half-masked record. *)
THEOREM CellsAsConfigured == Spec => []MaskedAsConfigured
<1>1. ASSUME Written, NEW w \in written, Orderly(w.raw.table)
      PROVE  AsConfigured(w)
  <2>. PICK r \in Input : r = w.raw
    BY <1>1 DEF Written
  <2>1. w.cells = MaskRecord(r).cells
    BY <1>1 DEF Written
  <2>2. DOMAIN w.cells = DOMAIN r.cells
    BY <1>1, <2>1, Result
  <2>3. CASE Bypassed(r)
    <3>1. w.cells = r.cells
      BY <1>1, <2>1, <2>3, Result
    <3>2. \A k : Maskings(r, k) = {}
      BY <2>3 DEF Maskings
    <3>. QED
      BY <3>1, <3>2 DEF AsConfigured
  <2>4. CASE ~Bypassed(r)
    <3>1. MaskedBy(r, w.cells)
      BY <1>1, <2>1, <2>4, Result
    <3>2. ASSUME NEW k \in DOMAIN r.cells
          PROVE  LET as == Maskings(r, k) IN
                 IF as = {} THEN w.cells[k] = r.cells[k] ELSE w.cells[k] \in as
      <4>1. Maskings(r, k) = {Part(c, r.cells, k) : c \in KeysOf(r, k)}
                               \cup {Transform(rule, r.cells[k]) : rule \in RulesOf(r, k)}
        BY <2>4 DEF Maskings
      <4>2. \A c \in KeysOf(r, k) : w.cells[k] = Part(c, r.cells, k)
        BY <3>1 DEF MaskedBy, KeysOf
      <4>3. \A rule \in RulesOf(r, k) : w.cells[k] = Transform(rule, r.cells[k])
        BY <3>1 DEF MaskedBy, RulesOf
      <4>4. KeysOf(r, k) = {} /\ RulesOf(r, k) = {} => w.cells[k] = r.cells[k]
        BY <3>1 DEF MaskedBy, KeysOf, RulesOf
      <4>. QED
        BY <4>1, <4>2, <4>3, <4>4
    <3>. QED
      BY <2>2, <3>2 DEF AsConfigured
  <2>. QED
    BY <2>3, <2>4
<1>2. Written => MaskedAsConfigured
  BY <1>1 DEF MaskedAsConfigured
<1>. QED
  BY <1>2, RecordsFollow, PTL

(* The raw composite key of a row. *)
LEMMA KeyFacts ==
  ASSUME NEW r \in Input, NEW c \in ToSet(Composites[r.table]), Complete(c, r.cells),
         NEW i \in DOMAIN c.cols
  PROVE  /\ KeyTuple(c, r.cells)[i].type \in {"int", "str"}
         /\ Digest(c.group, KeyTuple(c, r.cells), i) \in Nat
<1>1. c.cols[i] \in DOMAIN r.cells /\ r.cells[c.cols[i]] # Null
  BY DEF Complete
<1>2. r.cells[c.cols[i]].type \in {"int", "str"}
  BY <1>1, RecordAssumption
<1>3. KeyTuple(c, r.cells)[i] = r.cells[c.cols[i]]
  BY DEF KeyTuple
<1>. QED
  BY <1>2, <1>3, DigestAssumption

(* Parts that are masked to the same have digests that agree. *)
LEMMA SameTextsSameDigests ==
  ASSUME NEW group, NEW v, NEW w, NEW i,
         v[i].type \in {"int", "str"}, w[i].type \in {"int", "str"},
         Digest(group, v, i) \in Nat, Digest(group, w, i) \in Nat,
         CompositeKey(group, v, i) = CompositeKey(group, w, i)
  PROVE  /\ v[i].type = w[i].type
         /\ IF v[i].type = "int"
            THEN Digest(group, v, i) % 899999 = Digest(group, w, i) % 899999
            ELSE Digest(group, v, i) = Digest(group, w, i)
<1>. PICK m : m = Digest(group, v, i)
  OBVIOUS
<1>. PICK n : n = Digest(group, w, i)
  OBVIOUS
<1>. PICK p : p = m % 899999
  OBVIOUS
<1>. PICK q : q = n % 899999
  OBVIOUS
<1>1. m \in Nat /\ n \in Nat /\ p \in Nat /\ q \in Nat
  OBVIOUS
<1>2. /\ CompositeKey(group, v, i).text
            = IF v[i].type = "int" THEN <<"int", 100000 + p>> ELSE <<"hex", m>>
      /\ CompositeKey(group, w, i).text
            = IF w[i].type = "int" THEN <<"int", 100000 + q>> ELSE <<"hex", n>>
  BY DEF CompositeKey
<1>3. 100000 + p = 100000 + q => p = q
  BY <1>1
<1>4. "int" # "str" /\ "int" # "hex"
  OBVIOUS
<1>. QED
  BY <1>2, <1>3, <1>4

(* The masked composite key of a row: what is derived for each of its columns. *)
LEMMA MaskedTuple ==
  ASSUME NEW r \in Input, Orderly(r.table), ~Bypassed(r), NEW cells, cells = MaskRecord(r).cells,
         NEW c \in ToSet(Composites[r.table]), Complete(c, r.cells)
  PROVE  KeyTuple(c, cells)
           = [i \in DOMAIN c.cols |-> CompositeKey(c.group, KeyTuple(c, r.cells), i)]
<1>1. MaskedBy(r, cells)
  BY Result
<1>2. IsInjective(c.cols)
  BY DEF Orderly, ToSet
<1>3. ASSUME NEW i \in DOMAIN c.cols
      PROVE  cells[c.cols[i]] = CompositeKey(c.group, KeyTuple(c, r.cells), i)
  <2>1. c.cols[i] \in DOMAIN r.cells /\ c.cols[i] \in ToSet(c.cols)
    BY DEF Complete, ToSet
  <2>2. cells[c.cols[i]] = Part(c, r.cells, c.cols[i])
    BY <1>1, <2>1 DEF MaskedBy
  <2>3. (CHOOSE j \in DOMAIN c.cols : c.cols[j] = c.cols[i]) = i
    BY <1>2 DEF IsInjective
  <2>. QED
    BY <2>2, <2>3 DEF Part
<1>. QED
  BY <1>3 DEF KeyTuple

(* The masked single key of a row. *)
LEMMA MaskedKey ==
  ASSUME NEW r \in Input, Orderly(r.table), ~Bypassed(r), NEW cells, cells = MaskRecord(r).cells,
         NEW rule \in KeyRules(r.table), Present(rule, r.cells)
  PROVE  cells[rule.col] = Key(rule.group, r.cells[rule.col])
<1>1. MaskedBy(r, cells)
  BY Result
<1>2. rule \in ToSet(Rules[r.table]) /\ rule.strategy = "key" /\ rule.on = NoColumn
  BY DEF KeyRules
<1>3. Holds(rule, r.cells)
  BY <1>2 DEF Holds
<1>4. rule.col \in DOMAIN r.cells /\ r.cells[rule.col] # Null
  BY DEF Present
<1>5. cells[rule.col] = Transform(rule, r.cells[rule.col])
  BY <1>1, <1>2, <1>3, <1>4 DEF MaskedBy
<1>. QED
  BY <1>2, <1>4, <1>5 DEF Transform

(* Of rows that are masked, keys that were equal are equal after masking and others
   are not, in the same table or in two, of one column or of several; of several,
   others only are if their digests agree. *)
THEOREM JoinsSurvive == Spec => []JoinsPreserved
<1>1. ASSUME Written, NEW x \in written, NEW y \in written,
             Orderly(x.raw.table), Orderly(y.raw.table), ~Bypassed(x.raw), ~Bypassed(y.raw)
      PROVE  SingleAlike(x, y) /\ CompositeAlike(x, y)
  <2>1. /\ x.raw \in Input /\ x.cells = MaskRecord(x.raw).cells
        /\ y.raw \in Input /\ y.cells = MaskRecord(y.raw).cells
    BY <1>1 DEF Written
  <2>2. ASSUME NEW c \in KeyRules(x.raw.table), NEW d \in KeyRules(y.raw.table),
               c.group = d.group, Present(c, x.raw.cells), Present(d, y.raw.cells)
        PROVE  x.raw.cells[c.col].text = y.raw.cells[d.col].text
                 <=> x.cells[c.col] = y.cells[d.col]
    <3>1. x.cells[c.col] = Key(c.group, x.raw.cells[c.col])
      BY <1>1, <2>1, <2>2, MaskedKey
    <3>2. y.cells[d.col] = Key(d.group, y.raw.cells[d.col])
      BY <1>1, <2>1, <2>2, MaskedKey
    <3>. QED
      BY <2>2, <3>1, <3>2 DEF Key
  <2>3. ASSUME NEW c \in ToSet(Composites[x.raw.table]), NEW d \in ToSet(Composites[y.raw.table]),
               c.group = d.group, Complete(c, x.raw.cells), Complete(d, y.raw.cells)
        PROVE  LET v == KeyTuple(c, x.raw.cells)
                   w == KeyTuple(d, y.raw.cells)
                   joined == KeyTuple(c, x.cells) = KeyTuple(d, y.cells)
               IN  /\ v = w => joined
                   /\ joined => v = w \/ SameDigests(c.group, v, w)
    <3>. PICK v : v = KeyTuple(c, x.raw.cells)
      OBVIOUS
    <3>. PICK w : w = KeyTuple(d, y.raw.cells)
      OBVIOUS
    <3>1. KeyTuple(c, x.cells) = [i \in DOMAIN c.cols |-> CompositeKey(c.group, v, i)]
      BY <1>1, <2>1, <2>3, MaskedTuple
    <3>2. KeyTuple(d, y.cells) = [i \in DOMAIN d.cols |-> CompositeKey(c.group, w, i)]
      BY <1>1, <2>1, <2>3, MaskedTuple
    <3>3. DOMAIN v = DOMAIN c.cols /\ DOMAIN w = DOMAIN d.cols
      BY DEF KeyTuple
    <3>4. v = w => KeyTuple(c, x.cells) = KeyTuple(d, y.cells)
      BY <3>1, <3>2, <3>3
    <3>5. ASSUME KeyTuple(c, x.cells) = KeyTuple(d, y.cells)
          PROVE  SameDigests(c.group, v, w)
      <4>1. DOMAIN c.cols = DOMAIN d.cols
        BY <3>1, <3>2, <3>5
      <4>2. ASSUME NEW i \in DOMAIN v
            PROVE  CompositeKey(c.group, v, i) = CompositeKey(c.group, w, i)
        BY <3>1, <3>2, <3>3, <3>5, <4>1
      <4>3. ASSUME NEW i \in DOMAIN v
            PROVE  /\ v[i].type \in {"int", "str"} /\ Digest(c.group, v, i) \in Nat
                   /\ w[i].type \in {"int", "str"} /\ Digest(c.group, w, i) \in Nat
        BY <2>1, <2>3, <3>3, <4>1, KeyFacts
      <4>. QED
        BY <3>3, <4>1, <4>2, <4>3, SameTextsSameDigests DEF SameDigests
    <3>. QED
      BY <3>4, <3>5
  <2>. QED
    BY <2>2, <2>3 DEF SingleAlike, CompositeAlike
<1>2. Written => JoinsPreserved
  BY <1>1 DEF JoinsPreserved
<1>. QED
  BY <1>2, RecordsFollow, PTL

-----------------------------------------------------------------------------
(* The sum of what was changed, over a set of rows, which are taken in any order. *)

(* The subsets of S with at most n elements. *)
Small(S, n) == {T \in SUBSET S : Cardinality(T) <= n}

(* How the fold over a set goes: it picks an element, whichever it is. *)
Picked(T) == CHOOSE x \in T : TRUE

Gathered(it, base, T) == IF T = {} THEN base ELSE AddChanged(Picked(T), it[T \ {Picked(T)}])

Gathers(it, base, D) == it = [T \in D |-> Gathered(it, base, T)]

FoldedSet(base, S) == FoldSet(AddChanged, base, S)

(* The definition of the fold. *)
LEMMA FoldSetIsGathering ==
  ASSUME NEW base, NEW S
  PROVE  FoldedSet(base, S) = (CHOOSE it : Gathers(it, base, SUBSET S))[S]
BY DEF FoldedSet, FoldSet, MapThenFoldSet, Gathers, Gathered, Picked

(* One step of it. *)
LEMMA GatheringNext ==
  ASSUME NEW it, NEW base, NEW D, Gathers(it, base, D), NEW T \in D
  PROVE  it[T] = Gathered(it, base, T)
<1>. DEFINE F(X) == Gathered(it, base, X)
<1>1. it = [X \in D |-> F(X)]
  BY DEF Gathers
<1>. HIDE DEF F
<1>2. it[T] = F(T)
  BY <1>1
<1>. QED
  BY <1>2 DEF F

(* There is such a fold for the subsets of any size. *)
LEMMA SmallGatheringExists ==
  ASSUME NEW base, NEW S, IsFiniteSet(S), NEW n \in Nat
  PROVE  \E it : Gathers(it, base, Small(S, n))
<1>. DEFINE Lacking == {m \in Nat : ~\E it : Gathers(it, base, Small(S, m))}
<1>0. \A T \in SUBSET S : IsFiniteSet(T) /\ Cardinality(T) \in Nat
  BY FS_Subset, FS_CardinalityType
<1>1. Lacking = {}
  <2>. SUFFICES ASSUME Lacking # {}
                PROVE  FALSE
    OBVIOUS
  <2>1. PICK m \in Lacking : \A l \in Lacking : m <= l
    BY LeastOfNumbers
  <2>2. m # 0
    <3>. SUFFICES ASSUME m = 0
                  PROVE  FALSE
      OBVIOUS
    <3>. DEFINE it == [T \in Small(S, 0) |-> base]
    <3>1. \A T \in Small(S, 0) : T = {}
      BY <1>0, FS_EmptySet DEF Small
    <3>2. \A T \in Small(S, 0) : Gathered(it, base, T) = base
      BY <3>1 DEF Gathered
    <3>3. Gathers(it, base, Small(S, 0))
      BY <3>2 DEF Gathers
    <3>. QED
      BY <2>1, <3>3
  <2>3. m \in Nat /\ m - 1 \in Nat /\ m - 1 \notin Lacking
    <3>1. m \in Nat
      BY <2>1
    <3>. HIDE DEF Lacking
    <3>. QED
      BY <2>1, <2>2, <3>1
  <2>4. PICK f : Gathers(f, base, Small(S, m - 1))
    BY <2>3
  <2>. DEFINE g == [T \in Small(S, m) |-> Gathered(f, base, T)]
  <2>5. ASSUME NEW T \in Small(S, m)
        PROVE  Gathered(f, base, T) = Gathered(g, base, T)
    <3>. SUFFICES ASSUME T # {}
                  PROVE  Gathered(f, base, T) = Gathered(g, base, T)
      BY DEF Gathered
    <3>1. PICK x \in T : x = Picked(T)
      BY DEF Picked
    <3>2. /\ T \ {x} \in Small(S, m - 1) /\ T \ {x} \in Small(S, m)
      <4>1. T \in SUBSET S /\ Cardinality(T) <= m /\ T \ {x} \in SUBSET S
        BY DEF Small
      <4>2. IsFiniteSet(T) /\ Cardinality(T) \in Nat /\ Cardinality(T \ {x}) = Cardinality(T) - 1
        BY <1>0, <4>1, FS_RemoveElement
      <4>3. Cardinality(T) - 1 <= m - 1 /\ Cardinality(T) - 1 <= m
        BY <2>3, <4>1, <4>2
      <4>. QED
        BY <4>1, <4>2, <4>3 DEF Small
    <3>3. f[T \ {x}] = Gathered(f, base, T \ {x})
      BY <2>4, <3>2, GatheringNext
    <3>4. g[T \ {x}] = Gathered(f, base, T \ {x})
      BY <3>2
    <3>. QED
      BY <3>1, <3>3, <3>4 DEF Gathered
  <2>6. Gathers(g, base, Small(S, m))
    BY <2>5 DEF Gathers
  <2>. QED
    BY <2>1, <2>6
<1>. QED
  BY <1>1

LEMMA GatheringExists ==
  ASSUME NEW base, NEW S, IsFiniteSet(S)
  PROVE  \E it : Gathers(it, base, SUBSET S)
<1>1. PICK n \in Nat : n = Cardinality(S)
  BY FS_CardinalityType
<1>2. Small(S, n) = SUBSET S
  BY <1>1, FS_Subset DEF Small
<1>3. PICK it : Gathers(it, base, Small(S, n))
  BY SmallGatheringExists
<1>. QED
  BY <1>2, <1>3 DEF Gathers

(* On the sets both are about, two of them agree. *)
LEMMA GatheringsAgree ==
  ASSUME NEW base, NEW S, NEW T \in SUBSET S, NEW f, NEW g, IsFiniteSet(T),
         Gathers(f, base, SUBSET S), Gathers(g, base, SUBSET T)
  PROVE  f[T] = g[T]
<1>. DEFINE Differ == {n \in Nat : \E Q \in SUBSET T : Cardinality(Q) = n /\ f[Q] # g[Q]}
<1>0. \A Q \in SUBSET T : IsFiniteSet(Q) /\ Cardinality(Q) \in Nat
  BY FS_Subset, FS_CardinalityType
<1>. SUFFICES ASSUME f[T] # g[T]
              PROVE  FALSE
  OBVIOUS
<1>1. Differ # {} /\ Differ \subseteq Nat
  BY <1>0
<1>2. PICK n \in Differ : \A m \in Differ : n <= m
  BY <1>1, LeastOfNumbers
<1>3. PICK Q \in SUBSET T : Cardinality(Q) = n /\ f[Q] # g[Q]
  BY <1>2
<1>4. f[Q] = Gathered(f, base, Q) /\ g[Q] = Gathered(g, base, Q)
  BY GatheringNext
<1>5. Q # {}
  BY <1>3, <1>4 DEF Gathered
<1>6. PICK x \in Q : x = Picked(Q)
  BY <1>5 DEF Picked
<1>7. f[Q \ {x}] = g[Q \ {x}]
  <2>1. Q \ {x} \in SUBSET T /\ Cardinality(Q \ {x}) = n - 1
    BY <1>0, <1>3, FS_RemoveElement
  <2>2. n - 1 \in Nat /\ ~(n <= n - 1)
    BY <1>0, <1>1, <2>1
  <2>3. n - 1 \notin Differ
    <3>. HIDE DEF Differ
    <3>. QED
      BY <1>2, <2>2
  <2>. QED
    BY <2>1, <2>2, <2>3
<1>. QED
  BY <1>3, <1>4, <1>6, <1>7 DEF Gathered

(* It takes some element last. *)
LEMMA FoldSetPicks ==
  ASSUME NEW base, NEW S, IsFiniteSet(S), S # {}
  PROVE  \E x \in S : FoldedSet(base, S) = AddChanged(x, FoldedSet(base, S \ {x}))
<1>0. PICK x \in S : x = Picked(S)
  BY DEF Picked
<1>1. PICK T : T = S \ {x}
  OBVIOUS
<1>2. IsFiniteSet(T) /\ T \in SUBSET S
  BY <1>1, FS_Subset
<1>3. PICK f : f = CHOOSE it : Gathers(it, base, SUBSET S)
  OBVIOUS
<1>4. PICK g : g = CHOOSE it : Gathers(it, base, SUBSET T)
  OBVIOUS
<1>5. Gathers(f, base, SUBSET S) /\ Gathers(g, base, SUBSET T)
  <2>1. Gathers(f, base, SUBSET S)
    BY <1>3, GatheringExists
  <2>2. Gathers(g, base, SUBSET T)
    BY <1>2, <1>4, GatheringExists
  <2>. QED
    BY <2>1, <2>2
<1>6. FoldedSet(base, S) = f[S] /\ FoldedSet(base, T) = g[T]
  BY <1>3, <1>4, FoldSetIsGathering
<1>7. f[T] = g[T]
  BY <1>2, <1>5, GatheringsAgree
<1>8. f[S] = AddChanged(x, f[T])
  <2>1. f[S] = Gathered(f, base, S)
    BY <1>5, GatheringNext
  <2>. QED
    BY <1>0, <1>1, <2>1 DEF Gathered
<1>. QED
  BY <1>1, <1>6, <1>7, <1>8

(* Nothing is folded: the base. *)
LEMMA FoldSetEmpty ==
  ASSUME NEW base
  PROVE  FoldedSet(base, {}) = base
<1>1. PICK f : f = CHOOSE it : Gathers(it, base, SUBSET {})
  OBVIOUS
<1>2. Gathers(f, base, SUBSET {})
  BY <1>1, GatheringExists, FS_EmptySet
<1>3. f[{}] = Gathered(f, base, {})
  BY <1>2, GatheringNext
<1>. QED
  BY <1>1, <1>3, FoldSetIsGathering DEF Gathered

(* On elements of U and results in V, the order of two elements makes no
   difference. *)
OrderFree(U, V) ==
  /\ \A y \in U, v \in V : AddChanged(y, v) \in V
  /\ \A y, z \in U, v \in V : AddChanged(y, AddChanged(z, v)) = AddChanged(z, AddChanged(y, v))

(* Then any element may be taken to be folded last. *)
LEMMA FoldSetAdd ==
  ASSUME NEW U, NEW V, NEW base, NEW S, NEW x, OrderFree(U, V), IsFiniteSet(S),
         base \in V, S \subseteq U, x \in U, x \notin S
  PROVE  /\ FoldedSet(base, S) \in V
         /\ FoldedSet(base, S \cup {x}) = AddChanged(x, FoldedSet(base, S))
<1>. DEFINE Adds(T) == /\ FoldedSet(base, T) \in V
                       /\ \A y \in U \ T :
                            FoldedSet(base, T \cup {y}) = AddChanged(y, FoldedSet(base, T))
            Lost == {n \in Nat :
                       \E T \in SUBSET U : IsFiniteSet(T) /\ Cardinality(T) = n /\ ~Adds(T)}
<1>. SUFFICES ASSUME ~Adds(S)
              PROVE  FALSE
  OBVIOUS
<1>1. Lost # {} /\ Lost \subseteq Nat
  <2>1. Cardinality(S) \in Nat
    BY FS_CardinalityType
  <2>. HIDE DEF Adds
  <2>. QED
    BY <2>1
<1>2. PICK n \in Lost : \A m \in Lost : n <= m
  BY <1>1, LeastOfNumbers
<1>3. PICK T \in SUBSET U : IsFiniteSet(T) /\ Cardinality(T) = n /\ ~Adds(T)
  BY <1>2
<1>4. ASSUME NEW z \in T
      PROVE  Adds(T \ {z})
  <2>1. T \ {z} \in SUBSET U /\ IsFiniteSet(T \ {z}) /\ Cardinality(T \ {z}) = n - 1
    BY <1>3, FS_RemoveElement, FS_Subset
  <2>2. n - 1 \in Nat /\ ~(n <= n - 1)
    BY <1>1, <2>1, FS_CardinalityType
  <2>3. n - 1 \notin Lost
    <3>. HIDE DEF Lost
    <3>. QED
      BY <1>2, <2>2
  <2>. HIDE DEF Adds
  <2>. QED
    BY <2>1, <2>2, <2>3
<1>. HIDE DEF Lost
<1>5. ASSUME NEW z \in T
      PROVE  /\ FoldedSet(base, T) = AddChanged(z, FoldedSet(base, T \ {z}))
             /\ FoldedSet(base, T \ {z}) \in V
  <2>1. z \in U \ (T \ {z}) /\ (T \ {z}) \cup {z} = T
    OBVIOUS
  <2>. QED
    BY <1>4, <2>1
<1>6. FoldedSet(base, T) \in V
  <2>1. CASE T = {}
    BY <2>1, FoldSetEmpty
  <2>2. CASE T # {}
    <3>1. PICK z \in T : TRUE
      BY <2>2
    <3>2. z \in U /\ FoldedSet(base, T) = AddChanged(z, FoldedSet(base, T \ {z}))
      BY <1>5
    <3>3. FoldedSet(base, T \ {z}) \in V
      BY <1>5
    <3>4. AddChanged(z, FoldedSet(base, T \ {z})) \in V
      BY <3>2, <3>3 DEF OrderFree
    <3>. QED
      BY <3>2, <3>4
  <2>. QED
    BY <2>1, <2>2
<1>7. ASSUME NEW y \in U \ T
      PROVE  FoldedSet(base, T \cup {y}) = AddChanged(y, FoldedSet(base, T))
  <2>1. PICK W : W = T \cup {y}
    OBVIOUS
  <2>2. IsFiniteSet(W) /\ W # {}
    BY <1>3, <2>1, FS_AddElement
  <2>3. PICK z \in W : FoldedSet(base, W) = AddChanged(z, FoldedSet(base, W \ {z}))
    <3>. HIDE DEF Adds
    <3>. QED
      BY <2>2, FoldSetPicks
  <2>4. FoldedSet(base, T \cup {y}) = AddChanged(z, FoldedSet(base, (T \cup {y}) \ {z}))
    BY <2>1, <2>3
  <2>5. CASE z = y
    <3>1. (T \cup {y}) \ {y} = T
      OBVIOUS
    <3>. QED
      BY <2>4, <2>5, <3>1
  <2>6. CASE z # y
    <3>1. z \in T /\ (T \cup {y}) \ {z} = (T \ {z}) \cup {y} /\ y \in U \ (T \ {z}) /\ z \in U
      BY <2>1, <2>3, <2>6
    <3>2. PICK v : v = FoldedSet(base, T \ {z})
      OBVIOUS
    <3>3. v \in V /\ FoldedSet(base, T) = AddChanged(z, v)
      BY <1>5, <3>1, <3>2
    <3>4. FoldedSet(base, (T \ {z}) \cup {y}) = AddChanged(y, v)
      BY <1>4, <3>1, <3>2
    <3>5. AddChanged(y, AddChanged(z, v)) = AddChanged(z, AddChanged(y, v))
      BY <3>1, <3>3 DEF OrderFree
    <3>. QED
      BY <2>4, <3>1, <3>3, <3>4, <3>5
  <2>. QED
    BY <2>5, <2>6
<1>. QED
  BY <1>3, <1>6, <1>7

(* The sum over the rows grows by what a new row adds. *)
LEMMA SumGrows ==
  ASSUME NEW S, NEW w, w \notin S, IsFiniteSet(S),
         \A x \in S \cup {w} : Cardinality(Changed(x)) \in Nat
  PROVE  FoldSet(AddChanged, 0, S \cup {w})
           = FoldSet(AddChanged, 0, S) + Cardinality(Changed(w))
<1>. PICK U : U = S \cup {w}
  OBVIOUS
<1>1. S \in SUBSET U /\ w \in U \ S
  OBVIOUS
<1>2. OrderFree(U, Nat)
  <2>1. \A y \in U : Cardinality(Changed(y)) \in Nat
    OBVIOUS
  <2>2. \A y \in U, v \in Nat : AddChanged(y, v) = v + Cardinality(Changed(y))
    BY DEF AddChanged
  <2>3. \A y \in U, v \in Nat : AddChanged(y, v) \in Nat
    BY <2>1, <2>2
  <2>4. ASSUME NEW y \in U, NEW z \in U, NEW v \in Nat
        PROVE  AddChanged(y, AddChanged(z, v)) = AddChanged(z, AddChanged(y, v))
    <3>1. /\ AddChanged(y, AddChanged(z, v))
               = (v + Cardinality(Changed(z))) + Cardinality(Changed(y))
          /\ AddChanged(z, AddChanged(y, v))
               = (v + Cardinality(Changed(y))) + Cardinality(Changed(z))
      BY DEF AddChanged
    <3>2. Cardinality(Changed(y)) \in Nat /\ Cardinality(Changed(z)) \in Nat
      BY <2>1
    <3>. QED
      BY <3>1, <3>2
  <2>. QED
    BY <2>3, <2>4 DEF OrderFree
<1>3. FoldedSet(0, S \cup {w}) = AddChanged(w, FoldedSet(0, S))
  <2>1. S \subseteq U /\ w \in U /\ w \notin S /\ 0 \in Nat
    OBVIOUS
  <2>. QED
    BY <1>2, <2>1, FoldSetAdd
<1>4. \A T : FoldedSet(0, T) = FoldSet(AddChanged, 0, T)
  BY DEF FoldedSet
<1>. QED
  BY <1>3, <1>4 DEF AddChanged

(* cells_masked is the number of cells that differ from what they were, as long
   as no row was bypassed after its composite key had been counted, and no
   NULL masked that a rule does not keep. *)
THEOREM CountedOnce == Spec => []CellsCounted
<1>. DEFINE Inv == IsFiniteSet(written) /\ Written /\ CellsCounted
<1>1. Init => Inv
  <2>. SUFFICES ASSUME Init
                PROVE  Inv
    OBVIOUS
  <2>1. FoldSet(AddChanged, 0, {}) = 0
    BY FoldSetEmpty DEF FoldedSet
  <2>. QED
    BY <2>1, FS_EmptySet DEF Init, Written, CellsCounted
<1>2. Inv /\ Written' /\ [Next]_vars => Inv'
  <2>. SUFFICES ASSUME Inv, Written', [Next]_vars
                PROVE  Inv'
    OBVIOUS
  <2>1. ASSUME NEW r \in Input, Mask(r)
        PROVE  Inv'
    <3>. PICK m : m = MaskRecord(r)
      OBVIOUS
    <3>. PICK w : w = [raw |-> r, cells |-> m.cells]
      OBVIOUS
    <3>1. /\ written' = written \cup {w} /\ masked' = masked + m.count
          /\ \A x \in written : x.raw # r
      BY <2>1 DEF Mask
    <3>2. w \notin written /\ IsFiniteSet(written')
      BY <3>1, FS_AddElement
    <3>3. ASSUME \A x \in written' : Countable(x)
          PROVE  masked' = FoldSet(AddChanged, 0, written')
      <4>1. \A x \in written' : x.raw \in Input /\ x.cells = MaskRecord(x.raw).cells
        BY DEF Written
      <4>2. \A x \in written' : Orderly(x.raw.table)
        BY <3>3 DEF Countable
      <4>3. ASSUME NEW x \in written'
            PROVE  Changed(x) = Differing(x.raw, x.cells) /\ Cardinality(Changed(x)) \in Nat
        <5>1. DOMAIN x.cells = DOMAIN x.raw.cells
          BY <4>1, <4>2, Result
        <5>2. Changed(x) = Differing(x.raw, x.cells)
          BY <5>1 DEF Changed, Differing
        <5>3. Changed(x) \subseteq DOMAIN x.raw.cells
          BY <5>1 DEF Changed
        <5>. QED
          BY <4>1, <5>2, <5>3, RecordFacts, FS_Subset, FS_CardinalityType
      <4>4. FoldSet(AddChanged, 0, written')
              = FoldSet(AddChanged, 0, written) + Cardinality(Changed(w))
        BY <3>1, <3>2, <4>3, SumGrows
      <4>5. m.count = Cardinality(Changed(w))
        <5>1. w \in written' /\ w.raw = r /\ w.cells = m.cells
          BY <3>1
        <5>2. KeepsNulls(r) /\ (Bypassed(r) => Composites[r.table] = <<>>) /\ Orderly(r.table)
          BY <3>3, <5>1 DEF Countable, KeepsNulls
        <5>3. m.count = Cardinality(Differing(r, m.cells))
          BY <5>2, Result
        <5>. QED
          BY <4>3, <5>1, <5>3
      <4>6. masked = FoldSet(AddChanged, 0, written)
        BY <3>1, <3>3 DEF CellsCounted
      <4>. QED
        BY <3>1, <4>4, <4>5, <4>6
    <3>. QED
      BY <3>2, <3>3 DEF CellsCounted
  <2>2. CASE UNCHANGED vars
    BY <2>2 DEF vars, CellsCounted
  <2>. QED
    BY <2>1, <2>2 DEF Next
<1>. QED
  BY <1>1, <1>2, RecordsFollow, PTL DEF Spec

-----------------------------------------------------------------------------
(* Subset: what one more row, or one more line of DDL, changes. *)

(* The rows that dumps may have, and the items of what is written. *)
RowsOn(item) ==
  IF item.kind = "row" THEN {item.row}
  ELSE IF item.kind = "insert"
       THEN UNION {ToSet(item.lines[n].rows) : n \in DOMAIN item.lines}
       ELSE {}

AnyRow == UNION {UNION {RowsOn(item) : item \in ToSet(d)} : d \in Dumps}

OutItem ==
  {x \in UNION {ToSet(d) : d \in Dumps} : x.kind \in {"ddl", "head", "end"}}
    \cup [kind : {"rows"}, rows : Seq(AnyRow)]

-----------------------------------------------------------------------------
(* The engine while it filters the rows of a statement. *)

TableName == {Root} \cup {r.table : r \in AnyRow}
KeyValue == {r.cells[c] : r \in AnyRow, c \in {Pk, "id"}}
KeptKeys == UNION {[D -> SUBSET KeyValue] : D \in SUBSET TableName}
Counters == UNION {[D -> Nat] : D \in SUBSET TableName}

Engine(keys) ==
  [fks : {keys}, keys : KeptKeys, rows : Seq(AnyRow), read : Counters, written : Counters]

LEMMA CountersOf ==
  \A f : f \in Counters <=>
    f \in [DOMAIN f -> Nat] /\ DOMAIN f \subseteq TableName
BY DEF Counters

LEMMA KeptKeysOf ==
  \A f : f \in KeptKeys <=>
    f \in [DOMAIN f -> SUBSET KeyValue] /\ DOMAIN f \subseteq TableName
BY DEF KeptKeys

LEMMA CountedForOne ==
  ASSUME NEW f \in Counters, NEW t \in TableName
  PROVE  /\ CountedFor(f, t) \in Counters
         /\ DOMAIN CountedFor(f, t) = DOMAIN f \cup {t}
         /\ Of(CountedFor(f, t), t) = Of(f, t) + 1
         /\ \A u : u # t => Of(CountedFor(f, t), u) = Of(f, u)
<1>. PICK g : g = CountedFor(f, t)
  OBVIOUS
<1>1. f \in [DOMAIN f -> Nat] /\ DOMAIN f \subseteq TableName
  BY CountersOf
<1>2. Of(f, t) \in Nat
  BY <1>1 DEF Of
<1>3. g = [u \in DOMAIN f \cup {t} |-> IF u = t THEN Of(f, t) + 1 ELSE f[u]]
  BY DEF CountedFor
<1>4. g \in [DOMAIN f \cup {t} -> Nat]
  BY <1>1, <1>2, <1>3
<1>5. g \in Counters
  BY <1>1, <1>4, CountersOf
<1>6. Of(g, t) = Of(f, t) + 1 /\ \A u : u # t => Of(g, u) = Of(f, u)
  BY <1>3 DEF Of
<1>. QED
  BY <1>4, <1>5, <1>6

LEMMA KeysAfterType ==
  ASSUME NEW ks, NEW a \in Engine(ks), NEW r \in AnyRow
  PROVE  /\ KeysAfter(a, r) \in KeptKeys
         /\ DOMAIN a.keys \subseteq DOMAIN KeysAfter(a, r)
         /\ Root \in DOMAIN a.keys => KeysAfter(a, r)[Root] = a.keys[Root]
<1>. PICK g, k : g = KeysAfter(a, r) /\ k = a.keys
  OBVIOUS
<1>0. k \in KeptKeys
  BY DEF Engine
<1>1. k \in [DOMAIN k -> SUBSET KeyValue] /\ DOMAIN k \subseteq TableName
  BY <1>0, KeptKeysOf
<1>2. CASE g = k
  BY <1>0, <1>2
<1>3. CASE g # k
  <2>1. /\ r.table # Root /\ "id" \in DOMAIN r.cells
        /\ g = [t \in DOMAIN k \cup {r.table} |->
                  (IF t \in DOMAIN k THEN k[t] ELSE {})
                     \cup (IF t = r.table THEN {r.cells["id"]} ELSE {})]
    BY <1>3 DEF KeysAfter
  <2>2. r.cells["id"] \in KeyValue /\ r.table \in TableName
    BY DEF KeyValue, TableName
  <2>3. g \in [DOMAIN k \cup {r.table} -> SUBSET KeyValue]
    BY <1>1, <2>1, <2>2
  <2>4. g \in KeptKeys
    BY <1>1, <2>2, <2>3, KeptKeysOf
  <2>5. DOMAIN g = DOMAIN k \cup {r.table}
    BY <2>1
  <2>6. ASSUME Root \in DOMAIN k
        PROVE  g[Root] = k[Root]
    <3>1. g[Root] = (IF Root \in DOMAIN k THEN k[Root] ELSE {})
                      \cup (IF Root = r.table THEN {r.cells["id"]} ELSE {})
      BY <2>1, <2>6
    <3>. QED
      BY <2>1, <2>6, <3>1
  <2>. QED
    BY <2>4, <2>5, <2>6
<1>. QED
  BY <1>2, <1>3

LEMMA FilterRowType ==
  ASSUME NEW ks, NEW a \in Engine(ks), NEW r \in AnyRow
  PROVE  FilterRow(a, r) \in Engine(ks)
<1>. PICK b : b = FilterRow(a, r)
  OBVIOUS
<1>1. b = [fks     |-> a.fks,
           keys    |-> KeysAfter(a, r),
           rows    |-> IF ShouldKeep(a, r) THEN Append(a.rows, r) ELSE a.rows,
           read    |-> CountedFor(a.read, r.table),
           written |-> IF ShouldKeep(a, r) THEN CountedFor(a.written, r.table) ELSE a.written]
  BY DEF FilterRow
<1>2. /\ a.fks = ks /\ a.rows \in Seq(AnyRow)
      /\ a.read \in Counters /\ a.written \in Counters /\ r.table \in TableName
  BY DEF Engine, TableName
<1>3. Append(a.rows, r) \in Seq(AnyRow)
  BY <1>2, AppendProperties
<1>4. CountedFor(a.read, r.table) \in Counters /\ CountedFor(a.written, r.table) \in Counters
  BY <1>2, CountedForOne
<1>5. KeysAfter(a, r) \in KeptKeys
  BY KeysAfterType
<1>6. /\ b.fks = ks /\ b.keys \in KeptKeys /\ b.rows \in Seq(AnyRow)
      /\ b.read \in Counters /\ b.written \in Counters
  BY <1>1, <1>2, <1>3, <1>4, <1>5
<1>. QED
  BY <1>1, <1>6 DEF Engine

-----------------------------------------------------------------------------
(* What is counted, and in which order rows are written. *)

(* The rows of some are among the others, at the places f. *)
IsPlacing(f, some, rows) ==
  /\ f \in [1 .. Len(some) -> 1 .. Len(rows)]
  /\ \A i, j \in 1 .. Len(some) : i < j => f[i] < f[j]
  /\ \A i \in 1 .. Len(some) : some[i] = rows[f[i]]

IsSelected(some, rows) == \E f : IsPlacing(f, some, rows)

LEMMA SelectedNext ==
  ASSUME NEW R, NEW some \in Seq(R), NEW rows \in Seq(R), NEW r \in R, IsSelected(some, rows)
  PROVE  /\ IsSelected(some, Append(rows, r))
         /\ IsSelected(Append(some, r), Append(rows, r))
<1>. PICK f : IsPlacing(f, some, rows)
  BY DEF IsSelected
<1>. PICK m, n, rs, ss : m = Len(some) /\ n = Len(rows) /\ rs = Append(rows, r)
                         /\ ss = Append(some, r)
  OBVIOUS
<1>1. m \in Nat /\ n \in Nat
  OBVIOUS
<1>2. /\ f \in [1 .. m -> 1 .. n]
      /\ \A i, j \in 1 .. m : i < j => f[i] < f[j]
      /\ \A i \in 1 .. m : some[i] = rows[f[i]]
  BY DEF IsPlacing
<1>3. /\ Len(rs) = n + 1 /\ rs[n + 1] = r /\ \A i \in 1 .. n : rs[i] = rows[i]
      /\ Len(ss) = m + 1 /\ ss[m + 1] = r /\ \A i \in 1 .. m : ss[i] = some[i]
  BY AppendProperties
<1>4. IsPlacing(f, some, rs)
  <2>1. f \in [1 .. m -> 1 .. n + 1]
    BY <1>1, <1>2
  <2>2. \A i \in 1 .. m : some[i] = rs[f[i]]
    BY <1>2, <1>3
  <2>3. IsPlacing(f, some, rs) <=>
          /\ f \in [1 .. m -> 1 .. n + 1]
          /\ \A i, j \in 1 .. m : i < j => f[i] < f[j]
          /\ \A i \in 1 .. m : some[i] = rs[f[i]]
    BY <1>3 DEF IsPlacing
  <2>. QED
    BY <1>2, <2>1, <2>2, <2>3
<1>. DEFINE g == [i \in 1 .. m + 1 |-> IF i = m + 1 THEN n + 1 ELSE f[i]]
<1>5. /\ g \in [1 .. m + 1 -> 1 .. n + 1]
      /\ g[m + 1] = n + 1 /\ \A i \in 1 .. m : g[i] = f[i]
  BY <1>1, <1>2
<1>. HIDE DEF g
<1>9. \A i \in 1 .. m + 1 : i = m + 1 \/ i \in 1 .. m
  BY <1>1
<1>6. \A i, j \in 1 .. m + 1 : i < j => g[i] < g[j]
  <2>. SUFFICES ASSUME NEW i \in 1 .. m + 1, NEW j \in 1 .. m + 1, i < j
                PROVE  g[i] < g[j]
    OBVIOUS
  <2>1. i \in 1 .. m /\ g[i] = f[i] /\ f[i] \in 1 .. n
    <3>1. i \in 1 .. m
      BY <1>1
    <3>. QED
      BY <1>2, <1>5, <3>1
  <2>2. CASE j = m + 1
    BY <1>1, <1>5, <2>1, <2>2
  <2>3. CASE j \in 1 .. m
    BY <1>2, <1>5, <2>1, <2>3
  <2>. QED
    BY <1>9, <2>2, <2>3
<1>7. \A i \in 1 .. m + 1 : ss[i] = rs[g[i]]
  <2>. SUFFICES ASSUME NEW i \in 1 .. m + 1
                PROVE  ss[i] = rs[g[i]]
    OBVIOUS
  <2>1. CASE i = m + 1
    BY <1>3, <1>5, <2>1
  <2>2. CASE i \in 1 .. m
    <3>1. g[i] = f[i] /\ f[i] \in 1 .. n
      BY <1>2, <1>5, <2>2
    <3>. QED
      BY <1>2, <1>3, <2>2, <3>1
  <2>. QED
    BY <1>9, <2>1, <2>2
<1>8. IsPlacing(g, ss, rs)
  BY <1>3, <1>5, <1>6, <1>7 DEF IsPlacing
<1>. QED
  BY <1>4, <1>8 DEF IsSelected

-----------------------------------------------------------------------------
(* One more row. *)
LEMMA RowAdded ==
  ASSUME NEW R, NEW rows \in Seq(R), NEW r \in R
  PROVE  /\ ToSet(Append(rows, r)) = ToSet(rows) \cup {r}
         /\ DOMAIN rows = 1 .. Len(rows) /\ Len(rows) \in Nat
         /\ DOMAIN Append(rows, r) = 1 .. Len(rows) + 1
         /\ Append(rows, r)[Len(rows) + 1] = r
         /\ \A i \in 1 .. Len(rows) : Append(rows, r)[i] = rows[i]
<1>. PICK n, s : n = Len(rows) /\ s = Append(rows, r)
  OBVIOUS
<1>1. DOMAIN rows = 1 .. n /\ n \in Nat
  BY LenProperties
<1>2. s \in Seq(R) /\ Len(s) = n + 1 /\ s[n + 1] = r /\ \A i \in 1 .. n : s[i] = rows[i]
  BY AppendProperties
<1>3. DOMAIN s = 1 .. n + 1
  BY <1>2, LenProperties
<1>4. ToSet(s) = ToSet(rows) \cup {r}
  <2>1. ToSet(rows) = {rows[i] : i \in 1 .. n} /\ ToSet(s) = {s[i] : i \in 1 .. n + 1}
    BY <1>1, <1>3 DEF ToSet
  <2>2. 1 .. n + 1 = (1 .. n) \cup {n + 1}
    BY <1>1
  <2>. QED
    BY <1>2, <2>1, <2>2
<1>. QED
  BY <1>1, <1>2, <1>3, <1>4

LEMMA AtAdded ==
  ASSUME NEW R, NEW rows \in Seq(R), NEW r \in R, NEW t
  PROVE  /\ IsFiniteSet(At(rows, t)) /\ Cardinality(At(rows, t)) \in Nat
         /\ At(Append(rows, r), t)
              = IF r.table = t THEN At(rows, t) \cup {Len(rows) + 1} ELSE At(rows, t)
         /\ Cardinality(At(Append(rows, r), t))
              = Cardinality(At(rows, t)) + IF r.table = t THEN 1 ELSE 0
         /\ OfTable(Append(rows, r), t)
              = OfTable(rows, t) \cup IF r.table = t THEN {r} ELSE {}
<1>. PICK n, s : n = Len(rows) /\ s = Append(rows, r)
  OBVIOUS
<1>1. /\ DOMAIN rows = 1 .. n /\ n \in Nat /\ DOMAIN s = 1 .. n + 1 /\ s[n + 1] = r
      /\ \A i \in 1 .. n : s[i] = rows[i]
  BY RowAdded
<1>2. At(rows, t) \subseteq 1 .. n
  BY <1>1 DEF At
<1>3. IsFiniteSet(At(rows, t)) /\ Cardinality(At(rows, t)) \in Nat
  <2>1. IsFiniteSet(1 .. n)
    BY <1>1, FS_Interval
  <2>2. IsFiniteSet(At(rows, t))
    BY <1>2, <2>1, FS_Subset
  <2>. QED
    BY <2>2, FS_CardinalityType
<1>4. At(s, t) = IF r.table = t THEN At(rows, t) \cup {n + 1} ELSE At(rows, t)
  <2>1. 1 .. n + 1 = (1 .. n) \cup {n + 1}
    BY <1>1
  <2>2. At(s, t) = {i \in (1 .. n) \cup {n + 1} : s[i].table = t}
    BY <1>1, <2>1 DEF At
  <2>3. At(rows, t) = {i \in 1 .. n : s[i].table = t}
    BY <1>1 DEF At
  <2>. QED
    BY <1>1, <2>2, <2>3
<1>5. n + 1 \notin At(rows, t)
  BY <1>1, <1>2
<1>6. Cardinality(At(s, t)) = Cardinality(At(rows, t)) + IF r.table = t THEN 1 ELSE 0
  <2>1. CASE r.table = t
    BY <1>3, <1>4, <1>5, <2>1, FS_AddElement
  <2>2. CASE r.table # t
    BY <1>3, <1>4, <2>2
  <2>. QED
    BY <2>1, <2>2
<1>7. OfTable(s, t) = OfTable(rows, t) \cup IF r.table = t THEN {r} ELSE {}
  <2>1. {s[i] : i \in At(rows, t)} = {rows[i] : i \in At(rows, t)}
    BY <1>1, <1>2
  <2>2. CASE r.table = t
    BY <1>1, <1>4, <2>1, <2>2 DEF OfTable
  <2>3. CASE r.table # t
    BY <1>4, <2>1, <2>3 DEF OfTable
  <2>. QED
    BY <2>2, <2>3
<1>. QED
  BY <1>3, <1>4, <1>6, <1>7

LEMMA OfTableRows ==
  \A rows, t : OfTable(rows, t) = {r \in ToSet(rows) : r.table = t}
BY DEF OfTable, At, ToSet

(* f counts the rows of each table. *)
Tally(f, rows) ==
  /\ f \in Counters
  /\ DOMAIN f = {r.table : r \in ToSet(rows)}
  /\ \A t : Of(f, t) = Cardinality(At(rows, t))

LEMMA TallyNext ==
  ASSUME NEW f, NEW rows \in Seq(AnyRow), NEW r \in AnyRow, Tally(f, rows)
  PROVE  Tally(CountedFor(f, r.table), Append(rows, r))
<1>. PICK g, s, t : g = CountedFor(f, r.table) /\ s = Append(rows, r) /\ t = r.table
  OBVIOUS
<1>1. /\ f \in Counters /\ DOMAIN f = {x.table : x \in ToSet(rows)}
      /\ \A u : Of(f, u) = Cardinality(At(rows, u))
  BY DEF Tally
<1>2. t \in TableName
  BY DEF TableName
<1>3. /\ g \in Counters /\ DOMAIN g = DOMAIN f \cup {t}
      /\ Of(g, t) = Of(f, t) + 1 /\ \A u : u # t => Of(g, u) = Of(f, u)
  BY <1>1, <1>2, CountedForOne
<1>4. DOMAIN g = {x.table : x \in ToSet(s)}
  <2>1. ToSet(s) = ToSet(rows) \cup {r}
    BY RowAdded
  <2>. QED
    BY <1>1, <1>3, <2>1
<1>5. ASSUME NEW u
      PROVE  Of(g, u) = Cardinality(At(s, u))
  <2>1. /\ Cardinality(At(s, u)) = Cardinality(At(rows, u)) + IF t = u THEN 1 ELSE 0
        /\ Cardinality(At(rows, u)) \in Nat
    BY AtAdded
  <2>2. CASE u = t
    BY <1>1, <1>3, <2>1, <2>2
  <2>3. CASE u # t
    BY <1>1, <1>3, <2>1, <2>3
  <2>. QED
    BY <2>2, <2>3
<1>. QED
  BY <1>3, <1>4, <1>5 DEF Tally

-----------------------------------------------------------------------------
(* Which rows are kept. *)

(* The foreign keys of a table that lead to a table of D. *)
Up(ks, D, t) == {fk \in ToSet(ks) : fk.child = t /\ fk.parent \in D}

Closed(ks, D) == Root \in D /\ \A fk \in ToSet(ks) : fk.parent \in D => fk.child \in D

(* Each table of D but the root has one, whose parent has been met as a whole; and the
   rows have its column. *)
IsTree(ks, D, rows) ==
  /\ Closed(ks, D)
  /\ Up(ks, D, Root) = {}
  /\ \A t \in D \ {Root} : \E fk : Up(ks, D, t) = {fk}
  /\ \A t \in D : \A fk \in Up(ks, D, t) : fk.parent # Root => Before(rows, fk.parent, t)
  /\ \A r \in ToSet(rows) : r.table \in D =>
       /\ "id" \in DOMAIN r.cells
       /\ r.table = Root => Pk \in DOMAIN r.cells
       /\ \A fk \in Up(ks, D, r.table) : fk.col \in DOMAIN r.cells

(* The parents of the rows that have been met have kept a row. *)
ParentsKept(ks, D, some, rows) ==
  \A r \in ToSet(rows) : \A fk \in Up(ks, D, r.table) :
    fk.parent # Root => OfTable(some, fk.parent) # {}

(* The keys of the rows of t that are kept; those of the root are K. *)
KeysKept(K, some, t) == IF t = Root THEN K ELSE {p.cells["id"] : p \in OfTable(some, t)}

Deserves(ks, D, K, some, r) ==
  \/ r.table \notin D
  \/ r.table = Root /\ r.cells[Pk] \in K
  \/ \E fk \in Up(ks, D, r.table) : r.cells[fk.col] \in KeysKept(K, some, fk.parent)

Cascades(ks, D, K, keys, some, rows) ==
  /\ \A t \in D \ {Root} : t \in DOMAIN keys <=> OfTable(some, t) # {}
  /\ \A t \in DOMAIN keys : keys[t] = KeysKept(K, some, t)
  /\ \A r \in ToSet(rows) : r \in ToSet(some) <=> Deserves(ks, D, K, some, r)

(* The rows of the root table are kept if their keys are among K. *)
RootsAmong(K, some, rows) ==
  OfTable(some, Root) = {r \in OfTable(rows, Root) : Pk \in DOMAIN r.cells => r.cells[Pk] \in K}

(* After some rows, of which some are kept: a is what the engine has. *)
HasPassed(ks, D, K, a, some, rows) ==
  /\ a \in Engine(ks)
  /\ Tally(a.read, rows) /\ Tally(a.written, some) /\ IsSelected(some, rows)
  /\ Root \in DOMAIN a.keys /\ a.keys[Root] = K /\ DOMAIN a.keys \subseteq D
  /\ RootsAmong(K, some, rows)
  /\ IsTree(ks, D, rows) /\ ParentsKept(ks, D, some, rows)
       => Cascades(ks, D, K, a.keys, some, rows)

(* A tree of all rows is one of the first. *)
LEMMA TreeBefore ==
  ASSUME NEW ks, NEW D, NEW R, NEW rows \in Seq(R), NEW r \in R,
         IsTree(ks, D, Append(rows, r))
  PROVE  IsTree(ks, D, rows)
<1>. PICK s : s = Append(rows, r)
  OBVIOUS
<1>1. ToSet(rows) \subseteq ToSet(s)
  BY RowAdded
<1>2. \A t : At(rows, t) \subseteq At(s, t)
  BY AtAdded
<1>3. \A t, u : Before(s, t, u) => Before(rows, t, u)
  BY <1>2 DEF Before
<1>4. \A t \in D : \A fk \in Up(ks, D, t) : fk.parent # Root => Before(rows, fk.parent, t)
  BY <1>3 DEF IsTree
<1>5. \A x \in ToSet(rows) : x.table \in D =>
        /\ "id" \in DOMAIN x.cells
        /\ x.table = Root => Pk \in DOMAIN x.cells
        /\ \A fk \in Up(ks, D, x.table) : fk.col \in DOMAIN x.cells
  BY <1>1 DEF IsTree
<1>. QED
  BY <1>4, <1>5 DEF IsTree

(* The last row of a tree is not in the parent table of any. *)
LEMMA LastHasNoChild ==
  ASSUME NEW ks, NEW D, NEW R, NEW rows \in Seq(R), NEW r \in R,
         IsTree(ks, D, Append(rows, r)),
         NEW x \in ToSet(Append(rows, r)), NEW fk \in Up(ks, D, x.table), fk.parent # Root
  PROVE  r.table # fk.parent
<1>. PICK s, n : s = Append(rows, r) /\ n = Len(rows)
  OBVIOUS
<1>. SUFFICES ASSUME r.table = fk.parent
              PROVE  FALSE
  OBVIOUS
<1>1. DOMAIN s = 1 .. n + 1 /\ n \in Nat /\ s[n + 1] = r
  BY RowAdded
<1>2. PICK j \in 1 .. n + 1 : x = s[j]
  BY <1>1 DEF ToSet
<1>3. n + 1 \in At(s, fk.parent) /\ j \in At(s, x.table)
  BY <1>1, <1>2 DEF At
<1>4. fk \in ToSet(ks) /\ fk.parent \in D /\ fk.child = x.table
  BY DEF Up
<1>5. x.table \in D
  BY <1>4 DEF IsTree, Closed
<1>6. Before(s, fk.parent, x.table)
  BY <1>5 DEF IsTree
<1>7. n + 1 < j
  BY <1>3, <1>6 DEF Before
<1>. QED
  BY <1>1, <1>7

(* In a tree whose parents have been met a row is kept if it deserves it, and the keys
   are those of the rows that are kept. *)
LEMMA DecisionInTree ==
  ASSUME NEW ks, NEW D, NEW K, NEW a \in Engine(ks), ks \in Seq(ToSet(ks)),
         NEW some \in Seq(AnyRow), NEW rows \in Seq(AnyRow), NEW r \in AnyRow,
         IsTree(ks, D, Append(rows, r)),
         \A fk \in Up(ks, D, r.table) : fk.parent # Root => OfTable(some, fk.parent) # {},
         Root \in DOMAIN a.keys, a.keys[Root] = K, DOMAIN a.keys \subseteq D,
         Cascades(ks, D, K, a.keys, some, rows)
  PROVE  /\ ShouldKeep(a, r) <=> Deserves(ks, D, K, some, r)
         /\ KeysAfter(a, r)
              = IF r.table \in D \ {Root} /\ ShouldKeep(a, r)
                THEN [t \in DOMAIN a.keys \cup {r.table} |->
                        (IF t \in DOMAIN a.keys THEN a.keys[t] ELSE {})
                           \cup (IF t = r.table THEN {r.cells["id"]} ELSE {})]
                ELSE a.keys
<1>. PICK k, t : k = a.keys /\ t = r.table
  OBVIOUS
<1>0. /\ Closed(ks, D) /\ Up(ks, D, Root) = {}
      /\ \A u \in D \ {Root} : \E fk : Up(ks, D, u) = {fk}
  BY DEF IsTree
<1>1. r \in ToSet(Append(rows, r))
  BY RowAdded
<1>2. t \in D =>
        /\ "id" \in DOMAIN r.cells
        /\ t = Root => Pk \in DOMAIN r.cells
        /\ \A fk \in Up(ks, D, t) : fk.col \in DOMAIN r.cells
  BY <1>1 DEF IsTree
<1>3. DOMAIN ks = 1 .. Len(ks) /\ Len(ks) \in Nat /\ a.fks = ks
  BY LenProperties DEF Engine
<1>4. \A i \in Checkable(a, r) : ks[i] \in Up(ks, D, t) /\ t \in D
  <2>. SUFFICES ASSUME NEW i \in Checkable(a, r)
                PROVE  ks[i] \in Up(ks, D, t) /\ t \in D
    OBVIOUS
  <2>1. i \in DOMAIN ks /\ ks[i].child = t /\ ks[i].parent \in DOMAIN k
    BY <1>3 DEF Checkable
  <2>2. ks[i] \in ToSet(ks)
    BY <2>1 DEF ToSet
  <2>3. ks[i].parent \in D
    BY <2>1
  <2>. QED
    BY <1>0, <2>1, <2>2, <2>3 DEF Closed, Up
<1>5. CASE t = Root
  <2>1. Root \in D
    BY <1>0 DEF Closed
  <2>2. ShouldKeep(a, r) <=> r.cells[Pk] \in K
    BY <1>2, <1>5, <2>1 DEF ShouldKeep
  <2>3. Deserves(ks, D, K, some, r) <=> r.cells[Pk] \in K
    BY <1>0, <1>5, <2>1 DEF Deserves
  <2>4. KeysAfter(a, r) = a.keys
    BY <1>5 DEF KeysAfter
  <2>. QED
    BY <1>5, <2>2, <2>3, <2>4
<1>6. CASE t \notin D
  <2>1. t # Root
    BY <1>0, <1>6 DEF Closed
  <2>2. Checkable(a, r) = {}
    BY <1>4, <1>6
  <2>. QED
    BY <1>6, <2>1, <2>2 DEF ShouldKeep, Deserves, KeysAfter
<1>7. CASE t \in D \ {Root}
  <2>1. PICK fk : Up(ks, D, t) = {fk}
    BY <1>0, <1>7
  <2>2. fk \in ToSet(ks) /\ fk.child = t /\ fk.parent \in D
    BY <2>1 DEF Up
  <2>3. fk.parent \in DOMAIN k
    <3>1. CASE fk.parent = Root
      BY <3>1
    <3>2. CASE fk.parent # Root
      <4>1. OfTable(some, fk.parent) # {}
        BY <2>1, <3>2
      <4>. QED
        BY <2>2, <3>2, <4>1 DEF Cascades
    <3>. QED
      BY <3>1, <3>2
  <2>4. k[fk.parent] = KeysKept(K, some, fk.parent)
    BY <2>3 DEF Cascades
  <2>5. PICK i \in DOMAIN ks : ks[i] = fk
    BY <2>2 DEF ToSet
  <2>6. i \in Checkable(a, r)
    BY <1>2, <1>3, <1>7, <2>1, <2>2, <2>3, <2>5 DEF Checkable
  <2>7. Min(Checkable(a, r)) \in Checkable(a, r)
    <3>1. Checkable(a, r) \subseteq Nat
      BY <1>3 DEF Checkable
    <3>2. PICK m \in Checkable(a, r) : \A n \in Checkable(a, r) : m <= n
      BY <2>6, <3>1, LeastOfNumbers
    <3>. QED
      BY <3>2 DEF Min
  <2>8. ks[Min(Checkable(a, r))] = fk
    BY <1>4, <2>1, <2>7
  <2>9. ParentKept(a, r) <=> r.cells[fk.col] \in KeysKept(K, some, fk.parent)
    BY <1>3, <2>4, <2>8 DEF ParentKept
  <2>10. ShouldKeep(a, r) <=> ParentKept(a, r)
    BY <1>7, <2>6 DEF ShouldKeep
  <2>11. Deserves(ks, D, K, some, r) <=> r.cells[fk.col] \in KeysKept(K, some, fk.parent)
    BY <1>7, <2>1 DEF Deserves
  <2>12. CASE ParentKept(a, r)
    <3>1. KeysAfter(a, r)
            = [u \in DOMAIN a.keys \cup {r.table} |->
                 (IF u \in DOMAIN a.keys THEN a.keys[u] ELSE {})
                    \cup (IF u = r.table THEN {r.cells["id"]} ELSE {})]
      BY <1>2, <1>7, <2>6, <2>12 DEF KeysAfter
    <3>. QED
      BY <1>7, <2>9, <2>10, <2>11, <2>12, <3>1
  <2>13. CASE ~ParentKept(a, r)
    <3>1. KeysAfter(a, r) = a.keys
      BY <2>13 DEF KeysAfter
    <3>. QED
      BY <2>9, <2>10, <2>11, <2>13, <3>1
  <2>. QED
    BY <2>12, <2>13
<1>. QED
  BY <1>5, <1>6, <1>7

(* In any case the keys are those of tables of D. *)
LEMMA KeysStayBelow ==
  ASSUME NEW ks, NEW D, NEW a \in Engine(ks), NEW r \in AnyRow,
         Closed(ks, D), ks \in Seq(ToSet(ks)), DOMAIN a.keys \subseteq D
  PROVE  DOMAIN KeysAfter(a, r) \subseteq D
<1>1. DOMAIN ks = 1 .. Len(ks) /\ a.fks = ks
  BY LenProperties DEF Engine
<1>2. CASE Checkable(a, r) = {}
  <2>1. KeysAfter(a, r) = a.keys
    BY <1>2 DEF KeysAfter
  <2>. QED
    BY <2>1
<1>3. CASE Checkable(a, r) # {}
  <2>1. PICK i \in Checkable(a, r) : TRUE
    BY <1>3
  <2>2. i \in DOMAIN ks /\ ks[i].child = r.table /\ ks[i].parent \in DOMAIN a.keys
    BY <1>1, <2>1 DEF Checkable
  <2>3. ks[i] \in ToSet(ks)
    BY <2>2 DEF ToSet
  <2>4. r.table \in D
    BY <2>2, <2>3 DEF Closed
  <2>5. DOMAIN KeysAfter(a, r) \subseteq DOMAIN a.keys \cup {r.table}
    BY DEF KeysAfter
  <2>. QED
    BY <2>4, <2>5
<1>. QED
  BY <1>2, <1>3

(* No parent of the rows keeps another one when more are kept than some. *)
ParentsDone(ks, D, some, more, rows) ==
  \A x \in ToSet(rows) : \A fk \in Up(ks, D, x.table) :
    fk.parent # Root => /\ OfTable(some, fk.parent) # {}
                        /\ OfTable(more, fk.parent) = OfTable(some, fk.parent)

(* The parents of the first rows have kept a row before the next one is met. *)
LEMMA ParentsKeptBefore ==
  ASSUME NEW ks, NEW D, NEW some \in Seq(AnyRow), NEW rows \in Seq(AnyRow), NEW r \in AnyRow,
         NEW more, more \in {some, Append(some, r)},
         IsTree(ks, D, Append(rows, r)), ParentsKept(ks, D, more, Append(rows, r))
  PROVE  /\ ParentsKept(ks, D, some, rows)
         /\ ParentsDone(ks, D, some, more, Append(rows, r))
<1>1. ASSUME NEW x \in ToSet(Append(rows, r)), NEW fk \in Up(ks, D, x.table), fk.parent # Root
      PROVE  /\ OfTable(some, fk.parent) # {}
             /\ OfTable(more, fk.parent) = OfTable(some, fk.parent)
  <2>1. r.table # fk.parent
    BY <1>1, LastHasNoChild
  <2>2. OfTable(Append(some, r), fk.parent) = OfTable(some, fk.parent)
    <3>1. \A t : OfTable(Append(some, r), t) = OfTable(some, t)
                                                \cup IF r.table = t THEN {r} ELSE {}
      BY AtAdded
    <3>. QED
      BY <2>1, <3>1
  <2>3. OfTable(more, fk.parent) # {}
    BY <1>1 DEF ParentsKept
  <2>. QED
    BY <2>2, <2>3
<1>2. ToSet(rows) \subseteq ToSet(Append(rows, r))
  BY RowAdded
<1>3. ParentsKept(ks, D, some, rows)
  BY <1>1, <1>2 DEF ParentsKept
<1>. QED
  BY <1>1, <1>3 DEF ParentsDone

(* What a row changes about the keys and the rows that are kept. *)
LEMMA CascadesNext ==
  ASSUME NEW ks, NEW D, NEW K, NEW a \in Engine(ks), ks \in Seq(ToSet(ks)),
         NEW some \in Seq(AnyRow), NEW rows \in Seq(AnyRow), NEW r \in AnyRow,
         NEW more, more = IF ShouldKeep(a, r) THEN Append(some, r) ELSE some,
         ToSet(some) \subseteq ToSet(rows),
         IsTree(ks, D, Append(rows, r)), ParentsKept(ks, D, more, Append(rows, r)),
         Root \in DOMAIN a.keys, a.keys[Root] = K, DOMAIN a.keys \subseteq D,
         Cascades(ks, D, K, a.keys, some, rows)
  PROVE  Cascades(ks, D, K, KeysAfter(a, r), more, Append(rows, r))
<1>. PICK k, g, t, s :
       k = a.keys /\ g = KeysAfter(a, r) /\ t = r.table /\ s = Append(rows, r)
  OBVIOUS
<1>1. more \in {some, Append(some, r)} /\ r \in ToSet(s) /\ ToSet(s) = ToSet(rows) \cup {r}
  BY RowAdded
<1>2. \A x \in ToSet(s) : \A fk \in Up(ks, D, x.table) :
        fk.parent # Root => /\ OfTable(some, fk.parent) # {}
                            /\ OfTable(more, fk.parent) = OfTable(some, fk.parent)
  <2>1. ParentsDone(ks, D, some, more, Append(rows, r))
    BY <1>1, ParentsKeptBefore
  <2>. QED
    BY <2>1 DEF ParentsDone
<1>3. /\ ShouldKeep(a, r) <=> Deserves(ks, D, K, some, r)
      /\ g = IF t \in D \ {Root} /\ ShouldKeep(a, r)
             THEN [u \in DOMAIN k \cup {t} |->
                     (IF u \in DOMAIN k THEN k[u] ELSE {})
                        \cup (IF u = t THEN {r.cells["id"]} ELSE {})]
             ELSE k
  <2>1. \A fk \in Up(ks, D, r.table) : fk.parent # Root => OfTable(some, fk.parent) # {}
    BY <1>1, <1>2
  <2>2. /\ ShouldKeep(a, r) <=> Deserves(ks, D, K, some, r)
        /\ KeysAfter(a, r)
             = IF r.table \in D \ {Root} /\ ShouldKeep(a, r)
               THEN [u \in DOMAIN a.keys \cup {r.table} |->
                       (IF u \in DOMAIN a.keys THEN a.keys[u] ELSE {})
                          \cup (IF u = r.table THEN {r.cells["id"]} ELSE {})]
               ELSE a.keys
    BY <2>1, DecisionInTree
  <2>. QED
    BY <2>2
<1>4. /\ \A u \in D \ {Root} : u \in DOMAIN k <=> OfTable(some, u) # {}
      /\ \A u \in DOMAIN k : k[u] = KeysKept(K, some, u)
      /\ \A x \in ToSet(rows) : x \in ToSet(some) <=> Deserves(ks, D, K, some, x)
  BY DEF Cascades
<1>5. \A u : OfTable(more, u) = OfTable(some, u)
                                  \cup IF t = u /\ ShouldKeep(a, r) THEN {r} ELSE {}
  <2>1. \A u : OfTable(Append(some, r), u) = OfTable(some, u) \cup IF t = u THEN {r} ELSE {}
    BY AtAdded
  <2>. QED
    BY <2>1
<1>6. ToSet(more) = ToSet(some) \cup IF ShouldKeep(a, r) THEN {r} ELSE {}
  BY RowAdded
<1>7. \A x \in ToSet(s) : Deserves(ks, D, K, more, x) <=> Deserves(ks, D, K, some, x)
  <2>. SUFFICES ASSUME NEW x \in ToSet(s)
                PROVE  Deserves(ks, D, K, more, x) <=> Deserves(ks, D, K, some, x)
    OBVIOUS
  <2>1. \A fk \in Up(ks, D, x.table) : KeysKept(K, more, fk.parent) = KeysKept(K, some, fk.parent)
    BY <1>2 DEF KeysKept
  <2>. QED
    BY <2>1 DEF Deserves
<1>8. \A x \in ToSet(s) : x \in ToSet(more) <=> Deserves(ks, D, K, more, x)
  <2>. SUFFICES ASSUME NEW x \in ToSet(s)
                PROVE  x \in ToSet(more) <=> Deserves(ks, D, K, some, x)
    BY <1>7
  <2>1. CASE x = r
    BY <1>3, <1>4, <1>6, <2>1
  <2>2. CASE x # r
    BY <1>1, <1>4, <1>6, <2>2
  <2>. QED
    BY <2>1, <2>2
<1>9. \A u \in D \ {Root} : u \in DOMAIN g <=> OfTable(more, u) # {}
  <2>. SUFFICES ASSUME NEW u \in D \ {Root}
                PROVE  u \in DOMAIN g <=> OfTable(more, u) # {}
    OBVIOUS
  <2>1. CASE t = u /\ ShouldKeep(a, r)
    BY <1>3, <1>5, <2>1
  <2>2. CASE ~(t = u /\ ShouldKeep(a, r))
    <3>1. OfTable(more, u) = OfTable(some, u)
      BY <1>5, <2>2
    <3>2. u \in DOMAIN g <=> u \in DOMAIN k
      BY <1>3, <2>2
    <3>. QED
      BY <1>4, <3>1, <3>2
  <2>. QED
    BY <2>1, <2>2
<1>10. \A u \in DOMAIN g : g[u] = KeysKept(K, more, u)
  <2>. SUFFICES ASSUME NEW u \in DOMAIN g
                PROVE  g[u] = KeysKept(K, more, u)
    OBVIOUS
  <2>1. CASE u = t /\ t \in D \ {Root} /\ ShouldKeep(a, r)
    <3>1. g[u] = (IF u \in DOMAIN k THEN k[u] ELSE {}) \cup {r.cells["id"]}
      BY <1>3, <2>1
    <3>2. KeysKept(K, more, u) = {p.cells["id"] : p \in OfTable(some, u)} \cup {r.cells["id"]}
      BY <1>5, <2>1 DEF KeysKept
    <3>3. (IF u \in DOMAIN k THEN k[u] ELSE {}) = {p.cells["id"] : p \in OfTable(some, u)}
      BY <1>4, <2>1 DEF KeysKept
    <3>. QED
      BY <3>1, <3>2, <3>3
  <2>2. CASE ~(u = t /\ t \in D \ {Root} /\ ShouldKeep(a, r))
    <3>1. u \in DOMAIN k /\ g[u] = k[u]
      <4>1. CASE t \in D \ {Root} /\ ShouldKeep(a, r)
        <5>1. DOMAIN g = DOMAIN k \cup {t} /\ u # t /\ u \in DOMAIN k
          BY <1>3, <2>2, <4>1
        <5>2. g[u] = (IF u \in DOMAIN k THEN k[u] ELSE {})
                       \cup (IF u = t THEN {r.cells["id"]} ELSE {})
          BY <1>3, <4>1, <5>1
        <5>. QED
          BY <5>1, <5>2
      <4>2. CASE ~(t \in D \ {Root} /\ ShouldKeep(a, r))
        BY <1>3, <4>2
      <4>. QED
        BY <4>1, <4>2
    <3>2. u \in D
      BY <3>1
    <3>3. KeysKept(K, more, u) = KeysKept(K, some, u)
      BY <1>5, <2>2, <3>2 DEF KeysKept
    <3>. QED
      BY <1>4, <3>1, <3>3
  <2>. QED
    BY <2>1, <2>2
<1>. QED
  BY <1>8, <1>9, <1>10 DEF Cascades

LEMMA RootsNext ==
  ASSUME NEW a, NEW some \in Seq(AnyRow), NEW rows \in Seq(AnyRow), NEW r \in AnyRow,
         RootsAmong(a.keys[Root], some, rows)
  PROVE  RootsAmong(a.keys[Root], IF ShouldKeep(a, r) THEN Append(some, r) ELSE some,
                    Append(rows, r))
<1>. PICK K, more :
       K = a.keys[Root] /\ more = IF ShouldKeep(a, r) THEN Append(some, r) ELSE some
  OBVIOUS
<1>0. OfTable(some, Root)
        = {x \in OfTable(rows, Root) : Pk \in DOMAIN x.cells => x.cells[Pk] \in K}
  BY DEF RootsAmong
<1>1. OfTable(Append(rows, r), Root) = OfTable(rows, Root) \cup IF r.table = Root THEN {r} ELSE {}
  BY AtAdded
<1>2. OfTable(Append(some, r), Root) = OfTable(some, Root) \cup IF r.table = Root THEN {r} ELSE {}
  BY AtAdded
<1>3. CASE r.table # Root
  BY <1>0, <1>1, <1>2, <1>3 DEF RootsAmong
<1>4. CASE r.table = Root
  <2>1. ShouldKeep(a, r) <=> (Pk \in DOMAIN r.cells => r.cells[Pk] \in K)
    BY <1>4 DEF ShouldKeep
  <2>. QED
    BY <1>0, <1>1, <1>2, <1>4, <2>1 DEF RootsAmong
<1>. QED
  BY <1>3, <1>4

LEMMA SelectedAmong ==
  ASSUME NEW R, NEW some \in Seq(R), NEW rows \in Seq(R), IsSelected(some, rows)
  PROVE  ToSet(some) \subseteq ToSet(rows)
<1>. PICK f : IsPlacing(f, some, rows)
  BY DEF IsSelected
<1>1. /\ DOMAIN some = 1 .. Len(some) /\ DOMAIN rows = 1 .. Len(rows)
      /\ f \in [1 .. Len(some) -> 1 .. Len(rows)]
      /\ \A i \in 1 .. Len(some) : some[i] = rows[f[i]]
  BY LenProperties DEF IsPlacing
<1>. QED
  BY <1>1 DEF ToSet

LEMMA HasPassedNext ==
  ASSUME NEW ks, NEW D, NEW K, NEW a, ks \in Seq(ToSet(ks)), Closed(ks, D),
         NEW some \in Seq(AnyRow), NEW rows \in Seq(AnyRow), NEW r \in AnyRow,
         HasPassed(ks, D, K, a, some, rows)
  PROVE  LET more == IF ShouldKeep(a, r) THEN Append(some, r) ELSE some
         IN  /\ more \in Seq(AnyRow)
             /\ HasPassed(ks, D, K, FilterRow(a, r), more, Append(rows, r))
<1>. PICK b, s, more :
       /\ b = FilterRow(a, r) /\ s = Append(rows, r)
       /\ more = IF ShouldKeep(a, r) THEN Append(some, r) ELSE some
  OBVIOUS
<1>1. /\ a \in Engine(ks)
      /\ Tally(a.read, rows) /\ Tally(a.written, some) /\ IsSelected(some, rows)
      /\ Root \in DOMAIN a.keys /\ a.keys[Root] = K /\ DOMAIN a.keys \subseteq D
      /\ RootsAmong(K, some, rows)
  BY DEF HasPassed
<1>2. b \in Engine(ks)
  BY <1>1, FilterRowType
<1>3. /\ b.keys = KeysAfter(a, r)
      /\ b.read = CountedFor(a.read, r.table)
      /\ b.written = IF ShouldKeep(a, r) THEN CountedFor(a.written, r.table) ELSE a.written
  BY DEF FilterRow
<1>4. more \in Seq(AnyRow)
  BY AppendProperties
<1>5. Tally(b.read, s)
  BY <1>1, <1>3, TallyNext
<1>6. Tally(b.written, more)
  <2>1. Tally(CountedFor(a.written, r.table), Append(some, r))
    BY <1>1, TallyNext
  <2>. QED
    BY <1>1, <1>3, <2>1
<1>7. IsSelected(more, s)
  BY <1>1, SelectedNext
<1>8. Root \in DOMAIN b.keys /\ b.keys[Root] = K
  BY <1>1, <1>3, KeysAfterType
<1>9. DOMAIN b.keys \subseteq D
  BY <1>1, <1>3, KeysStayBelow
<1>10. RootsAmong(K, more, s)
  <2>1. RootsAmong(a.keys[Root], some, rows)
    BY <1>1
  <2>2. RootsAmong(a.keys[Root], more, s)
    BY <2>1, RootsNext
  <2>. QED
    BY <1>1, <2>2
<1>11. ASSUME IsTree(ks, D, s), ParentsKept(ks, D, more, s)
       PROVE  Cascades(ks, D, K, b.keys, more, s)
  <2>1. more \in {some, Append(some, r)}
    OBVIOUS
  <2>2. IsTree(ks, D, rows)
    BY <1>11, TreeBefore
  <2>3. ParentsKept(ks, D, some, rows)
    BY <1>11, <2>1, ParentsKeptBefore
  <2>4. Cascades(ks, D, K, a.keys, some, rows)
    BY <2>2, <2>3 DEF HasPassed
  <2>5. ToSet(some) \subseteq ToSet(rows)
    BY <1>1, SelectedAmong
  <2>6. Cascades(ks, D, K, KeysAfter(a, r), more, s)
    BY <1>1, <1>11, <2>4, <2>5, CascadesNext
  <2>. QED
    BY <1>3, <2>6
<1>12. HasPassed(ks, D, K, b, more, s)
  BY <1>2, <1>5, <1>6, <1>7, <1>8, <1>9, <1>10, <1>11 DEF HasPassed
<1>. QED
  BY <1>4, <1>12

-----------------------------------------------------------------------------
(* Types. *)
SubsetTypes ==
  /\ dump \in Dumps /\ limit \in Nat /\ given \in BOOLEAN
  /\ phase \in {"infer", "collect", "filter", "done"}
  /\ pos \in 1 .. Len(dump) + 1
  /\ fks \in Seq(ToSet(fks))
  /\ kept \in KeptKeys /\ count \in Nat
  /\ phase \in {"filter", "done"} => Root \in DOMAIN kept
  /\ out \in Seq(OutItem)
  /\ rowsIn \in Counters /\ rowsOut \in Counters
  /\ phase = "done" => pos = Len(dump) + 1

(* What the first pass has collected. *)
Collection == [limit : Nat, keys : SUBSET KeyValue, count : Nat]

LEMMA CollectType ==
  ASSUME NEW a \in Collection, NEW r \in AnyRow
  PROVE  Collect(a, r) \in Collection /\ Collect(a, r).limit = a.limit
<1>. PICK l, k, c : a = [limit |-> l, keys |-> k, count |-> c]
                    /\ l \in Nat /\ k \in SUBSET KeyValue /\ c \in Nat
  BY DEF Collection
<1>1. Collect(a, r)
        = IF IsRootKey(r) /\ (c = 0 \/ c < l)
          THEN [limit |-> l, keys |-> k \cup {r.cells[Pk]}, count |-> c + 1]
          ELSE [limit |-> l, keys |-> k, count |-> c]
  BY DEF Collect
<1>2. r.cells[Pk] \in KeyValue
  BY DEF KeyValue
<1>. QED
  BY <1>1, <1>2 DEF Collection

LEMMA SequenceOfItsElements ==
  ASSUME NEW S, NEW s \in Seq(S)
  PROVE  s \in Seq(ToSet(s))
<1>1. DOMAIN s = 1 .. Len(s) /\ Len(s) \in Nat /\ s \in [1 .. Len(s) -> S]
  BY LenProperties
<1>2. s \in [1 .. Len(s) -> ToSet(s)]
  BY <1>1 DEF ToSet
<1>. QED
  BY <1>1, <1>2, SeqDef

(* Groups are found one after the other, too. *)
IsFound(s) == \E t, g : s = [table |-> t, groups |-> g] /\ g \in Seq(ToSet(g))

LEMMA GroupsInOrder ==
  ASSUME NEW s, NEW line, IsFound(s)
  PROVE  IsFound(InferLine(s, line))
<1>. PICK t, g : s = [table |-> t, groups |-> g] /\ g \in Seq(ToSet(g))
  BY DEF IsFound
<1>1. \A u : AddInferredGroup(g, u, line) \in Seq(ToSet(AddInferredGroup(g, u, line)))
  <2>. SUFFICES ASSUME NEW u
                PROVE  AddInferredGroup(g, u, line) \in Seq(ToSet(AddInferredGroup(g, u, line)))
    OBVIOUS
  <2>1. Append(g, GroupOf(u, line)) \in Seq(ToSet(g) \cup {GroupOf(u, line)})
    <3>1. g \in Seq(ToSet(g) \cup {GroupOf(u, line)})
      BY SeqMonotonic
    <3>. QED
      BY <3>1, AppendProperties
  <2>2. AddInferredGroup(g, u, line) \in {g, Append(g, GroupOf(u, line))}
    BY DEF AddInferredGroup
  <2>. QED
    BY <2>1, <2>2, SequenceOfItsElements
<1>2. s.table = t /\ s.groups = g
  OBVIOUS
<1>3. CASE line.kind = "alter"
  <2>1. InferLine(s, line) = [table |-> t, groups |-> AddInferredGroup(g, line.table, line)]
    BY <1>3 DEF InferLine
  <2>. QED
    BY <1>1, <2>1 DEF IsFound
<1>4. CASE line.kind = "create"
  <2>1. InferLine(s, line) = [table |-> line.table, groups |-> g]
    BY <1>4 DEF InferLine
  <2>. QED
    BY <2>1 DEF IsFound
<1>5. CASE line.kind \notin {"alter", "create"} /\ t # NoTable
  <2>1. InferLine(s, line)
          = [table  |-> IF line.closes THEN NoTable ELSE t,
             groups |-> IF HasForeignKey(line) THEN AddInferredGroup(g, t, line) ELSE g]
    BY <1>2, <1>5 DEF InferLine
  <2>2. (IF HasForeignKey(line) THEN AddInferredGroup(g, t, line) ELSE g)
          \in {g, AddInferredGroup(g, t, line)}
    OBVIOUS
  <2>. QED
    BY <1>1, <2>1, <2>2 DEF IsFound
<1>6. CASE line.kind \notin {"alter", "create"} /\ t = NoTable
  <2>1. InferLine(s, line) = s
    BY <1>2, <1>6 DEF InferLine
  <2>. QED
    BY <2>1
<1>. QED
  BY <1>3, <1>4, <1>5, <1>6

(* The lines of a dump. *)
AnyLine == UNION {ToSet(LinesOf(x)) : x \in UNION {ToSet(d) : d \in Dumps}}

-----------------------------------------------------------------------------
(* The sample of the root table. *)
RankAt(rows, i) == {j \in At(rows, Root) : j <= i}
SampledAt(l, rows) ==
  {i \in DOMAIN rows : rows[i].table = Root /\ Cardinality(RankAt(rows, i)) <= l}
SampledKeys(l, rows) == {rows[i].cells[Pk] : i \in SampledAt(l, rows)}

RootsKeyed(rows) == \A i \in At(rows, Root) : IsRootKey(rows[i])

(* The least limit is 1. *)
LEMMA LimitFacts ==
  ASSUME NEW n \in Nat
  PROVE  /\ Max({n, 1}) \in Nat /\ Max({n, 1}) >= 1
         /\ \A c \in Nat : (c = 0 \/ c < n) <=> c < Max({n, 1})
         /\ \A c \in Nat : c > 0 /\ c >= n => c >= Max({n, 1})
<1>. PICK m : m = IF n >= 1 THEN n ELSE 1
  OBVIOUS
<1>1. m \in {n, 1} /\ \A x \in {n, 1} : m >= x
  OBVIOUS
<1>2. \A x \in {n, 1} : (\A y \in {n, 1} : x >= y) => x = m
  BY <1>1
<1>3. Max({n, 1}) = m
  BY <1>1, <1>2 DEF Max
<1>. QED
  BY <1>3

(* The first rows rank as before. *)
LEMMA RanksInPrefix ==
  ASSUME NEW R, NEW rows \in Seq(R), NEW more \in Seq(R), Len(rows) <= Len(more),
         \A i \in 1 .. Len(rows) : rows[i] = more[i]
  PROVE  /\ \A i \in 1 .. Len(rows) : RankAt(rows, i) = RankAt(more, i)
         /\ At(rows, Root) = {j \in At(more, Root) : j <= Len(rows)}
         /\ \A i \in DOMAIN more : IsFiniteSet(RankAt(more, i))
<1>. PICK n, m : n = Len(rows) /\ m = Len(more)
  OBVIOUS
<1>1. n \in Nat /\ m \in Nat /\ n <= m /\ DOMAIN rows = 1 .. n /\ DOMAIN more = 1 .. m
  BY LenProperties
<1>2. At(rows, Root) = {j \in At(more, Root) : j <= n}
  BY <1>1 DEF At
<1>3. \A i \in 1 .. n : RankAt(rows, i) = RankAt(more, i)
  BY <1>1, <1>2 DEF RankAt, At
<1>4. ASSUME NEW i \in DOMAIN more
      PROVE  IsFiniteSet(RankAt(more, i))
  <2>1. RankAt(more, i) \subseteq 1 .. m
    BY <1>1 DEF RankAt, At
  <2>2. IsFiniteSet(1 .. m)
    BY <1>1, FS_Interval
  <2>. QED
    BY <2>1, <2>2, FS_Subset
<1>. QED
  BY <1>2, <1>3, <1>4

LEMMA SampledNext ==
  ASSUME NEW R, NEW rows \in Seq(R), NEW r \in R, NEW l \in Nat
  PROVE  SampledKeys(l, Append(rows, r))
           = SampledKeys(l, rows)
               \cup IF r.table = Root /\ Cardinality(At(rows, Root)) < l THEN {r.cells[Pk]} ELSE {}
<1>. PICK s, n, c : s = Append(rows, r) /\ n = Len(rows) /\ c = Cardinality(At(rows, Root))
  OBVIOUS
<1>1. /\ n \in Nat /\ DOMAIN rows = 1 .. n /\ DOMAIN s = 1 .. n + 1 /\ s[n + 1] = r
      /\ \A i \in 1 .. n : s[i] = rows[i]
  BY RowAdded
<1>2. s \in Seq(R) /\ Len(s) = n + 1
  BY AppendProperties
<1>3. \A i \in 1 .. n : RankAt(s, i) = RankAt(rows, i)
  <2>1. Len(rows) <= Len(s) /\ \A i \in 1 .. Len(rows) : rows[i] = s[i]
    BY <1>1, <1>2
  <2>2. \A i \in 1 .. Len(rows) : RankAt(rows, i) = RankAt(s, i)
    BY <1>2, <2>1, RanksInPrefix
  <2>. QED
    BY <2>2
<1>4. c \in Nat /\ (r.table = Root => Cardinality(At(s, Root)) = c + 1)
  BY AtAdded
<1>5. RankAt(s, n + 1) = At(s, Root)
  BY <1>1 DEF RankAt, At
<1>6. n + 1 \in SampledAt(l, s) <=> r.table = Root /\ c < l
  BY <1>1, <1>4, <1>5 DEF SampledAt
<1>7. \A i \in 1 .. n : i \in SampledAt(l, s) <=> i \in SampledAt(l, rows)
  BY <1>1, <1>3 DEF SampledAt
<1>8. SampledAt(l, s) = SampledAt(l, rows) \cup IF r.table = Root /\ c < l THEN {n + 1} ELSE {}
  <2>1. SampledAt(l, s) \subseteq (1 .. n) \cup {n + 1} /\ SampledAt(l, rows) \subseteq 1 .. n
    BY <1>1 DEF SampledAt
  <2>. QED
    BY <1>6, <1>7, <2>1
<1>9. SampledAt(l, rows) \subseteq 1 .. n
  BY <1>1 DEF SampledAt
<1>10. {s[i].cells[Pk] : i \in SampledAt(l, rows)} = SampledKeys(l, rows)
  BY <1>1, <1>9 DEF SampledKeys
<1>11. CASE r.table = Root /\ c < l
  <2>1. SampledAt(l, s) = SampledAt(l, rows) \cup {n + 1}
    BY <1>8, <1>11
  <2>2. SampledKeys(l, s) = {s[i].cells[Pk] : i \in SampledAt(l, rows)} \cup {s[n + 1].cells[Pk]}
    BY <2>1 DEF SampledKeys
  <2>. QED
    BY <1>1, <1>10, <1>11, <2>2
<1>12. CASE ~(r.table = Root /\ c < l)
  <2>1. SampledAt(l, s) = SampledAt(l, rows)
    BY <1>8, <1>12
  <2>2. SampledKeys(l, s) = {s[i].cells[Pk] : i \in SampledAt(l, rows)}
    BY <2>1 DEF SampledKeys
  <2>. QED
    BY <1>10, <1>12, <2>2
<1>. QED
  BY <1>11, <1>12

(* Once it is as large as the limit, the sample stays. *)
LEMMA SampleStays ==
  ASSUME NEW R, NEW rows \in Seq(R), NEW more \in Seq(R), NEW l \in Nat, Len(rows) <= Len(more),
         \A i \in 1 .. Len(rows) : rows[i] = more[i], Cardinality(At(rows, Root)) >= l
  PROVE  SampledKeys(l, rows) = SampledKeys(l, more)
<1>. PICK n, m : n = Len(rows) /\ m = Len(more)
  OBVIOUS
<1>1. n \in Nat /\ m \in Nat /\ n <= m /\ DOMAIN rows = 1 .. n /\ DOMAIN more = 1 .. m
  BY LenProperties
<1>2. /\ \A i \in 1 .. n : RankAt(rows, i) = RankAt(more, i)
      /\ At(rows, Root) = {j \in At(more, Root) : j <= n}
      /\ \A i \in DOMAIN more : IsFiniteSet(RankAt(more, i))
  BY RanksInPrefix
<1>3. \A i \in 1 .. n : i \in SampledAt(l, rows) <=> i \in SampledAt(l, more)
  BY <1>1, <1>2 DEF SampledAt
<1>4. ASSUME NEW i \in SampledAt(l, more), i \notin 1 .. n
      PROVE  FALSE
  <2>1. i \in 1 .. m /\ more[i].table = Root /\ Cardinality(RankAt(more, i)) <= l /\ i > n
    BY <1>1, <1>4 DEF SampledAt
  <2>2. IsFiniteSet(RankAt(more, i))
    BY <1>1, <1>2, <2>1
  <2>3. At(rows, Root) \cup {i} \subseteq RankAt(more, i)
    BY <1>1, <1>2, <2>1 DEF RankAt, At
  <2>4. i \notin At(rows, Root)
    BY <1>1, <1>2, <2>1
  <2>5. IsFiniteSet(At(rows, Root))
    BY <2>2, <2>3, FS_Subset
  <2>6. Cardinality(At(rows, Root) \cup {i}) = Cardinality(At(rows, Root)) + 1
    BY <2>4, <2>5, FS_AddElement
  <2>7. Cardinality(At(rows, Root) \cup {i}) <= Cardinality(RankAt(more, i))
    BY <2>2, <2>3, FS_Subset
  <2>8. Cardinality(At(rows, Root)) \in Nat /\ Cardinality(RankAt(more, i)) \in Nat
    BY <2>2, <2>5, FS_CardinalityType
  <2>. QED
    BY <2>1, <2>6, <2>7, <2>8
<1>5. SampledAt(l, rows) \subseteq 1 .. n
  BY <1>1 DEF SampledAt
<1>6. SampledAt(l, rows) = SampledAt(l, more)
  BY <1>3, <1>4, <1>5
<1>. QED
  BY <1>5, <1>6 DEF SampledKeys

(* What has been collected of some rows. *)
HasCollected(n, a, rows) ==
  /\ a \in Collection /\ a.limit = n
  /\ RootsKeyed(rows) =>
       LET l == Max({n, 1})  c == Cardinality(At(rows, Root))
       IN  a.keys = SampledKeys(l, rows) /\ a.count = IF c <= l THEN c ELSE l

LEMMA HasCollectedNext ==
  ASSUME NEW n \in Nat, NEW a, NEW rows \in Seq(AnyRow), NEW r \in AnyRow,
         HasCollected(n, a, rows)
  PROVE  HasCollected(n, Collect(a, r), Append(rows, r))
<1>. PICK s, b, l, c : /\ s = Append(rows, r) /\ b = Collect(a, r)
                       /\ l = Max({n, 1}) /\ c = Cardinality(At(rows, Root))
  OBVIOUS
<1>1. b \in Collection /\ b.limit = n
  BY CollectType DEF HasCollected
<1>. SUFFICES ASSUME RootsKeyed(s)
              PROVE  /\ b.keys = SampledKeys(l, s)
                     /\ b.count = IF Cardinality(At(s, Root)) <= l
                                  THEN Cardinality(At(s, Root)) ELSE l
  BY <1>1 DEF HasCollected
<1>2. \A t : At(rows, t) \subseteq At(s, t)
  BY AtAdded
<1>3. DOMAIN rows = 1 .. Len(rows) /\ \A i \in 1 .. Len(rows) : s[i] = rows[i]
  BY RowAdded
<1>4. RootsKeyed(rows)
  BY <1>2, <1>3 DEF RootsKeyed, At
<1>5. a.limit = n /\ a.keys = SampledKeys(l, rows) /\ a.count = IF c <= l THEN c ELSE l
  BY <1>4 DEF HasCollected
<1>6. l \in Nat /\ l >= 1 /\ \A x \in Nat : (x = 0 \/ x < n) <=> x < l
  BY LimitFacts
<1>7. c \in Nat /\ Cardinality(At(s, Root)) = c + IF r.table = Root THEN 1 ELSE 0
  BY AtAdded
<1>8. SampledKeys(l, s)
        = SampledKeys(l, rows) \cup IF r.table = Root /\ c < l THEN {r.cells[Pk]} ELSE {}
  BY <1>6, SampledNext
<1>9. IsRootKey(r) <=> r.table = Root
  <2>1. r.table = Root => Len(rows) + 1 \in At(s, Root) /\ s[Len(rows) + 1] = r
    BY RowAdded DEF At
  <2>. QED
    BY <2>1 DEF RootsKeyed, IsRootKey
<1>10. a.count < l <=> c < l
  BY <1>5, <1>6, <1>7
<1>11. a.count \in Nat
  BY <1>5, <1>6, <1>7
<1>12. CASE r.table = Root /\ c < l
  <2>1. b = [limit |-> a.limit, keys |-> a.keys \cup {r.cells[Pk]}, count |-> a.count + 1]
    BY <1>5, <1>6, <1>9, <1>10, <1>11, <1>12 DEF Collect
  <2>2. b.keys = SampledKeys(l, s)
    <3>1. b.keys = a.keys \cup {r.cells[Pk]}
      BY <2>1
    <3>2. SampledKeys(l, s) = SampledKeys(l, rows) \cup {r.cells[Pk]}
      BY <1>8, <1>12
    <3>. QED
      BY <1>5, <3>1, <3>2
  <2>3. b.count = c + 1 /\ Cardinality(At(s, Root)) = c + 1 /\ c + 1 <= l
    BY <1>5, <1>6, <1>7, <1>12, <2>1
  <2>. QED
    BY <2>2, <2>3
<1>13. CASE ~(r.table = Root /\ c < l)
  <2>1. b = a
    BY <1>5, <1>6, <1>9, <1>10, <1>11, <1>13 DEF Collect
  <2>2. b.keys = SampledKeys(l, s)
    BY <1>5, <1>8, <1>13, <2>1
  <2>3. a.count = IF Cardinality(At(s, Root)) <= l THEN Cardinality(At(s, Root)) ELSE l
    BY <1>5, <1>6, <1>7, <1>13
  <2>. QED
    BY <2>1, <2>2, <2>3
<1>. QED
  BY <1>12, <1>13

-----------------------------------------------------------------------------
(* What is inferred. *)

(* No CREATE TABLE has been closed or begun since line j. *)
IsOpen(ddl, j, n) == \A k \in (j + 1) .. n : ~ddl[k].closes /\ ddl[k].kind # "create"

FoundGroups(ddl, n) ==
  {GroupOf(ddl[i].table, ddl[i]) : i \in {j \in 1 .. n : Declares(ddl[j])}}

(* After n lines. *)
HasInferred(s, ddl, n) ==
  /\ IsFound(s)
  /\ ToSet(s.groups) = FoundGroups(ddl, n)
  /\ \A j \in 1 .. n : ddl[j].kind = "create" /\ IsOpen(ddl, j, n) => s.table = ddl[j].table

LEMMA GroupAdded ==
  ASSUME NEW g, g \in Seq(ToSet(g)), NEW t, NEW line
  PROVE  ToSet(AddInferredGroup(g, t, line))
           = ToSet(g) \cup IF Supported(line) THEN {GroupOf(t, line)} ELSE {}
<1>. PICK x : x = GroupOf(t, line)
  OBVIOUS
<1>1. AddInferredGroup(g, t, line)
        = IF ~Supported(line) \/ x \in ToSet(g) THEN g ELSE Append(g, x)
  BY DEF AddInferredGroup
<1>2. ToSet(Append(g, x)) = ToSet(g) \cup {x}
  <2>1. g \in Seq(ToSet(g) \cup {x}) /\ x \in ToSet(g) \cup {x}
    BY SeqMonotonic
  <2>. QED
    BY <2>1, RowAdded
<1>. QED
  BY <1>1, <1>2

LEMMA FoundNext ==
  ASSUME NEW ddl, NEW n \in Nat
  PROVE  FoundGroups(ddl, n + 1)
           = FoundGroups(ddl, n)
               \cup IF Declares(ddl[n + 1]) THEN {GroupOf(ddl[n + 1].table, ddl[n + 1])} ELSE {}
<1>1. 1 .. n + 1 = (1 .. n) \cup {n + 1}
  OBVIOUS
<1>. DEFINE J == {j \in 1 .. n : Declares(ddl[j])}
            L == {j \in 1 .. n + 1 : Declares(ddl[j])}
<1>2. L = J \cup IF Declares(ddl[n + 1]) THEN {n + 1} ELSE {}
  BY <1>1
<1>3. FoundGroups(ddl, n) = {GroupOf(ddl[i].table, ddl[i]) : i \in J}
  BY DEF FoundGroups
<1>4. FoundGroups(ddl, n + 1) = {GroupOf(ddl[i].table, ddl[i]) : i \in L}
  BY DEF FoundGroups
<1>. HIDE DEF J, L
<1>. QED
  BY <1>2, <1>3, <1>4

LEMMA InferredNext ==
  ASSUME NEW ddl \in Seq(AnyLine), Laid(ddl), NEW n \in Nat, n + 1 \in 1 .. Len(ddl),
         \A l \in AnyLine : l.table # NoTable,
         NEW s, HasInferred(s, ddl, n)
  PROVE  HasInferred(InferLine(s, ddl[n + 1]), ddl, n + 1)
<1>. PICK line, b : line = ddl[n + 1] /\ b = InferLine(s, line)
  OBVIOUS
<1>. PICK t, g : s = [table |-> t, groups |-> g] /\ g \in Seq(ToSet(g))
  BY DEF HasInferred, IsFound
<1>1. s.table = t /\ s.groups = g
  OBVIOUS
<1>2. /\ ToSet(g) = FoundGroups(ddl, n)
      /\ \A j \in 1 .. n : ddl[j].kind = "create" /\ IsOpen(ddl, j, n) => t = ddl[j].table
  BY <1>1 DEF HasInferred
<1>3. line \in AnyLine /\ line.table # NoTable /\ \A j \in 1 .. n : ddl[j].table # NoTable
  <2>2. \A j \in 1 .. n + 1 : ddl[j] \in AnyLine
    BY ElementOfSeq
  <2>3. 1 .. n + 1 = (1 .. n) \cup {n + 1}
    OBVIOUS
  <2>. QED
    BY <2>2, <2>3
<1>4. /\ line.data => line.kind = "other"
      /\ line.kind = "inlineFk" => ~line.closes
      /\ line.kind \in {"tableFk", "inlineFk"} =>
           \E j \in 1 .. n :
             ddl[j].kind = "create" /\ ddl[j].table = line.table /\ IsOpen(ddl, j, n)
  <2>1. n + 1 \in DOMAIN ddl /\ (n + 1) - 1 = n
    BY LenProperties
  <2>2. \A j : (\A k \in (j + 1) .. n : ~ddl[k].closes /\ ddl[k].kind # "create")
                 <=> IsOpen(ddl, j, n)
    BY DEF IsOpen
  <2>. QED
    BY <2>1, <2>2 DEF Laid
<1>5. line.kind \in {"tableFk", "inlineFk"} => t = line.table /\ HasForeignKey(line)
  BY <1>2, <1>4 DEF HasForeignKey
<1>6. \A j \in 1 .. n : IsOpen(ddl, j, n + 1) <=>
                          IsOpen(ddl, j, n) /\ ~line.closes /\ line.kind # "create"
  <2>. SUFFICES ASSUME NEW j \in 1 .. n
                PROVE  IsOpen(ddl, j, n + 1) <=>
                         IsOpen(ddl, j, n) /\ ~line.closes /\ line.kind # "create"
    OBVIOUS
  <2>1. (j + 1) .. (n + 1) = ((j + 1) .. n) \cup {n + 1}
    OBVIOUS
  <2>. QED
    BY <2>1 DEF IsOpen
<1>7. ASSUME NEW u, NEW h, b = [table |-> u, groups |-> h],
             ToSet(h) = ToSet(g) \cup IF Declares(line) THEN {GroupOf(line.table, line)} ELSE {},
             line.kind = "create" => u = line.table,
             line.kind # "create" /\ ~line.closes => u = t
      PROVE  HasInferred(b, ddl, n + 1)
  <2>1. IsFound(b)
    BY GroupsInOrder DEF HasInferred
  <2>2. b.groups = h /\ b.table = u
    BY <1>7
  <2>3. ToSet(b.groups) = FoundGroups(ddl, n + 1)
    BY <1>2, <1>7, <2>2, FoundNext
  <2>4. ASSUME NEW j \in 1 .. n + 1, ddl[j].kind = "create", IsOpen(ddl, j, n + 1)
        PROVE  u = ddl[j].table
    <3>1. CASE j = n + 1
      BY <1>7, <2>4, <3>1
    <3>2. CASE j \in 1 .. n
      BY <1>2, <1>6, <1>7, <2>4, <3>2
    <3>. QED
      BY <3>1, <3>2
  <2>. QED
    BY <2>1, <2>2, <2>3, <2>4 DEF HasInferred
<1>8. CASE line.kind = "alter"
  <2>. PICK h : h = AddInferredGroup(g, line.table, line)
    OBVIOUS
  <2>1. b = [table |-> t, groups |-> h]
    BY <1>1, <1>8 DEF InferLine
  <2>2. Declares(line) <=> Supported(line)
    BY <1>4, <1>8 DEF Declares
  <2>3. ToSet(h) = ToSet(g) \cup IF Declares(line) THEN {GroupOf(line.table, line)} ELSE {}
    BY <2>2, GroupAdded
  <2>. QED
    BY <1>7, <1>8, <2>1, <2>3
<1>9. CASE line.kind = "create"
  <2>1. b = [table |-> line.table, groups |-> g]
    BY <1>9 DEF InferLine
  <2>2. ~Declares(line)
    BY <1>9 DEF Declares
  <2>. QED
    BY <1>7, <1>9, <2>1, <2>2
<1>10. CASE line.kind \notin {"alter", "create"} /\ t # NoTable
  <2>. PICK h : h = IF HasForeignKey(line) THEN AddInferredGroup(g, t, line) ELSE g
    OBVIOUS
  <2>1. b = [table |-> IF line.closes THEN NoTable ELSE t, groups |-> h]
    BY <1>1, <1>10 DEF InferLine
  <2>2. ToSet(h) = ToSet(g) \cup IF Declares(line) THEN {GroupOf(line.table, line)} ELSE {}
    <3>1. CASE line.kind \in {"tableFk", "inlineFk"}
      <4>1. Declares(line) <=> Supported(line)
        BY <1>4, <3>1 DEF Declares
      <4>2. h = AddInferredGroup(g, line.table, line)
        BY <1>5, <3>1
      <4>. QED
        BY <4>1, <4>2, GroupAdded
    <3>2. CASE line.kind \notin {"tableFk", "inlineFk"}
      <4>1. ~Declares(line) /\ ~HasForeignKey(line)
        BY <1>10, <3>2 DEF Declares, HasForeignKey
      <4>. QED
        BY <4>1
    <3>. QED
      BY <3>1, <3>2
  <2>. QED
    BY <1>7, <1>10, <2>1, <2>2
<1>11. CASE line.kind \notin {"alter", "create"} /\ t = NoTable
  <2>1. b = [table |-> t, groups |-> g]
    BY <1>1, <1>11 DEF InferLine
  <2>2. ~Declares(line)
    BY <1>3, <1>5, <1>11 DEF Declares
  <2>. QED
    BY <1>7, <1>11, <2>1, <2>2
<1>. QED
  BY <1>8, <1>9, <1>10, <1>11

-----------------------------------------------------------------------------
(* The loops over the rows of a statement, the items of a dump and the lines of its DDL. *)

LF == INSTANCE FoldLaws WITH Op <- AddLines
SL == INSTANCE FoldLaws WITH Op <- AddRowsOfLine
SI == INSTANCE FoldLaws WITH Op <- AddRowsOfItem
KF == INSTANCE FoldLaws WITH Op <- Collect
FF == INSTANCE FoldLaws WITH Op <- FilterRow
EF == INSTANCE FoldLaws WITH Op <- Find
DF == INSTANCE FoldLaws WITH Op <- AddDeclared
GF == INSTANCE FoldLaws WITH Op <- AddForeignKey

-----------------------------------------------------------------------------
(* The loops of the subsetting engine are those that FoldLaws is about. *)
LEMMA SameLoops ==
  /\ \A b, s : FoldLeft(AddLines, b, s) = LF!FoldLeft(AddLines, b, s)
  /\ \A b, s : FoldLeft(AddRowsOfLine, b, s) = SL!FoldLeft(AddRowsOfLine, b, s)
  /\ \A b, s : FoldLeft(AddRowsOfItem, b, s) = SI!FoldLeft(AddRowsOfItem, b, s)
  /\ \A b, s : FoldLeft(Collect, b, s) = KF!FoldLeft(Collect, b, s)
<1>1. ASSUME NEW b, NEW s
      PROVE  FoldLeft(AddLines, b, s) = LF!FoldLeft(AddLines, b, s)
  BY DEF FoldLeft, LF!FoldLeft, MapThenFoldSet, LF!MapThenFoldSet, Max, LF!Max
<1>2. ASSUME NEW b, NEW s
      PROVE  FoldLeft(AddRowsOfLine, b, s) = SL!FoldLeft(AddRowsOfLine, b, s)
  BY DEF FoldLeft, SL!FoldLeft, MapThenFoldSet, SL!MapThenFoldSet, Max, SL!Max
<1>3. ASSUME NEW b, NEW s
      PROVE  FoldLeft(AddRowsOfItem, b, s) = SI!FoldLeft(AddRowsOfItem, b, s)
  BY DEF FoldLeft, SI!FoldLeft, MapThenFoldSet, SI!MapThenFoldSet, Max, SI!Max
<1>4. ASSUME NEW b, NEW s
      PROVE  FoldLeft(Collect, b, s) = KF!FoldLeft(Collect, b, s)
  BY DEF FoldLeft, KF!FoldLeft, MapThenFoldSet, KF!MapThenFoldSet, Max, KF!Max
<1>. QED
  BY <1>1, <1>2, <1>3, <1>4

LEMMA SameFilters ==
  /\ \A b, s : FoldLeft(FilterRow, b, s) = FF!FoldLeft(FilterRow, b, s)
  /\ \A b, s : FoldLeft(Find, b, s) = EF!FoldLeft(Find, b, s)
  /\ \A b, s : FoldLeft(AddDeclared, b, s) = DF!FoldLeft(AddDeclared, b, s)
  /\ \A b, s : FoldLeft(AddForeignKey, b, s) = GF!FoldLeft(AddForeignKey, b, s)
<1>1. ASSUME NEW b, NEW s
      PROVE  FoldLeft(FilterRow, b, s) = FF!FoldLeft(FilterRow, b, s)
  BY DEF FoldLeft, FF!FoldLeft, MapThenFoldSet, FF!MapThenFoldSet, Max, FF!Max
<1>2. ASSUME NEW b, NEW s
      PROVE  FoldLeft(Find, b, s) = EF!FoldLeft(Find, b, s)
  BY DEF FoldLeft, EF!FoldLeft, MapThenFoldSet, EF!MapThenFoldSet, Max, EF!Max
<1>3. ASSUME NEW b, NEW s
      PROVE  FoldLeft(AddDeclared, b, s) = DF!FoldLeft(AddDeclared, b, s)
  BY DEF FoldLeft, DF!FoldLeft, MapThenFoldSet, DF!MapThenFoldSet, Max, DF!Max
<1>4. ASSUME NEW b, NEW s
      PROVE  FoldLeft(AddForeignKey, b, s) = GF!FoldLeft(AddForeignKey, b, s)
  BY DEF FoldLeft, GF!FoldLeft, MapThenFoldSet, GF!MapThenFoldSet, Max, GF!Max
<1>. QED
  BY <1>1, <1>2, <1>3, <1>4

(* The rows of a dump. *)

(* The rows of lines are in the order of the lines. *)
LEMMA RowsOfLinesType ==
  ASSUME NEW R, NEW S, NEW lines \in Seq(S), \A l \in S : l.rows \in Seq(R)
  PROVE  RowsOfLines(lines) \in Seq(R)
<1>. DEFINE T == [n \in Nat |-> Seq(R)]
<1>1. \A n \in 1 .. Len(lines) : \A v \in T[n - 1] : AddRowsOfLine(v, lines[n]) \in T[n]
  <2>. SUFFICES ASSUME NEW n \in 1 .. Len(lines), NEW v \in T[n - 1]
                PROVE  AddRowsOfLine(v, lines[n]) \in T[n]
    OBVIOUS
  <2>1. n \in Nat /\ n - 1 \in Nat
    OBVIOUS
  <2>2. lines[n].rows \in Seq(R)
    BY ElementOfSeq
  <2>3. v \in Seq(R)
    BY <2>1
  <2>. QED
    BY <2>1, <2>2, <2>3, ConcatProperties DEF AddRowsOfLine
<1>2. <<>> \in T[0]
  BY EmptySeq
<1>3. Len(lines) \in Nat
  OBVIOUS
<1>. HIDE DEF T
<1>4. SL!FoldLeft(AddRowsOfLine, <<>>, lines) \in T[Len(lines)]
  BY <1>1, <1>2, SL!FoldInvariant
<1>. QED
  BY <1>3, <1>4, SameLoops DEF RowsOfLines, T

LEMMA RowsOfLinesNext ==
  ASSUME NEW S, NEW lines \in Seq(S), NEW l \in S
  PROVE  /\ RowsOfLines(<<>>) = <<>>
         /\ RowsOfLines(Append(lines, l)) = RowsOfLines(lines) \o l.rows
<1>1. RowsOfLines(<<>>) = <<>>
  BY SL!FoldEmpty, SameLoops DEF RowsOfLines
<1>2. SL!FoldLeft(AddRowsOfLine, <<>>, Append(lines, l))
        = AddRowsOfLine(SL!FoldLeft(AddRowsOfLine, <<>>, lines), l)
  BY SL!FoldAppend
<1>3. RowsOfLines(Append(lines, l)) = RowsOfLines(lines) \o l.rows
  BY <1>2, SameLoops DEF RowsOfLines, AddRowsOfLine
<1>. QED
  BY <1>1, <1>3

(* The rows of the first k lines and those of the others. *)
LEMMA RowsOfLinesSplit ==
  ASSUME NEW R, NEW S, NEW lines \in Seq(S), \A l \in S : l.rows \in Seq(R),
         NEW k \in 0 .. Len(lines)
  PROVE  RowsOfLines(lines) = RowsOfLines(SubSeq(lines, 1, k))
                                \o RowsOfLines(SubSeq(lines, k + 1, Len(lines)))
<1>. DEFINE First == RowsOfLines(SubSeq(lines, 1, k))
            Splits(n) == RowsOfLines(SubSeq(lines, 1, n))
                           = First \o RowsOfLines(SubSeq(lines, k + 1, n))
            Lost == {n \in k .. Len(lines) : ~Splits(n)}
<1>0. Len(lines) \in Nat /\ k \in Nat
  OBVIOUS
<1>1. \A n \in 0 .. Len(lines) :
        /\ SubSeq(lines, 1, n) \in Seq(S) /\ SubSeq(lines, k + 1, n) \in Seq(S)
        /\ RowsOfLines(SubSeq(lines, 1, n)) \in Seq(R)
        /\ RowsOfLines(SubSeq(lines, k + 1, n)) \in Seq(R)
  <2>. SUFFICES ASSUME NEW n \in 0 .. Len(lines)
                PROVE  /\ SubSeq(lines, 1, n) \in Seq(S)
                       /\ SubSeq(lines, k + 1, n) \in Seq(S)
                       /\ RowsOfLines(SubSeq(lines, 1, n)) \in Seq(R)
                       /\ RowsOfLines(SubSeq(lines, k + 1, n)) \in Seq(R)
    OBVIOUS
  <2>1. (\A i \in 1 .. n : lines[i] \in S) /\ \A i \in k + 1 .. n : lines[i] \in S
    BY <1>0, ElementOfSeq
  <2>2. SubSeq(lines, 1, n) \in Seq(S) /\ SubSeq(lines, k + 1, n) \in Seq(S)
    BY <1>0, <2>1, SubSeqProperties
  <2>. QED
    BY <2>2, RowsOfLinesType
<1>2. First \in Seq(R)
  BY <1>0, <1>1
<1>9. \A x, y, z \in Seq(R) : (x \o y) \o z = x \o (y \o z)
  BY ConcatThree
<1>3. SUFFICES ASSUME Lost # {}
               PROVE  FALSE
  <2>1. Splits(Len(lines))
    BY <1>0, <1>3
  <2>. QED
    BY <2>1, SubSeqFull
<1>4. PICK n \in Lost : \A m \in Lost : n <= m
  <2>1. Lost \subseteq Nat
    BY <1>0
  <2>. HIDE DEF Lost
  <2>. QED
    BY <1>3, <2>1, LeastOfNumbers
<1>5. n \in k .. Len(lines) /\ ~Splits(n)
  OBVIOUS
<1>6. CASE n = k
  <2>1. SubSeq(lines, k + 1, n) = <<>>
    BY <1>0, <1>6, SubSeqEmpty
  <2>2. RowsOfLines(SubSeq(lines, k + 1, n)) = <<>>
    BY <2>1, SL!FoldEmpty, SameLoops DEF RowsOfLines
  <2>3. Splits(n)
    BY <1>2, <1>6, <2>2, ConcatEmptySeq
  <2>. QED
    BY <1>5, <2>3
<1>7. CASE n # k
  <2>. DEFINE before == RowsOfLines(SubSeq(lines, k + 1, n - 1))
  <2>1. n - 1 \in k .. Len(lines) /\ ~(n <= n - 1) /\ n \in 1 .. Len(lines)
        /\ n - 1 \in 0 .. Len(lines) /\ n \in k + 1 .. Len(lines) /\ k + 1 \in 1 .. Len(lines)
    BY <1>0, <1>5, <1>7
  <2>2. Splits(n - 1)
    BY <1>4, <2>1
  <2>3. /\ SubSeq(lines, 1, n) = Append(SubSeq(lines, 1, n - 1), lines[n])
        /\ lines[n] \in S
    BY <2>1, PrefixNext
  <2>4. SubSeq(lines, k + 1, n) = SubSeq(lines, k + 1, n - 1) \o <<lines[n]>>
    BY <2>1, SubSeqRecursiveSecond
  <2>5. SubSeq(lines, k + 1, n) = Append(SubSeq(lines, k + 1, n - 1), lines[n])
    BY <1>1, <2>1, <2>3, <2>4, AppendIsConcat
  <2>6. /\ RowsOfLines(SubSeq(lines, 1, n))
             = RowsOfLines(SubSeq(lines, 1, n - 1)) \o lines[n].rows
        /\ RowsOfLines(SubSeq(lines, k + 1, n)) = before \o lines[n].rows
    BY <1>1, <2>1, <2>3, <2>5, RowsOfLinesNext
  <2>7. before \in Seq(R) /\ lines[n].rows \in Seq(R)
    BY <1>1, <2>1, <2>3
  <2>8. (First \o before) \o lines[n].rows = First \o (before \o lines[n].rows)
    <3>. HIDE DEF First, before
    <3>. QED
      BY <1>2, <1>9, <2>7
  <2>9. Splits(n)
    BY <2>2, <2>6, <2>8
  <2>. QED
    BY <1>5, <2>9
<1>. QED
  BY <1>6, <1>7

(* A dump is a sequence of its items. *)
LEMMA DumpItem ==
  ASSUME NEW d \in Dumps, NEW i \in 1 .. Len(d)
  PROVE  /\ d \in Seq(ToSet(d)) /\ DOMAIN d = 1 .. Len(d) /\ d[i] \in ToSet(d)
         /\ d[i].kind \in {"ddl", "head", "row", "end", "insert"}
         /\ RowsOn(d[i]) \subseteq AnyRow
<1>1. d \in Seq(ToSet(d))
  BY SubsetAssumption DEF IsSequence
<1>2. DOMAIN d = 1 .. Len(d)
  BY <1>1, LenProperties
<1>3. d[i] \in ToSet(d)
  BY <1>2 DEF ToSet
<1>4. d[i].kind \in {"ddl", "head", "row", "end", "insert"}
  BY <1>2, SubsetAssumption
<1>5. RowsOn(d[i]) \subseteq AnyRow
  BY <1>3 DEF AnyRow
<1>. QED
  BY <1>1, <1>2, <1>3, <1>4, <1>5

(* An INSERT has lines of rows. *)
LEMMA InsertLines ==
  ASSUME NEW d \in Dumps, NEW i \in 1 .. Len(d), d[i].kind = "insert"
  PROVE  /\ d[i].lines \in Seq(ToSet(d[i].lines))
         /\ \A l \in ToSet(d[i].lines) : l.rows \in Seq(AnyRow)
         /\ FullLength(d[i].lines) \in 0 .. Len(d[i].lines)
<1>. PICK lines : lines = d[i].lines
  OBVIOUS
<1>1. i \in DOMAIN d
  BY DumpItem
<1>2. lines \in Seq(ToSet(lines))
  BY <1>1, SubsetAssumption DEF IsSequence
<1>3. DOMAIN lines = 1 .. Len(lines) /\ Len(lines) \in Nat
  BY <1>2, LenProperties
<1>4. ASSUME NEW n \in DOMAIN lines
      PROVE  lines[n].rows \in Seq(AnyRow)
  <2>1. lines[n].rows \in Seq(ToSet(lines[n].rows))
    BY <1>1, SubsetAssumption DEF IsSequence
  <2>2. ToSet(lines[n].rows) \subseteq RowsOn(d[i])
    BY DEF RowsOn
  <2>3. ToSet(lines[n].rows) \subseteq AnyRow
    BY <2>2, DumpItem
  <2>. QED
    BY <2>1, <2>3, SeqMonotonic
<1>5. \A l \in ToSet(lines) : l.rows \in Seq(AnyRow)
  BY <1>4 DEF ToSet
<1>6. FullLength(lines) \in 0 .. Len(lines)
  <2>. PICK ends : ends = {n \in DOMAIN lines : lines[n].semi}
    OBVIOUS
  <2>1. CASE ends = {}
    BY <1>3, <2>1 DEF FullLength
  <2>2. CASE ends # {}
    <3>1. ends \subseteq Nat
      BY <1>3
    <3>2. PICK m \in ends : \A n \in ends : m <= n
      BY <2>2, <3>1, LeastOfNumbers
    <3>3. Min(ends) \in ends
      BY <3>2 DEF Min
    <3>4. FullLength(lines) = Min(ends)
      BY <2>2 DEF FullLength
    <3>5. Min(ends) \in 0 .. Len(lines)
      <4>1. Min(ends) \in DOMAIN lines
        BY <3>3
      <4>. QED
        BY <1>3, <4>1
    <3>. QED
      BY <3>4, <3>5
  <2>. QED
    BY <2>1, <2>2
<1>. QED
  BY <1>2, <1>5, <1>6

LEMMA RowsOfItemType ==
  ASSUME NEW d \in Dumps, NEW i \in 1 .. Len(d)
  PROVE  RowsOfItem(d[i]) \in Seq(AnyRow)
<1>. PICK item : item = d[i]
  OBVIOUS
<1>1. CASE item.kind = "row"
  <2>1. RowsOfItem(item) = <<item.row>>
    BY <1>1 DEF RowsOfItem
  <2>2. item.row \in AnyRow
    BY <1>1, DumpItem DEF RowsOn
  <2>. QED
    BY <2>1, <2>2
<1>2. CASE item.kind = "insert"
  <2>1. RowsOfItem(item) = RowsOfLines(item.lines)
    BY <1>2 DEF RowsOfItem
  <2>. QED
    BY <1>2, <2>1, InsertLines, RowsOfLinesType
<1>3. CASE item.kind \in {"ddl", "head", "end"}
  <2>1. RowsOfItem(item) = <<>>
    BY <1>3 DEF RowsOfItem
  <2>. QED
    BY <2>1, EmptySeq
<1>. QED
  BY <1>1, <1>2, <1>3, DumpItem

(* Where no semicolon cuts it short, an INSERT is read as a whole. *)
LEMMA RowsAtItem ==
  ASSUME NEW d \in Dumps, NEW i \in 1 .. Len(d)
  PROVE  /\ RowsAt(d[i]) \in Seq(AnyRow)
         /\ d[i].kind = "insert" => Remainder(d[i]) \in Seq(AnyRow)
         /\ (d[i].kind = "insert" => Remainder(d[i]) = <<>>) => RowsAt(d[i]) = RowsOfItem(d[i])
<1>. PICK item : item = d[i]
  OBVIOUS
<1>1. CASE item.kind = "row"
  <2>1. RowsAt(item) = <<item.row>> /\ RowsOfItem(item) = <<item.row>>
    BY <1>1 DEF RowsAt, RowsOfItem
  <2>. QED
    BY <1>1, <2>1, RowsOfItemType
<1>2. CASE item.kind = "insert"
  <2>. PICK lines, k : lines = item.lines /\ k = FullLength(lines)
    OBVIOUS
  <2>1. /\ lines \in Seq(ToSet(lines)) /\ \A l \in ToSet(lines) : l.rows \in Seq(AnyRow)
        /\ k \in 0 .. Len(lines) /\ Len(lines) \in Nat
    BY <1>2, InsertLines
  <2>2. /\ SubSeq(lines, 1, k) \in Seq(ToSet(lines))
        /\ SubSeq(lines, k + 1, Len(lines)) \in Seq(ToSet(lines))
    <3>1. (\A n \in 1 .. k : lines[n] \in ToSet(lines))
          /\ \A n \in k + 1 .. Len(lines) : lines[n] \in ToSet(lines)
      BY <2>1, ElementOfSeq
    <3>. QED
      BY <2>1, <3>1, SubSeqProperties
  <2>3. /\ RowsAt(item) = RowsOfLines(SubSeq(lines, 1, k))
        /\ Remainder(item) = RowsOfLines(SubSeq(lines, k + 1, Len(lines)))
        /\ RowsOfItem(item) = RowsOfLines(lines)
    BY <1>2 DEF RowsAt, FullInsert, Remainder, RowsOfItem
  <2>4. RowsAt(item) \in Seq(AnyRow) /\ Remainder(item) \in Seq(AnyRow)
    BY <2>1, <2>2, <2>3, RowsOfLinesType
  <2>5. RowsOfItem(item) = RowsAt(item) \o Remainder(item)
    <3>1. RowsOfLines(lines) = RowsOfLines(SubSeq(lines, 1, k))
                                 \o RowsOfLines(SubSeq(lines, k + 1, Len(lines)))
      BY <2>1, RowsOfLinesSplit
    <3>. QED
      BY <2>3, <3>1
  <2>6. Remainder(item) = <<>> => RowsAt(item) = RowsOfItem(item)
    BY <2>4, <2>5, ConcatEmptySeq
  <2>. QED
    BY <1>2, <2>4, <2>6
<1>3. CASE item.kind \in {"ddl", "head", "end"}
  <2>1. RowsAt(item) = <<>> /\ RowsOfItem(item) = <<>>
    BY <1>3 DEF RowsAt, RowsOfItem
  <2>. QED
    BY <1>3, <2>1, EmptySeq
<1>. QED
  BY <1>1, <1>2, <1>3, DumpItem

(* The rows of items are in the order of the items. *)
LEMMA RowsOfItemsType ==
  ASSUME NEW S, NEW items \in Seq(S), \A x \in S : RowsOfItem(x) \in Seq(AnyRow)
  PROVE  RowsOfItems(items) \in Seq(AnyRow)
<1>. DEFINE T == [n \in Nat |-> Seq(AnyRow)]
<1>1. \A n \in 1 .. Len(items) : \A v \in T[n - 1] : AddRowsOfItem(v, items[n]) \in T[n]
  <2>. SUFFICES ASSUME NEW n \in 1 .. Len(items), NEW v \in T[n - 1]
                PROVE  AddRowsOfItem(v, items[n]) \in T[n]
    OBVIOUS
  <2>1. n \in Nat /\ n - 1 \in Nat
    OBVIOUS
  <2>2. RowsOfItem(items[n]) \in Seq(AnyRow)
    BY ElementOfSeq
  <2>3. v \in Seq(AnyRow)
    BY <2>1
  <2>. QED
    BY <2>1, <2>2, <2>3, ConcatProperties DEF AddRowsOfItem
<1>2. <<>> \in T[0]
  BY EmptySeq
<1>3. Len(items) \in Nat
  OBVIOUS
<1>. HIDE DEF T
<1>4. SI!FoldLeft(AddRowsOfItem, <<>>, items) \in T[Len(items)]
  BY <1>1, <1>2, SI!FoldInvariant
<1>. QED
  BY <1>3, <1>4, SameLoops DEF RowsOfItems, T

LEMMA RowsOfItemsNext ==
  ASSUME NEW S, NEW items \in Seq(S), NEW x \in S
  PROVE  /\ RowsOfItems(<<>>) = <<>>
         /\ RowsOfItems(Append(items, x)) = RowsOfItems(items) \o RowsOfItem(x)
<1>1. RowsOfItems(<<>>) = <<>>
  BY SI!FoldEmpty, SameLoops DEF RowsOfItems
<1>2. SI!FoldLeft(AddRowsOfItem, <<>>, Append(items, x))
        = AddRowsOfItem(SI!FoldLeft(AddRowsOfItem, <<>>, items), x)
  BY SI!FoldAppend
<1>3. RowsOfItems(Append(items, x)) = RowsOfItems(items) \o RowsOfItem(x)
  BY <1>2, SameLoops DEF RowsOfItems, AddRowsOfItem
<1>. QED
  BY <1>1, <1>3

(* What a pass has met after the first n items of a dump. *)
Met(d, n) == RowsOfItems(SubSeq(d, 1, n))

LEMMA MetNext ==
  ASSUME NEW d \in Dumps
  PROVE  /\ Met(d, 0) = <<>> /\ Met(d, Len(d)) = RowsOfItems(d)
         /\ \A n \in 0 .. Len(d) : Met(d, n) \in Seq(AnyRow)
         /\ \A n \in 1 .. Len(d) : Met(d, n) = Met(d, n - 1) \o RowsOfItem(d[n])
<1>1. d \in Seq(ToSet(d)) /\ Len(d) \in Nat /\ DOMAIN d = 1 .. Len(d)
  <2>1. d \in Seq(ToSet(d))
    BY SubsetAssumption DEF IsSequence
  <2>. QED
    BY <2>1, LenProperties
<1>2. Met(d, 0) = <<>>
  <2>1. SubSeq(d, 1, 0) = <<>>
    BY SubSeqEmpty
  <2>. QED
    BY <2>1, SI!FoldEmpty, SameLoops DEF RowsOfItems, Met
<1>3. Met(d, Len(d)) = RowsOfItems(d)
  BY <1>1, SubSeqFull DEF Met
<1>4. \A x \in ToSet(d) : RowsOfItem(x) \in Seq(AnyRow)
  BY <1>1, RowsOfItemType DEF ToSet
<1>5. ASSUME NEW n \in 0 .. Len(d)
      PROVE  Met(d, n) \in Seq(AnyRow)
  <2>1. \A i \in 1 .. n : d[i] \in ToSet(d)
    BY <1>1, ElementOfSeq
  <2>2. SubSeq(d, 1, n) \in Seq(ToSet(d))
    BY <2>1, SubSeqProperties
  <2>. QED
    BY <1>4, <2>2, RowsOfItemsType DEF Met
<1>6. ASSUME NEW n \in 1 .. Len(d)
      PROVE  Met(d, n) = Met(d, n - 1) \o RowsOfItem(d[n])
  <2>1. /\ SubSeq(d, 1, n) = Append(SubSeq(d, 1, n - 1), d[n])
        /\ SubSeq(d, 1, n - 1) \in Seq(ToSet(d)) /\ d[n] \in ToSet(d)
    BY <1>1, PrefixNext
  <2>2. RowsOfItems(Append(SubSeq(d, 1, n - 1), d[n]))
          = RowsOfItems(SubSeq(d, 1, n - 1)) \o RowsOfItem(d[n])
    BY <2>1, RowsOfItemsNext
  <2>. QED
    BY <2>1, <2>2 DEF Met
<1>. QED
  BY <1>2, <1>3, <1>5, <1>6

(* What has been written has rows, and those of a statement come last. *)
LEMMA OutItemRows ==
  \A x \in OutItem : RowsOfItem(x) \in Seq(AnyRow)
<1>. SUFFICES ASSUME NEW x \in OutItem
              PROVE  RowsOfItem(x) \in Seq(AnyRow)
  OBVIOUS
<1>1. CASE x \in [kind : {"rows"}, rows : Seq(AnyRow)]
  <2>1. x.kind = "rows" /\ x.rows \in Seq(AnyRow)
    BY <1>1
  <2>. QED
    BY <2>1 DEF RowsOfItem
<1>2. CASE x.kind \in {"ddl", "head", "end"}
  <2>1. RowsOfItem(x) = <<>>
    BY <1>2 DEF RowsOfItem
  <2>. QED
    BY <2>1, EmptySeq
<1>. QED
  BY <1>1, <1>2 DEF OutItem

LEMMA WrittenLast ==
  ASSUME NEW items \in Seq(OutItem), NEW rows \in Seq(AnyRow)
  PROVE  /\ items \o WrittenRows(rows) \in Seq(OutItem)
         /\ RowsOfItems(items \o WrittenRows(rows)) = RowsOfItems(items) \o rows
<1>0. RowsOfItems(items) \in Seq(AnyRow)
  BY OutItemRows, RowsOfItemsType
<1>1. CASE rows = <<>>
  <2>1. WrittenRows(rows) = <<>>
    BY <1>1 DEF WrittenRows
  <2>. QED
    BY <1>0, <1>1, <2>1, ConcatEmptySeq
<1>2. CASE rows # <<>>
  <2>. PICK x : x = [kind |-> "rows", rows |-> rows]
    OBVIOUS
  <2>1. WrittenRows(rows) = <<x>>
    BY <1>2 DEF WrittenRows
  <2>2. x \in OutItem /\ RowsOfItem(x) = rows
    BY DEF OutItem, RowsOfItem
  <2>3. items \o <<x>> = Append(items, x) /\ Append(items, x) \in Seq(OutItem)
    BY <2>2, AppendIsConcat, AppendProperties
  <2>4. RowsOfItems(Append(items, x)) = RowsOfItems(items) \o rows
    BY <2>2, RowsOfItemsNext
  <2>. QED
    BY <2>1, <2>3, <2>4
<1>. QED
  BY <1>1, <1>2

(* Whatever is selected is found from the first row on. *)
LEMMA SelectedIsFound ==
  ASSUME NEW R, NEW some \in Seq(R), NEW rows \in Seq(R), IsSelected(some, rows)
  PROVE  IsSelection(some, rows)
<1>. PICK f : IsPlacing(f, some, rows)
  BY DEF IsSelected
<1>. PICK m : m = Len(some)
  OBVIOUS
<1>. DEFINE T == [n \in Nat |->
                    {a \in [of : {some}, at : 0 .. m] :
                       \A i \in 1 .. m : f[i] <= n => i <= a.at}]
            start == [of |-> some, at |-> 0]
<1>1. m \in Nat /\ Len(rows) \in Nat
  OBVIOUS
<1>2. /\ f \in [1 .. m -> 1 .. Len(rows)]
      /\ \A i, j \in 1 .. m : i < j => f[i] < f[j]
      /\ \A i \in 1 .. m : some[i] = rows[f[i]]
  BY DEF IsPlacing
<1>3. start \in T[0]
  BY <1>1, <1>2
<1>4. \A n \in 1 .. Len(rows) : \A v \in T[n - 1] : Find(v, rows[n]) \in T[n]
  <2>. SUFFICES ASSUME NEW n \in 1 .. Len(rows), NEW v \in T[n - 1]
                PROVE  Find(v, rows[n]) \in T[n]
    OBVIOUS
  <2>0. n \in Nat /\ n - 1 \in Nat
    OBVIOUS
  <2>. PICK k, w : k = v.at /\ w = Find(v, rows[n])
    OBVIOUS
  <2>1. /\ v = [of |-> some, at |-> k] /\ k \in 0 .. m
        /\ \A i \in 1 .. m : f[i] <= n - 1 => i <= k
    BY <2>0
  <2>2. \A i \in 1 .. m : f[i] = n /\ ~(i <= k) => i = k + 1
    <3>. SUFFICES ASSUME NEW i \in 1 .. m, f[i] = n, ~(i <= k), i # k + 1
                  PROVE  FALSE
      OBVIOUS
    <3>1. k + 1 \in 1 .. m /\ k + 1 < i
      BY <1>1, <2>1
    <3>2. f[k + 1] < n /\ f[k + 1] \in 1 .. Len(rows)
      BY <1>2, <3>1
    <3>3. f[k + 1] <= n - 1
      BY <1>1, <3>2
    <3>. QED
      BY <1>1, <2>1, <3>1, <3>3
  <2>3. CASE k < m /\ rows[n] = some[k + 1]
    <3>1. w = [of |-> some, at |-> k + 1]
      BY <2>1, <2>3 DEF Find
    <3>2. k + 1 \in 0 .. m
      BY <1>1, <2>1, <2>3
    <3>3. \A i \in 1 .. m : f[i] <= n => i <= k + 1
      <4>. SUFFICES ASSUME NEW i \in 1 .. m, f[i] <= n
                    PROVE  i <= k + 1
        OBVIOUS
      <4>1. f[i] \in Nat /\ i \in Nat /\ k \in Nat /\ n \in Nat
        BY <1>1, <1>2, <2>0, <2>1
      <4>2. CASE f[i] = n
        BY <2>2, <4>1, <4>2
      <4>3. CASE f[i] # n
        <5>1. f[i] <= n - 1
          BY <4>1, <4>3
        <5>. QED
          BY <2>1, <4>1, <5>1
      <4>. QED
        BY <4>2, <4>3
    <3>. QED
      BY <2>0, <3>1, <3>2, <3>3
  <2>4. CASE ~(k < m /\ rows[n] = some[k + 1])
    <3>1. w = v
      BY <2>1, <2>4 DEF Find
    <3>2. \A i \in 1 .. m : f[i] <= n => i <= k
      <4>. SUFFICES ASSUME NEW i \in 1 .. m, f[i] <= n, ~(i <= k)
                    PROVE  FALSE
        OBVIOUS
      <4>1. f[i] = n
        BY <1>1, <1>2, <2>1
      <4>2. i = k + 1
        BY <2>2, <4>1
      <4>3. k < m /\ rows[n] = some[k + 1]
        BY <1>1, <1>2, <2>1, <4>1, <4>2
      <4>. QED
        BY <2>4, <4>3
    <3>. QED
      BY <2>0, <2>1, <3>1, <3>2
  <2>. QED
    BY <2>3, <2>4
<1>. HIDE DEF T, start
<1>5. EF!FoldLeft(Find, start, rows) \in T[Len(rows)]
  BY <1>3, <1>4, EF!FoldInvariant
<1>. PICK a : a = FoldLeft(Find, start, rows)
  OBVIOUS
<1>6. a \in T[Len(rows)]
  BY <1>5, SameFilters
<1>7. a.at \in 0 .. m /\ \A i \in 1 .. m : f[i] <= Len(rows) => i <= a.at
  BY <1>1, <1>6 DEF T
<1>8. a.at = m
  <2>1. CASE m = 0
    BY <1>7, <2>1
  <2>2. CASE m # 0
    <3>1. m \in 1 .. m
      BY <1>1, <2>2
    <3>2. f[m] <= Len(rows)
      BY <1>1, <1>2, <3>1
    <3>. QED
      BY <1>1, <1>7, <3>1, <3>2
  <2>. QED
    BY <2>1, <2>2
<1>. QED
  BY <1>8 DEF IsSelection, start

(* A statement is filtered row by row. *)
LEMMA FilterPasses ==
  ASSUME NEW ks, NEW D, NEW K, NEW a0, ks \in Seq(ToSet(ks)), Closed(ks, D),
         NEW some \in Seq(AnyRow), NEW met \in Seq(AnyRow), NEW rows \in Seq(AnyRow),
         a0.rows = <<>>, HasPassed(ks, D, K, a0, some, met)
  PROVE  LET a == FoldLeft(FilterRow, a0, rows)
         IN  /\ a \in Engine(ks)
             /\ HasPassed(ks, D, K, a, some \o a.rows, met \o rows)
<1>0. \A x, y \in Seq(AnyRow) : \A z \in AnyRow : x \o Append(y, z) = Append(x \o y, z)
  BY ConcatAppend
<1>. DEFINE T == [n \in Nat |->
                    {a \in Engine(ks) :
                       HasPassed(ks, D, K, a, some \o a.rows, met \o SubSeq(rows, 1, n))}]
<1>1. a0 \in T[0]
  <2>1. SubSeq(rows, 1, 0) = <<>>
    BY SubSeqEmpty
  <2>2. some \o a0.rows = some /\ met \o SubSeq(rows, 1, 0) = met
    BY <2>1, ConcatEmptySeq
  <2>3. a0 \in Engine(ks)
    BY DEF HasPassed
  <2>. QED
    BY <2>2, <2>3
<1>2. ASSUME NEW n \in 1 .. Len(rows), NEW a \in T[n - 1]
      PROVE  FilterRow(a, rows[n]) \in T[n]
  <2>. PICK r, b, s, m, kept1 :
         /\ r = rows[n] /\ b = FilterRow(a, rows[n])
         /\ s = some \o a.rows /\ m = met \o SubSeq(rows, 1, n - 1)
         /\ kept1 = a.rows
    OBVIOUS
  <2>0. n \in Nat /\ n - 1 \in Nat
    OBVIOUS
  <2>1. a \in Engine(ks) /\ HasPassed(ks, D, K, a, s, m)
    BY <2>0
  <2>2. /\ SubSeq(rows, 1, n) = Append(SubSeq(rows, 1, n - 1), r)
        /\ SubSeq(rows, 1, n - 1) \in Seq(AnyRow) /\ r \in AnyRow
    BY PrefixNext
  <2>3. kept1 \in Seq(AnyRow)
    BY <2>1 DEF Engine
  <2>4. s \in Seq(AnyRow) /\ m \in Seq(AnyRow)
    BY <2>2, <2>3, ConcatProperties
  <2>5. met \o SubSeq(rows, 1, n) = Append(m, r)
    BY <2>2, ConcatAppend
  <2>6. b.rows = IF ShouldKeep(a, r) THEN Append(kept1, r) ELSE kept1
    BY DEF FilterRow
  <2>7. some \o b.rows = IF ShouldKeep(a, r) THEN Append(s, r) ELSE s
    <3>1. some \o Append(kept1, r) = Append(some \o kept1, r)
      BY <1>0, <2>2, <2>3
    <3>2. s = some \o kept1
      OBVIOUS
    <3>. QED
      BY <2>6, <3>1, <3>2
  <2>8. HasPassed(ks, D, K, b, IF ShouldKeep(a, r) THEN Append(s, r) ELSE s, Append(m, r))
    BY <2>1, <2>2, <2>4, HasPassedNext
  <2>9. b \in Engine(ks)
    BY <2>1, <2>2, FilterRowType
  <2>. QED
    BY <2>0, <2>5, <2>7, <2>8, <2>9
<1>3. Len(rows) \in Nat
  OBVIOUS
<1>. PICK a : a = FoldLeft(FilterRow, a0, rows)
  OBVIOUS
<1>4. a \in T[Len(rows)]
  <2>. HIDE DEF T
  <2>1. FF!FoldLeft(FilterRow, a0, rows) \in T[Len(rows)]
    BY <1>1, <1>2, FF!FoldInvariant
  <2>. QED
    BY <2>1, SameFilters
<1>5. SubSeq(rows, 1, Len(rows)) = rows
  BY SubSeqFull
<1>. QED
  BY <1>3, <1>4, <1>5

LEMMA CollectedType ==
  ASSUME NEW a \in Collection, NEW rows \in Seq(AnyRow)
  PROVE  FoldLeft(Collect, a, rows) \in Collection
<1>. DEFINE T == [n \in Nat |-> Collection]
<1>1. \A n \in 1 .. Len(rows) : \A v \in T[n - 1] : Collect(v, rows[n]) \in T[n]
  <2>. SUFFICES ASSUME NEW n \in 1 .. Len(rows), NEW v \in T[n - 1]
                PROVE  Collect(v, rows[n]) \in T[n]
    OBVIOUS
  <2>1. n \in Nat /\ n - 1 \in Nat
    OBVIOUS
  <2>2. v \in Collection /\ rows[n] \in AnyRow
    BY <2>1, ElementOfSeq
  <2>3. Collect(v, rows[n]) \in Collection
    BY <2>2, CollectType
  <2>. QED
    BY <2>1, <2>3
<1>2. a \in T[0] /\ Len(rows) \in Nat
  OBVIOUS
<1>. HIDE DEF T
<1>3. KF!FoldLeft(Collect, a, rows) \in T[Len(rows)]
  BY <1>1, <1>2, KF!FoldInvariant
<1>. QED
  BY <1>2, <1>3, SameLoops DEF T

LEMMA FilteredType ==
  ASSUME NEW ks, NEW a \in Engine(ks), NEW rows \in Seq(AnyRow)
  PROVE  LET b == FoldLeft(FilterRow, a, rows)
         IN  /\ b \in Engine(ks)
             /\ Root \in DOMAIN a.keys =>
                  Root \in DOMAIN b.keys /\ b.keys[Root] = a.keys[Root]
<1>. DEFINE T == [n \in Nat |->
                    {b \in Engine(ks) :
                       Root \in DOMAIN a.keys =>
                         Root \in DOMAIN b.keys /\ b.keys[Root] = a.keys[Root]}]
<1>1. \A n \in 1 .. Len(rows) : \A v \in T[n - 1] : FilterRow(v, rows[n]) \in T[n]
  <2>. SUFFICES ASSUME NEW n \in 1 .. Len(rows), NEW v \in T[n - 1]
                PROVE  FilterRow(v, rows[n]) \in T[n]
    OBVIOUS
  <2>1. n \in Nat /\ n - 1 \in Nat
    OBVIOUS
  <2>2. /\ v \in Engine(ks) /\ rows[n] \in AnyRow
        /\ Root \in DOMAIN a.keys =>
             Root \in DOMAIN v.keys /\ v.keys[Root] = a.keys[Root]
    BY <2>1, ElementOfSeq
  <2>3. FilterRow(v, rows[n]) \in Engine(ks)
    BY <2>2, FilterRowType
  <2>4. FilterRow(v, rows[n]).keys = KeysAfter(v, rows[n])
    BY DEF FilterRow
  <2>5. /\ DOMAIN v.keys \subseteq DOMAIN KeysAfter(v, rows[n])
        /\ Root \in DOMAIN v.keys => KeysAfter(v, rows[n])[Root] = v.keys[Root]
    BY <2>2, KeysAfterType
  <2>. QED
    BY <2>1, <2>2, <2>3, <2>4, <2>5
<1>2. a \in T[0] /\ Len(rows) \in Nat
  OBVIOUS
<1>. PICK b : b = FoldLeft(FilterRow, a, rows)
  OBVIOUS
<1>3. b \in T[Len(rows)]
  <2>. HIDE DEF T
  <2>1. FF!FoldLeft(FilterRow, a, rows) \in T[Len(rows)]
    BY <1>1, <1>2, FF!FoldInvariant
  <2>. QED
    BY <2>1, SameFilters
<1>. QED
  BY <1>2, <1>3

(* Foreign keys are registered one after the other. *)
LEMMA RegisteredInOrder ==
  ASSUME NEW S, NEW groups \in Seq(S)
  PROVE  Registered(groups) \in Seq(ToSet(Registered(groups)))
<1>. DEFINE FK == {ForeignKey(g.to.table, g.to.cols[1], g.from.table, g.from.cols[1]) : g \in S}
            T == [n \in Nat |-> Seq(FK)]
<1>1. \A n \in 1 .. Len(groups) : \A v \in T[n - 1] : AddForeignKey(v, groups[n]) \in T[n]
  <2>. SUFFICES ASSUME NEW n \in 1 .. Len(groups), NEW v \in T[n - 1]
                PROVE  AddForeignKey(v, groups[n]) \in T[n]
    OBVIOUS
  <2>. PICK g : g = groups[n]
    OBVIOUS
  <2>1. n \in Nat /\ n - 1 \in Nat
    OBVIOUS
  <2>2. v \in Seq(FK) /\ g \in S
    BY <2>1, ElementOfSeq
  <2>3. ForeignKey(g.to.table, g.to.cols[1], g.from.table, g.from.cols[1]) \in FK
    BY <2>2
  <2>. HIDE DEF FK
  <2>4. AddForeignKey(v, g) \in Seq(FK)
    BY <2>2, <2>3, AppendProperties DEF AddForeignKey
  <2>. QED
    BY <2>1, <2>4
<1>2. <<>> \in T[0] /\ Len(groups) \in Nat
  BY EmptySeq
<1>. HIDE DEF T, FK
<1>3. GF!FoldLeft(AddForeignKey, <<>>, groups) \in T[Len(groups)]
  BY <1>1, <1>2, GF!FoldInvariant
<1>4. Registered(groups) \in Seq(FK)
  BY <1>2, <1>3, SameFilters DEF Registered, T
<1>. QED
  BY <1>4, SequenceOfItsElements

LEMMA GivenInOrder ==
  ASSUME NEW S, NEW ddl \in Seq(S)
  PROVE  GivenKeys(ddl) \in Seq(ToSet(GivenKeys(ddl)))
<1>. DEFINE FK == {ForeignKey(l.table, l.cols[1], l.ref, l.refCols[1]) : l \in S}
            T == [n \in Nat |-> Seq(FK)]
<1>1. \A n \in 1 .. Len(ddl) : \A v \in T[n - 1] : AddDeclared(v, ddl[n]) \in T[n]
  <2>. SUFFICES ASSUME NEW n \in 1 .. Len(ddl), NEW v \in T[n - 1]
                PROVE  AddDeclared(v, ddl[n]) \in T[n]
    OBVIOUS
  <2>. PICK l : l = ddl[n]
    OBVIOUS
  <2>1. n \in Nat /\ n - 1 \in Nat
    OBVIOUS
  <2>2. v \in Seq(FK) /\ l \in S
    BY <2>1, ElementOfSeq
  <2>3. ForeignKey(l.table, l.cols[1], l.ref, l.refCols[1]) \in FK
    BY <2>2
  <2>. HIDE DEF FK
  <2>4. AddDeclared(v, l) \in Seq(FK)
    BY <2>2, <2>3, AppendProperties DEF AddDeclared
  <2>. QED
    BY <2>1, <2>4
<1>2. <<>> \in T[0] /\ Len(ddl) \in Nat
  BY EmptySeq
<1>. HIDE DEF T, FK
<1>3. DF!FoldLeft(AddDeclared, <<>>, ddl) \in T[Len(ddl)]
  BY <1>1, <1>2, DF!FoldInvariant
<1>4. GivenKeys(ddl) \in Seq(FK)
  BY <1>2, <1>3, SameFilters DEF GivenKeys, T
<1>. QED
  BY <1>4, SequenceOfItsElements

(* A line of an item belongs to a statement. *)
LEMMA LinesOfType ==
  ASSUME NEW d \in Dumps, NEW i \in 1 .. Len(d)
  PROVE  LinesOf(d[i]) \in Seq(AnyLine) /\ \A l \in ToSet(LinesOf(d[i])) : l.table # NoTable
<1>. PICK item : item = d[i]
  OBVIOUS
<1>1. i \in DOMAIN d /\ item \in ToSet(d)
  BY DumpItem
<1>2. ToSet(LinesOf(item)) \subseteq AnyLine
  BY <1>1 DEF AnyLine
<1>3. CASE item.kind = "insert"
  <2>. PICK lines, n : lines = item.lines /\ n = Len(lines)
    OBVIOUS
  <2>1. lines \in Seq(ToSet(lines))
    BY <1>1, <1>3, SubsetAssumption DEF IsSequence
  <2>2. DOMAIN lines = 1 .. n /\ n \in Nat
    BY <2>1, LenProperties
  <2>3. \A k \in 1 .. n : lines[k].text.table # NoTable
    BY <1>1, <1>3, <2>2, SubsetAssumption
  <2>. PICK f : f = LinesOf(item)
    OBVIOUS
  <2>4. f = [k \in 1 .. n |-> lines[k].text]
    BY <1>3 DEF LinesOf
  <2>5. DOMAIN f = 1 .. n /\ \A k \in 1 .. n : f[k] = lines[k].text
    BY <2>4
  <2>6. \A k \in 1 .. n : f[k] \in ToSet(f)
    BY <2>5 DEF ToSet
  <2>7. f \in Seq(AnyLine)
    <3>1. \A k \in 1 .. n : f[k] \in AnyLine
      BY <1>2, <2>6
    <3>2. f \in [1 .. n -> AnyLine]
      BY <2>4, <2>5, <3>1
    <3>. QED
      BY <2>2, <3>2, SeqDef
  <2>8. \A l \in ToSet(f) : l.table # NoTable
    BY <2>3, <2>5 DEF ToSet
  <2>. QED
    BY <2>7, <2>8
<1>4. CASE item.kind # "insert"
  <2>. PICK l : l = item.text
    OBVIOUS
  <2>1. LinesOf(item) = <<l>> /\ l.table # NoTable
    BY <1>1, <1>4, SubsetAssumption DEF LinesOf
  <2>2. DOMAIN <<l>> = {1} /\ <<l>>[1] = l
    OBVIOUS
  <2>3. ToSet(<<l>>) = {l}
    BY <2>2 DEF ToSet
  <2>4. l \in AnyLine
    BY <1>2, <2>1, <2>3
  <2>. QED
    BY <2>1, <2>3, <2>4
<1>. QED
  BY <1>3, <1>4

(* Every line does, in every dump. *)
LEMMA LinesType ==
  ASSUME NEW d \in Dumps
  PROVE  /\ Lines(d) \in Seq(AnyLine) /\ Len(Lines(d)) \in Nat
         /\ \A l \in AnyLine : l.table # NoTable
<1>. DEFINE T == [n \in Nat |-> Seq(AnyLine)]
<1>0. d \in Seq(ToSet(d)) /\ Len(d) \in Nat
  <2>1. d \in Seq(ToSet(d))
    BY SubsetAssumption DEF IsSequence
  <2>. QED
    BY <2>1
<1>1. \A n \in 1 .. Len(d) : \A v \in T[n - 1] : AddLines(v, d[n]) \in T[n]
  <2>. SUFFICES ASSUME NEW n \in 1 .. Len(d), NEW v \in T[n - 1]
                PROVE  AddLines(v, d[n]) \in T[n]
    OBVIOUS
  <2>1. n \in Nat /\ n - 1 \in Nat
    OBVIOUS
  <2>2. v \in Seq(AnyLine) /\ LinesOf(d[n]) \in Seq(AnyLine)
    BY <2>1, LinesOfType
  <2>3. AddLines(v, d[n]) \in Seq(AnyLine)
    BY <2>2, ConcatProperties DEF AddLines
  <2>. QED
    BY <2>1, <2>3
<1>2. <<>> \in T[0]
  BY EmptySeq
<1>. HIDE DEF T
<1>3. LF!FoldLeft(AddLines, <<>>, d) \in T[Len(d)]
  BY <1>0, <1>1, <1>2, LF!FoldInvariant
<1>4. Lines(d) \in Seq(AnyLine)
  BY <1>0, <1>3, SameLoops DEF Lines, T
<1>5. \A l \in AnyLine : l.table # NoTable
  <2>. SUFFICES ASSUME NEW e \in Dumps, NEW x \in ToSet(e), NEW l \in ToSet(LinesOf(x))
                PROVE  l.table # NoTable
    BY DEF AnyLine
  <2>1. e \in Seq(ToSet(e))
    BY SubsetAssumption DEF IsSequence
  <2>2. DOMAIN e = 1 .. Len(e)
    BY <2>1, LenProperties
  <2>3. PICK i \in 1 .. Len(e) : x = e[i]
    BY <2>2 DEF ToSet
  <2>. QED
    BY <2>3, LinesOfType
<1>6. Len(Lines(d)) \in Nat
  BY <1>4
<1>. QED
  BY <1>4, <1>5, <1>6

-----------------------------------------------------------------------------
(* Where the engine is. *)
EngineNow ==
  [fks |-> fks, keys |-> kept, rows |-> <<>>, read |-> rowsIn, written |-> rowsOut]

NothingWritten == out = <<>> /\ rowsIn = [t \in {} |-> 0] /\ rowsOut = [t \in {} |-> 0]

NothingPassed == phase \in {"infer", "collect"} => NothingWritten

LEMMA SubsetTypesInit == SubsetInit => SubsetTypes /\ IsFound(inferred) /\ NothingPassed
<1>. SUFFICES ASSUME SubsetInit
              PROVE  SubsetTypes /\ IsFound(inferred) /\ NothingPassed
  OBVIOUS
<1>1. /\ dump \in Dumps /\ limit \in Nat /\ given \in BOOLEAN /\ pos = 1 /\ count = 0
      /\ out = <<>> /\ phase \in {"infer", "collect"}
      /\ fks = IF given THEN GivenKeys(Lines(dump)) ELSE <<>>
      /\ kept = [t \in {} |-> {}] /\ rowsIn = [t \in {} |-> 0] /\ rowsOut = [t \in {} |-> 0]
      /\ inferred = NothingInferred
  BY SubsetAssumption DEF SubsetInit
<1>2. pos \in 1 .. Len(dump) + 1
  <2>1. dump \in Seq(ToSet(dump))
    BY <1>1, SubsetAssumption DEF IsSequence
  <2>2. Len(dump) \in Nat
    BY <2>1
  <2>. QED
    BY <1>1, <2>2
<1>3. fks \in Seq(ToSet(fks))
  BY <1>1, LinesType, GivenInOrder, EmptySeq
<1>4. kept \in KeptKeys
  BY <1>1, KeptKeysOf
<1>5. rowsIn \in Counters /\ rowsOut \in Counters
  BY <1>1, CountersOf
<1>6. out \in Seq(OutItem)
  BY <1>1, EmptySeq
<1>7. IsFound(inferred)
  BY <1>1, EmptySeq DEF NothingInferred, IsFound
<1>. QED
  BY <1>1, <1>2, <1>3, <1>4, <1>5, <1>6, <1>7
  DEF SubsetTypes, NothingPassed, NothingWritten

LEMMA SubsetTypesNext ==
  SubsetTypes /\ IsFound(inferred) /\ NothingPassed /\ [SubsetNext]_subsetVars
    => SubsetTypes' /\ IsFound(inferred)' /\ NothingPassed'
<1>. SUFFICES ASSUME SubsetTypes, IsFound(inferred), NothingPassed, [SubsetNext]_subsetVars
              PROVE  SubsetTypes' /\ IsFound(inferred)' /\ NothingPassed'
  OBVIOUS
<1>0. /\ dump \in Dumps /\ limit \in Nat /\ given \in BOOLEAN
      /\ phase \in {"infer", "collect", "filter", "done"}
      /\ pos \in 1 .. Len(dump) + 1
      /\ fks \in Seq(ToSet(fks))
      /\ kept \in KeptKeys /\ count \in Nat
      /\ phase \in {"filter", "done"} => Root \in DOMAIN kept
      /\ out \in Seq(OutItem)
      /\ rowsIn \in Counters /\ rowsOut \in Counters
      /\ phase = "done" => pos = Len(dump) + 1
  BY DEF SubsetTypes
<1>1. Len(dump) \in Nat
  <2>1. dump \in Seq(ToSet(dump))
    BY <1>0, SubsetAssumption DEF IsSequence
  <2>. QED
    BY <2>1
<1>2. ~AtEnd => pos \in 1 .. Len(dump) /\ pos + 1 \in 1 .. Len(dump) + 1
  BY <1>0, <1>1 DEF AtEnd
<1>3. AtEnd => pos = Len(dump) + 1
  BY <1>0, <1>1 DEF AtEnd
<1>4. 1 \in 1 .. Len(dump) + 1
  BY <1>1
<1>5. RootKeys \in SUBSET KeyValue
  <2>1. kept \in [DOMAIN kept -> SUBSET KeyValue]
    BY <1>0, KeptKeysOf
  <2>. QED
    BY <2>1 DEF RootKeys
<1>6. \A K \in SUBSET KeyValue : [t \in {Root} |-> K] \in KeptKeys
  BY KeptKeysOf DEF TableName
<1>7. ASSUME ~AtEnd
      PROVE  /\ RowsAt(Item) \in Seq(AnyRow)
             /\ Item.kind = "insert" => Remainder(Item) \in Seq(AnyRow)
             /\ Item.kind \in {"ddl", "head", "end"} => Item \in OutItem
  <2>1. pos \in 1 .. Len(dump)
    BY <1>2, <1>7
  <2>2. Item \in ToSet(dump)
    BY <1>0, <2>1, DumpItem DEF Item
  <2>. QED
    BY <1>0, <2>1, <2>2, RowsAtItem DEF Item, OutItem
<1>8. CASE Infer
  <2>1. /\ phase = "infer" /\ inferred' = InferLine(inferred, Lines(dump)[nextLine])
        /\ UNCHANGED <<dump, limit, given, phase, pos, fks, kept, count, out, rowsIn, rowsOut>>
    BY <1>8 DEF Infer, input
  <2>2. IsFound(inferred')
    BY <2>1, GroupsInOrder
  <2>3. SubsetTypes'
    BY <1>0, <2>1 DEF SubsetTypes
  <2>4. NothingPassed'
    BY <2>1 DEF NothingPassed, NothingWritten
  <2>. QED
    BY <2>2, <2>3, <2>4 DEF IsFound
<1>9. CASE Register
  <2>1. /\ phase = "infer" /\ phase' = "collect"
        /\ fks' = Registered(inferred.groups)
        /\ UNCHANGED <<dump, limit, given, pos, inferred, kept, count, out, rowsIn, rowsOut>>
    BY <1>9 DEF Register, input
  <2>2. fks' \in Seq(ToSet(fks'))
    <3>1. PICK t, g : inferred = [table |-> t, groups |-> g] /\ g \in Seq(ToSet(g))
      BY DEF IsFound
    <3>. QED
      BY <2>1, <3>1, RegisteredInOrder
  <2>3. SubsetTypes'
    BY <1>0, <1>4, <2>1, <2>2 DEF SubsetTypes
  <2>4. NothingPassed' /\ IsFound(inferred')
    BY <2>1 DEF NothingPassed, NothingWritten
  <2>. QED
    BY <2>3, <2>4 DEF IsFound
<1>10. CASE CollectItem
  <2>. PICK a : a = FoldLeft(Collect, [limit |-> limit, keys |-> RootKeys, count |-> count],
                            RowsAt(Item))
    OBVIOUS
  <2>1. /\ phase = "collect" /\ ~AtEnd /\ pos' = pos + 1
        /\ kept' = [t \in {Root} |-> a.keys] /\ count' = a.count
        /\ UNCHANGED <<dump, limit, given, phase, inferred, fks, out, rowsIn, rowsOut>>
    BY <1>10 DEF CollectItem, input
  <2>2. a \in Collection
    <3>1. [limit |-> limit, keys |-> RootKeys, count |-> count] \in Collection
      BY <1>0, <1>5 DEF Collection
    <3>. QED
      BY <1>7, <2>1, <3>1, CollectedType
  <2>3. kept' \in KeptKeys /\ count' \in Nat
    BY <1>6, <2>1, <2>2 DEF Collection
  <2>4. SubsetTypes'
    BY <1>0, <1>2, <2>1, <2>3 DEF SubsetTypes
  <2>5. NothingPassed' /\ IsFound(inferred')
    BY <2>1 DEF NothingPassed, NothingWritten
  <2>. QED
    BY <2>4, <2>5 DEF IsFound
<1>11. CASE StartFilter
  <2>1. /\ phase' = "filter" /\ pos' = 1 /\ kept' = [t \in {Root} |-> RootKeys]
        /\ UNCHANGED <<dump, limit, given, inferred, fks, count, out, rowsIn, rowsOut>>
    BY <1>11 DEF StartFilter, input
  <2>2. kept' \in KeptKeys /\ Root \in DOMAIN kept'
    BY <1>5, <1>6, <2>1
  <2>3. SubsetTypes'
    BY <1>0, <1>4, <2>1, <2>2 DEF SubsetTypes
  <2>4. NothingPassed' /\ IsFound(inferred')
    BY <2>1 DEF NothingPassed
  <2>. QED
    BY <2>3, <2>4 DEF IsFound
<1>12. CASE PassThrough
  <2>1. /\ phase = "filter" /\ ~AtEnd /\ Item.kind \in {"ddl", "head", "end"}
        /\ out' = Append(out, Item) /\ pos' = pos + 1
        /\ UNCHANGED <<dump, limit, given, phase, inferred, fks, kept, count, rowsIn, rowsOut>>
    BY <1>12 DEF PassThrough, input
  <2>2. out' \in Seq(OutItem)
    BY <1>0, <1>7, <2>1, AppendProperties
  <2>3. SubsetTypes'
    BY <1>0, <1>2, <2>1, <2>2 DEF SubsetTypes
  <2>4. NothingPassed' /\ IsFound(inferred')
    BY <2>1 DEF NothingPassed
  <2>. QED
    BY <2>3, <2>4 DEF IsFound
<1>13. CASE Filter
  <2>. PICK a, raw :
         /\ a = FoldLeft(FilterRow, EngineNow, RowsAt(Item))
         /\ raw = IF Item.kind = "insert" THEN Remainder(Item) ELSE <<>>
    OBVIOUS
  <2>1. /\ phase = "filter" /\ ~AtEnd /\ pos' = pos + 1
        /\ kept' = a.keys /\ rowsIn' = a.read /\ rowsOut' = a.written
        /\ out' = out \o WrittenRows(a.rows) \o WrittenRows(raw)
        /\ UNCHANGED <<dump, limit, given, phase, inferred, fks, count>>
    BY <1>13 DEF Filter, input, EngineNow
  <2>2. EngineNow \in Engine(fks) /\ EngineNow.keys = kept
    BY <1>0, EmptySeq DEF EngineNow, Engine
  <2>3. a \in Engine(fks) /\ (Root \in DOMAIN kept => Root \in DOMAIN a.keys)
    BY <1>7, <2>1, <2>2, FilteredType
  <2>4. /\ a.keys \in KeptKeys /\ a.rows \in Seq(AnyRow)
        /\ a.read \in Counters /\ a.written \in Counters
    BY <2>3 DEF Engine
  <2>5. raw \in Seq(AnyRow)
    BY <1>7, <2>1, EmptySeq
  <2>6. out' \in Seq(OutItem)
    <3>1. out \o WrittenRows(a.rows) \in Seq(OutItem)
      BY <1>0, <2>4, WrittenLast
    <3>. QED
      BY <2>1, <2>5, <3>1, WrittenLast
  <2>7. SubsetTypes'
    BY <1>0, <1>2, <2>1, <2>3, <2>4, <2>6 DEF SubsetTypes
  <2>8. NothingPassed' /\ IsFound(inferred')
    BY <2>1 DEF NothingPassed
  <2>. QED
    BY <2>7, <2>8 DEF IsFound
<1>14. CASE Finish
  <2>1. /\ phase = "filter" /\ AtEnd /\ phase' = "done"
        /\ UNCHANGED <<dump, limit, given, pos, inferred, fks, kept, count, out, rowsIn, rowsOut>>
    BY <1>14 DEF Finish, input
  <2>2. SubsetTypes'
    BY <1>0, <1>3, <2>1 DEF SubsetTypes
  <2>3. NothingPassed' /\ IsFound(inferred')
    BY <2>1 DEF NothingPassed
  <2>. QED
    BY <2>2, <2>3 DEF IsFound
<1>15. CASE UNCHANGED subsetVars
  BY <1>15 DEF subsetVars, SubsetTypes, IsFound, NothingPassed, NothingWritten
<1>. QED
  BY <1>8, <1>9, <1>10, <1>11, <1>12, <1>13, <1>14, <1>15 DEF SubsetNext

-----------------------------------------------------------------------------
(* The second pass, so far. *)
OnlyWhole(d) == \A i \in DOMAIN d : d[i].kind = "insert" => Remainder(d[i]) = <<>>

LEMMA WholeDump == Whole <=> OnlyWhole(dump)
BY DEF Whole, OnlyWhole

PassedSoFar ==
  phase \in {"filter", "done"} /\ Whole =>
    HasPassed(fks, Downstream, kept[Root], EngineNow, OutRows, Met(dump, pos - 1))

LEMMA DownstreamIsClosed == Closed(fks, Downstream)
<1>1. Root \in Downstream
  BY DEF Downstream, Tables, IsClosed
<1>2. ASSUME NEW fk \in ToSet(fks), fk.parent \in Downstream
      PROVE  fk.child \in Downstream
  <2>1. fk.child \in Tables
    BY DEF Tables
  <2>2. \A S \in SUBSET Tables : IsClosed(S) => fk.child \in S
    BY <1>2 DEF Downstream, IsClosed
  <2>. QED
    BY <2>1, <2>2 DEF Downstream
<1>. QED
  BY <1>1, <1>2 DEF Closed

LEMMA NoRows ==
  /\ ToSet(<<>>) = {} /\ \A t : At(<<>>, t) = {} /\ OfTable(<<>>, t) = {}
  /\ \A t : Cardinality(At(<<>>, t)) = 0
<1>1. ToSet(<<>>) = {}
  BY DEF ToSet
<1>2. \A t : At(<<>>, t) = {}
  BY DEF At
<1>3. \A t : OfTable(<<>>, t) = {}
  BY <1>2 DEF OfTable
<1>. QED
  BY <1>1, <1>2, <1>3, FS_EmptySet

(* Nothing has been passed when it starts. *)
LEMMA NothingHasPassed ==
  ASSUME NEW ks, NEW D, NEW K \in SUBSET KeyValue, NEW a, Closed(ks, D),
         a = [fks |-> ks, keys |-> [t \in {Root} |-> K], rows |-> <<>>,
              read |-> [t \in {} |-> 0], written |-> [t \in {} |-> 0]]
  PROVE  HasPassed(ks, D, K, a, <<>>, <<>>)
<1>. PICK f, k : f = [t \in {} |-> 0] /\ k = [t \in {Root} |-> K]
  OBVIOUS
<1>1. f \in Counters /\ k \in KeptKeys
  BY CountersOf, KeptKeysOf DEF TableName
<1>2. a \in Engine(ks)
  BY <1>1, EmptySeq DEF Engine
<1>3. Tally(f, <<>>)
  BY <1>1, NoRows DEF Tally, Of
<1>4. IsSelected(<<>>, <<>>)
  <2>1. Len(<<>>) = 0
    OBVIOUS
  <2>2. IsPlacing([i \in 1 .. 0 |-> 0], <<>>, <<>>)
    BY <2>1 DEF IsPlacing
  <2>. QED
    BY <2>2 DEF IsSelected
<1>5. RootsAmong(K, <<>>, <<>>)
  BY NoRows DEF RootsAmong
<1>6. Cascades(ks, D, K, k, <<>>, <<>>)
  BY NoRows DEF Cascades, KeysKept
<1>7. DOMAIN k \subseteq D /\ Root \in DOMAIN k /\ k[Root] = K
  BY DEF Closed
<1>. QED
  BY <1>2, <1>3, <1>4, <1>5, <1>6, <1>7 DEF HasPassed

(* Only the loop of a statement has rows of its own. *)
LEMMA PassedEngine ==
  ASSUME NEW ks, NEW D, NEW K, NEW a, NEW b, NEW some, NEW rows,
         HasPassed(ks, D, K, a, some, rows),
         b = [fks |-> ks, keys |-> a.keys, rows |-> <<>>, read |-> a.read,
              written |-> a.written]
  PROVE  HasPassed(ks, D, K, b, some, rows)
<1>1. a.keys \in KeptKeys /\ a.read \in Counters /\ a.written \in Counters
  BY DEF HasPassed, Engine
<1>2. b \in Engine(ks)
  BY <1>1, EmptySeq DEF Engine
<1>3. b.keys = a.keys /\ b.read = a.read /\ b.written = a.written
  OBVIOUS
<1>. QED
  BY <1>2, <1>3 DEF HasPassed

LEMMA PassedSoFarInit == SubsetInit => PassedSoFar
BY DEF SubsetInit, PassedSoFar

LEMMA PassedSoFarNext ==
  SubsetTypes /\ NothingPassed /\ PassedSoFar /\ [SubsetNext]_subsetVars => PassedSoFar'
<1>. SUFFICES ASSUME SubsetTypes, NothingPassed, PassedSoFar, [SubsetNext]_subsetVars,
                     (phase \in {"filter", "done"})', Whole'
              PROVE  HasPassed(fks', Downstream', kept'[Root], EngineNow', OutRows',
                               Met(dump', pos' - 1))
  BY DEF PassedSoFar
<1>0. /\ dump \in Dumps /\ pos \in 1 .. Len(dump) + 1
      /\ fks \in Seq(ToSet(fks)) /\ kept \in KeptKeys
      /\ out \in Seq(OutItem)
  BY DEF SubsetTypes
<1>1. Len(dump) \in Nat
  <2>1. dump \in Seq(ToSet(dump))
    BY <1>0, SubsetAssumption DEF IsSequence
  <2>. QED
    BY <2>1
<1>2. ~AtEnd => pos \in 1 .. Len(dump) /\ pos + 1 - 1 = pos /\ pos - 1 \in 0 .. Len(dump)
  BY <1>0, <1>1 DEF AtEnd
<1>3. dump' = dump /\ Whole
  <2>1. dump' = dump
    BY DEF SubsetNext, Infer, Register, CollectItem, StartFilter, PassThrough, Filter, Finish,
           input, subsetVars
  <2>2. OnlyWhole(dump)' => OnlyWhole(dump)
    BY <2>1 DEF OnlyWhole
  <2>. QED
    BY <2>1, <2>2, WholeDump DEF OnlyWhole, Whole
<1>4. fks' = fks => Downstream' = Downstream
  BY DEF Downstream, Tables, IsClosed
<1>5. ASSUME ~AtEnd
      PROVE  /\ Met(dump, pos) = Met(dump, pos - 1) \o RowsOfItem(Item)
             /\ Met(dump, pos - 1) \in Seq(AnyRow) /\ Item \in ToSet(dump)
             /\ RowsAt(Item) = RowsOfItem(Item) /\ RowsAt(Item) \in Seq(AnyRow)
             /\ Item.kind = "insert" => Remainder(Item) = <<>>
             /\ Item.kind \in {"ddl", "head", "end"} => RowsOfItem(Item) = <<>>
  <2>1. pos \in 1 .. Len(dump) /\ pos - 1 \in 0 .. Len(dump)
    BY <1>2, <1>5
  <2>2. dump[pos] \in ToSet(dump) /\ DOMAIN dump = 1 .. Len(dump)
    BY <1>0, <2>1, DumpItem
  <2>3. dump[pos].kind = "insert" => Remainder(dump[pos]) = <<>>
    BY <1>3, <2>1, <2>2 DEF Whole
  <2>4. /\ RowsAt(dump[pos]) = RowsOfItem(dump[pos])
        /\ RowsAt(dump[pos]) \in Seq(AnyRow)
    BY <1>0, <2>1, <2>3, RowsAtItem
  <2>5. /\ Met(dump, pos) = Met(dump, pos - 1) \o RowsOfItem(dump[pos])
        /\ Met(dump, pos - 1) \in Seq(AnyRow)
    BY <1>0, <2>1, MetNext
  <2>6. Item.kind \in {"ddl", "head", "end"} => RowsOfItem(Item) = <<>>
    BY DEF RowsOfItem
  <2>. QED
    BY <2>2, <2>3, <2>4, <2>5, <2>6 DEF Item
<1>6. OutRows \in Seq(AnyRow)
  BY <1>0, OutItemRows, RowsOfItemsType DEF OutRows
<1>7. CASE Infer \/ Register \/ CollectItem
  <2>1. phase' \in {"infer", "collect"}
    BY <1>7 DEF Infer, Register, CollectItem
  <2>. QED
    BY <2>1
<1>8. CASE StartFilter
  <2>1. /\ phase = "collect" /\ pos' = 1 /\ kept' = [t \in {Root} |-> RootKeys]
        /\ UNCHANGED <<dump, fks, out, rowsIn, rowsOut>>
    BY <1>8 DEF StartFilter, input
  <2>2. out = <<>> /\ rowsIn = [t \in {} |-> 0] /\ rowsOut = [t \in {} |-> 0]
    BY <2>1 DEF NothingPassed, NothingWritten
  <2>3. RootKeys \in SUBSET KeyValue
    <3>1. kept \in [DOMAIN kept -> SUBSET KeyValue]
      BY <1>0, KeptKeysOf
    <3>. QED
      BY <3>1 DEF RootKeys
  <2>4. /\ EngineNow' = [fks |-> fks, keys |-> [t \in {Root} |-> RootKeys], rows |-> <<>>,
                         read |-> [t \in {} |-> 0], written |-> [t \in {} |-> 0]]
        /\ kept'[Root] = RootKeys
    BY <2>1, <2>2 DEF EngineNow
  <2>5. OutRows' = <<>>
    BY <2>1, <2>2, RowsOfItemsNext, SI!FoldEmpty, SameLoops DEF OutRows, RowsOfItems
  <2>6. Met(dump, pos' - 1) = <<>>
    BY <1>0, <2>1, MetNext
  <2>7. HasPassed(fks, Downstream, RootKeys, EngineNow', <<>>, <<>>)
    BY <2>3, <2>4, DownstreamIsClosed, NothingHasPassed
  <2>. QED
    BY <1>3, <1>4, <2>1, <2>4, <2>5, <2>6, <2>7
<1>9. CASE PassThrough
  <2>1. /\ phase = "filter" /\ ~AtEnd /\ Item.kind \in {"ddl", "head", "end"}
        /\ out' = Append(out, Item) /\ pos' = pos + 1
        /\ UNCHANGED <<dump, fks, kept, rowsIn, rowsOut>>
    BY <1>9 DEF PassThrough, input
  <2>2. HasPassed(fks, Downstream, kept[Root], EngineNow, OutRows, Met(dump, pos - 1))
    BY <1>3, <2>1 DEF PassedSoFar
  <2>3. RowsOfItem(Item) = <<>> /\ Item \in OutItem
    BY <1>0, <1>5, <2>1 DEF OutItem
  <2>4. OutRows' = OutRows
    <3>1. RowsOfItems(Append(out, Item)) = RowsOfItems(out) \o RowsOfItem(Item)
      BY <1>0, <2>3, RowsOfItemsNext
    <3>2. RowsOfItems(out) \o <<>> = RowsOfItems(out)
      BY <1>6, ConcatEmptySeq DEF OutRows
    <3>. QED
      BY <2>1, <2>3, <3>1, <3>2 DEF OutRows
  <2>5. Met(dump, pos) = Met(dump, pos - 1)
    BY <1>5, <2>1, <2>3, ConcatEmptySeq
  <2>6. EngineNow' = EngineNow
    BY <2>1 DEF EngineNow
  <2>7. pos' - 1 = pos
    BY <1>2, <2>1
  <2>. QED
    BY <1>3, <1>4, <2>1, <2>2, <2>4, <2>5, <2>6, <2>7
<1>10. CASE Filter
  <2>. PICK a, raw :
         /\ a = FoldLeft(FilterRow, EngineNow, RowsAt(Item))
         /\ raw = IF Item.kind = "insert" THEN Remainder(Item) ELSE <<>>
    OBVIOUS
  <2>1. /\ phase = "filter" /\ ~AtEnd /\ pos' = pos + 1
        /\ kept' = a.keys /\ rowsIn' = a.read /\ rowsOut' = a.written
        /\ out' = out \o WrittenRows(a.rows) \o WrittenRows(raw)
        /\ UNCHANGED <<dump, fks>>
    BY <1>10 DEF Filter, input, EngineNow
  <2>2. HasPassed(fks, Downstream, kept[Root], EngineNow, OutRows, Met(dump, pos - 1))
    BY <1>3, <2>1 DEF PassedSoFar
  <2>3. EngineNow.rows = <<>>
    BY DEF EngineNow
  <2>4. /\ a \in Engine(fks)
        /\ HasPassed(fks, Downstream, kept[Root], a, OutRows \o a.rows,
                     Met(dump, pos - 1) \o RowsAt(Item))
    BY <1>0, <1>5, <1>6, <2>1, <2>2, <2>3, DownstreamIsClosed, FilterPasses
  <2>5. a.rows \in Seq(AnyRow)
    BY <2>4 DEF Engine
  <2>6. raw = <<>>
    BY <1>5, <2>1
  <2>7. OutRows' = OutRows \o a.rows
    <3>1. /\ out \o WrittenRows(a.rows) \in Seq(OutItem)
          /\ RowsOfItems(out \o WrittenRows(a.rows)) = RowsOfItems(out) \o a.rows
      BY <1>0, <2>5, WrittenLast
    <3>2. out' = out \o WrittenRows(a.rows)
      BY <2>1, <2>6, <3>1, ConcatEmptySeq DEF WrittenRows
    <3>. QED
      BY <3>1, <3>2 DEF OutRows
  <2>8. pos' - 1 = pos
    BY <1>2, <2>1
  <2>9. Met(dump, pos) = Met(dump, pos - 1) \o RowsAt(Item)
    BY <1>5, <2>1
  <2>10. EngineNow' = [fks |-> fks, keys |-> a.keys, rows |-> <<>>, read |-> a.read,
                       written |-> a.written]
    BY <2>1 DEF EngineNow
  <2>11. HasPassed(fks, Downstream, kept[Root], EngineNow', OutRows \o a.rows,
                   Met(dump, pos - 1) \o RowsAt(Item))
    BY <2>4, <2>10, PassedEngine
  <2>12. a.keys[Root] = kept[Root]
    BY <2>4 DEF HasPassed
  <2>. QED
    BY <1>3, <1>4, <2>1, <2>7, <2>8, <2>9, <2>11, <2>12
<1>11. CASE Finish \/ UNCHANGED subsetVars
  <2>1. phase \in {"filter", "done"} /\ UNCHANGED <<dump, pos, fks, kept, out, rowsIn, rowsOut>>
    BY <1>11 DEF Finish, input, subsetVars
  <2>2. HasPassed(fks, Downstream, kept[Root], EngineNow, OutRows, Met(dump, pos - 1))
    BY <1>3, <2>1 DEF PassedSoFar
  <2>. QED
    BY <1>4, <2>1, <2>2 DEF EngineNow, OutRows
<1>. QED
  BY <1>7, <1>8, <1>9, <1>10, <1>11 DEF SubsetNext

(* The rows of a statement are collected one by one. *)
LEMMA StatementCollected ==
  ASSUME NEW n \in Nat, NEW a0, NEW met \in Seq(AnyRow), NEW rows \in Seq(AnyRow),
         HasCollected(n, a0, met)
  PROVE  HasCollected(n, FoldLeft(Collect, a0, rows), met \o rows)
<1>. DEFINE T == [k \in Nat |->
                    {a \in Collection : HasCollected(n, a, met \o SubSeq(rows, 1, k))}]
<1>1. a0 \in T[0]
  <2>1. SubSeq(rows, 1, 0) = <<>>
    BY SubSeqEmpty
  <2>2. met \o SubSeq(rows, 1, 0) = met
    BY <2>1, ConcatEmptySeq
  <2>. QED
    BY <2>2 DEF HasCollected
<1>2. ASSUME NEW k \in 1 .. Len(rows), NEW a \in T[k - 1]
      PROVE  Collect(a, rows[k]) \in T[k]
  <2>. PICK r, m : r = rows[k] /\ m = met \o SubSeq(rows, 1, k - 1)
    OBVIOUS
  <2>0. k \in Nat /\ k - 1 \in Nat
    OBVIOUS
  <2>1. HasCollected(n, a, m)
    BY <2>0
  <2>2. /\ SubSeq(rows, 1, k) = Append(SubSeq(rows, 1, k - 1), r)
        /\ SubSeq(rows, 1, k - 1) \in Seq(AnyRow) /\ r \in AnyRow
    BY PrefixNext
  <2>3. m \in Seq(AnyRow)
    BY <2>2, ConcatProperties
  <2>4. met \o SubSeq(rows, 1, k) = Append(m, r)
    BY <2>2, ConcatAppend
  <2>5. HasCollected(n, Collect(a, r), Append(m, r))
    BY <2>1, <2>2, <2>3, HasCollectedNext
  <2>6. Collect(a, r) \in Collection
    BY <2>5 DEF HasCollected
  <2>. QED
    BY <2>0, <2>4, <2>5, <2>6
<1>3. Len(rows) \in Nat
  OBVIOUS
<1>. PICK a : a = FoldLeft(Collect, a0, rows)
  OBVIOUS
<1>4. a \in T[Len(rows)]
  <2>. HIDE DEF T
  <2>1. KF!FoldLeft(Collect, a0, rows) \in T[Len(rows)]
    BY <1>1, <1>2, KF!FoldInvariant
  <2>. QED
    BY <2>1, SameLoops
<1>5. SubSeq(rows, 1, Len(rows)) = rows
  BY SubSeqFull
<1>. QED
  BY <1>3, <1>4, <1>5

-----------------------------------------------------------------------------
(* The first pass, so far. *)

IsFirst(s, t) == Len(s) <= Len(t) /\ \A i \in 1 .. Len(s) : s[i] = t[i]

LEMMA ConcatIsFirst ==
  ASSUME NEW S, NEW s \in Seq(S), NEW u \in Seq(S)
  PROVE  IsFirst(s, s \o u)
<1>1. Len(s \o u) = Len(s) + Len(u) /\ \A i \in 1 .. Len(s) : (s \o u)[i] = s[i]
  BY ConcatProperties
<1>2. Len(s) \in Nat /\ Len(u) \in Nat
  OBVIOUS
<1>. QED
  BY <1>1, <1>2 DEF IsFirst

(* What a sequence begins with it begins with when it has grown. *)
LEMMA GrowsAtTheEnd ==
  ASSUME NEW S, NEW m \in Nat, NEW f \in [0 .. m -> Seq(S)],
         \A k \in 1 .. m : IsFirst(f[k - 1], f[k]), NEW n \in 0 .. m
  PROVE  IsFirst(f[n], f[m])
<1>. DEFINE Lost == {k \in n .. m : ~IsFirst(f[n], f[k])}
<1>1. SUFFICES ASSUME Lost # {}
               PROVE  FALSE
  <2>1. m \in n .. m
    OBVIOUS
  <2>. QED
    BY <1>1, <2>1
<1>2. PICK k \in Lost : \A j \in Lost : k <= j
  <2>1. Lost \subseteq Nat
    OBVIOUS
  <2>. HIDE DEF Lost
  <2>. QED
    BY <1>1, <2>1, LeastOfNumbers
<1>3. k \in n .. m /\ ~IsFirst(f[n], f[k])
  OBVIOUS
<1>4. CASE k = n
  <2>1. Len(f[n]) \in Nat
    OBVIOUS
  <2>. QED
    BY <1>3, <1>4, <2>1 DEF IsFirst
<1>5. CASE k # n
  <2>1. k \in 1 .. m /\ k - 1 \in n .. m /\ ~(k <= k - 1)
    BY <1>3, <1>5
  <2>2. IsFirst(f[n], f[k - 1]) /\ IsFirst(f[k - 1], f[k])
    BY <1>2, <2>1
  <2>3. Len(f[n]) \in Nat /\ Len(f[k - 1]) \in Nat /\ Len(f[k]) \in Nat
    <3>1. n \in 0 .. m /\ k - 1 \in 0 .. m /\ k \in 0 .. m
      BY <2>1
    <3>2. f[n] \in Seq(S) /\ f[k - 1] \in Seq(S) /\ f[k] \in Seq(S)
      BY <3>1
    <3>. QED
      BY <3>2
  <2>4. IsFirst(f[n], f[k])
    BY <2>2, <2>3 DEF IsFirst
  <2>. QED
    BY <1>3, <2>4
<1>. QED
  BY <1>4, <1>5

(* What a pass has met comes first in what it meets later. *)
LEMMA MetIsFirst ==
  ASSUME NEW d \in Dumps, NEW m \in 0 .. Len(d), NEW n \in 0 .. m
  PROVE  IsFirst(Met(d, n), Met(d, m))
<1>. DEFINE f == [k \in 0 .. m |-> Met(d, k)]
<1>1. Len(d) \in Nat
  <2>1. d \in Seq(ToSet(d))
    BY SubsetAssumption DEF IsSequence
  <2>. QED
    BY <2>1
<1>2. m \in Nat /\ n \in 0 .. m /\ f \in [0 .. m -> Seq(AnyRow)]
  <2>1. m \in Nat /\ \A k \in 0 .. m : k \in 0 .. Len(d)
    BY <1>1
  <2>2. \A k \in 0 .. m : Met(d, k) \in Seq(AnyRow)
    BY <2>1, MetNext
  <2>. QED
    BY <2>1, <2>2
<1>3. ASSUME NEW k \in 1 .. m
      PROVE  IsFirst(f[k - 1], f[k])
  <2>1. k - 1 \in 0 .. m /\ k \in 0 .. m /\ k \in 1 .. Len(d) /\ k - 1 \in 0 .. Len(d)
    BY <1>1
  <2>2. Met(d, k) = Met(d, k - 1) \o RowsOfItem(d[k]) /\ Met(d, k - 1) \in Seq(AnyRow)
    BY <2>1, MetNext
  <2>3. RowsOfItem(d[k]) \in Seq(AnyRow)
    BY RowsOfItemType
  <2>. QED
    BY <2>1, <2>2, <2>3, ConcatIsFirst
<1>4. f[n] = Met(d, n) /\ f[m] = Met(d, m)
  BY <1>2
<1>. HIDE DEF f
<1>5. IsFirst(f[n], f[m])
  BY <1>2, <1>3, GrowsAtTheEnd
<1>. QED
  BY <1>4, <1>5

(* An INSERT into the root table that a pass has met is a row of it that it has met. *)
LEMMA RootInsertMet ==
  ASSUME NEW d \in Dumps, OnlyWhole(d), NEW n \in 0 .. Len(d), NEW i \in 1 .. n,
         d[i].kind = "insert", NEW r \in ToSet(FullInsert(d[i])), r.table = Root
  PROVE  At(Met(d, n), Root) # {}
<1>1. Len(d) \in Nat /\ i \in 1 .. Len(d) /\ i \in 0 .. n /\ i - 1 \in 0 .. Len(d) /\ i \in 0 .. Len(d)
  <2>1. d \in Seq(ToSet(d))
    BY SubsetAssumption DEF IsSequence
  <2>2. Len(d) \in Nat
    BY <2>1
  <2>. QED
    BY <2>2
<1>. PICK s, rows, met : s = Met(d, i - 1) /\ rows = RowsOfItem(d[i]) /\ met = Met(d, n)
  OBVIOUS
<1>2. FullInsert(d[i]) = rows /\ rows \in Seq(AnyRow)
  <2>1. i \in DOMAIN d
    BY <1>1, DumpItem
  <2>2. Remainder(d[i]) = <<>>
    BY <2>1 DEF OnlyWhole
  <2>3. RowsAt(d[i]) = RowsOfItem(d[i]) /\ RowsAt(d[i]) \in Seq(AnyRow)
    BY <1>1, <2>2, RowsAtItem
  <2>. QED
    BY <2>3 DEF RowsAt
<1>3. /\ Met(d, i) = s \o rows /\ s \in Seq(AnyRow) /\ met \in Seq(AnyRow)
      /\ IsFirst(s \o rows, met)
  <2>1. Met(d, i) = s \o rows /\ s \in Seq(AnyRow) /\ met \in Seq(AnyRow)
    BY <1>1, MetNext
  <2>2. IsFirst(Met(d, i), met)
    BY <1>1, MetIsFirst
  <2>. QED
    BY <2>1, <2>2
<1>4. PICK j \in 1 .. Len(rows) : rows[j] = r
  <2>1. r \in ToSet(rows) /\ DOMAIN rows = 1 .. Len(rows)
    BY <1>2, LenProperties
  <2>. QED
    BY <2>1 DEF ToSet
<1>5. Len(s) \in Nat /\ Len(rows) \in Nat /\ Len(met) \in Nat /\ DOMAIN met = 1 .. Len(met)
  BY <1>2, <1>3, LenProperties
<1>6. /\ Len(s \o rows) = Len(s) + Len(rows) /\ (s \o rows)[Len(s) + j] = r
      /\ Len(s) + j \in 1 .. Len(s) + Len(rows)
  BY <1>2, <1>3, <1>4, <1>5
<1>7. Len(s) + j \in 1 .. Len(met) /\ met[Len(s) + j] = r
  <2>. PICK t : t = s \o rows
    OBVIOUS
  <2>1. IsFirst(t, met) /\ Len(t) = Len(s) + Len(rows) /\ t[Len(s) + j] = r
    BY <1>3, <1>6
  <2>. QED
    BY <1>5, <1>6, <2>1 DEF IsFirst
<1>. QED
  BY <1>5, <1>7 DEF At

(* Then its root rows have keys if all have them. *)
LEMMA FirstRowsKeyed ==
  ASSUME NEW R, NEW rows \in Seq(R), NEW more \in Seq(R), IsFirst(rows, more), RootsKeyed(more)
  PROVE  RootsKeyed(rows)
<1>. SUFFICES ASSUME NEW i \in At(rows, Root)
              PROVE  IsRootKey(rows[i])
  BY DEF RootsKeyed
<1>1. DOMAIN rows = 1 .. Len(rows) /\ DOMAIN more = 1 .. Len(more) /\ Len(more) \in Nat
      /\ Len(rows) \in Nat
  BY LenProperties
<1>2. i \in 1 .. Len(rows) /\ i \in 1 .. Len(more) /\ rows[i] = more[i]
  BY <1>1 DEF IsFirst, At
<1>3. i \in At(more, Root)
  BY <1>1, <1>2 DEF At
<1>. QED
  BY <1>2, <1>3 DEF RootsKeyed

CollectedNow == [limit |-> limit, keys |-> RootKeys, count |-> count]

CollectedSoFar ==
  /\ phase = "infer" => pos = 1 /\ RootKeys = {} /\ count = 0
  /\ phase = "collect" /\ Whole => HasCollected(limit, CollectedNow, Met(dump, pos - 1))
  /\ phase \in {"filter", "done"} /\ Whole /\ RootsKeyed(AllRows) =>
       kept[Root] = SampledKeys(Max({limit, 1}), AllRows)

LEMMA NothingCollected ==
  ASSUME NEW n \in Nat, NEW a, a = [limit |-> n, keys |-> {}, count |-> 0], NEW rows, rows = <<>>
  PROVE  HasCollected(n, a, rows)
<1>1. a \in Collection /\ a.limit = n /\ a.keys = {} /\ a.count = 0
  BY DEF Collection
<1>. PICK l, c : l = Max({n, 1}) /\ c = Cardinality(At(rows, Root))
  OBVIOUS
<1>2. SampledKeys(l, rows) = {}
  BY DEF SampledKeys, SampledAt
<1>3. l \in Nat /\ c = 0
  BY LimitFacts, NoRows
<1>4. c <= l
  BY <1>3
<1>5. a.keys = SampledKeys(l, rows) /\ a.count = IF c <= l THEN c ELSE l
  <2>1. a.keys = SampledKeys(l, rows)
    BY <1>1, <1>2
  <2>2. (IF c <= l THEN c ELSE l) = 0
    BY <1>3, <1>4
  <2>. QED
    BY <1>1, <2>1, <2>2
<1>. QED
  BY <1>1, <1>5 DEF HasCollected

LEMMA CollectedSoFarInit == SubsetInit => CollectedSoFar
<1>. SUFFICES ASSUME SubsetInit
              PROVE  CollectedSoFar
  OBVIOUS
<1>1. /\ dump \in Dumps /\ limit \in Nat /\ pos = 1 /\ count = 0
      /\ phase \in {"infer", "collect"} /\ kept = [t \in {} |-> {}]
  BY SubsetAssumption DEF SubsetInit
<1>2. RootKeys = {}
  BY <1>1 DEF RootKeys
<1>3. Met(dump, pos - 1) = <<>>
  BY <1>1, MetNext
<1>4. HasCollected(limit, CollectedNow, <<>>)
  BY <1>1, <1>2, NothingCollected DEF CollectedNow
<1>. QED
  BY <1>1, <1>2, <1>3, <1>4 DEF CollectedSoFar

(* When the first pass is left, the keys are those of the sample. *)
LEMMA CollectedEnough ==
  ASSUME NEW d \in Dumps, NEW n \in 0 .. Len(d), NEW l \in Nat, NEW a,
         HasCollected(l, a, Met(d, n)), RootsKeyed(RowsOfItems(d)),
         n = Len(d) \/ (a.count >= l /\ (a.count > 0 \/ At(Met(d, n), Root) # {}))
  PROVE  a.keys = SampledKeys(Max({l, 1}), RowsOfItems(d))
<1>. PICK m, met, all, c :
       m = Max({l, 1}) /\ met = Met(d, n) /\ all = RowsOfItems(d) /\ c = Cardinality(At(met, Root))
  OBVIOUS
<1>1. met \in Seq(AnyRow) /\ all \in Seq(AnyRow)
  <2>1. d \in Seq(ToSet(d))
    BY SubsetAssumption DEF IsSequence
  <2>2. Len(d) \in 0 .. Len(d)
    BY <2>1
  <2>. QED
    BY <2>2, MetNext
<1>2. IsFirst(met, all)
  <2>1. d \in Seq(ToSet(d))
    BY SubsetAssumption DEF IsSequence
  <2>2. Len(d) \in 0 .. Len(d) /\ Met(d, Len(d)) = all
    BY <2>1, MetNext
  <2>. QED
    BY <2>2, MetIsFirst
<1>3. RootsKeyed(met)
  BY <1>1, <1>2, FirstRowsKeyed
<1>4. a.count \in Nat /\ a.keys = SampledKeys(m, met) /\ a.count = IF c <= m THEN c ELSE m
  BY <1>3 DEF HasCollected, Collection
<1>5. CASE n = Len(d)
  BY <1>4, <1>5, MetNext
<1>6. CASE a.count >= l /\ (a.count > 0 \/ At(met, Root) # {})
  <2>2. c \in Nat /\ (At(met, Root) # {} => c > 0)
    <3>1. IsFiniteSet(At(met, Root))
      <4>1. At(met, Root) \subseteq 1 .. Len(met)
        BY <1>1, LenProperties DEF At
      <4>2. IsFiniteSet(1 .. Len(met))
        BY <1>1, FS_Interval, LenProperties
      <4>. QED
        BY <4>1, <4>2, FS_Subset
    <3>2. c \in Nat /\ (c = 0 <=> At(met, Root) = {})
      BY <3>1, FS_CardinalityType, FS_EmptySet
    <3>. QED
      BY <3>2
  <2>1. m \in Nat /\ a.count >= m
    <3>1. m \in Nat /\ m >= 1 /\ (a.count > 0 => a.count >= m)
      BY <1>4, <1>6, LimitFacts
    <3>2. a.count > 0
      BY <1>4, <1>6, <2>2, <3>1
    <3>. QED
      BY <3>1, <3>2
  <2>3. c >= m
    BY <1>4, <2>1, <2>2
  <2>4. Len(met) <= Len(all) /\ \A i \in 1 .. Len(met) : met[i] = all[i]
    BY <1>2 DEF IsFirst
  <2>5. SampledKeys(m, met) = SampledKeys(m, all)
    BY <1>1, <2>1, <2>3, <2>4, SampleStays
  <2>. QED
    BY <1>4, <2>5
<1>. QED
  BY <1>5, <1>6

LEMMA CollectedSoFarNext ==
  SubsetTypes /\ CollectedSoFar /\ [SubsetNext]_subsetVars => CollectedSoFar'
<1>. SUFFICES ASSUME SubsetTypes, CollectedSoFar, [SubsetNext]_subsetVars
              PROVE  CollectedSoFar'
  OBVIOUS
<1>0. /\ dump \in Dumps /\ pos \in 1 .. Len(dump) + 1 /\ limit \in Nat
      /\ fks \in Seq(ToSet(fks)) /\ kept \in KeptKeys
      /\ rowsIn \in Counters /\ rowsOut \in Counters
      /\ phase \in {"filter", "done"} => Root \in DOMAIN kept
  BY DEF SubsetTypes
<1>1. Len(dump) \in Nat
  <2>1. dump \in Seq(ToSet(dump))
    BY <1>0, SubsetAssumption DEF IsSequence
  <2>. QED
    BY <2>1
<1>2. pos - 1 \in 0 .. Len(dump) /\ (AtEnd => pos - 1 = Len(dump))
      /\ (~AtEnd => pos \in 1 .. Len(dump) /\ pos + 1 - 1 = pos)
  BY <1>0, <1>1 DEF AtEnd
<1>3. dump' = dump /\ limit' = limit
  BY DEF SubsetNext, Infer, Register, CollectItem, StartFilter, PassThrough, Filter, Finish,
         input, subsetVars
<1>4. (Whole' => Whole) /\ AllRows' = AllRows
  <2>1. OnlyWhole(dump)' => OnlyWhole(dump)
    BY <1>3 DEF OnlyWhole
  <2>2. Whole' => OnlyWhole(dump)'
    BY DEF Whole, OnlyWhole
  <2>. QED
    BY <1>3, <2>1, <2>2, WholeDump DEF AllRows
<1>5. CASE Infer
  <2>1. phase = "infer" /\ phase' = "infer" /\ UNCHANGED <<pos, kept, count>>
    BY <1>5 DEF Infer
  <2>2. RootKeys' = RootKeys
    BY <2>1 DEF RootKeys
  <2>. QED
    BY <2>1, <2>2 DEF CollectedSoFar
<1>6. CASE Register
  <2>1. phase = "infer" /\ phase' = "collect" /\ pos' = 1 /\ UNCHANGED <<kept, count>>
    BY <1>6 DEF Register, CollectedSoFar
  <2>2. RootKeys' = {} /\ count' = 0
    BY <2>1 DEF RootKeys, CollectedSoFar
  <2>3. CollectedNow' = [limit |-> limit, keys |-> {}, count |-> 0]
    BY <1>3, <2>2 DEF CollectedNow
  <2>4. HasCollected(limit, CollectedNow', <<>>)
    BY <1>0, <2>3, NothingCollected
  <2>5. Met(dump', pos' - 1) = <<>>
    BY <1>0, <1>3, <2>1, MetNext
  <2>. QED
    BY <1>3, <2>1, <2>4, <2>5 DEF CollectedSoFar
<1>7. CASE CollectItem
  <2>. PICK a, rows : a = FoldLeft(Collect, CollectedNow, RowsAt(Item)) /\ rows = RowsAt(Item)
    OBVIOUS
  <2>1. /\ phase = "collect" /\ ~AtEnd /\ phase' = "collect" /\ pos' = pos + 1
        /\ kept' = [t \in {Root} |-> a.keys] /\ count' = a.count
    BY <1>7 DEF CollectItem, CollectedNow
  <2>. SUFFICES ASSUME Whole'
                PROVE  HasCollected(limit', CollectedNow', Met(dump', pos' - 1))
    BY <2>1 DEF CollectedSoFar
  <2>2. Whole /\ HasCollected(limit, CollectedNow, Met(dump, pos - 1))
    BY <1>4, <2>1 DEF CollectedSoFar
  <2>3. pos \in 1 .. Len(dump) /\ pos \in DOMAIN dump /\ pos' - 1 = pos
    <3>1. pos \in 1 .. Len(dump)
      BY <1>2, <2>1
    <3>. QED
      BY <1>0, <1>2, <2>1, <3>1, DumpItem
  <2>4. rows = RowsOfItem(Item) /\ rows \in Seq(AnyRow)
    <3>1. dump[pos].kind = "insert" => Remainder(dump[pos]) = <<>>
      BY <2>2, <2>3 DEF Whole
    <3>. QED
      BY <1>0, <2>3, <3>1, RowsAtItem DEF Item
  <2>5. /\ Met(dump, pos) = Met(dump, pos - 1) \o rows
        /\ Met(dump, pos - 1) \in Seq(AnyRow)
    BY <1>0, <1>2, <2>3, <2>4, MetNext DEF Item
  <2>6. HasCollected(limit, a, Met(dump, pos))
    BY <1>0, <2>2, <2>4, <2>5, StatementCollected
  <2>7. a = [limit |-> a.limit, keys |-> a.keys, count |-> a.count] /\ a.limit = limit
    BY <2>6 DEF HasCollected, Collection
  <2>8. RootKeys' = a.keys
    BY <2>1 DEF RootKeys
  <2>9. CollectedNow' = a
    BY <1>3, <2>1, <2>7, <2>8 DEF CollectedNow
  <2>. QED
    BY <1>3, <2>3, <2>6, <2>9
<1>8. CASE StartFilter
  <2>1. /\ phase = "collect" /\ phase' = "filter" /\ kept' = [t \in {Root} |-> RootKeys]
        /\ AtEnd \/ (count >= limit /\ (count > 0 \/ RootInsertRead))
    BY <1>8 DEF StartFilter, Enough
  <2>. SUFFICES ASSUME Whole', RootsKeyed(AllRows)'
                PROVE  kept'[Root] = SampledKeys(Max({limit', 1}), AllRows')
    BY <2>1 DEF CollectedSoFar
  <2>2. HasCollected(limit, CollectedNow, Met(dump, pos - 1))
    BY <1>4, <2>1 DEF CollectedSoFar
  <2>3. RootsKeyed(AllRows)
    <3>1. RootsKeyed(AllRows')
      BY DEF RootsKeyed, At, IsRootKey
    <3>. QED
      BY <1>4, <3>1
  <2>4. CollectedNow.keys = RootKeys /\ CollectedNow.count = count
    BY DEF CollectedNow
  <2>5. RootInsertRead => At(Met(dump, pos - 1), Root) # {}
    <3>1. OnlyWhole(dump)
      BY <1>4, WholeDump
    <3>. QED
      BY <1>0, <1>2, <3>1, RootInsertMet DEF RootInsertRead
  <2>6. RootKeys = SampledKeys(Max({limit, 1}), AllRows)
    BY <1>0, <1>2, <2>1, <2>2, <2>3, <2>4, <2>5, CollectedEnough DEF AllRows
  <2>. QED
    BY <1>3, <1>4, <2>1, <2>6
<1>9. CASE PassThrough \/ Filter \/ Finish \/ (UNCHANGED subsetVars /\ phase \in {"filter", "done"})
  <2>1. phase \in {"filter", "done"} /\ phase' \in {"filter", "done"}
    BY <1>9 DEF PassThrough, Filter, Finish, subsetVars
  <2>2. kept'[Root] = kept[Root]
    <3>1. CASE Filter
      <4>1. /\ ~AtEnd /\ kept' = FoldLeft(FilterRow, EngineNow, RowsAt(Item)).keys
        BY <3>1 DEF Filter, EngineNow
      <4>2. EngineNow \in Engine(fks) /\ EngineNow.keys = kept
        BY <1>0, EmptySeq DEF EngineNow, Engine
      <4>3. RowsAt(Item) \in Seq(AnyRow)
        BY <1>0, <1>2, <4>1, RowsAtItem DEF Item
      <4>. QED
        BY <1>0, <2>1, <4>1, <4>2, <4>3, FilteredType
    <3>2. CASE ~Filter
      BY <1>9, <3>2 DEF PassThrough, Finish, subsetVars
    <3>. QED
      BY <3>1, <3>2
  <2>. SUFFICES ASSUME Whole', RootsKeyed(AllRows)'
                PROVE  kept'[Root] = SampledKeys(Max({limit', 1}), AllRows')
    BY <2>1 DEF CollectedSoFar
  <2>3. RootsKeyed(AllRows)
    <3>1. RootsKeyed(AllRows')
      BY DEF RootsKeyed, At, IsRootKey
    <3>. QED
      BY <1>4, <3>1
  <2>4. kept[Root] = SampledKeys(Max({limit, 1}), AllRows)
    BY <1>4, <2>1, <2>3 DEF CollectedSoFar
  <2>. QED
    BY <1>3, <1>4, <2>2, <2>4
<1>10. CASE UNCHANGED subsetVars /\ phase \in {"infer", "collect"}
  <2>1. UNCHANGED <<phase, kept, count, pos>>
    BY <1>10 DEF subsetVars
  <2>2. RootKeys' = RootKeys
    BY <2>1 DEF RootKeys
  <2>3. CollectedNow' = CollectedNow
    BY <1>3, <2>1, <2>2 DEF CollectedNow
  <2>4. phase = "collect" /\ Whole' => HasCollected(limit, CollectedNow, Met(dump, pos - 1))
    BY <1>4 DEF CollectedSoFar
  <2>5. phase = "infer" => RootKeys = {} /\ count = 0
    BY DEF CollectedSoFar
  <2>. QED
    BY <1>3, <1>10, <2>1, <2>2, <2>3, <2>4, <2>5 DEF CollectedSoFar
<1>11. phase \in {"infer", "collect", "filter", "done"}
  BY DEF SubsetTypes
<1>. QED
  BY <1>5, <1>6, <1>7, <1>8, <1>9, <1>10, <1>11 DEF SubsetNext

-----------------------------------------------------------------------------
(* All that is known about the engine. *)
SubsetInv == SubsetTypes /\ IsFound(inferred) /\ NothingPassed /\ PassedSoFar /\ CollectedSoFar

LEMMA SubsetInvariant == SubsetSpec => []SubsetInv
<1>1. SubsetInit => SubsetInv
  BY SubsetTypesInit, PassedSoFarInit, CollectedSoFarInit DEF SubsetInv
<1>2. SubsetInv /\ [SubsetNext]_subsetVars => SubsetInv'
  BY SubsetTypesNext, PassedSoFarNext, CollectedSoFarNext DEF SubsetInv
<1>. QED
  BY <1>1, <1>2, PTL DEF SubsetSpec

(* The counts of the second pass are those of the rows that it has met and written, and
   it writes them in their order: for any dumps, foreign keys and limits. *)
THEOREM CountsAreThoseOfRows == SubsetSpec => []Accounted
<1>1. SubsetInv => Accounted
  <2>. SUFFICES ASSUME SubsetInv, phase \in {"filter", "done"}, Whole
                PROVE  LET met == Met(dump, pos - 1) IN
                       /\ IsSelection(OutRows, met)
                       /\ DOMAIN Report = {r.table : r \in ToSet(met)}
                       /\ \A t \in DOMAIN Report :
                            Report[t] = [read |-> Cardinality(At(met, t)),
                                         written |-> Cardinality(At(OutRows, t))]
    BY DEF Accounted, Met
  <2>. PICK met, some, K : met = Met(dump, pos - 1) /\ some = OutRows /\ K = kept[Root]
    OBVIOUS
  <2>1. HasPassed(fks, Downstream, K, EngineNow, some, met)
    BY DEF SubsetInv, PassedSoFar
  <2>2. Tally(rowsIn, met) /\ Tally(rowsOut, some) /\ IsSelected(some, met)
    BY <2>1 DEF HasPassed, EngineNow
  <2>3. some \in Seq(AnyRow) /\ met \in Seq(AnyRow)
    <3>1. dump \in Dumps /\ pos \in 1 .. Len(dump) + 1 /\ out \in Seq(OutItem)
      BY DEF SubsetInv, SubsetTypes
    <3>2. dump \in Seq(ToSet(dump))
      BY <3>1, SubsetAssumption DEF IsSequence
    <3>3. pos - 1 \in 0 .. Len(dump)
      BY <3>1, <3>2
    <3>. QED
      BY <3>1, <3>3, MetNext, OutItemRows, RowsOfItemsType DEF OutRows
  <2>4. IsSelection(some, met)
    BY <2>2, <2>3, SelectedIsFound
  <2>5. ToSet(some) \subseteq ToSet(met)
    BY <2>2, <2>3, SelectedAmong
  <2>6. /\ DOMAIN rowsIn = {r.table : r \in ToSet(met)}
        /\ DOMAIN rowsOut = {r.table : r \in ToSet(some)}
        /\ \A t : Of(rowsIn, t) = Cardinality(At(met, t))
        /\ \A t : Of(rowsOut, t) = Cardinality(At(some, t))
    BY <2>2 DEF Tally
  <2>7. DOMAIN Report = {r.table : r \in ToSet(met)}
    BY <2>5, <2>6 DEF Report
  <2>8. \A t \in DOMAIN Report : Report[t] = [read |-> Cardinality(At(met, t)),
                                              written |-> Cardinality(At(some, t))]
    BY <2>6 DEF Report
  <2>. QED
    BY <2>4, <2>7, <2>8
<1>. QED
  BY <1>1, SubsetInvariant, PTL

(* The rows whose keys are those of the sample are the sample. *)
LEMMA SampleOfKeys ==
  ASSUME NEW rows, rows = AllRows, NEW l, l = Max({limit, 1}), UniqueRootKeys
  PROVE  /\ RootsKeyed(rows)
         /\ Sample = {r \in OfTable(rows, Root) : r.cells[Pk] \in SampledKeys(l, rows)}
         /\ SampledKeys(l, rows) = {p.cells[Pk] : p \in Sample}
<1>1. /\ \A i \in At(rows, Root) : IsRootKey(rows[i])
      /\ \A i, j \in At(rows, Root) : i # j => rows[i].cells[Pk] # rows[j].cells[Pk]
  BY DEF UniqueRootKeys
<1>. PICK S : S = SampledAt(l, rows)
  OBVIOUS
<1>2. S = {j \in DOMAIN rows : IsSampled(rows, j)}
  BY DEF SampledAt, IsSampled, RankAt
<1>3. Sample = {rows[i] : i \in S}
  BY <1>2 DEF Sample
<1>4. SampledKeys(l, rows) = {rows[i].cells[Pk] : i \in S}
  BY DEF SampledKeys
<1>5. S \subseteq At(rows, Root)
  BY DEF SampledAt, At
<1>6. \A i \in At(rows, Root) : rows[i].cells[Pk] \in SampledKeys(l, rows) => i \in S
  BY <1>1, <1>4, <1>5
<1>7. Sample = {r \in OfTable(rows, Root) : r.cells[Pk] \in SampledKeys(l, rows)}
  BY <1>3, <1>4, <1>5, <1>6 DEF OfTable
<1>8. SampledKeys(l, rows) = {p.cells[Pk] : p \in Sample}
  <2>1. \A p : p \in Sample <=> \E i \in S : p = rows[i]
    BY <1>3
  <2>2. \A x : x \in SampledKeys(l, rows) <=> \E i \in S : x = rows[i].cells[Pk]
    BY <1>4
  <2>3. ASSUME NEW x, x \in SampledKeys(l, rows)
        PROVE  x \in {p.cells[Pk] : p \in Sample}
    <3>1. PICK i \in S : x = rows[i].cells[Pk]
      BY <2>2, <2>3
    <3>2. rows[i] \in Sample
      BY <2>1
    <3>. QED
      BY <3>1, <3>2
  <2>4. ASSUME NEW p \in Sample
        PROVE  p.cells[Pk] \in SampledKeys(l, rows)
    <3>1. PICK i \in S : p = rows[i]
      BY <2>1
    <3>. QED
      BY <2>2, <3>1
  <2>. QED
    BY <2>3, <2>4
<1>. QED
  BY <1>1, <1>7, <1>8 DEF RootsKeyed

(* When the engine is done, it has passed all rows. *)
LEMMA AllPassed ==
  ASSUME SubsetInv, phase = "done", Whole, UniqueRootKeys
  PROVE  /\ HasPassed(fks, Downstream, kept[Root], EngineNow, OutRows, AllRows)
         /\ kept[Root] = SampledKeys(Max({limit, 1}), AllRows)
<1>1. dump \in Dumps /\ pos = Len(dump) + 1
  BY DEF SubsetInv, SubsetTypes
<1>2. dump \in Seq(ToSet(dump))
  BY <1>1, SubsetAssumption DEF IsSequence
<1>3. pos - 1 = Len(dump)
  BY <1>1, <1>2
<1>4. Met(dump, pos - 1) = AllRows
  BY <1>1, <1>3, MetNext DEF AllRows
<1>5. HasPassed(fks, Downstream, kept[Root], EngineNow, OutRows, Met(dump, pos - 1))
  BY DEF SubsetInv, PassedSoFar
<1>6. RootsKeyed(AllRows)
  BY SampleOfKeys
<1>7. kept[Root] = SampledKeys(Max({limit, 1}), AllRows)
  BY <1>6 DEF SubsetInv, CollectedSoFar
<1>. QED
  BY <1>4, <1>5, <1>7

LEMMA SampleIsKept ==
  ASSUME SubsetInv, phase = "done", Whole, UniqueRootKeys
  PROVE  OfTable(OutRows, Root) = Sample
<1>. PICK rows, l, K, some :
       rows = AllRows /\ l = Max({limit, 1}) /\ K = SampledKeys(l, rows) /\ some = OutRows
  OBVIOUS
<1>1. RootsAmong(K, some, rows)
  BY AllPassed DEF HasPassed
<1>2. /\ RootsKeyed(rows)
      /\ Sample = {r \in OfTable(rows, Root) : r.cells[Pk] \in K}
  BY SampleOfKeys
<1>3. \A r \in OfTable(rows, Root) : Pk \in DOMAIN r.cells
  BY <1>2 DEF RootsKeyed, OfTable, IsRootKey
<1>4. OfTable(some, Root) = {r \in OfTable(rows, Root) : r.cells[Pk] \in K}
  BY <1>1, <1>3 DEF RootsAmong
<1>. QED
  BY <1>2, <1>4

(* What is kept of the root table are its first rows, as many as the limit says: for any
   dumps, foreign keys and limits. *)
THEOREM LimitIsHonoured == SubsetSpec => []LimitHonoured
<1>1. SubsetInv => LimitHonoured
  BY SampleIsKept DEF LimitHonoured
<1>. QED
  BY <1>1, SubsetInvariant, PTL

-----------------------------------------------------------------------------
(* Coherence. *)

LEMMA TameTree ==
  ASSUME SubsetTypes, Tame
  PROVE  /\ IsTree(fks, Downstream, AllRows)
         /\ ParentsKept(fks, Downstream, OutRows, AllRows)
<1>. PICK rows, D, ks : rows = AllRows /\ D = Downstream /\ ks = fks
  OBVIOUS
<1>1. /\ UniqueRootKeys /\ Upward(Root) = {}
      /\ \A t \in D \ {Root} : Cardinality(Upward(t)) = 1
      /\ \A t \in D : \A fk \in Upward(t) : IsTame(rows, fk)
      /\ \A r \in ToSet(rows) : r.table \in D =>
           /\ "id" \in DOMAIN r.cells
           /\ \A fk \in Upward(r.table) : fk.col \in DOMAIN r.cells
  BY DEF Tame
<1>2. \A t : Upward(t) = Up(ks, D, t)
  BY DEF Upward, Up
<1>3. Closed(ks, D)
  BY DownstreamIsClosed
<1>4. IsFiniteSet(ToSet(ks))
  <2>1. ks \in Seq(ToSet(ks))
    BY DEF SubsetTypes
  <2>2. DOMAIN ks = 1 .. Len(ks) /\ Len(ks) \in Nat
    BY <2>1, LenProperties
  <2>3. IsFiniteSet(1 .. Len(ks))
    BY <2>2, FS_Interval
  <2>4. ks \in Surjection(1 .. Len(ks), ToSet(ks))
    BY <2>1, <2>2 DEF Surjection, ToSet
  <2>. QED
    BY <2>3, <2>4, FS_Surjection
<1>5. ASSUME NEW t \in D \ {Root}
      PROVE  \E fk : Up(ks, D, t) = {fk}
  <2>1. IsFiniteSet(Up(ks, D, t))
    BY <1>4, FS_Subset DEF Up
  <2>2. Cardinality(Up(ks, D, t)) = 1
    BY <1>1, <1>2
  <2>. QED
    BY <2>1, <2>2, FS_Singleton
<1>6. ASSUME NEW t \in D, NEW fk \in Up(ks, D, t), fk.parent # Root
      PROVE  Before(rows, fk.parent, t)
  <2>1. IsTame(rows, fk) /\ fk.child = t
    BY <1>1, <1>2 DEF Up
  <2>. QED
    BY <1>6, <2>1 DEF IsTame
<1>7. ASSUME NEW r \in ToSet(rows), r.table \in D
      PROVE  /\ "id" \in DOMAIN r.cells
             /\ r.table = Root => Pk \in DOMAIN r.cells
             /\ \A fk \in Up(ks, D, r.table) : fk.col \in DOMAIN r.cells
  <2>1. r.table = Root => Pk \in DOMAIN r.cells
    BY <1>1 DEF UniqueRootKeys, IsRootKey, At, ToSet
  <2>. QED
    BY <1>1, <1>2, <1>7, <2>1
<1>8. Up(ks, D, Root) = {}
  BY <1>1, <1>2
<1>9. IsTree(ks, D, rows)
  BY <1>3, <1>5, <1>6, <1>7, <1>8 DEF IsTree
<1>10. ASSUME NEW r \in ToSet(rows), NEW fk \in Up(ks, D, r.table), fk.parent # Root
       PROVE  OfTable(OutRows, fk.parent) # {}
  <2>1. r.table \in D
    BY <1>3 DEF Up, Closed
  <2>2. IsTame(rows, fk)
    BY <1>1, <1>2, <2>1
  <2>. QED
    BY <2>2 DEF IsTame
<1>11. ParentsKept(ks, D, OutRows, rows)
  BY <1>10 DEF ParentsKept
<1>. QED
  BY <1>9, <1>11

LEMMA DeservingBelong ==
  ASSUME SubsetInv, phase = "done", Tame, NEW r \in ToSet(AllRows)
  PROVE  Deserves(fks, Downstream, kept[Root], OutRows, r) <=> Belongs(r)
<1>. PICK rows, D, ks, K, some :
       rows = AllRows /\ D = Downstream /\ ks = fks /\ K = kept[Root] /\ some = OutRows
  OBVIOUS
<1>1. Whole /\ UniqueRootKeys /\ \A t \in D : \A fk \in Upward(t) : IsTame(rows, fk)
  BY DEF Tame
<1>2. \A t : Upward(t) = Up(ks, D, t)
  BY DEF Upward, Up
<1>3. K = SampledKeys(Max({limit, 1}), rows) /\ OfTable(some, Root) = Sample
  BY <1>1, AllPassed, SampleIsKept
<1>4. /\ Sample = {p \in OfTable(rows, Root) : p.cells[Pk] \in K}
      /\ K = {p.cells[Pk] : p \in Sample}
  BY <1>1, <1>3, SampleOfKeys
<1>5. r.table = Root /\ r.cells[Pk] \in K <=> r \in Sample
  BY <1>4, OfTableRows
<1>6. ASSUME r.table \in D, NEW fk \in Upward(r.table)
      PROVE  r.cells[fk.col] \in KeysKept(K, some, fk.parent)
               <=> \E p \in ToSet(some) : RefersTo(r, fk, p)
  <2>1. fk.parentCol = IF fk.parent = Root THEN Pk ELSE "id"
    BY <1>1, <1>6 DEF IsTame
  <2>2. KeysKept(K, some, fk.parent) = {p.cells[fk.parentCol] : p \in OfTable(some, fk.parent)}
    BY <1>3, <1>4, <2>1 DEF KeysKept
  <2>. QED
    BY <2>2, OfTableRows DEF RefersTo
<1>7. CASE r.table \notin D
  BY <1>7 DEF Deserves, Belongs
<1>8. CASE r.table \in D
  BY <1>2, <1>5, <1>6, <1>8 DEF Deserves, Belongs
<1>. QED
  BY <1>7, <1>8

(* Where the foreign keys are a tree under the root and parents come first, the subset has
   the sampled rows, all that refers to a row of it and no row that refers to a dropped
   one: for any tables, foreign keys and rows. *)
THEOREM SubsetIsCoherent == SubsetSpec => []Coherent
<1>1. SubsetInv => Coherent
  <2>. SUFFICES ASSUME SubsetInv, phase = "done", Tame, NEW r \in ToSet(AllRows)
                PROVE  r \in ToSet(OutRows) <=> Belongs(r)
    BY DEF Coherent
  <2>1. Whole /\ UniqueRootKeys
    BY DEF Tame
  <2>2. HasPassed(fks, Downstream, kept[Root], EngineNow, OutRows, AllRows)
    BY <2>1, AllPassed
  <2>3. /\ IsTree(fks, Downstream, AllRows)
        /\ ParentsKept(fks, Downstream, OutRows, AllRows)
    BY TameTree DEF SubsetInv
  <2>4. Cascades(fks, Downstream, kept[Root], EngineNow.keys, OutRows, AllRows)
    BY <2>2, <2>3 DEF HasPassed
  <2>5. r \in ToSet(OutRows) <=> Deserves(fks, Downstream, kept[Root], OutRows, r)
    BY <2>4 DEF Cascades
  <2>. QED
    BY <2>5, DeservingBelong
<1>. QED
  BY <1>1, SubsetInvariant, PTL

(* The inference is right about the lines it has read. *)
InferredSoFar ==
  ~given /\ Laid(Lines(dump)) =>
    /\ phase = "infer" => /\ nextLine \in 1 .. Len(Lines(dump)) + 1
                          /\ HasInferred(inferred, Lines(dump), nextLine - 1)
    /\ phase # "infer" => ToSet(inferred.groups) = Declared(Lines(dump))

LEMMA InferredSoFarInit == SubsetInit => InferredSoFar
<1>. SUFFICES ASSUME SubsetInit, ~given
              PROVE  /\ phase = "infer" /\ nextLine \in 1 .. Len(Lines(dump)) + 1
                     /\ HasInferred(inferred, Lines(dump), nextLine - 1)
  BY DEF InferredSoFar
<1>1. phase = "infer" /\ nextLine = 1 /\ dump \in Dumps
      /\ inferred = [table |-> NoTable, groups |-> <<>>]
  BY DEF SubsetInit, NothingInferred
<1>2. nextLine - 1 = 0 /\ nextLine \in 1 .. Len(Lines(dump)) + 1
  BY <1>1, LinesType
<1>3. IsFound(inferred)
  BY <1>1, EmptySeq DEF IsFound
<1>4. inferred.groups = <<>> /\ ToSet(<<>>) = {}
  BY <1>1, NoRows
<1>5. FoundGroups(Lines(dump), 0) = {}
  BY DEF FoundGroups
<1>6. HasInferred(inferred, Lines(dump), 0)
  BY <1>3, <1>4, <1>5 DEF HasInferred
<1>. QED
  BY <1>1, <1>2, <1>6

LEMMA InferredSoFarNext ==
  SubsetTypes /\ InferredSoFar /\ [SubsetNext]_subsetVars => InferredSoFar'
<1>. SUFFICES ASSUME SubsetTypes, InferredSoFar, [SubsetNext]_subsetVars
              PROVE  InferredSoFar'
  OBVIOUS
<1>. PICK lines : lines = Lines(dump)
  OBVIOUS
<1>0. /\ lines \in Seq(AnyLine) /\ Len(lines) \in Nat
      /\ \A l \in AnyLine : l.table # NoTable
  BY LinesType DEF SubsetTypes
<1>1. dump' = dump /\ given' = given /\ Lines(dump)' = lines
  BY DEF SubsetNext, Infer, Register, CollectItem, StartFilter, PassThrough, Filter, Finish,
         input, subsetVars
<1>2. CASE Infer
  <2>. PICK n : n = nextLine
    OBVIOUS
  <2>1. /\ phase = "infer" /\ phase' = "infer" /\ n <= Len(lines) /\ nextLine' = n + 1
        /\ inferred' = InferLine(inferred, lines[n])
    BY <1>2 DEF Infer
  <2>. SUFFICES ASSUME ~given, Laid(lines)
                PROVE  /\ nextLine' \in 1 .. Len(lines) + 1
                       /\ HasInferred(inferred', lines, nextLine' - 1)
    BY <1>1, <2>1 DEF InferredSoFar
  <2>2. n \in 1 .. Len(lines) + 1 /\ HasInferred(inferred, lines, n - 1)
    BY <2>1 DEF InferredSoFar
  <2>. PICK k : k = n - 1
    OBVIOUS
  <2>3. /\ k \in Nat /\ k + 1 = n /\ k + 1 \in 1 .. Len(lines)
        /\ nextLine' - 1 = k + 1 /\ nextLine' \in 1 .. Len(lines) + 1
    BY <1>0, <2>1, <2>2
  <2>4. HasInferred(inferred, lines, k)
    BY <2>2
  <2>5. HasInferred(InferLine(inferred, lines[k + 1]), lines, k + 1)
    BY <1>0, <2>3, <2>4, InferredNext
  <2>. QED
    BY <2>1, <2>3, <2>5
<1>3. CASE Register
  <2>. PICK n : n = nextLine
    OBVIOUS
  <2>1. phase = "infer" /\ phase' = "collect" /\ n > Len(lines) /\ UNCHANGED inferred
    BY <1>3 DEF Register
  <2>. SUFFICES ASSUME ~given, Laid(lines)
                PROVE  ToSet(inferred.groups) = Declared(lines)
    BY <1>1, <2>1 DEF InferredSoFar
  <2>2. n \in 1 .. Len(lines) + 1 /\ HasInferred(inferred, lines, n - 1)
    BY <2>1 DEF InferredSoFar
  <2>3. n - 1 = Len(lines)
    BY <1>0, <2>1, <2>2
  <2>4. DOMAIN lines = 1 .. Len(lines)
    BY <1>0, LenProperties
  <2>5. FoundGroups(lines, Len(lines)) = Declared(lines)
    <3>1. ToSet(lines) = {lines[i] : i \in 1 .. Len(lines)}
      BY <2>4 DEF ToSet
    <3>. QED
      BY <3>1 DEF FoundGroups, Declared
  <2>. QED
    BY <2>2, <2>3, <2>5 DEF HasInferred
<1>4. CASE UNCHANGED <<phase, nextLine, inferred>>
  BY <1>1, <1>4 DEF InferredSoFar
<1>5. CASE CollectItem \/ StartFilter \/ PassThrough \/ Filter \/ Finish
  <2>1. phase # "infer" /\ phase' # "infer" /\ UNCHANGED inferred
    BY <1>5 DEF CollectItem, StartFilter, PassThrough, Filter, Finish
  <2>. QED
    BY <1>1, <2>1 DEF InferredSoFar
<1>. QED
  BY <1>2, <1>3, <1>4, <1>5 DEF SubsetNext, subsetVars

(* The foreign keys that are inferred are those that the DDL declares: for any dumps whose
   DDL is laid out as mysqldump's, and whose data quotes none. *)
THEOREM AllIsInferred == SubsetSpec => []InferredAsDeclared
<1>1. SubsetInit => InferredSoFar
  BY InferredSoFarInit
<1>2. SubsetInv /\ InferredSoFar /\ [SubsetNext]_subsetVars => InferredSoFar'
  BY InferredSoFarNext DEF SubsetInv
<1>3. InferredSoFar => InferredAsDeclared
  BY DEF InferredSoFar, InferredAsDeclared
<1>. QED
  BY <1>1, <1>2, <1>3, SubsetInvariant, PTL DEF SubsetSpec
=============================================================================
