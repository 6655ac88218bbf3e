---------------------------- MODULE GatesProofs -----------------------------
(***************************************************************************)
(* What a command lets through, for any data, any detector, any rules and  *)
(* any order of commands (Gates).  The inductive invariant GatesInv says   *)
(* of what each part of the state still speaks: what was masked is what    *)
(* these data become with the configuration, a verdict is about both.      *)
(* Three arguments then carry the gates.  Every column in which personal   *)
(* data or secrets prevail is found (ExposedIsFound): it is among the      *)
(* columns read, and the least of the tests that enough values pass has a  *)
(* type.  A column whose name has a type is found whatever it holds, so    *)
(* that it has a rule.  And a masked cell is, if its column has no rule,   *)
(* the cell it was, otherwise nothing that must not remain, or its rule    *)
(* may keep a value (LintedCells).                                         *)
(***************************************************************************)
EXTENDS Gates, FiniteSetTheorems, TLAPS

(* The laws of the loops over the columns and over the values of a column. *)
F == INSTANCE FoldLaws WITH Op <- Noted
E == INSTANCE FoldLaws WITH Op <- AddExcess

(* The names that columns of the data may have, and columns of rules. *)
Named == ToSet(AllColumns) \cup ToSet(Numbered)
Columns == Named \cup STRING

Verdicts == [column : Columns, type : Types \cup {None}]
Found == [column : Columns, type : Types]

(* The operators that FoldLaws speaks of are those of the model. *)
LEMMA SameOperators ==
  /\ \A d : FoldLeft(Noted, <<>>, d) = F!FoldLeft(Noted, <<>>, d)
  /\ \A d : FoldLeft(AddExcess, 0, d) = E!FoldLeft(AddExcess, 0, d)
  /\ \A S : Max(S) = F!Max(S)
  /\ \A S : Min(S) = F!Min(S)
<1>1. ASSUME NEW d
      PROVE  FoldLeft(Noted, <<>>, d) = F!FoldLeft(Noted, <<>>, d)
  BY DEF FoldLeft, F!FoldLeft, MapThenFoldSet, F!MapThenFoldSet, Max, F!Max
<1>2. ASSUME NEW d
      PROVE  FoldLeft(AddExcess, 0, d) = E!FoldLeft(AddExcess, 0, d)
  BY DEF FoldLeft, E!FoldLeft, MapThenFoldSet, E!MapThenFoldSet, Max, E!Max
<1>3. ASSUME NEW S
      PROVE  Max(S) = F!Max(S) /\ Min(S) = F!Min(S)
  BY DEF Max, F!Max, Min, F!Min
<1>. QED
  BY <1>1, <1>2, <1>3

(* The least of a set of numbers is one of them. *)
LEMMA MinOfNumbers ==
  ASSUME NEW S, S \subseteq Nat, S # {}
  PROVE  Min(S) \in S /\ \A n \in S : Min(S) <= n
<1>1. \E x \in S : \A y \in S : x <= y
  BY F!LeastOfSet
<1>. QED
  BY <1>1 DEF Min

(* The columns noted are those in which something is found. *)
LEMMA NotedColumns ==
  ASSUME NEW ds \in Seq(Verdicts), NEW found, found = FoldLeft(Noted, <<>>, ds)
  PROVE  /\ found \in Seq(Found)
         /\ \A i \in DOMAIN ds : ds[i].type # None => \E k \in DOMAIN found : found[k] = ds[i]
<1>. DEFINE Kept(f, n) == \A i \in 1 .. n : ds[i].type # None => \E k \in DOMAIN f : f[k] = ds[i]
            T == [n \in Nat |-> {f \in Seq(Found) : Kept(f, n)}]
<1>0. /\ Len(ds) \in Nat /\ DOMAIN ds = 1 .. Len(ds)
      /\ \A n \in 1 .. Len(ds) : ds[n] \in Verdicts /\ n \in Nat /\ n - 1 \in Nat
  OBVIOUS
<1>1. <<>> \in T[0]
  <2>1. <<>> \in Seq(Found) /\ 1 .. 0 = {}
    OBVIOUS
  <2>. QED
    BY <2>1
<1>2. ASSUME NEW n \in 1 .. Len(ds), NEW f \in T[n - 1]
      PROVE  Noted(f, ds[n]) \in T[n]
  <2>1. f \in Seq(Found) /\ Kept(f, n - 1)
    BY <1>0
  <2>2. \A i \in 1 .. n : i \in 1 .. n - 1 \/ i = n
    BY <1>0
  <2>3. CASE ds[n].type = None
    <3>1. Noted(f, ds[n]) = f
      BY <2>3 DEF Noted
    <3>2. Kept(f, n)
      BY <2>1, <2>2, <2>3
    <3>. QED
      BY <1>0, <2>1, <3>1, <3>2
  <2>4. CASE ds[n].type # None
    <3>1. Noted(f, ds[n]) = Append(f, ds[n])
      BY <2>4 DEF Noted
    <3>2. ds[n] \in Found
      BY <1>0, <2>4 DEF Verdicts, Found
    <3>3. /\ Append(f, ds[n]) \in Seq(Found)
          /\ Append(f, ds[n])[Len(f) + 1] = ds[n] /\ Len(f) + 1 \in DOMAIN Append(f, ds[n])
          /\ \A k \in DOMAIN f : k \in DOMAIN Append(f, ds[n]) /\ Append(f, ds[n])[k] = f[k]
      BY <2>1, <3>2
    <3>4. Kept(Append(f, ds[n]), n)
      BY <2>1, <2>2, <3>3
    <3>. HIDE DEF Kept
    <3>. QED
      BY <1>0, <3>1, <3>3, <3>4
  <2>. QED
    BY <2>3, <2>4
<1>. HIDE DEF T
<1>3. F!FoldLeft(Noted, <<>>, ds) \in T[Len(ds)]
  BY <1>1, <1>2, F!FoldInvariant
<1>4. found \in {f \in Seq(Found) : Kept(f, Len(ds))}
  BY <1>0, <1>3, SameOperators DEF T
<1>. QED
  BY <1>0, <1>4

-----------------------------------------------------------------------------
(* A table as a command may come upon it. *)
Table(t) ==
  /\ t.columns \in Seq(Named)
  /\ t.rows \in Seq(Seq(DOMAIN Facts)) /\ Len(t.rows) <= MaxSamples
  /\ \A j \in DOMAIN t.rows :
       /\ Len(t.rows[j]) = Len(t.rows[1])
       /\ Len(t.rows[j]) <= Len(t.columns)
       /\ layout # "unnamed" => Len(t.rows[j]) = Len(t.columns)

(* The first n of a sequence, or all of it. *)
LEMMA Taken ==
  ASSUME NEW S, NEW s \in Seq(S), NEW n \in Nat
  PROVE  /\ Take(s, n) \in Seq(S)
         /\ Len(Take(s, n)) <= Len(s)
         /\ Len(Take(s, n)) = IF n < Len(s) THEN n ELSE Len(s)
         /\ \A i \in DOMAIN Take(s, n) : i \in DOMAIN s /\ Take(s, n)[i] = s[i]
<1>. DEFINE m == IF n < Len(s) THEN n ELSE Len(s)
<1>1. m \in 0 .. Len(s) /\ Len(s) \in Nat
  OBVIOUS
<1>. HIDE DEF m
<1>2. /\ SubSeq(s, 1, m) \in Seq(S) /\ Len(SubSeq(s, 1, m)) = m
      /\ \A i \in 1 .. m : SubSeq(s, 1, m)[i] = s[i]
  BY <1>1
<1>3. Take(s, n) = SubSeq(s, 1, m)
  BY DEF Take, m
<1>. QED
  BY <1>1, <1>2, <1>3 DEF m

(* The rows a scan reads are the first of the table; if there is one, the columns it
   knows of are those that the rows have. *)
ReadOf(t, read, columns) ==
  /\ read \in Seq(Seq(DOMAIN Facts)) /\ Len(read) <= Len(t.rows)
  /\ \A j \in DOMAIN read : j \in DOMAIN t.rows /\ read[j] = t.rows[j]
  /\ columns \in Seq(Named) /\ Len(columns) <= Len(t.columns)
  /\ \A i \in DOMAIN columns : columns[i] = t.columns[i]
  /\ t.rows # <<>> /\ layout = "unnamed" => Len(columns) <= Len(t.rows[1])
  /\ read # <<>> => \A i \in 1 .. Len(t.rows[1]) : i \in DOMAIN columns

(* A scan reads a part of a table. *)
LEMMA ReadRows ==
  ASSUME layout \in Layouts, NEW t, Table(t), NEW limit \in Nat,
         NEW read, read = RowsRead(layout, limit, t.rows),
         NEW columns, columns = ColumnsRead(layout, t)
  PROVE  ReadOf(t, read, columns)
<1>. SUFFICES /\ read \in Seq(Seq(DOMAIN Facts)) /\ Len(read) <= Len(t.rows)
              /\ \A j \in DOMAIN read : j \in DOMAIN t.rows /\ read[j] = t.rows[j]
              /\ columns \in Seq(Named) /\ Len(columns) <= Len(t.columns)
              /\ \A i \in DOMAIN columns : columns[i] = t.columns[i]
              /\ t.rows # <<>> /\ layout = "unnamed" => Len(columns) <= Len(t.rows[1])
              /\ read # <<>> => \A i \in 1 .. Len(t.rows[1]) : i \in DOMAIN columns
  BY DEF ReadOf
<1>1. /\ t.rows \in Seq(Seq(DOMAIN Facts)) /\ t.columns \in Seq(Named)
      /\ layout \in {"csv", "parquet", "copy", "live", "insert", "inserts", "unnamed", "split",
                     "jsonl"}
      /\ TuplesRead \in Nat
  BY GatesAssumption DEF Table
<1>2. \/ layout \notin {"split", "jsonl"} /\ \E n \in Nat : read = Take(t.rows, n)
      \/ read = <<>>
  <2>1. limit + 1 \in Nat
    OBVIOUS
  <2>. HIDE DEF Take
  <2>. QED
    BY <1>1, <2>1 DEF RowsRead
<1>3. /\ read \in Seq(Seq(DOMAIN Facts)) /\ Len(read) <= Len(t.rows)
      /\ \A j \in DOMAIN read : j \in DOMAIN t.rows /\ read[j] = t.rows[j]
      /\ read # <<>> => t.rows # <<>> /\ layout \notin {"split", "jsonl"}
  <2>1. CASE read = <<>>
    <3>1. <<>> \in Seq(Seq(DOMAIN Facts)) /\ Len(t.rows) \in Nat
      BY <1>1
    <3>. QED
      BY <2>1, <3>1
  <2>2. CASE layout \notin {"split", "jsonl"} /\ \E n \in Nat : read = Take(t.rows, n)
    <3>1. PICK n \in Nat : read = Take(t.rows, n)
      BY <2>2
    <3>2. /\ read \in Seq(Seq(DOMAIN Facts)) /\ Len(read) <= Len(t.rows)
          /\ \A j \in DOMAIN read : j \in DOMAIN t.rows /\ read[j] = t.rows[j]
      BY <1>1, <3>1, Taken
    <3>3. read # <<>> => t.rows # <<>>
      BY <1>1, <3>2
    <3>. QED
      BY <2>2, <3>2, <3>3
  <2>. QED
    BY <1>2, <2>1, <2>2
<1>4. t.rows # <<>> => /\ Len(t.rows[1]) \in Nat /\ Len(t.rows[1]) <= Len(t.columns)
                       /\ layout # "unnamed" => Len(t.rows[1]) = Len(t.columns)
  <2>1. t.rows # <<>> => 1 \in DOMAIN t.rows
    BY <1>1
  <2>. QED
    BY <1>1, <2>1 DEF Table
<1>5. CASE layout = "unnamed" /\ t.rows # <<>>
  <2>1. columns = Take(t.columns, Len(t.rows[1]))
    BY <1>5 DEF ColumnsRead
  <2>2. /\ columns \in Seq(Named) /\ Len(columns) = Len(t.rows[1])
        /\ \A i \in DOMAIN columns : columns[i] = t.columns[i]
    BY <1>1, <1>4, <1>5, <2>1, Taken
  <2>. QED
    BY <1>3, <1>4, <1>5, <2>2
<1>6. CASE columns = t.columns /\ layout # "unnamed"
  BY <1>1, <1>3, <1>4, <1>6
<1>7. CASE columns = <<>> /\ read = <<>> /\ (layout # "unnamed" \/ t.rows = <<>>)
  <2>1. <<>> \in Seq(Named) /\ Len(t.columns) \in Nat
    BY <1>1
  <2>. QED
    BY <1>3, <1>7, <2>1
<1>8. \/ layout = "unnamed" /\ t.rows # <<>>
      \/ columns = t.columns /\ layout # "unnamed"
      \/ columns = <<>> /\ read = <<>> /\ (layout # "unnamed" \/ t.rows = <<>>)
  <2>1. CASE layout = "jsonl" \/ t.rows = <<>>
    <3>1. read = <<>>
      BY <1>3, <2>1
    <3>. QED
      BY <1>1, <2>1, <3>1 DEF ColumnsRead
  <2>2. CASE layout # "jsonl" /\ t.rows # <<>>
    BY <1>1, <2>2 DEF ColumnsRead
  <2>. QED
    BY <2>1, <2>2
<1>. QED
  BY <1>5, <1>6, <1>7, <1>8

(* The types of values that the tests are for. *)
LEMMA TestTypes ==
  /\ DOMAIN Tests = 1 .. 5
  /\ \A i \in 1 .. 5 : Tests[i].type \in Types /\ Tests[i].tenths \in Nat
  /\ \A i, j \in 1 .. 5 : Tests[i].type = Tests[j].type => i = j
<1>1. /\ Tests[1] = [type |-> "email", tenths |-> 5]
      /\ Tests[2] = [type |-> "credit_card", tenths |-> 3]
      /\ Tests[3] = [type |-> "tckn", tenths |-> 3]
      /\ Tests[4] = [type |-> "iban", tenths |-> 3]
      /\ Tests[5] = [type |-> "phone", tenths |-> 5]
      /\ DOMAIN Tests = 1 .. 5
  BY DEF Tests
<1>2. \A i \in 1 .. 5 : i = 1 \/ i = 2 \/ i = 3 \/ i = 4 \/ i = 5
  OBVIOUS
<1>3. {"email", "credit_card", "tckn", "iban", "phone"} \subseteq Types
  BY DEF Types, NameTypes
<1>4. \A i \in 1 .. 5 : Tests[i].type \in Types /\ Tests[i].tenths \in Nat
  BY <1>1, <1>2, <1>3
<1>5. \A i, j \in 1 .. 5 : Tests[i].type = Tests[j].type => i = j
  BY <1>1, <1>2
<1>. QED
  BY <1>1, <1>4, <1>5

(* The samples a column may have. *)
SampleSeqs == SeqOf(DOMAIN Facts, MaxSamples)

(* The content of a column is a type, or nothing is found. *)
LEMMA ContentTypes ==
  ASSUME NEW samples \in SampleSeqs
  PROVE  Content[samples] \in Types \cup {None}
<1>. DEFINE reached == {i \in DOMAIN Tests : Reached(samples, i)}
<1>1. Content[samples] =
        IF ShownOf(samples) = {} THEN None
        ELSE IF reached # {} THEN Tests[Min(reached)].type
        ELSE IF Random(samples) THEN "secret_hash" ELSE None
  BY DEF Content, SampleSeqs
<1>2. "secret_hash" \in Types
  BY DEF Types
<1>3. reached # {} => Tests[Min(reached)].type \in Types
  <2>1. reached \subseteq Nat /\ reached \subseteq 1 .. 5
    BY TestTypes
  <2>. HIDE DEF reached
  <2>2. reached # {} => Min(reached) \in reached
    BY <2>1, MinOfNumbers
  <2>. QED
    BY <2>1, <2>2, TestTypes
<1>. HIDE DEF reached
<1>. QED
  BY <1>1, <1>2, <1>3

(* Enough of the values that do not look masked are raw and pass a test. *)
Prevails(values, n) ==
  LET shown == {j \in DOMAIN values : Shown(values[j])}
      raw == {j \in shown : values[j] \in Raw /\ Tests[n].type \in Facts[values[j]].tests}
  IN raw # {} /\ 10 * Cardinality(raw) >= Tests[n].tenths * Cardinality(shown)

(* A test is reached by values of which enough pass it. *)
LEMMA PrevailingIsReached ==
  ASSUME NEW samples \in SampleSeqs, NEW n \in DOMAIN Tests, Prevails(samples, n)
  PROVE  ShownOf(samples) # {} /\ Reached(samples, n)
<1>. DEFINE type == Tests[n].type
            shown == {j \in DOMAIN samples : Shown(samples[j])}
            raw == {j \in shown : samples[j] \in Raw /\ type \in Facts[samples[j]].tests}
<1>1. raw # {} /\ 10 * Cardinality(raw) >= Tests[n].tenths * Cardinality(shown)
  BY DEF Prevails
<1>2. shown = ShownOf(samples) /\ ShownOf(samples) # {} /\ raw \subseteq Passing(samples, type)
  BY <1>1 DEF ShownOf, Passing
<1>3. IsFiniteSet(Passing(samples, type)) /\ IsFiniteSet(shown)
  <2>1. PICK m \in Nat : DOMAIN samples = 1 .. m
    BY DEF SampleSeqs, SeqOf
  <2>2. IsFiniteSet(DOMAIN samples)
    BY <2>1, FS_Interval
  <2>3. shown \subseteq DOMAIN samples /\ Passing(samples, type) \subseteq DOMAIN samples
    BY DEF Passing, ShownOf
  <2>. QED
    BY <2>2, <2>3, FS_Subset
<1>4. /\ Cardinality(raw) <= Cardinality(Passing(samples, type)) /\ Cardinality(raw) \in Nat
      /\ Cardinality(Passing(samples, type)) \in Nat /\ Cardinality(shown) \in Nat
  <2>. HIDE DEF raw, shown, type
  <2>. QED
    BY <1>2, <1>3, FS_Subset, FS_CardinalityType
<1>5. PICK p \in Nat : p = Tests[n].tenths * Cardinality(shown)
  <2>1. Tests[n].tenths \in Nat
    BY TestTypes
  <2>2. \A a, b \in Nat : a * b \in Nat
    OBVIOUS
  <2>. HIDE DEF shown
  <2>3. Tests[n].tenths * Cardinality(shown) \in Nat
    BY <1>4, <2>1, <2>2
  <2>. QED
    BY <2>3
<1>6. 10 * Cardinality(Passing(samples, type)) >= p
  <2>. HIDE DEF raw, shown, type
  <2>. QED
    BY <1>1, <1>4, <1>5
<1>. QED
  BY <1>2, <1>5, <1>6 DEF Reached

(* Every value is a raw secret. *)
Secrets(values) ==
  \A j \in DOMAIN values : Present(values[j]) =>
    values[j] \in Raw /\ Facts[values[j]].long /\ Facts[values[j]].entropy > 45

(* The entropies of secrets exceed what is usual. *)
LEMMA SecretsAreRandom ==
  ASSUME NEW samples \in SampleSeqs, Secrets(samples), ShownOf(samples) # {}
  PROVE  Random(samples)
<1>. DEFINE T == [n \in Nat |-> {e \in Nat : (\E j \in 1 .. n : Present(samples[j])) => e > 0}]
            present == {j \in DOMAIN samples : Present(samples[j])}
<1>1. PICK m \in Nat : samples \in [1 .. m -> DOMAIN Facts]
  BY DEF SampleSeqs, SeqOf
<1>2. samples \in Seq(DOMAIN Facts) /\ Len(samples) = m /\ DOMAIN samples = 1 .. m
  BY <1>1
<1>3. present # {}
  BY DEF ShownOf, Shown
<1>4. ASSUME NEW n \in 1 .. m, NEW e \in T[n - 1]
      PROVE  AddExcess(e, samples[n]) \in T[n]
  <2>1. n \in Nat /\ n - 1 \in Nat /\ \A j \in 1 .. n : j \in 1 .. n - 1 \/ j = n
    OBVIOUS
  <2>2. e \in Nat /\ ((\E j \in 1 .. n - 1 : Present(samples[j])) => e > 0)
    BY <2>1
  <2>3. CASE Present(samples[n])
    <3>1. PICK entropy \in Nat : entropy = Facts[samples[n]].entropy
      BY <1>1, GatesAssumption
    <3>2. entropy > 45
      BY <1>2, <2>3, <3>1 DEF Secrets
    <3>3. AddExcess(e, samples[n]) = e + entropy - 45
      BY <2>3, <3>1 DEF AddExcess
    <3>4. PICK x \in Nat : x = e + entropy - 45
      BY <2>2, <3>2
    <3>5. x > 0
      BY <2>2, <3>2, <3>4
    <3>. QED
      BY <2>1, <3>3, <3>4, <3>5
  <2>4. CASE ~Present(samples[n])
    <3>1. AddExcess(e, samples[n]) = e
      BY <2>4 DEF AddExcess
    <3>2. (\E j \in 1 .. n : Present(samples[j])) => e > 0
      BY <2>1, <2>2, <2>4
    <3>. QED
      BY <2>1, <2>2, <3>1, <3>2
  <2>. QED
    BY <2>3, <2>4
<1>5. 0 \in T[0]
  OBVIOUS
<1>. HIDE DEF T
<1>6. E!FoldLeft(AddExcess, 0, samples) \in T[Len(samples)]
  BY <1>2, <1>4, <1>5, E!FoldInvariant
<1>7. FoldLeft(AddExcess, 0, samples) > 0
  <2>1. FoldLeft(AddExcess, 0, samples) \in T[m]
    BY <1>2, <1>6, SameOperators
  <2>2. \E j \in 1 .. m : Present(samples[j])
    BY <1>2, <1>3
  <2>. QED
    BY <2>1, <2>2 DEF T
<1>8. Facts[samples[Min(present)]].long
  <2>1. present \subseteq Nat
    BY <1>2
  <2>. HIDE DEF present
  <2>2. Min(present) \in present
    BY <1>3, <2>1, MinOfNumbers
  <2>. QED
    BY <2>2 DEF present, Secrets
<1>. QED
  BY <1>7, <1>8 DEF Random

(* Something is found where personal data prevail. *)
LEMMA ExposedIsReached ==
  ASSUME NEW samples \in SampleSeqs, Exposed(samples)
  PROVE  Content[samples] \in Types
<1>. DEFINE reached == {i \in DOMAIN Tests : Reached(samples, i)}
<1>1. Content[samples] =
        IF ShownOf(samples) = {} THEN None
        ELSE IF reached # {} THEN Tests[Min(reached)].type
        ELSE IF Random(samples) THEN "secret_hash" ELSE None
  BY DEF Content, SampleSeqs
<1>2. ShownOf(samples) # {} /\ (reached # {} \/ Random(samples))
  <2>1. CASE \E n \in DOMAIN Tests : Prevails(samples, n)
    BY <2>1, PrevailingIsReached
  <2>2. CASE ShownOf(samples) # {} /\ Secrets(samples)
    BY <2>2, SecretsAreRandom
  <2>3. (\E n \in DOMAIN Tests : Prevails(samples, n)) \/ (ShownOf(samples) # {} /\ Secrets(samples))
    BY DEF Exposed, Prevails, Secrets, ShownOf
  <2>. QED
    BY <2>1, <2>2, <2>3
<1>3. reached # {} => Tests[Min(reached)].type \in Types
  <2>1. reached \subseteq Nat /\ reached \subseteq 1 .. 5
    BY TestTypes
  <2>. HIDE DEF reached
  <2>2. reached # {} => Min(reached) \in reached
    BY <2>1, MinOfNumbers
  <2>. QED
    BY <2>1, <2>2, TestTypes
<1>4. "secret_hash" \in Types
  BY DEF Types
<1>. HIDE DEF reached
<1>. QED
  BY <1>1, <1>2, <1>3, <1>4

(* The samples of a column are values. *)
LEMMA SampledValues ==
  ASSUME NEW read \in Seq(Seq(DOMAIN Facts)), Len(read) <= MaxSamples, NEW i \in Nat \ {0},
         \A j \in DOMAIN read : i <= Len(read[j])
  PROVE  Samples(read, i) \in SampleSeqs
<1>1. \A j \in 1 .. Len(read) : read[j][i] \in DOMAIN Facts
  <2>. SUFFICES ASSUME NEW j \in 1 .. Len(read)
                PROVE  read[j][i] \in DOMAIN Facts
    OBVIOUS
  <2>1. read[j] \in Seq(DOMAIN Facts) /\ i <= Len(read[j])
    OBVIOUS
  <2>. QED
    BY <2>1
<1>2. Len(read) \in 0 .. MaxSamples
  <2>1. Len(read) \in Nat
    OBVIOUS
  <2>2. MaxSamples \in Nat
    BY GatesAssumption
  <2>. QED
    BY <2>1, <2>2
<1>3. Samples(read, i) \in [1 .. Len(read) -> DOMAIN Facts]
  BY <1>1 DEF Samples
<1>. QED
  BY <1>2, <1>3 DEF SampleSeqs, SeqOf

(* What is found are columns with their types: every column in which personal data
   prevail, and every column whose name tells what it holds, if names count. *)
FoundOf(t, read, dataOnly, found) ==
  /\ found \in Seq(Found)
  /\ \A i \in DOMAIN t.columns :
       (\A j \in DOMAIN read : i <= Len(read[j])) /\ Exposed(Samples(read, i))
       => \E k \in DOMAIN found : found[k].column = t.columns[i]
  /\ ~dataOnly /\ t.rows # <<>> /\ layout \notin {"unnamed", "jsonl"} =>
       \A i \in DOMAIN t.columns : Hint(t.columns[i]) # None
         => \E k \in DOMAIN found : found[k].column = t.columns[i]

(* A scan finds what it should. *)
LEMMA ExposedIsFound ==
  ASSUME layout \in Layouts, NEW t, Table(t), NEW limit \in Nat, NEW dataOnly \in BOOLEAN,
         NEW read, read = RowsRead(layout, limit, t.rows),
         NEW found, found = Detections(layout, limit, t, dataOnly)
  PROVE  FoundOf(t, read, dataOnly, found)
<1>. DEFINE columns == ColumnsRead(layout, t)
            d(i) == [column |-> columns[i], type |-> Detect(columns[i], Samples(read, i), dataOnly)]
            ds == [i \in DOMAIN columns |-> d(i)]
<1>1. found = FoldLeft(Noted, <<>>, ds)
  BY DEF Detections
<1>2. /\ read \in Seq(Seq(DOMAIN Facts)) /\ Len(read) <= Len(t.rows)
      /\ \A j \in DOMAIN read : j \in DOMAIN t.rows /\ read[j] = t.rows[j]
      /\ columns \in Seq(Named) /\ Len(columns) <= Len(t.columns)
      /\ \A i \in DOMAIN columns : columns[i] = t.columns[i]
      /\ t.rows # <<>> /\ layout = "unnamed" => Len(columns) <= Len(t.rows[1])
      /\ read # <<>> => \A i \in 1 .. Len(t.rows[1]) : i \in DOMAIN columns
  <2>1. PICK c : c = ColumnsRead(layout, t)
    OBVIOUS
  <2>2. ReadOf(t, read, c)
    BY <2>1, ReadRows
  <2>. QED
    BY <2>1, <2>2 DEF ReadOf
<1>3. /\ t.rows \in Seq(Seq(DOMAIN Facts)) /\ Len(t.rows) <= MaxSamples
      /\ t.columns \in Seq(Named) /\ MaxSamples \in Nat
      /\ \A j \in DOMAIN t.rows : Len(t.rows[j]) = Len(t.rows[1])
      /\ \A j \in DOMAIN t.rows : layout # "unnamed" => Len(t.rows[j]) = Len(t.columns)
  BY GatesAssumption DEF Table
<1>. HIDE DEF columns
<1>4. Len(read) <= MaxSamples
  BY <1>2, <1>3
<1>5. ASSUME NEW i \in DOMAIN columns
      PROVE  \A j \in DOMAIN read : i <= Len(read[j])
  <2>. SUFFICES ASSUME NEW j \in DOMAIN read
                PROVE  i <= Len(read[j])
    OBVIOUS
  <2>1. /\ j \in DOMAIN t.rows /\ read[j] = t.rows[j] /\ t.rows # <<>>
        /\ Len(t.rows[j]) = Len(t.rows[1]) /\ t.rows[j] \in Seq(DOMAIN Facts)
        /\ layout # "unnamed" => Len(t.rows[j]) = Len(t.columns)
    BY <1>2, <1>3
  <2>2. i \in 1 .. Len(columns) /\ Len(columns) \in Nat /\ Len(t.rows[j]) \in Nat
    <3>1. columns \in Seq(Named)
      BY <1>2
    <3>2. t.rows[j] \in Seq(DOMAIN Facts)
      BY <2>1
    <3>. QED
      BY <3>1, <3>2
  <2>3. Len(columns) <= Len(t.rows[j])
    BY <1>2, <2>1
  <2>. QED
    BY <2>1, <2>2, <2>3
<1>6. ASSUME NEW i \in DOMAIN columns
      PROVE  d(i) \in Verdicts
  <2>1. columns[i] \in Named /\ i \in Nat \ {0}
    BY <1>2
  <2>2. Hint(columns[i]) \in Types \cup {None}
    BY <2>1, GatesAssumption DEF Named
  <2>3. Samples(read, i) \in SampleSeqs
    BY <1>2, <1>4, <1>5, <2>1, SampledValues
  <2>4. Content[Samples(read, i)] \in Types \cup {None}
    BY <2>3, ContentTypes
  <2>5. Detect(columns[i], Samples(read, i), dataOnly) \in Types \cup {None}
    BY <2>2, <2>4 DEF Detect
  <2>. QED
    BY <2>1, <2>5 DEF Verdicts, Columns
<1>7. ds \in Seq(Verdicts) /\ DOMAIN ds = DOMAIN columns
  <2>1. DOMAIN columns = 1 .. Len(columns) /\ Len(columns) \in Nat
    BY <1>2
  <2>. HIDE DEF d
  <2>. QED
    BY <1>6, <2>1
<1>8. \A i \in DOMAIN columns : ds[i] = d(i)
  OBVIOUS
<1>. HIDE DEF ds
<1>9. /\ found \in Seq(Found)
      /\ \A i \in DOMAIN ds : ds[i].type # None => \E k \in DOMAIN found : found[k] = ds[i]
  BY <1>1, <1>7, NotedColumns
<1>10. ASSUME NEW i \in DOMAIN t.columns,
              \A j \in DOMAIN read : i <= Len(read[j]),
              Exposed(Samples(read, i))
       PROVE  \E k \in DOMAIN found : found[k].column = t.columns[i]
  <2>1. i \in Nat \ {0}
    BY <1>3
  <2>2. Samples(read, i) \in SampleSeqs
    BY <1>2, <1>4, <1>10, <2>1, SampledValues
  <2>3. Content[Samples(read, i)] \in Types
    BY <1>10, <2>2, ExposedIsReached
  <2>4. read # <<>>
    <3>1. DOMAIN Samples(read, i) # {}
      <4>1. \E j \in DOMAIN Samples(read, i) : Shown(Samples(read, i)[j])
        BY <1>10 DEF Exposed
      <4>. QED
        BY <4>1
    <3>. QED
      BY <3>1 DEF Samples
  <2>5. i \in DOMAIN columns
    <3>1. 1 \in DOMAIN read /\ i <= Len(read[1]) /\ read[1] = t.rows[1]
      BY <1>2, <1>10, <2>4
    <3>2. Len(t.rows[1]) \in Nat
      BY <1>2, <1>3, <3>1
    <3>. QED
      BY <1>2, <2>1, <2>4, <3>1, <3>2
  <2>6. Detect(columns[i], Samples(read, i), dataOnly) # None
    BY <2>3, GatesAssumption DEF Detect
  <2>7. ds[i] = d(i) /\ d(i).column = t.columns[i] /\ d(i).type # None
    BY <1>2, <1>8, <2>5, <2>6
  <2>. HIDE DEF d
  <2>. QED
    BY <1>7, <1>9, <2>5, <2>7
<1>11. ASSUME ~dataOnly, t.rows # <<>>, layout \notin {"unnamed", "jsonl"},
              NEW i \in DOMAIN t.columns, Hint(t.columns[i]) # None
       PROVE  \E k \in DOMAIN found : found[k].column = t.columns[i]
  <2>1. columns = t.columns
    BY <1>11, GatesAssumption DEF ColumnsRead, columns
  <2>2. Detect(columns[i], Samples(read, i), dataOnly) = Hint(t.columns[i])
    BY <1>11, <2>1 DEF Detect
  <2>3. ds[i] = d(i) /\ d(i).column = t.columns[i] /\ d(i).type # None
    BY <1>8, <1>11, <2>1, <2>2
  <2>. HIDE DEF d
  <2>. QED
    BY <1>7, <1>9, <2>1, <2>3
<1>. QED
  BY <1>9, <1>10, <1>11 DEF FoundOf

-----------------------------------------------------------------------------
(* Every row of the data has a value for each of their columns. *)
SourceOK ==
  /\ layout \in Layouts
  /\ source \in [columns : Seq(Named), rows : Seq(Seq(DOMAIN Facts))]
  /\ Len(source.columns) \in {Len(AllColumns) - 1, Len(AllColumns)}
  /\ Len(source.rows) <= MaxRows
  /\ \A j \in DOMAIN source.rows : Len(source.rows[j]) = Len(source.columns)

(* The rules of a configuration are columns with types. *)
ConfigOK == config # None => config.rules \in Seq(Found)

(* What was masked is still what these data become with this configuration. *)
MaskedOK ==
  masked # None =>
    /\ config # None
    /\ masked = [j \in DOMAIN source.rows |->
                   MaskRow(config.rules, source.columns, source.rows[j])]

(* A verdict that has not been read is about the data and the configuration that are
   there. *)
VerdictOK ==
  /\ Gave("lint") =>
       LET found == Detections(layout, verdict.limit, source, FALSE) IN
       /\ verdict.limit \in Limits
       /\ verdict.passed <=>
            Unmapped(found, config.rules) = {} /\ ~(verdict.strict /\ Missing(found))
  /\ Gave("verify") =>
       /\ verdict.limit \in Limits /\ masked # None
       /\ verdict.passed <=> Detections(layout, verdict.limit, Output, TRUE) = <<>>
  /\ Gave("evaluate") =>
       /\ masked \notin {None, <<>>}
       /\ verdict.passed <=> Compliant(Records(Output), Qi, Sensitive, K, L)

(* The inductive invariant. *)
GatesInv == SourceOK /\ ConfigOK /\ MaskedOK /\ VerdictOK

-----------------------------------------------------------------------------
(* There are names for as many columns as there may be. *)
LEMMA NamesFor ==
  ASSUME NEW how, NEW n \in {Len(AllColumns) - 1, Len(AllColumns)}
  PROVE  Names(how, n) \in Seq(Named) /\ Len(Names(how, n)) = n
<1>1. AllColumns \in Seq(STRING) /\ Len(AllColumns) \in 2 .. 3
  BY GatesAssumption
<1>2. AllColumns \in Seq(Named)
  <2>1. \A i \in 1 .. Len(AllColumns) : AllColumns[i] \in Named
    BY <1>1 DEF Named, ToSet
  <2>. QED
    BY <1>1, <2>1
<1>3. Numbered \in Seq(Named) /\ Len(Numbered) = 3
  <2>1. ASSUME NEW S, NEW a \in S, NEW b \in S, NEW c \in S
        PROVE  <<a, b, c>> \in Seq(S) /\ Len(<<a, b, c>>) = 3
    OBVIOUS
  <2>2. "col_0" \in Named /\ "col_1" \in Named /\ "col_2" \in Named
    <3>1. /\ Numbered[1] = "col_0" /\ Numbered[2] = "col_1" /\ Numbered[3] = "col_2"
          /\ 1 \in DOMAIN Numbered /\ 2 \in DOMAIN Numbered /\ 3 \in DOMAIN Numbered
      BY DEF Numbered
    <3>. QED
      BY <3>1 DEF Named, ToSet
  <2>. QED
    BY <2>1, <2>2, Zenon DEF Numbered
<1>4. n \in Nat /\ n <= 3 /\ n <= Len(AllColumns)
  <2>1. PICK len \in 2 .. 3 : len = Len(AllColumns)
    BY <1>1
  <2>2. n = len - 1 \/ n = len
    BY <2>1
  <2>. QED
    BY <2>1, <2>2
<1>5. CASE how = "unnamed"
  <2>1. Names(how, n) = Take(Numbered, n)
    BY <1>5 DEF Names
  <2>2. /\ Take(Numbered, n) \in Seq(Named)
        /\ Len(Take(Numbered, n)) = IF n < Len(Numbered) THEN n ELSE Len(Numbered)
    BY <1>3, <1>4, Taken
  <2>. QED
    BY <1>3, <1>4, <2>1, <2>2
<1>6. CASE how # "unnamed"
  <2>1. Names(how, n) = Take(AllColumns, n)
    BY <1>6 DEF Names
  <2>2. /\ Take(AllColumns, n) \in Seq(Named)
        /\ Len(Take(AllColumns, n)) = IF n < Len(AllColumns) THEN n ELSE Len(AllColumns)
    BY <1>2, <1>4, Taken
  <2>. QED
    BY <1>1, <1>4, <2>1, <2>2
<1>. QED
  BY <1>5, <1>6

(* The data are a table. *)
LEMMA SourceTable ==
  ASSUME SourceOK
  PROVE  Table(source)
<1>1. Len(source.rows) <= MaxSamples
  <2>1. Len(source.rows) \in Nat /\ Len(source.rows) <= MaxRows
    BY DEF SourceOK
  <2>2. MaxSamples \in Nat /\ MaxRows \in 0 .. MaxSamples
    BY GatesAssumption
  <2>. QED
    BY <2>1, <2>2
<1>2. \A j \in DOMAIN source.rows : 1 \in DOMAIN source.rows
  BY DEF SourceOK
<1>3. Len(source.columns) \in Nat
  BY DEF SourceOK
<1>. QED
  BY <1>1, <1>2, <1>3 DEF SourceOK, Table

(* The first rule of a column has a type. *)
LEMMA RuleOfColumn ==
  ASSUME NEW rules \in Seq(Found), NEW column, RuleFor(rules, column) # {}
  PROVE  rules[Min(RuleFor(rules, column))].type \in Types
<1>1. RuleFor(rules, column) \subseteq Nat /\ RuleFor(rules, column) \subseteq DOMAIN rules
  BY DEF RuleFor
<1>2. Min(RuleFor(rules, column)) \in RuleFor(rules, column)
  BY <1>1, MinOfNumbers
<1>3. Min(RuleFor(rules, column)) \in DOMAIN rules
  BY <1>1, <1>2
<1>4. rules[Min(RuleFor(rules, column))] \in Found
  BY <1>3
<1>. QED
  BY <1>4 DEF Found

(* Masking makes a value of a value: by a rule that keeps none, one that may remain. *)
LEMMA MaskedCell ==
  ASSUME NEW rules \in Seq(Found), NEW column, NEW v \in DOMAIN Facts
  PROVE  /\ MaskCell(rules, column, v) \in DOMAIN Facts
         /\ RuleFor(rules, column) = {} => MaskCell(rules, column, v) = v
         /\ RuleFor(rules, column) # {} /\ ~MayRemain(rules, column) =>
              MaskCell(rules, column, v) \notin Raw
<1>1. CASE v = Null \/ RuleFor(rules, column) = {}
  BY <1>1, GatesAssumption DEF MaskCell
<1>2. CASE v # Null /\ RuleFor(rules, column) # {}
  <2>1. rules[Min(RuleFor(rules, column))].type \in Types
    BY <1>2, RuleOfColumn
  <2>2. MaskCell(rules, column, v) = Masked(rules[Min(RuleFor(rules, column))].type, v)
    BY <1>2 DEF MaskCell
  <2>3. ~MayRemain(rules, column) => rules[Min(RuleFor(rules, column))].type \notin KeepsUnparsed
    <3>1. RuleFor(rules, column) \subseteq Nat
      BY DEF RuleFor
    <3>2. Min(RuleFor(rules, column)) \in RuleFor(rules, column)
      BY <1>2, <3>1, MinOfNumbers
    <3>. QED
      BY <3>2 DEF MayRemain
  <2>4. /\ Masked(rules[Min(RuleFor(rules, column))].type, v) \in DOMAIN Facts
        /\ ~MayRemain(rules, column) =>
             Masked(rules[Min(RuleFor(rules, column))].type, v) \notin Raw
    BY <1>2, <2>1, <2>3, GatesAssumption
  <2>. QED
    BY <1>2, <2>2, <2>4
<1>. QED
  BY <1>1, <1>2

(* The names a row is paired with: those of the table, or of rules. *)
LEMMA PairedNames ==
  ASSUME NEW rules \in Seq(Found), NEW columns \in Seq(Named),
         NEW names, names = Paired(rules, columns)
  PROVE  /\ Len(names) \in Nat /\ DOMAIN names = 1 .. Len(names) /\ Len(names) <= Len(columns)
         /\ \/ names = columns
            \/ layout = "unnamed" /\ \A i \in DOMAIN names : RuleFor(rules, names[i]) # {}
<1>1. CASE layout = "unnamed" /\ rules # <<>>
  <2>. DEFINE ruled == [i \in DOMAIN rules |-> rules[i].column]
  <2>1. ruled \in Seq(Columns) /\ DOMAIN ruled = DOMAIN rules /\ Len(columns) \in Nat
    <3>0. \A i \in DOMAIN rules : rules[i] \in Found
      OBVIOUS
    <3>1. \A i \in DOMAIN rules : rules[i].column \in Columns
      BY <3>0 DEF Found
    <3>. QED
      BY <3>1
  <2>2. names = Take(ruled, Len(columns))
    BY <1>1 DEF Paired
  <2>3. \A i \in DOMAIN ruled : RuleFor(rules, ruled[i]) # {}
    BY DEF RuleFor
  <2>. HIDE DEF ruled
  <2>4. /\ names \in Seq(Columns)
        /\ Len(names) = IF Len(columns) < Len(ruled) THEN Len(columns) ELSE Len(ruled)
        /\ \A i \in DOMAIN names : i \in DOMAIN ruled /\ names[i] = ruled[i]
    BY <2>1, <2>2, Taken
  <2>5. Len(names) <= Len(columns)
    <3>1. Len(ruled) \in Nat /\ Len(columns) \in Nat
      BY <2>1
    <3>. QED
      BY <2>4, <3>1
  <2>. QED
    BY <1>1, <2>3, <2>4, <2>5
<1>2. CASE ~(layout = "unnamed" /\ rules # <<>>)
  BY <1>2 DEF Paired
<1>. QED
  BY <1>1, <1>2

(* What was masked is a table with the columns and as many rows as the data. *)
LEMMA OutputTable ==
  ASSUME SourceOK, ConfigOK, MaskedOK, masked # None
  PROVE  /\ Table(Output)
         /\ Output.columns = source.columns
         /\ DOMAIN Output.rows = DOMAIN source.rows
         /\ Len(Output.rows) = Len(source.rows)
         /\ \A j \in DOMAIN source.rows :
              Output.rows[j] = MaskRow(config.rules, source.columns, source.rows[j])
<1>. DEFINE names == Paired(config.rules, source.columns)
<1>1. /\ config.rules \in Seq(Found)
      /\ source.columns \in Seq(Named) /\ source.rows \in Seq(Seq(DOMAIN Facts))
      /\ \A j \in DOMAIN source.rows : Len(source.rows[j]) = Len(source.columns)
      /\ Len(source.rows) <= MaxRows
  BY DEF SourceOK, ConfigOK, MaskedOK
<1>2. /\ Output.columns = source.columns
      /\ Output.rows = [j \in DOMAIN source.rows |->
                          MaskRow(config.rules, source.columns, source.rows[j])]
  BY DEF Output, MaskedOK
<1>3. /\ Len(names) \in Nat /\ DOMAIN names = 1 .. Len(names)
      /\ Len(names) <= Len(source.columns)
      /\ layout # "unnamed" => names = source.columns
  BY <1>1, PairedNames
<1>4. ASSUME NEW j \in DOMAIN source.rows
      PROVE  /\ MaskRow(config.rules, source.columns, source.rows[j]) \in Seq(DOMAIN Facts)
             /\ Len(MaskRow(config.rules, source.columns, source.rows[j])) = Len(names)
  <2>1. source.rows[j] \in Seq(DOMAIN Facts) /\ Len(source.rows[j]) = Len(source.columns)
    BY <1>1
  <2>2. \A i \in 1 .. Len(names) : source.rows[j][i] \in DOMAIN Facts
    <3>1. Len(source.columns) \in Nat
      BY <1>1
    <3>. HIDE DEF names
    <3>. QED
      BY <1>3, <2>1, <3>1
  <2>3. \A i \in 1 .. Len(names) :
          MaskCell(config.rules, names[i], source.rows[j][i]) \in DOMAIN Facts
    BY <1>1, <2>2, MaskedCell
  <2>4. MaskRow(config.rules, source.columns, source.rows[j]) =
          [i \in 1 .. Len(names) |-> MaskCell(config.rules, names[i], source.rows[j][i])]
    BY <1>3 DEF MaskRow
  <2>. HIDE DEF names
  <2>. QED
    BY <1>3, <2>3, <2>4
<1>. HIDE DEF names
<1>5. /\ Output.rows \in Seq(Seq(DOMAIN Facts)) /\ DOMAIN Output.rows = DOMAIN source.rows
      /\ Len(Output.rows) = Len(source.rows)
      /\ \A j \in DOMAIN source.rows :
           Output.rows[j] = MaskRow(config.rules, source.columns, source.rows[j])
  <2>1. DOMAIN source.rows = 1 .. Len(source.rows) /\ Len(source.rows) \in Nat
    BY <1>1
  <2>. QED
    BY <1>2, <1>4, <2>1
<1>6. Len(source.rows) <= MaxSamples
  BY SourceTable DEF Table
<1>7. \A j \in DOMAIN Output.rows : 1 \in DOMAIN Output.rows
  BY <1>5
<1>8. Table(Output)
  BY <1>1, <1>2, <1>3, <1>4, <1>5, <1>6, <1>7 DEF Table
<1>. QED
  BY <1>2, <1>5, <1>8

-----------------------------------------------------------------------------
(* What a command finds in the data are columns with their types. *)
LEMMA FoundInSource ==
  ASSUME SourceOK, NEW limit \in Limits
  PROVE  Detections(layout, limit, source, FALSE) \in Seq(Found)
<1>1. limit \in Nat /\ layout \in Layouts /\ Table(source)
  BY SourceTable, GatesAssumption DEF SourceOK
<1>2. PICK read : read = RowsRead(layout, limit, source.rows)
  OBVIOUS
<1>3. PICK found : found = Detections(layout, limit, source, FALSE)
  OBVIOUS
<1>4. PICK dataOnly \in BOOLEAN : dataOnly = FALSE
  OBVIOUS
<1>5. found = Detections(layout, limit, source, dataOnly)
  BY <1>3, <1>4
<1>6. FoundOf(source, read, dataOnly, found)
  BY <1>1, <1>2, <1>5, ExposedIsFound
<1>. QED
  BY <1>3, <1>6 DEF FoundOf

(* A cell is stored as a value. *)
LEMMA StoredValue ==
  ASSUME NEW how, NEW v \in DOMAIN Facts
  PROVE  Stored(how, v) \in DOMAIN Facts
BY GatesAssumption DEF Stored

(* At first nothing was scanned, masked or judged. *)
LEMMA InitGates == Init => GatesInv
<1>. SUFFICES ASSUME Init
              PROVE  GatesInv
  OBVIOUS
<1>1. SourceOK
  <2>1. PICK n \in {Len(AllColumns) - 1, Len(AllColumns)} :
          source = [columns |-> Names(layout, n), rows |-> <<>>]
    BY DEF Init
  <2>2. Names(layout, n) \in Seq(Named) /\ Len(Names(layout, n)) = n
    BY NamesFor
  <2>3. <<>> \in Seq(Seq(DOMAIN Facts)) /\ Len(<<>>) = 0 /\ DOMAIN <<>> = {}
    OBVIOUS
  <2>4. 0 <= MaxRows
    <3>1. MaxSamples \in Nat /\ MaxRows \in 0 .. MaxSamples
      BY GatesAssumption
    <3>. QED
      BY <3>1
  <2>. QED
    BY <2>1, <2>2, <2>3, <2>4 DEF Init, SourceOK
<1>2. ConfigOK
  <2>1. Rules \subseteq Seq(Found)
    <3>1. [column : STRING, type : Types] \subseteq Found
      BY DEF Found, Columns
    <3>2. \A S, T : S \subseteq T => Seq(S) \subseteq Seq(T)
      OBVIOUS
    <3>. QED
      BY <3>1, <3>2 DEF Rules
  <2>. QED
    BY <2>1, GatesAssumption DEF Init, ConfigOK
<1>. QED
  BY <1>1, <1>2 DEF Init, MaskedOK, VerdictOK, Gave, GatesInv

(* When data change nothing is left that was said of them. *)
LEMMA OutdatedHolds ==
  ASSUME GatesInv, SourceOK', Outdated, config' = config
  PROVE  GatesInv'
<1>1. ConfigOK'
  BY DEF GatesInv, ConfigOK
<1>2. MaskedOK' /\ VerdictOK'
  BY DEF Outdated, MaskedOK, VerdictOK, Gave
<1>. QED
  BY <1>1, <1>2 DEF GatesInv

(* A row has as many cells as there are columns. *)
LEMMA InsertRowGates ==
  ASSUME GatesInv, NEW row \in RowSet, InsertRow(row)
  PROVE  GatesInv'
<1>. DEFINE new == [i \in DOMAIN source.columns |-> Stored(layout, row[i])]
<1>1. /\ source.columns \in Seq(Named) /\ source.rows \in Seq(Seq(DOMAIN Facts))
      /\ Len(source.columns) \in {Len(AllColumns) - 1, Len(AllColumns)}
      /\ \A j \in DOMAIN source.rows : Len(source.rows[j]) = Len(source.columns)
      /\ source = [columns |-> source.columns, rows |-> source.rows]
  BY DEF GatesInv, SourceOK
<1>2. /\ source' = [columns |-> source.columns, rows |-> Append(source.rows, new)]
      /\ layout' = layout /\ config' = config /\ Outdated /\ Len(source.rows) < MaxRows
  BY <1>1 DEF InsertRow
<1>3. new \in Seq(DOMAIN Facts) /\ Len(new) = Len(source.columns)
  <2>1. row \in Seq(DOMAIN Facts) /\ Len(row) = Len(AllColumns) /\ Len(AllColumns) \in 2 .. 3
    BY GatesAssumption
  <2>2. DOMAIN source.columns = 1 .. Len(source.columns) /\ Len(source.columns) \in Nat
    BY <1>1
  <2>3. Len(source.columns) <= Len(row)
    BY <1>1, <2>1
  <2>4. \A i \in 1 .. Len(source.columns) : row[i] \in DOMAIN Facts
    BY <2>1, <2>2, <2>3
  <2>5. \A i \in 1 .. Len(source.columns) : Stored(layout, row[i]) \in DOMAIN Facts
    BY <2>4, StoredValue
  <2>. QED
    BY <2>2, <2>5
<1>. HIDE DEF new
<1>4. /\ Append(source.rows, new) \in Seq(Seq(DOMAIN Facts))
      /\ Len(Append(source.rows, new)) = Len(source.rows) + 1
      /\ \A j \in DOMAIN Append(source.rows, new) :
           Len(Append(source.rows, new)[j]) = Len(source.columns)
  BY <1>1, <1>3
<1>5. Len(source.rows) + 1 <= MaxRows
  <2>1. MaxSamples \in Nat /\ MaxRows \in 0 .. MaxSamples
    BY GatesAssumption
  <2>2. Len(source.rows) \in Nat
    BY <1>1
  <2>. QED
    BY <1>2, <2>1, <2>2
<1>6. SourceOK'
  BY <1>1, <1>2, <1>4, <1>5 DEF GatesInv, SourceOK
<1>. QED
  BY <1>2, <1>6, OutdatedHolds

(* A column that appears lengthens every row. *)
LEMMA AddColumnGates ==
  ASSUME GatesInv, NEW row \in RowSet, AddColumn(Last(row))
  PROVE  GatesInv'
<1>. DEFINE v == Stored(layout, Last(row))
            rows == [j \in DOMAIN source.rows |-> Append(source.rows[j], v)]
            columns == Names(layout, Len(AllColumns))
<1>1. /\ source.rows \in Seq(Seq(DOMAIN Facts)) /\ Len(source.rows) <= MaxRows
      /\ Len(source.columns) \in {Len(AllColumns) - 1, Len(AllColumns)}
      /\ \A j \in DOMAIN source.rows : Len(source.rows[j]) = Len(source.columns)
  BY DEF GatesInv, SourceOK
<1>2. /\ source' = [columns |-> columns, rows |-> rows]
      /\ layout' = layout /\ config' = config /\ Outdated
      /\ Len(source.columns) < Len(AllColumns)
  BY DEF AddColumn
<1>3. v \in DOMAIN Facts
  <2>1. row \in Seq(DOMAIN Facts) /\ Len(row) = Len(AllColumns) /\ Len(AllColumns) \in 2 .. 3
    BY GatesAssumption
  <2>2. Last(row) \in DOMAIN Facts
    BY <2>1 DEF Last
  <2>. QED
    BY <2>2, StoredValue
<1>4. columns \in Seq(Named) /\ Len(columns) = Len(AllColumns)
  BY NamesFor
<1>5. Len(source.columns) + 1 = Len(AllColumns) /\ Len(source.columns) \in Nat
  <2>1. PICK len \in 2 .. 3 : len = Len(AllColumns)
    BY GatesAssumption
  <2>. QED
    BY <1>1, <1>2, <2>1
<1>6. \A j \in DOMAIN source.rows : /\ Append(source.rows[j], v) \in Seq(DOMAIN Facts)
                                    /\ Len(Append(source.rows[j], v)) = Len(AllColumns)
  <2>. SUFFICES ASSUME NEW j \in DOMAIN source.rows
                PROVE  /\ Append(source.rows[j], v) \in Seq(DOMAIN Facts)
                       /\ Len(Append(source.rows[j], v)) = Len(AllColumns)
    OBVIOUS
  <2>1. source.rows[j] \in Seq(DOMAIN Facts) /\ Len(source.rows[j]) = Len(source.columns)
    BY <1>1
  <2>. HIDE DEF v
  <2>2. /\ Append(source.rows[j], v) \in Seq(DOMAIN Facts)
        /\ Len(Append(source.rows[j], v)) = Len(source.rows[j]) + 1
    BY <1>3, <2>1
  <2>. QED
    BY <1>5, <2>1, <2>2
<1>. HIDE DEF v, columns
<1>7. /\ rows \in Seq(Seq(DOMAIN Facts)) /\ Len(rows) = Len(source.rows)
      /\ \A j \in DOMAIN rows : Len(rows[j]) = Len(AllColumns)
  <2>1. DOMAIN source.rows = 1 .. Len(source.rows) /\ Len(source.rows) \in Nat
    BY <1>1
  <2>. QED
    BY <1>6, <2>1
<1>. HIDE DEF rows
<1>8. SourceOK'
  BY <1>1, <1>2, <1>4, <1>7 DEF GatesInv, SourceOK
<1>. QED
  BY <1>2, <1>8, OutdatedHolds

(* A scan replaces the configuration by what it has found; nothing is masked with it. *)
LEMMA ScanGates ==
  ASSUME GatesInv, NEW limit \in Limits, Scan(limit)
  PROVE  GatesInv'
<1>1. /\ config' = Generated(Detections(layout, limit, source, FALSE))
      /\ masked' = None /\ layout' = layout /\ source' = source /\ verdict' = verdict
      /\ verdict = None
  BY DEF Scan
<1>2. SourceOK'
  BY <1>1 DEF GatesInv, SourceOK
<1>3. ConfigOK'
  <2>1. config'.rules \in Seq(Found)
    BY <1>1, FoundInSource DEF GatesInv, Generated
  <2>. QED
    BY <2>1 DEF ConfigOK
<1>4. MaskedOK' /\ VerdictOK'
  BY <1>1 DEF MaskedOK, VerdictOK, Gave
<1>. QED
  BY <1>2, <1>3, <1>4 DEF GatesInv

(* Masking follows the configuration there is. *)
LEMMA MaskGates ==
  ASSUME GatesInv, Mask
  PROVE  GatesInv'
<1>1. /\ masked' = [j \in DOMAIN source.rows |->
                      MaskRow(config.rules, source.columns, source.rows[j])]
      /\ layout' = layout /\ source' = source /\ config' = config
      /\ verdict' = verdict /\ verdict = None /\ config # None
  BY DEF Mask
<1>2. SourceOK' /\ ConfigOK'
  BY <1>1 DEF GatesInv, SourceOK, ConfigOK
<1>3. MaskedOK'
  BY <1>1 DEF MaskedOK, MaskRow, Paired
<1>4. VerdictOK'
  BY <1>1 DEF VerdictOK, Gave
<1>. QED
  BY <1>2, <1>3, <1>4 DEF GatesInv

(* A command that gives a verdict changes nothing else. *)
LEMMA JudgedHolds ==
  ASSUME GatesInv, UNCHANGED <<layout, source, config, masked>>
  PROVE  SourceOK' /\ ConfigOK' /\ MaskedOK'
<1>1. SourceOK' /\ ConfigOK'
  BY DEF GatesInv, SourceOK, ConfigOK
<1>2. MaskedOK'
  <2>1. \A j : MaskRow(config.rules, source.columns, source.rows[j])'
                 = MaskRow(config.rules, source.columns, source.rows[j])
    BY DEF MaskRow, Paired
  <2>. QED
    BY <2>1 DEF GatesInv, MaskedOK
<1>. QED
  BY <1>1, <1>2

(* The verdict of lint is about the configuration and the data. *)
LEMMA LintGates ==
  ASSUME GatesInv, NEW limit \in Limits, NEW strict \in BOOLEAN, Lint(limit, strict)
  PROVE  GatesInv'
<1>. DEFINE found == Detections(layout, limit, source, FALSE)
<1>1. /\ verdict' = [command |-> "lint", limit |-> limit, strict |-> strict,
                     passed |-> Unmapped(found, config.rules) = {} /\ ~(strict /\ Missing(found))]
      /\ UNCHANGED <<layout, source, config, masked>>
  BY DEF Lint
<1>2. VerdictOK'
  <2>1. verdict'.command = "lint" /\ verdict'.limit = limit /\ verdict'.strict = strict
    BY <1>1
  <2>2. verdict'.passed <=> Unmapped(found, config.rules) = {} /\ ~(strict /\ Missing(found))
    BY <1>1
  <2>3. Detections(layout, verdict.limit, source, FALSE)' = found
    BY <1>1, <2>1
  <2>4. Missing(Detections(layout, verdict.limit, source, FALSE))' <=> Missing(found)
    BY <1>1, <2>1 DEF Missing
  <2>5. ~Gave("verify")' /\ ~Gave("evaluate")'
    BY <2>1 DEF Gave
  <2>. QED
    BY <1>1, <2>1, <2>2, <2>3, <2>4, <2>5 DEF VerdictOK
<1>. QED
  BY <1>1, <1>2, JudgedHolds DEF GatesInv

(* The verdict of verify is about what was masked. *)
LEMMA VerifyGates ==
  ASSUME GatesInv, NEW limit \in Limits, Verify(limit)
  PROVE  GatesInv'
<1>1. /\ verdict' = [command |-> "verify", limit |-> limit,
                     passed |-> Detections(layout, limit, Output, TRUE) = <<>>]
      /\ UNCHANGED <<layout, source, config, masked>>
      /\ masked # None
  BY DEF Verify
<1>2. VerdictOK'
  <2>1. /\ verdict'.command = "verify" /\ verdict'.limit = limit
        /\ verdict'.passed <=> Detections(layout, limit, Output, TRUE) = <<>>
    BY <1>1
  <2>2. ~Gave("lint")' /\ ~Gave("evaluate")'
    BY <2>1 DEF Gave
  <2>3. Output' = Output
    BY <1>1 DEF Output
  <2>. QED
    BY <1>1, <2>1, <2>2, <2>3 DEF VerdictOK
<1>. QED
  BY <1>1, <1>2, JudgedHolds DEF GatesInv

(* The verdict of evaluate is about what was masked. *)
LEMMA EvaluateGates ==
  ASSUME GatesInv, Evaluate
  PROVE  GatesInv'
<1>1. /\ verdict' = [command |-> "evaluate",
                     passed |-> Compliant(Records(Output), Qi, Sensitive, K, L)]
      /\ UNCHANGED <<layout, source, config, masked>>
      /\ masked \notin {None, <<>>}
  BY DEF Evaluate
<1>2. VerdictOK'
  <2>1. /\ verdict'.command = "evaluate"
        /\ verdict'.passed = Compliant(Records(Output), Qi, Sensitive, K, L)
    BY <1>1
  <2>2. ~Gave("lint")' /\ ~Gave("verify")'
    BY <2>1 DEF Gave
  <2>3. Records(Output)' = Records(Output)
    BY <1>1 DEF Records, Output
  <2>. QED
    BY <1>1, <2>1, <2>2, <2>3 DEF VerdictOK
<1>. QED
  BY <1>1, <1>2, JudgedHolds DEF GatesInv

(* No verdict is about nothing. *)
LEMMA GoOnGates ==
  ASSUME GatesInv, GoOn
  PROVE  GatesInv'
<1>1. UNCHANGED <<layout, source, config, masked>> /\ verdict' = None
  BY DEF GoOn
<1>2. VerdictOK'
  BY <1>1 DEF VerdictOK, Gave
<1>. QED
  BY <1>1, <1>2, JudgedHolds DEF GatesInv

(* The invariant holds of every behaviour. *)
LEMMA GatesHold == Spec => []GatesInv
<1>1. ASSUME GatesInv, [Next]_vars
      PROVE  GatesInv'
  <2>1. CASE \E row \in RowSet : InsertRow(row)
    BY <1>1, <2>1, InsertRowGates
  <2>2. CASE \E row \in RowSet : AddColumn(Last(row))
    BY <1>1, <2>2, AddColumnGates
  <2>3. CASE \E limit \in Limits : Scan(limit)
    BY <1>1, <2>3, ScanGates
  <2>4. CASE \E limit \in Limits : Verify(limit)
    BY <1>1, <2>4, VerifyGates
  <2>5. CASE \E limit \in Limits, strict \in BOOLEAN : Lint(limit, strict)
    BY <1>1, <2>5, LintGates
  <2>6. CASE Mask
    BY <1>1, <2>6, MaskGates
  <2>7. CASE Evaluate
    BY <1>1, <2>7, EvaluateGates
  <2>8. CASE GoOn
    BY <1>1, <2>8, GoOnGates
  <2>9. CASE UNCHANGED vars
    <3>1. UNCHANGED <<layout, source, config, masked>> /\ verdict' = verdict
      BY <2>9 DEF vars
    <3>2. Output' = Output /\ Records(Output)' = Records(Output)
      BY <3>1 DEF Output, Records
    <3>3. VerdictOK'
      BY <1>1, <3>1, <3>2 DEF GatesInv, VerdictOK, Gave, Missing
    <3>. QED
      BY <1>1, <3>1, <3>3, JudgedHolds DEF GatesInv
  <2>. QED
    BY <1>1, <2>1, <2>2, <2>3, <2>4, <2>5, <2>6, <2>7, <2>8, <2>9 DEF Next
<1>. QED
  BY <1>1, InitGates, PTL DEF Spec

-----------------------------------------------------------------------------
(* A column whose name tells what it holds shows no raw value in data that lint has
   let through, unless a rule may keep one (cli.py:889): lint finds the column
   whatever rows it reads, and so it has a rule. *)
THEOREM NamedData == Spec => []NamedIsMasked
<1>1. ASSUME GatesInv
      PROVE  NamedIsMasked
  <2>. SUFFICES ASSUME masked # None, Gave("lint"), verdict.passed,
                       layout \notin {"unnamed", "jsonl"},
                       NEW i \in DOMAIN source.columns, Hint(source.columns[i]) # None,
                       ~MayRemain(config.rules, source.columns[i]),
                       NEW j \in DOMAIN masked
                PROVE  masked[j][i] \notin Raw
    BY DEF NamedIsMasked
  <2>1. PICK found : found = Detections(layout, verdict.limit, source, FALSE)
    OBVIOUS
  <2>2. /\ verdict.limit \in Nat /\ layout \in Layouts /\ Table(source)
        /\ Unmapped(found, config.rules) = {}
        /\ config.rules \in Seq(Found)
        /\ source.columns \in Seq(Named)
    BY <1>1, <2>1, SourceTable, GatesAssumption DEF GatesInv, SourceOK, ConfigOK, MaskedOK, VerdictOK
  <2>3. /\ masked[j] = MaskRow(config.rules, source.columns, source.rows[j])
        /\ j \in DOMAIN source.rows
    BY <1>1 DEF GatesInv, MaskedOK
  <2>4. \E k \in DOMAIN found : found[k].column = source.columns[i]
    <3>1. PICK read : read = RowsRead(layout, verdict.limit, source.rows)
      OBVIOUS
    <3>2. PICK dataOnly \in BOOLEAN : dataOnly = FALSE
      OBVIOUS
    <3>3. found = Detections(layout, verdict.limit, source, dataOnly)
      BY <2>1, <3>2
    <3>4. source.rows # <<>>
      <4>1. DOMAIN <<>> = {}
        OBVIOUS
      <4>. QED
        BY <2>3, <4>1
    <3>5. FoundOf(source, read, dataOnly, found)
      BY <2>2, <3>1, <3>3, ExposedIsFound
    <3>. QED
      BY <3>2, <3>4, <3>5 DEF FoundOf
  <2>5. RuleFor(config.rules, source.columns[i]) # {}
    BY <2>2, <2>4 DEF Unmapped, RuleFor
  <2>6. masked[j][i] = MaskCell(config.rules, source.columns[i], source.rows[j][i])
    BY <2>3 DEF MaskRow, Paired
  <2>7. source.rows[j][i] \in DOMAIN Facts
    <3>1. source.rows[j] \in Seq(DOMAIN Facts) /\ Len(source.rows[j]) = Len(source.columns)
      BY <1>1, <2>3 DEF GatesInv, SourceOK
    <3>2. DOMAIN source.columns = DOMAIN source.rows[j]
      BY <2>2, <3>1
    <3>. QED
      BY <3>1, <3>2
  <2>. QED
    BY <2>2, <2>5, <2>6, <2>7, MaskedCell
<1>. QED
  BY <1>1, GatesHold, PTL

(* Of a table within reach a scan reads every row. *)
LEMMA ReadWhole ==
  ASSUME layout \in Layouts, NEW limit \in Nat, NEW S, masked \in Seq(S), WithinReach(limit)
  PROVE  RowsRead(layout, limit, masked) = masked
<1>1. ASSUME NEW n \in Nat, Len(masked) <= n
      PROVE  Take(masked, n) = masked
  <2>1. Len(masked) \in Nat /\ Take(masked, n) \in Seq(S)
    BY Taken
  <2>2. Len(Take(masked, n)) = Len(masked)
    <3>1. Len(Take(masked, n)) = IF n < Len(masked) THEN n ELSE Len(masked)
      BY Taken
    <3>. QED
      BY <1>1, <2>1, <3>1
  <2>3. \A i \in 1 .. Len(masked) : Take(masked, n)[i] = masked[i]
    BY <2>1, <2>2, Taken
  <2>. QED
    BY <2>1, <2>2, <2>3
<1>2. /\ layout \in {"csv", "parquet", "copy", "live", "insert", "inserts", "unnamed"}
      /\ TuplesRead \in Nat /\ Len(masked) \in Nat
      /\ Len(masked) <= IF layout \in {"insert", "unnamed"} THEN TuplesRead ELSE limit
  <2>1. /\ layout \in {"csv", "parquet", "copy", "live", "insert", "inserts", "unnamed", "split",
                       "jsonl"}
        /\ TuplesRead \in Nat
    BY GatesAssumption
  <2>2. Len(masked) \in Nat
    OBVIOUS
  <2>3. /\ layout \notin {"split", "jsonl"}
        /\ Len(masked) <= IF layout \in {"insert", "unnamed"} THEN TuplesRead ELSE limit
    BY DEF WithinReach
  <2>. QED
    BY <2>1, <2>2, <2>3
<1>3. limit + 1 \in Nat /\ (Len(masked) <= limit => Len(masked) <= limit + 1)
  BY <1>2
<1>4. CASE layout \in {"insert", "unnamed"}
  BY <1>1, <1>2, <1>4 DEF RowsRead
<1>5. CASE layout \in {"csv", "parquet", "copy", "live", "inserts"}
  BY <1>1, <1>2, <1>3, <1>5 DEF RowsRead
<1>. QED
  BY <1>2, <1>4, <1>5

(* Data within reach that verify has let through have no column in which personal
   data or credentials prevail (cli.py:1120): any such column would have been found. *)
THEOREM VerifiedData == Spec => []VerifiedIsClean
<1>1. ASSUME GatesInv
      PROVE  VerifiedIsClean
  <2>. SUFFICES ASSUME Gave("verify"), verdict.passed, WithinReach(verdict.limit),
                       NEW i \in ExposedColumns(masked)
                PROVE  FALSE
    BY DEF VerifiedIsClean
  <2>1. PICK found : found = Detections(layout, verdict.limit, Output, TRUE)
    OBVIOUS
  <2>2. PICK read : read = RowsRead(layout, verdict.limit, Output.rows)
    OBVIOUS
  <2>3. /\ verdict.limit \in Nat /\ layout \in Layouts /\ Table(Output)
        /\ Output.columns = source.columns /\ Output.rows = masked
        /\ found = <<>>
    BY <1>1, <2>1, OutputTable, GatesAssumption DEF GatesInv, SourceOK, VerdictOK, Output
  <2>4. read = masked
    BY <2>2, <2>3, ReadWhole DEF Table
  <2>5. /\ i \in DOMAIN Output.columns
        /\ \A j \in DOMAIN read : i <= Len(read[j])
        /\ Exposed(Samples(read, i))
    BY <2>3, <2>4 DEF ExposedColumns
  <2>6. \E k \in DOMAIN found : found[k].column = Output.columns[i]
    <3>1. PICK dataOnly \in BOOLEAN : dataOnly = TRUE
      OBVIOUS
    <3>2. found = Detections(layout, verdict.limit, Output, dataOnly)
      BY <2>1, <3>1
    <3>3. FoundOf(Output, read, dataOnly, found)
      BY <2>2, <2>3, <3>2, ExposedIsFound
    <3>. QED
      BY <2>5, <3>3 DEF FoundOf
  <2>7. DOMAIN <<>> = {}
    OBVIOUS
  <2>. QED
    BY <2>3, <2>6, <2>7
<1>. QED
  BY <1>1, GatesHold, PTL

(* Of two tables with as many rows a scan reads as many. *)
LEMMA ReadAlike ==
  ASSUME layout \in Layouts, NEW limit \in Nat,
         NEW S, NEW r1 \in Seq(S), NEW r2 \in Seq(S), Len(r1) = Len(r2)
  PROVE  DOMAIN RowsRead(layout, limit, r1) = DOMAIN RowsRead(layout, limit, r2)
<1>1. ASSUME NEW n \in Nat
      PROVE  DOMAIN Take(r1, n) = DOMAIN Take(r2, n)
  <2>1. Take(r1, n) \in Seq(S) /\ Take(r2, n) \in Seq(S)
    BY Taken
  <2>2. Len(Take(r1, n)) = Len(Take(r2, n))
    BY Taken
  <2>. QED
    BY <2>1, <2>2
<1>2. /\ layout \in {"csv", "parquet", "copy", "live", "insert", "inserts", "unnamed", "split",
                     "jsonl"}
      /\ TuplesRead \in Nat
  BY GatesAssumption
<1>3. limit + 1 \in Nat
  OBVIOUS
<1>. QED
  BY <1>1, <1>2, <1>3 DEF RowsRead

(* The rows a scan reads are the first of the table. *)
LEMMA ReadFirst ==
  ASSUME layout \in Layouts, NEW t, Table(t), NEW limit \in Nat
  PROVE  \A j \in DOMAIN RowsRead(layout, limit, t.rows) :
           /\ j \in DOMAIN t.rows
           /\ RowsRead(layout, limit, t.rows)[j] = t.rows[j]
<1>1. /\ t.rows \in Seq(Seq(DOMAIN Facts)) /\ TuplesRead \in Nat
      /\ layout \in {"csv", "parquet", "copy", "live", "insert", "inserts", "unnamed", "split",
                     "jsonl"}
  BY GatesAssumption DEF Table
<1>2. \/ \E n \in Nat : RowsRead(layout, limit, t.rows) = Take(t.rows, n)
      \/ RowsRead(layout, limit, t.rows) = <<>>
  <2>1. limit + 1 \in Nat
    OBVIOUS
  <2>. QED
    BY <1>1, <2>1 DEF RowsRead
<1>3. \A n \in Nat : \A j \in DOMAIN Take(t.rows, n) :
        j \in DOMAIN t.rows /\ Take(t.rows, n)[j] = t.rows[j]
  BY <1>1, Taken
<1>4. DOMAIN <<>> = {}
  OBVIOUS
<1>. QED
  BY <1>2, <1>3, <1>4

(* A cell of a column without a rule is read as it is in the data; a column whose rule
   keeps nothing shows nothing that must not remain. *)
LEMMA LintedCells ==
  ASSUME SourceOK, ConfigOK, MaskedOK, masked # None,
         NEW j \in DOMAIN source.rows, NEW i \in 1 .. Len(Output.rows[j]),
         NEW names, names = Paired(config.rules, source.columns)
  PROVE  /\ i \in DOMAIN names /\ i \in 1 .. Len(source.rows[j])
         /\ RuleFor(config.rules, names[i]) = {} =>
              /\ Output.rows[j][i] = source.rows[j][i]
              /\ names = source.columns
         /\ RuleFor(config.rules, names[i]) # {} /\ ~MayRemain(config.rules, names[i]) =>
              Output.rows[j][i] \notin Raw
<1>1. /\ config.rules \in Seq(Found)
      /\ source.columns \in Seq(Named) /\ source.rows[j] \in Seq(DOMAIN Facts)
      /\ Len(source.rows[j]) = Len(source.columns)
  BY DEF SourceOK, ConfigOK, MaskedOK
<1>2. Output.rows[j] = MaskRow(config.rules, source.columns, source.rows[j])
  BY OutputTable
<1>3. /\ Len(names) \in Nat /\ DOMAIN names = 1 .. Len(names) /\ Len(names) <= Len(source.columns)
      /\ \/ names = source.columns
         \/ layout = "unnamed" /\ \A k \in DOMAIN names : RuleFor(config.rules, names[k]) # {}
  BY <1>1, PairedNames
<1>4. Output.rows[j] =
        [k \in 1 .. Len(names) |-> MaskCell(config.rules, names[k], source.rows[j][k])]
  BY <1>2, <1>3 DEF MaskRow
<1>5. Len(Output.rows[j]) = Len(names)
  BY <1>3, <1>4
<1>6. i \in DOMAIN names /\ i \in 1 .. Len(source.rows[j])
  <2>1. Len(source.rows[j]) \in Nat
    BY <1>1
  <2>. QED
    BY <1>1, <1>3, <1>5, <2>1
<1>7. Output.rows[j][i] = MaskCell(config.rules, names[i], source.rows[j][i])
  BY <1>3, <1>4, <1>6
<1>8. source.rows[j][i] \in DOMAIN Facts
  BY <1>1, <1>6
<1>9. RuleFor(config.rules, names[i]) = {} => Output.rows[j][i] = source.rows[j][i]
  BY <1>1, <1>7, <1>8, MaskedCell
<1>10. RuleFor(config.rules, names[i]) # {} /\ ~MayRemain(config.rules, names[i]) =>
         Output.rows[j][i] \notin Raw
  BY <1>1, <1>7, <1>8, MaskedCell
<1>. QED
  BY <1>3, <1>6, <1>9, <1>10

(* Data that lint has let through with a configuration and that was masked with it
   has no such column, as far as lint looked (cli.py:951): a column without a rule
   shows what lint saw. *)
THEOREM LintedData == Spec => []LintedIsCovered
<1>1. ASSUME GatesInv
      PROVE  LintedIsCovered
  <2>. SUFFICES ASSUME masked # None, Gave("lint"), verdict.passed,
                       NEW i \in ExposedColumns(RowsRead(layout, verdict.limit, masked)),
                       ~MayRemain(config.rules, Paired(config.rules, source.columns)[i])
                PROVE  FALSE
    BY DEF LintedIsCovered
  <2>found. PICK found : found = Detections(layout, verdict.limit, source, FALSE)
    OBVIOUS
  <2>read. PICK read : read = RowsRead(layout, verdict.limit, Output.rows)
    OBVIOUS
  <2>seen. PICK seen : seen = RowsRead(layout, verdict.limit, source.rows)
    OBVIOUS
  <2>names. PICK names : names = Paired(config.rules, source.columns)
    OBVIOUS
  <2>1. /\ verdict.limit \in Nat /\ layout \in Layouts
        /\ Table(Output) /\ Table(source)
        /\ Output.columns = source.columns /\ Len(Output.rows) = Len(source.rows)
        /\ DOMAIN Output.rows = DOMAIN source.rows
        /\ Unmapped(found, config.rules) = {}
    BY <1>1, <2>found, OutputTable, SourceTable, GatesAssumption DEF GatesInv, SourceOK, VerdictOK
  <2>2. /\ i \in DOMAIN source.columns
        /\ \A j \in DOMAIN read : i <= Len(read[j])
        /\ Exposed(Samples(read, i))
        /\ ~MayRemain(config.rules, names[i])
    BY <2>read, <2>names DEF ExposedColumns, Output
  <2>3. \A k \in DOMAIN found : RuleFor(config.rules, found[k].column) # {}
    BY <2>1 DEF Unmapped, RuleFor
  <2>4. /\ \A j \in DOMAIN read : j \in DOMAIN source.rows /\ read[j] = Output.rows[j]
        /\ \A j \in DOMAIN seen : seen[j] = source.rows[j]
        /\ DOMAIN seen = DOMAIN read
    <3>3. \A j \in DOMAIN read : j \in DOMAIN Output.rows /\ read[j] = Output.rows[j]
      BY <2>1, <2>read, ReadFirst
    <3>4. \A j \in DOMAIN seen : seen[j] = source.rows[j]
      BY <2>1, <2>seen, ReadFirst
    <3>5. DOMAIN seen = DOMAIN read
      BY <2>1, <2>read, <2>seen, ReadAlike DEF Table
    <3>. QED
      BY <2>1, <3>3, <3>4, <3>5
  <2>5. i \in Nat \ {0}
    BY <2>1, <2>2 DEF Table
  <2>6. \A j \in DOMAIN read : i \in 1 .. Len(Output.rows[j]) /\ j \in DOMAIN source.rows
    <3>. SUFFICES ASSUME NEW j \in DOMAIN read
                  PROVE  i \in 1 .. Len(Output.rows[j]) /\ j \in DOMAIN source.rows
      OBVIOUS
    <3>1. Output.rows[j] \in Seq(DOMAIN Facts) /\ i <= Len(Output.rows[j])
      BY <2>1, <2>2, <2>4 DEF Table
    <3>2. Len(Output.rows[j]) \in Nat
      BY <3>1
    <3>. QED
      BY <2>4, <2>5, <3>1, <3>2
  <2>7. \A j \in DOMAIN read :
          /\ i <= Len(seen[j])
          /\ RuleFor(config.rules, names[i]) = {} =>
               /\ read[j][i] = seen[j][i]
               /\ names = source.columns
          /\ RuleFor(config.rules, names[i]) # {} => read[j][i] \notin Raw
    <3>. SUFFICES ASSUME NEW j \in DOMAIN read
                  PROVE  /\ i <= Len(seen[j])
                         /\ RuleFor(config.rules, names[i]) = {} =>
                              /\ read[j][i] = seen[j][i]
                              /\ names = source.columns
                         /\ RuleFor(config.rules, names[i]) # {} => read[j][i] \notin Raw
      OBVIOUS
    <3>1. /\ names = Paired(config.rules, source.columns)
          /\ SourceOK /\ ConfigOK /\ MaskedOK
          /\ j \in DOMAIN source.rows /\ i \in 1 .. Len(Output.rows[j])
      BY <1>1, <2>6, <2>names DEF GatesInv
    <3>2. /\ i \in 1 .. Len(source.rows[j])
          /\ RuleFor(config.rules, names[i]) = {} =>
               /\ Output.rows[j][i] = source.rows[j][i]
               /\ names = source.columns
          /\ RuleFor(config.rules, names[i]) # {} => Output.rows[j][i] \notin Raw
      BY <2>2, <3>1, LintedCells
    <3>3. i <= Len(source.rows[j])
      <4>1. Len(source.rows[j]) \in Nat
        BY <2>1, <2>6 DEF Table
      <4>. QED
        BY <3>2, <4>1
    <3>. QED
      BY <2>4, <3>2, <3>3
  <2>8. PICK j \in DOMAIN read : read[j][i] \in Raw
    <3>1. PICK j \in DOMAIN Samples(read, i) : Samples(read, i)[j] \in Raw
      BY <2>2 DEF Exposed, Shown
    <3>. QED
      BY <3>1 DEF Samples
  <2>9. RuleFor(config.rules, names[i]) = {} /\ names = source.columns
    BY <2>7, <2>8
  <2>10. Samples(read, i) = Samples(seen, i)
    BY <2>4, <2>7, <2>9 DEF Samples
  <2>11. \E k \in DOMAIN found : found[k].column = source.columns[i]
    <3>3. \A m \in DOMAIN seen : i <= Len(seen[m])
      BY <2>4, <2>7
    <3>4. Exposed(Samples(seen, i))
      BY <2>2, <2>10
    <3>5. PICK dataOnly \in BOOLEAN : dataOnly = FALSE
      OBVIOUS
    <3>6. found = Detections(layout, verdict.limit, source, dataOnly)
      BY <2>found, <3>5
    <3>7. layout \in Layouts /\ Table(source) /\ verdict.limit \in Nat
      BY <2>1
    <3>8. i \in DOMAIN source.columns
      BY <2>2
    <3>9. FoundOf(source, seen, dataOnly, found)
      BY <2>seen, <3>6, <3>7, ExposedIsFound
    <3>. QED
      BY <3>3, <3>4, <3>8, <3>9 DEF FoundOf
  <2>. QED
    BY <2>3, <2>9, <2>11
<1>. QED
  BY <1>1, GatesHold, PTL

-----------------------------------------------------------------------------
(* The image of a finite set is finite. *)
LEMMA FiniteImage ==
  ASSUME NEW S, IsFiniteSet(S), NEW f, S \subseteq DOMAIN f
  PROVE  IsFiniteSet({f[x] : x \in S})
<1>. DEFINE T == {f[x] : x \in S}
            g == [x \in S |-> f[x]]
<1>1. g \in Surjection(S, T)
  BY DEF Surjection
<1>. HIDE DEF g, T
<1>2. IsFiniteSet(T)
  BY <1>1, FS_Surjection
<1>. QED
  BY <1>2 DEF T

(* The sensitive values of some of the records are finitely many. *)
LEMMA FinitelySensitive ==
  ASSUME NEW records, NEW members, IsFiniteSet(members)
  PROVE  IsFiniteSet(UNION {SensitiveOf(records[j], Sensitive) : j \in members})
<1>1. \A j : IsFiniteSet(SensitiveOf(records[j], Sensitive))
  <2>. SUFFICES ASSUME NEW j
                PROVE  IsFiniteSet(SensitiveOf(records[j], Sensitive))
    OBVIOUS
  <2>. DEFINE columns == {c \in Sensitive \cap DOMAIN records[j] : records[j][c] # Null}
              f == [c \in columns |-> Printed(records[j][c])]
  <2>1. IsFiniteSet(columns) /\ columns \subseteq DOMAIN f
    BY GatesAssumption, FS_Subset
  <2>2. SensitiveOf(records[j], Sensitive) = {f[c] : c \in columns}
    BY DEF SensitiveOf
  <2>. HIDE DEF columns, f
  <2>. QED
    BY <2>1, <2>2, FiniteImage
<1>. DEFINE f == [j \in members |-> SensitiveOf(records[j], Sensitive)]
<1>2. IsFiniteSet({f[j] : j \in members})
  <2>1. members \subseteq DOMAIN f
    OBVIOUS
  <2>. HIDE DEF f
  <2>. QED
    BY <2>1, FiniteImage
<1>3. {f[j] : j \in members} = {SensitiveOf(records[j], Sensitive) : j \in members}
  OBVIOUS
<1>. HIDE DEF f
<1>4. \A T \in {f[j] : j \in members} : IsFiniteSet(T)
  BY <1>1, <1>3
<1>5. IsFiniteSet(UNION {f[j] : j \in members})
  BY <1>2, <1>4, FS_UNION
<1>. QED
  BY <1>3, <1>5

(* The class of a record counts the records like it and gathers their sensitive values. *)
LEMMA ClassOfRecord ==
  ASSUME NEW records, IsFiniteSet(DOMAIN records), NEW n \in DOMAIN records,
         NEW classes, classes = Classes(records, Qi, Sensitive),
         NEW key, key = Key(records[n], Qi),
         NEW like, like = {j \in DOMAIN records : Key(records[j], Qi) = key}
  PROVE  /\ key \in DOMAIN classes
         /\ classes[key].size = Cardinality(like)
         /\ classes[key].values = UNION {SensitiveOf(records[j], Sensitive) : j \in like}
         /\ Cardinality(like) \in Nat
         /\ IsFiniteSet(classes[key].values) /\ Cardinality(classes[key].values) \in Nat
<1>1. /\ key \in DOMAIN classes
      /\ classes[key].size = Cardinality(like)
      /\ classes[key].values = UNION {SensitiveOf(records[j], Sensitive) : j \in like}
  BY DEF Classes
<1>2. IsFiniteSet(like)
  BY FS_Subset
<1>3. IsFiniteSet(classes[key].values)
  BY <1>1, <1>2, FinitelySensitive
<1>. QED
  BY <1>1, <1>2, <1>3, FS_CardinalityType

(* The sum over no class is nothing. *)
LEMMA NoneAtRisk ==
  ASSUME NEW classes, NEW k, {x \in DOMAIN classes : classes[x].size < k} = {}
  PROVE  AtRisk(classes, k) = 0
<1>. DEFINE Iter(it) ==
       it = [s \in SUBSET {} |->
               IF s = {} THEN 0
               ELSE LET x == CHOOSE x \in s : TRUE IN classes[x].size + it[s \ {x}]]
<1>1. AtRisk(classes, k) = (CHOOSE it : Iter(it))[{}]
  BY DEF AtRisk, MapThenSumSet, MapThenFoldSet
<1>2. Iter([s \in SUBSET {} |-> 0])
  OBVIOUS
<1>3. \A it : Iter(it) => it[{}] = 0
  OBVIOUS
<1>. HIDE DEF Iter
<1>. QED
  BY <1>1, <1>2, <1>3

(* Every class of compliant records is large and varied enough. *)
LEMMA CompliantClasses ==
  ASSUME NEW records, IsFiniteSet(DOMAIN records), DOMAIN records # {},
         Compliant(records, Qi, Sensitive, K, L),
         NEW classes, classes = Classes(records, Qi, Sensitive)
  PROVE  /\ \A x \in DOMAIN classes : classes[x].size >= K /\ classes[x].size \in Nat
         /\ \A x \in DOMAIN classes :
              classes[x].values # {} => Cardinality(classes[x].values) >= L
<1>. DEFINE sizes == {classes[x].size : x \in DOMAIN classes}
            counts == {Cardinality(classes[x].values) : x \in DOMAIN classes} \ {0}
<1>1. \A x \in DOMAIN classes :
        /\ classes[x].size \in Nat
        /\ IsFiniteSet(classes[x].values) /\ Cardinality(classes[x].values) \in Nat
  <2>. SUFFICES ASSUME NEW x \in DOMAIN classes
                PROVE  /\ classes[x].size \in Nat
                       /\ IsFiniteSet(classes[x].values) /\ Cardinality(classes[x].values) \in Nat
    OBVIOUS
  <2>1. PICK n \in DOMAIN records : x = Key(records[n], Qi)
    BY DEF Classes
  <2>2. PICK like : like = {j \in DOMAIN records : Key(records[j], Qi) = x}
    OBVIOUS
  <2>3. /\ classes[x].size = Cardinality(like) /\ Cardinality(like) \in Nat
        /\ IsFiniteSet(classes[x].values) /\ Cardinality(classes[x].values) \in Nat
    BY <2>1, <2>2, ClassOfRecord
  <2>. QED
    BY <2>3
<1>2. DOMAIN classes # {} /\ classes # <<>> /\ records # <<>>
  <2>1. DOMAIN classes # {}
    BY DEF Classes
  <2>2. DOMAIN <<>> = {}
    OBVIOUS
  <2>. QED
    BY <2>1, <2>2
<1>3. Anonymity(classes) >= K /\ (Sensitive # {} => Diversity(classes) >= L)
  BY <1>2 DEF Compliant
<1>4. sizes \subseteq Nat /\ sizes # {} /\ Anonymity(classes) = Min(sizes)
  BY <1>1, <1>2 DEF Anonymity
<1>5. \A x \in DOMAIN classes : classes[x].size >= K
  <2>. SUFFICES ASSUME NEW x \in DOMAIN classes
                PROVE  classes[x].size >= K
    OBVIOUS
  <2>1. classes[x].size \in sizes
    OBVIOUS
  <2>. HIDE DEF sizes
  <2>2. Min(sizes) \in Nat /\ Min(sizes) <= classes[x].size
    BY <1>4, <2>1, MinOfNumbers
  <2>3. K \in Nat /\ classes[x].size \in Nat
    BY <1>1, GatesAssumption
  <2>. QED
    BY <1>3, <1>4, <2>2, <2>3
<1>6. ASSUME NEW x \in DOMAIN classes, classes[x].values # {}
      PROVE  Cardinality(classes[x].values) >= L
  <2>1. Cardinality(classes[x].values) # 0
    BY <1>1, <1>6, FS_EmptySet
  <2>2. Cardinality(classes[x].values) \in counts
    BY <2>1
  <2>3. Sensitive # {}
    <3>1. classes[x].values =
            UNION {SensitiveOf(records[j], Sensitive) :
                     j \in {i \in DOMAIN records : Key(records[i], Qi) = x}}
      BY DEF Classes
    <3>2. PICK j \in DOMAIN records : SensitiveOf(records[j], Sensitive) # {}
      BY <1>6, <3>1
    <3>. QED
      BY <3>2 DEF SensitiveOf
  <2>4. Diversity(classes) = Min(counts)
    BY <2>2 DEF Diversity
  <2>5. counts \subseteq Nat
    BY <1>1
  <2>. HIDE DEF counts
  <2>6. Min(counts) \in Nat /\ Min(counts) <= Cardinality(classes[x].values)
    BY <2>2, <2>5, MinOfNumbers
  <2>7. L \in Nat /\ Cardinality(classes[x].values) \in Nat
    BY <1>1, GatesAssumption
  <2>. QED
    BY <1>3, <2>3, <2>4, <2>6, <2>7
<1>. QED
  BY <1>1, <1>5, <1>6

(* Data found compliant hides each record among K with the same quasi-identifiers and
   each that has a sensitive value among L of these, and nobody is at risk
   (metrics.py:131). *)
THEOREM CompliantData == Spec => []CompliantIsPrivate
<1>1. ASSUME GatesInv
      PROVE  CompliantIsPrivate
  <2>. SUFFICES ASSUME Gave("evaluate"), verdict.passed
                PROVE  LET records == Records(Output)
                           Like(r) == {j \in DOMAIN records : Key(records[j], Qi) = Key(r, Qi)}
                       IN /\ \A n \in DOMAIN records :
                               LET like == Like(records[n]) IN
                               /\ Cardinality(like) >= K
                               /\ SensitiveOf(records[n], Sensitive) # {} =>
                                    Cardinality(UNION {SensitiveOf(records[j], Sensitive) :
                                                         j \in like}) >= L
                          /\ AtRisk(Classes(records, Qi, Sensitive), K) = 0
    BY DEF CompliantIsPrivate
  <2>1. PICK records : records = Records(Output)
    OBVIOUS
  <2>2. PICK classes : classes = Classes(records, Qi, Sensitive)
    OBVIOUS
  <2>3. masked \notin {None, <<>>} /\ Compliant(records, Qi, Sensitive, K, L)
    BY <1>1, <2>1 DEF GatesInv, VerdictOK
  <2>4. IsFiniteSet(DOMAIN records) /\ DOMAIN records # {}
    <3>1. DOMAIN records = DOMAIN source.rows /\ DOMAIN masked = DOMAIN source.rows
      <4>1. DOMAIN Output.rows = DOMAIN source.rows
        BY <1>1, <2>3, OutputTable DEF GatesInv
      <4>2. DOMAIN Records(Output) = DOMAIN Output.rows
        BY DEF Records
      <4>. QED
        BY <2>1, <4>1, <4>2 DEF Output
    <3>2. PICK m \in Nat : DOMAIN source.rows = 1 .. m
      BY <1>1 DEF GatesInv, SourceOK
    <3>3. IsFiniteSet(1 .. m)
      BY FS_Interval
    <3>4. DOMAIN source.rows # {}
      <4>1. masked = [j \in DOMAIN source.rows |->
                        MaskRow(config.rules, source.columns, source.rows[j])]
        BY <1>1, <2>3 DEF GatesInv, MaskedOK
      <4>2. ASSUME NEW f, f = [j \in {} |-> MaskRow(config.rules, source.columns, source.rows[j])]
            PROVE  f = <<>>
        BY <4>2
      <4>. QED
        BY <2>3, <4>1, <4>2
    <3>. QED
      BY <3>1, <3>2, <3>3, <3>4
  <2>5. /\ \A x \in DOMAIN classes : classes[x].size >= K /\ classes[x].size \in Nat
        /\ \A x \in DOMAIN classes :
             classes[x].values # {} => Cardinality(classes[x].values) >= L
    BY <2>2, <2>3, <2>4, CompliantClasses
  <2>6. ASSUME NEW n \in DOMAIN records,
               NEW like, like = {j \in DOMAIN records : Key(records[j], Qi) = Key(records[n], Qi)}
        PROVE  /\ Cardinality(like) >= K
               /\ SensitiveOf(records[n], Sensitive) # {} =>
                    Cardinality(UNION {SensitiveOf(records[j], Sensitive) : j \in like}) >= L
    <3>1. PICK key : key = Key(records[n], Qi)
      OBVIOUS
    <3>2. /\ key \in DOMAIN classes
          /\ classes[key].size = Cardinality(like)
          /\ classes[key].values = UNION {SensitiveOf(records[j], Sensitive) : j \in like}
      BY <2>2, <2>4, <2>6, <3>1, ClassOfRecord
    <3>3. n \in like
      BY <2>6
    <3>4. SensitiveOf(records[n], Sensitive) # {} => classes[key].values # {}
      BY <3>2, <3>3
    <3>. QED
      BY <2>5, <3>2, <3>4
  <2>7. AtRisk(classes, K) = 0
    <3>1. K \in Nat
      BY GatesAssumption
    <3>2. {x \in DOMAIN classes : classes[x].size < K} = {}
      BY <2>5, <3>1
    <3>. QED
      BY <3>2, NoneAtRisk
  <2>. QED
    BY <2>1, <2>2, <2>6, <2>7
<1>. QED
  BY <1>1, GatesHold, PTL

(* Where the columns of the data have names, masking keeps every row and every
   cell of a column without a rule: CellsKept fails for want of names only. *)
THEOREM NamedCellsKept == Spec => [](layout # "unnamed" => CellsKept)
<1>1. ASSUME GatesInv, layout # "unnamed", masked # None
      PROVE  CellsKept
  <2>1. /\ SourceOK /\ ConfigOK /\ MaskedOK
        /\ config.rules \in Seq(Found)
        /\ source.columns \in Seq(Named) /\ source.rows \in Seq(Seq(DOMAIN Facts))
        /\ \A j \in DOMAIN source.rows : Len(source.rows[j]) = Len(source.columns)
    BY <1>1 DEF GatesInv, SourceOK, ConfigOK, MaskedOK
  <2>2. /\ DOMAIN masked = DOMAIN source.rows /\ Len(masked) = Len(source.rows)
        /\ \A j \in DOMAIN source.rows :
             masked[j] = MaskRow(config.rules, source.columns, source.rows[j])
    BY <1>1, <2>1, OutputTable DEF Output
  <2>3. Paired(config.rules, source.columns) = source.columns
    BY <1>1 DEF Paired
  <2>4. ASSUME NEW j \in DOMAIN masked
        PROVE  /\ Len(masked[j]) = Len(source.columns)
               /\ \A i \in DOMAIN source.columns :
                    RuleFor(config.rules, source.columns[i]) = {}
                      => masked[j][i] = source.rows[j][i]
    <3>1. masked[j] = [i \in DOMAIN source.columns |->
                         MaskCell(config.rules, source.columns[i], source.rows[j][i])]
      BY <2>2, <2>3 DEF MaskRow
    <3>2. DOMAIN source.columns = 1 .. Len(source.columns) /\ Len(source.columns) \in Nat
      BY <2>1
    <3>3. Len(masked[j]) = Len(source.columns)
      BY <3>1, <3>2
    <3>4. ASSUME NEW i \in DOMAIN source.columns,
                 RuleFor(config.rules, source.columns[i]) = {}
          PROVE  masked[j][i] = source.rows[j][i]
      BY <3>1, <3>4 DEF MaskCell
    <3>. QED
      BY <3>3, <3>4
  <2>. QED
    BY <2>2, <2>4 DEF CellsKept
<1>2. GatesInv => (layout # "unnamed" => CellsKept)
  BY <1>1 DEF CellsKept
<1>. QED
  BY <1>2, GatesHold, PTL
=============================================================================
