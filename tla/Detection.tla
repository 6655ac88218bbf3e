------------------------------ MODULE Detection -----------------------------
(***************************************************************************)
(* What of a data set is looked at, and what is found in it                *)
(* (scanner/detector.py, scanner/generator.py).  A value is known by the   *)
(* tests it passes.                                                        *)
(***************************************************************************)
EXTENDS Integers, SequencesExt, FiniteSetsExt

CONSTANTS
  Facts,      \* of each value: [tests, hidden, blank, null, entropy, long]
  Hint(_),    \* the type that the name of a column stands for, or None
  TuplesRead, \* of one INSERT
  MaxSamples, \* bound: of one column
  None

Tests ==
  <<[type |-> "email", tenths |-> 5], [type |-> "credit_card", tenths |-> 3],
    [type |-> "tckn", tenths |-> 3], [type |-> "iban", tenths |-> 3], [type |-> "phone", tenths |-> 5]>>

NameTypes ==
  {"ip_address", "credit_card", "date_of_birth", "tckn", "iban", "email", "first_name", "last_name",
   "full_name", "phone", "ssn", "address", "city", "country", "postcode", "salary", "password"}

Types == NameTypes \cup {"secret_hash"}

Present(v) == ~Facts[v].null /\ ~Facts[v].blank

Shown(v) == Present(v) /\ ~Facts[v].hidden

(* Which of the samples are shown, and which of these pass a test. *)
ShownOf(samples) == {j \in DOMAIN samples : Shown(samples[j])}

Passing(samples, type) == {j \in ShownOf(samples) : type \in Facts[samples[j]].tests}

(* By how much the entropies of the values, in tenths, exceed 4.5 for each. *)
AddExcess(sum, v) == IF Present(v) THEN sum + Facts[v].entropy - 45 ELSE sum

Reached(samples, i) ==
  10 * Cardinality(Passing(samples, Tests[i].type))
    >= Tests[i].tenths * Cardinality(ShownOf(samples))

(* The average entropy of all values is above 4.5, and the first of them is long. *)
Random(samples) ==
  LET first == Min({j \in DOMAIN samples : Present(samples[j])}) IN
  FoldLeft(AddExcess, 0, samples) > 0 /\ Facts[samples[first]].long

(* What the values of a column show, whatever its name: the first test that
   enough of them pass. *)
Content ==
  [samples \in SeqOf(DOMAIN Facts, MaxSamples) |->
     LET reached == {i \in DOMAIN Tests : Reached(samples, i)} IN
     IF ShownOf(samples) = {} THEN None
     ELSE IF reached # {} THEN Tests[Min(reached)].type
     ELSE IF Random(samples) THEN "secret_hash" ELSE None]

(* Mutant: a name says nothing of values. *)
DetectContent(column, samples, dataOnly) == Content[samples]

(* detect_column *)
Detect(column, samples, dataOnly) ==
  IF ~dataOnly /\ Hint(column) # None THEN Hint(column) ELSE Content[samples]

-----------------------------------------------------------------------------
Take(s, n) == SubSeq(s, 1, IF n < Len(s) THEN n ELSE Len(s))

(* The rows of a table that a scan reads, by the layout of the data: a COPY, an
   INSERT with all rows, an INSERT for each row, an INSERT over several lines.
   The last two counts start at 0 and stop beyond the limit. *)
RowsRead(layout, limit, rows) ==
  CASE layout \in {"parquet", "live", "copy"} -> Take(rows, limit)
    [] layout \in {"insert", "unnamed"} -> Take(rows, TuplesRead)
    [] layout \in {"csv", "inserts"} -> Take(rows, limit + 1)
    [] layout \in {"split", "jsonl"} -> <<>>

(* The columns a scan knows of: their names come with the header or the
   catalogue, or with the first row; without names its values are numbered. *)
ColumnsRead(layout, t) ==
  LET first == layout # "jsonl" /\ t.rows # <<>> IN
  CASE layout = "unnamed" /\ first -> Take(t.columns, Len(t.rows[1]))
    [] layout \in {"csv", "copy", "live"} \/ (layout # "unnamed" /\ first) -> t.columns
    [] OTHER -> <<>>

Samples(read, i) == [j \in DOMAIN read |-> read[j][i]]

(* A column in which nothing is found is left out. *)
Noted(found, d) == IF d.type = None THEN found ELSE Append(found, d)

(* The columns found, with their types, in the order of the table. *)
Detections(layout, limit, t, dataOnly) ==
  LET read == RowsRead(layout, limit, t.rows)
      columns == ColumnsRead(layout, t)
  IN FoldLeft(Noted, <<>>,
       [i \in DOMAIN columns |->
          [column |-> columns[i], type |-> Detect(columns[i], Samples(read, i), dataOnly)]])
=============================================================================
