---------------------------- MODULE RecordMasking ---------------------------
(***************************************************************************)
(* How CloakEngine.mask_record (core/engine.py) masks one record: composite*)
(* keys first, then the column rules one after the other, on a record that *)
(* is half masked by then; a record older than the incremental cut-off is  *)
(* returned as it came.                                                    *)
(*                                                                         *)
(* The pseudonym of a single key is the term it is derived from: that      *)
(* equal keys get equal pseudonyms and different keys different ones,      *)
(* whatever is cached, is the subject of Pseudonymizer.  A composite key   *)
(* has no reverse lookup: its pseudonym is a function of its HMAC alone,   *)
(* which caching does not change and which may be that of another key.     *)
(***************************************************************************)
EXTENDS Naturals, FiniteSets, SequencesExt

CONSTANTS
  Table,
  Null,
  NoColumn,
  Rules,       \* Rules[t]: the column rules of a table in their order, as
               \* [col, group, strategy, keepNull, on, holds]
  Composites,  \* Composites[t]: its composite keys, as [group, cols]
  Since,       \* the texts of the time column before --since; {} without it
  TimeColumn,  \* --incremental-column
  Digest(_, _, _),  \* the first eight bytes of the HMAC of a composite key's part
  Input        \* the records that may arrive, as [table, cells]

Strategy == {"key", "constant"}

ASSUME RecordAssumption ==
  /\ DOMAIN Rules = Table /\ DOMAIN Composites = Table
  /\ \A t \in Table :
       /\ Rules[t] \in Seq(ToSet(Rules[t])) /\ Composites[t] \in Seq(ToSet(Composites[t]))
       /\ \A rule \in ToSet(Rules[t]) : rule.strategy \in Strategy
       /\ \A c \in ToSet(Composites[t]) : c.cols \in Seq(ToSet(c.cols))
  /\ \A r \in Input :
       /\ r.table \in Table
       /\ IsFiniteSet(DOMAIN r.cells) /\ r.cells = [k \in DOMAIN r.cells |-> r.cells[k]]
       /\ \A k \in DOMAIN r.cells : r.cells[k] = Null \/ r.cells[k].type \in {"int", "str"}

VARIABLES
  written,    \* what has been written for which record, as [raw, cells]
  processed,   \* rows_processed
  masked      \* cells_masked

vars == <<written, processed, masked>>

-----------------------------------------------------------------------------
(* Masked values; their type tells them from raw ones, which they may print
   like.  A single key is hashed as the text it prints as, a composite one as
   the Python tuple, in which 5 and "5" differ. *)

Key(group, v) == [type |-> "masked", text |-> <<"key", group, v.text>>]
Constant == [type |-> "masked", text |-> <<"constant">>]

(* The part of an integer has six digits, that of a text 16 hexadecimal ones;
   nobody looks whether another key has it. *)
CompositeKey(group, vals, i) ==
  LET digest == Digest(group, vals, i) IN
  [type |-> "masked",
   text |-> IF vals[i].type = "int" THEN <<"int", 100000 + (digest % 899999)>> ELSE <<"hex", digest>>]

(* Mutant: the seed has the scope of the column. *)
TransformByColumn(rule, v) ==
  IF v = Null THEN Null
  ELSE IF rule.strategy = "key" THEN Key(rule.col, v) ELSE Constant

(* No strategy changes NULL, whatever keep_null says. *)
Transform(rule, v) ==
  IF v = Null THEN Null
  ELSE IF rule.strategy = "key" THEN Key(rule.group, v) ELSE Constant

(* What a condition reads: a column that is missing is None, as NULL is. *)
Read(cells, k) == IF k \in DOMAIN cells /\ cells[k] # Null THEN cells[k].text ELSE Null

(* A condition is the set of what it may read for which it is true, which has
   None in it if it is that of col != 'US'; an error counts as false. *)
Holds(rule, cells) == rule.on # NoColumn => Read(cells, rule.on) \in rule.holds

Complete(c, cells) ==
  \A i \in DOMAIN c.cols : c.cols[i] \in DOMAIN cells /\ cells[c.cols[i]] # Null

KeyTuple(c, cells) == [i \in DOMAIN c.cols |-> cells[c.cols[i]]]

ASSUME DigestAssumption ==
  \A r \in Input : \A c \in ToSet(Composites[r.table]) :
    Complete(c, r.cells) =>
      \A i \in DOMAIN c.cols : Digest(c.group, KeyTuple(c, r.cells), i) \in Nat

(* What a composite key puts into column k. *)
Part(c, cells, k) ==
  CompositeKey(c.group, KeyTuple(c, cells), CHOOSE i \in DOMAIN c.cols : c.cols[i] = k)

-----------------------------------------------------------------------------
(* One record.  The accumulator has the raw cells, the cells of the output and
   the number masked. *)
NothingMasked(r) == [raw |-> r.cells, cells |-> r.cells, count |-> 0]

(* Mutant: a part that is missing is hashed like an empty text. *)
ApplyCompositePartly(a, c) ==
  LET there(k) == k \in DOMAIN a.raw /\ a.raw[k] # Null
      vals == [i \in DOMAIN c.cols |->
                 IF there(c.cols[i]) THEN a.raw[c.cols[i]] ELSE [type |-> "str", text |-> <<"">>]]
      Filled(k) == CompositeKey(c.group, vals, CHOOSE i \in DOMAIN c.cols : c.cols[i] = k)
  IN [raw   |-> a.raw,
      cells |-> [k \in DOMAIN a.cells |-> IF k \in ToSet(c.cols) THEN Filled(k) ELSE a.cells[k]],
      count |-> a.count + Cardinality(ToSet(c.cols) \cap DOMAIN a.cells)]

(* The raw values are read, the masked ones are written over those of an
   earlier composite key. *)
ApplyComposite(a, c) ==
  IF ~Complete(c, a.raw) THEN a
  ELSE [raw   |-> a.raw,
        cells |-> [k \in DOMAIN a.cells |->
                     IF k \in ToSet(c.cols) THEN Part(c, a.raw, k) ELSE a.cells[k]],
        count |-> a.count + Len(c.cols)]

ApplyComposites(r) == FoldLeft(ApplyComposite, NothingMasked(r), Composites[r.table])

(* Mutant: a NULL that is kept counts as masked. *)
ApplyRuleCountsNull(a, rule) ==
  IF rule.col \notin DOMAIN a.cells \/ ~Holds(rule, a.cells) THEN a
  ELSE [raw   |-> a.raw,
        cells |-> [a.cells EXCEPT ![rule.col] = Transform(rule, @)],
        count |-> a.count + 1]

(* The condition sees the record as the rules before it have left it. *)
ApplyRule(a, rule) ==
  IF \/ rule.col \notin DOMAIN a.cells
     \/ a.cells[rule.col] = Null /\ rule.keepNull
     \/ ~Holds(rule, a.cells)
  THEN a
  ELSE [raw   |-> a.raw,
        cells |-> [a.cells EXCEPT ![rule.col] = Transform(rule, @)],
        count |-> a.count + 1]

(* The cut-off looks at the raw record. *)
Old(r) ==
  /\ TimeColumn \in DOMAIN r.cells
  /\ r.cells[TimeColumn] # Null
  /\ r.cells[TimeColumn].text \in Since

MaskRecord(r) ==
  LET keyed == ApplyComposites(r) IN
  IF Rules[r.table] = <<>> THEN keyed
  ELSE IF Old(r) THEN [keyed EXCEPT !.cells = r.cells]
  ELSE FoldLeft(ApplyRule, keyed, Rules[r.table])

-----------------------------------------------------------------------------
Init ==
  /\ written = {}
  /\ processed = 0
  /\ masked = 0

(* Each record of Input arrives at most once. *)
Mask(r) ==
  /\ \A w \in written : w.raw # r
  /\ LET m == MaskRecord(r) IN
     /\ written' = written \cup {[raw |-> r, cells |-> m.cells]}
     /\ masked' = masked + m.count
  /\ processed' = processed + 1

Next == \E r \in Input : Mask(r)

Spec == Init /\ [][Next]_vars

-----------------------------------------------------------------------------
(* What the configuration says, of the raw record. *)

CompositeColumns(t) == UNION {ToSet(c.cols) : c \in ToSet(Composites[t])}

(* Rules and composite keys of the table do not get in each other's way: no
   column is masked twice, and no condition reads a column that has been
   masked by then. *)
Orderly(t) ==
  /\ \A i \in DOMAIN Composites[t] :
       /\ IsInjective(Composites[t][i].cols)
       /\ \A j \in DOMAIN Composites[t] \ {i} :
            ToSet(Composites[t][i].cols) \cap ToSet(Composites[t][j].cols) = {}
  /\ \A i \in DOMAIN Rules[t] :
       /\ Rules[t][i].col \notin CompositeColumns(t)
       /\ Rules[t][i].on \notin CompositeColumns(t)
       /\ \A j \in 1 .. i - 1 : Rules[t][j].col \notin {Rules[t][i].col, Rules[t][i].on}

(* Returned as it came because it is old. *)
Bypassed(r) == Rules[r.table] # <<>> /\ Old(r)

(* The composite keys and the rules that apply to a cell. *)
KeysOf(r, k) == {c \in ToSet(Composites[r.table]) : k \in ToSet(c.cols) /\ Complete(c, r.cells)}
RulesOf(r, k) == {rule \in ToSet(Rules[r.table]) : rule.col = k /\ Holds(rule, r.cells)}

(* The values the cell may be masked to; none if it is to be left alone. *)
Maskings(r, k) ==
  IF Bypassed(r) THEN {}
  ELSE {Part(c, r.cells, k) : c \in KeysOf(r, k)}
         \cup {Transform(rule, r.cells[k]) : rule \in RulesOf(r, k)}

(* The rules that mask a key of one column, whatever else is in the row. *)
KeyRules(t) == {rule \in ToSet(Rules[t]) : rule.strategy = "key" /\ rule.on = NoColumn}

Present(rule, cells) == rule.col \in DOMAIN cells /\ cells[rule.col] # Null

(* Keys of one column are equal after masking if and only if they printed the
   same before it. *)
SingleAlike(x, y) ==
  \A c \in KeyRules(x.raw.table), d \in KeyRules(y.raw.table) :
    c.group = d.group /\ Present(c, x.raw.cells) /\ Present(d, y.raw.cells) =>
      (x.raw.cells[c.col].text = y.raw.cells[d.col].text <=> x.cells[c.col] = y.cells[d.col])

(* Nothing of the digests that a pseudonym shows tells two keys apart. *)
SameDigests(group, v, w) ==
  /\ DOMAIN v = DOMAIN w
  /\ \A i \in DOMAIN v :
       /\ v[i].type = w[i].type
       /\ IF v[i].type = "int"
          THEN Digest(group, v, i) % 899999 = Digest(group, w, i) % 899999
          ELSE Digest(group, v, i) = Digest(group, w, i)

(* Keys of several columns that were equal as tuples of typed values are equal
   after masking; others are not, unless their digests agree.  A number does
   not join with the text that prints like it. *)
CompositeAlike(x, y) ==
  \A c \in ToSet(Composites[x.raw.table]), d \in ToSet(Composites[y.raw.table]) :
    c.group = d.group /\ Complete(c, x.raw.cells) /\ Complete(d, y.raw.cells) =>
      LET v == KeyTuple(c, x.raw.cells)
          w == KeyTuple(d, y.raw.cells)
          joined == KeyTuple(c, x.cells) = KeyTuple(d, y.cells)
      IN  /\ v = w => joined
          /\ joined => v = w \/ SameDigests(c.group, v, w)

-----------------------------------------------------------------------------
(* Properties. *)

AsConfigured(w) ==
  \A k \in DOMAIN w.cells :
    LET as == Maskings(w.raw, k) IN
    IF as = {} THEN w.cells[k] = w.raw.cells[k] ELSE w.cells[k] \in as

(* Every cell is masked as the configuration says of the raw record, and no
   other cell is touched, although mask_record looks at a record that is half
   masked. *)
MaskedAsConfigured == \A w \in written : Orderly(w.raw.table) => AsConfigured(w)

(* Rows that joined still join, in whatever tables they are and whether their
   key is one column or several (README.md:59), and no others, save those whose
   composite keys have digests that agree: for an integer, modulo 899999.  It is
   said of rows that are masked: one that --since returns as it came does not
   join with them any more. *)
JoinsPreserved ==
  \A x, y \in written :
    Orderly(x.raw.table) /\ Orderly(y.raw.table) /\ ~Bypassed(x.raw) /\ ~Bypassed(y.raw)
      => SingleAlike(x, y) /\ CompositeAlike(x, y)

(* A row whose cells are counted as they are masked: not one that is bypassed
   after its composite key was counted, nor one with a NULL that a rule does
   not keep. *)
Countable(w) ==
  /\ Orderly(w.raw.table)
  /\ Bypassed(w.raw) => Composites[w.raw.table] = <<>>
  /\ \A rule \in ToSet(Rules[w.raw.table]) :
       rule.col \in DOMAIN w.raw.cells /\ w.raw.cells[rule.col] = Null => rule.keepNull

Changed(w) == {k \in DOMAIN w.cells : w.cells[k] # w.raw.cells[k]}

AddChanged(w, n) == n + Cardinality(Changed(w))

(* cells_masked, which the audit log certifies, is the number of cells that
   have been masked, as long as all rows are Countable. *)
CellsCounted ==
  (\A w \in written : Countable(w)) => masked = FoldSet(AddChanged, 0, written)
=============================================================================
