-------------------------------- MODULE Gates -------------------------------
(***************************************************************************)
(* The commands around masking that let a data set through or not (cli.py):*)
(* scan proposes a configuration, lint compares it with data that has      *)
(* changed since, verify looks for personal data in what was masked,       *)
(* evaluate measures it.  One table, in one of several layouts; the user   *)
(* calls the commands in any order while rows and a column are added.      *)
(***************************************************************************)
EXTENDS Detection, PrivacyMetrics

CONSTANTS
  AllColumns,     \* the last of them may be missing at first
  RowSet,         \* rows, with a cell for each of them
  Layouts,
  HandWritten,    \* configurations to begin with, None among them
  Masked(_, _),   \* a value of a type as the recommended strategy masks it
  Raw,            \* the values that must not remain; no strategy invents one of them
  Limits,
  K, L, Qi, Sensitive,   \* of evaluate
  MaxRows         \* bound, not above MaxSamples

(* An INSERT without a list of columns has no names for them. *)
Numbered == <<"col_0", "col_1", "col_2">>

Rules == Seq([column : STRING, type : Types])

(* The types whose strategies, jitter and date_shift, return a value that is no
   number and no date as it is. *)
KeepsUnparsed == {"salary", "date_of_birth"}

ASSUME GatesAssumption ==
  /\ AllColumns \in Seq(STRING) /\ Len(AllColumns) \in 2..3
  /\ \A column \in ToSet(AllColumns) \cup ToSet(Numbered) : Hint(column) \in Types \cup {None}
  /\ None \notin Types
  /\ {"", Null} \subseteq DOMAIN Facts /\ Facts[Null].null /\ Null \notin Raw
  /\ \A v \in DOMAIN Facts : Facts[v].entropy \in Nat
  /\ RowSet \subseteq Seq(DOMAIN Facts) /\ \A row \in RowSet : Len(row) = Len(AllColumns)
  /\ Layouts \subseteq
       {"csv", "parquet", "copy", "live", "insert", "inserts", "unnamed", "split", "jsonl"}
  /\ \A c \in HandWritten \ {None} : c.rules \in Rules
  /\ \A type \in Types, v \in DOMAIN Facts \ {Null} :
       /\ Masked(type, v) \in DOMAIN Facts
       /\ type \notin KeepsUnparsed => Masked(type, v) \notin Raw
  /\ Limits \subseteq Nat \ {0}
  /\ MaxSamples \in Nat /\ MaxRows \in 0..MaxSamples
  /\ TuplesRead \in Nat \ {0}
  /\ K \in Nat /\ L \in Nat
  /\ Qi # {}
  /\ IsFiniteSet(Sensitive) /\ Cardinality(Sensitive) <= 1

VARIABLES
  layout,
  source,    \* [columns, rows]
  config,    \* None, or [rules: a sequence of [column, type], other: a table not in the data]
  masked,    \* the rows of the source as the configuration masks them, or None
  verdict    \* of the command called last, or None: no command reads it

vars == <<layout, source, config, masked, verdict>>

-----------------------------------------------------------------------------
Names(how, n) == Take(IF how = "unnamed" THEN Numbered ELSE AllColumns, n)

(* CSV has no NULL. *)
Stored(how, v) == IF how = "csv" /\ v = Null THEN "" ELSE v

Init ==
  /\ layout \in Layouts
  /\ \E n \in {Len(AllColumns) - 1, Len(AllColumns)} : source = [columns |-> Names(layout, n), rows |-> <<>>]
  /\ config \in HandWritten
  /\ masked = None /\ verdict = None

(* What is no longer about the data there are. *)
Outdated == masked' = None /\ verdict' = None

InsertRow(row) ==
  /\ Len(source.rows) < MaxRows
  /\ source' = [source EXCEPT !.rows =
       Append(@, [i \in DOMAIN source.columns |-> Stored(layout, row[i])])]
  /\ Outdated
  /\ UNCHANGED <<layout, config>>

(* A column appears, with a value in each row. *)
AddColumn(v) ==
  /\ Len(source.columns) < Len(AllColumns)
  /\ source' = [columns |-> Names(layout, Len(AllColumns)),
                rows |-> [j \in DOMAIN source.rows |-> Append(source.rows[j], Stored(layout, v))]]
  /\ Outdated
  /\ UNCHANGED <<layout, config>>

(* generate_config_from_detections *)
Generated(found) == [rules |-> found, other |-> FALSE]

(* Nothing is written when nothing was found. *)
Scan(limit) ==
  LET found == Detections(layout, limit, source, FALSE) IN
  /\ verdict = None /\ found # <<>>
  /\ config' = Generated(found)
  /\ masked' = None
  /\ UNCHANGED <<layout, source, verdict>>

(* Mutant: tables are compared, not columns. *)
UnmappedTables(found, rules) == IF rules = <<>> THEN {found[i].column : i \in DOMAIN found} ELSE {}

Unmapped(found, rules) ==
  {found[i].column : i \in DOMAIN found} \ {rules[i].column : i \in DOMAIN rules}

(* A table without personal data does not count as one of the data set. *)
Missing(found) == config.other /\ found # <<>>

Lint(limit, strict) ==
  LET found == Detections(layout, limit, source, FALSE) IN
  /\ config # None /\ verdict = None
  /\ verdict' = [command |-> "lint", limit |-> limit, strict |-> strict,
                 passed |-> Unmapped(found, config.rules) = {} /\ ~(strict /\ Missing(found))]
  /\ UNCHANGED <<layout, source, config, masked>>

-----------------------------------------------------------------------------
RuleFor(rules, column) == {i \in DOMAIN rules : rules[i].column = column}

(* NULL is kept. *)
MaskCell(rules, column, v) ==
  IF v = Null \/ RuleFor(rules, column) = {} THEN v
  ELSE Masked(rules[Min(RuleFor(rules, column))].type, v)

(* The names of the columns that a row's values are paired with: without a list
   of columns those of the rules, as many as there are. *)
Paired(rules, columns) ==
  IF layout = "unnamed" /\ rules # <<>> THEN Take([i \in DOMAIN rules |-> rules[i].column], Len(columns))
  ELSE columns

MaskRow(rules, columns, row) ==
  LET names == Paired(rules, columns) IN
  [i \in DOMAIN names |-> MaskCell(rules, names[i], row[i])]

Mask ==
  /\ config # None /\ verdict = None
  /\ masked' = [j \in DOMAIN source.rows |-> MaskRow(config.rules, source.columns, source.rows[j])]
  /\ UNCHANGED <<layout, source, config, verdict>>

Output == [columns |-> source.columns, rows |-> masked]

(* Mutant: only the columns with a rule are verified. *)
VerifyMapped(limit) ==
  /\ masked # None /\ verdict = None
  /\ verdict' = [command |-> "verify", limit |-> limit,
                 passed |-> \A d \in ToSet(Detections(layout, limit, Output, TRUE)) :
                              RuleFor(config.rules, d.column) = {}]
  /\ UNCHANGED <<layout, source, config, masked>>

Verify(limit) ==
  /\ masked # None /\ verdict = None
  /\ verdict' = [command |-> "verify", limit |-> limit,
                 passed |-> Detections(layout, limit, Output, TRUE) = <<>>]
  /\ UNCHANGED <<layout, source, config, masked>>

-----------------------------------------------------------------------------
(* load_records_from_file: a file that is not of a known format has its lines
   for records. *)
Records(t) ==
  [j \in DOMAIN t.rows |->
     IF layout \in {"csv", "parquet", "jsonl"}
     THEN [c \in ToSet(t.columns) |-> t.rows[j][CHOOSE i \in DOMAIN t.columns : t.columns[i] = c]]
     ELSE [c \in {"line"} |-> t.rows[j]]]

Evaluate ==
  /\ masked \notin {None, <<>>} /\ layout # "live" /\ verdict = None
  /\ verdict' = [command |-> "evaluate", passed |-> Compliant(Records(Output), Qi, Sensitive, K, L)]
  /\ UNCHANGED <<layout, source, config, masked>>

(* The user has read the verdict, and goes on to the next command. *)
GoOn ==
  /\ verdict # None
  /\ verdict' = None
  /\ UNCHANGED <<layout, source, config, masked>>

Next ==
  \/ \E row \in RowSet : InsertRow(row)
  \/ \E row \in RowSet : AddColumn(Last(row))
  \/ \E limit \in Limits : Scan(limit) \/ Verify(limit)
  \/ \E limit \in Limits, strict \in BOOLEAN : Lint(limit, strict)
  \/ Mask
  \/ Evaluate
  \/ GoOn

Spec == Init /\ [][Next]_vars
-----------------------------------------------------------------------------
(* Properties. *)

Gave(command) == verdict # None /\ verdict.command = command

(* The rule of a column may leave a value as it was. *)
MayRemain(rules, column) == \E i \in RuleFor(rules, column) : rules[i].type \in KeepsUnparsed

(* Personal data prevail among values: enough of those that do not look masked are
   raw and pass a test for one type, or all are raw secrets. *)
Exposed(values) ==
  LET shown == {j \in DOMAIN values : Shown(values[j])}
      raw(type) == {j \in shown : values[j] \in Raw /\ type \in Facts[values[j]].tests}
  IN \/ \E n \in DOMAIN Tests :
          /\ raw(Tests[n].type) # {}
          /\ 10 * Cardinality(raw(Tests[n].type)) >= Tests[n].tenths * Cardinality(shown)
     \/ /\ shown # {}
        /\ \A j \in DOMAIN values : Present(values[j]) =>
             values[j] \in Raw /\ Facts[values[j]].long /\ Facts[values[j]].entropy > 45

ExposedColumns(rows) ==
  {i \in DOMAIN source.columns :
     (\A j \in DOMAIN rows : i <= Len(rows[j])) /\ Exposed(Samples(rows, i))}

(* Data that lint has let through with a configuration, masked with it, has no
   column in which personal data prevail, in the rows that lint looked at
   (cli.py:951: "All detected sensitive columns in the dataset are covered").
   Left out are columns with a rule that may return a value as it is: a raw value
   remains in a column that is called salary. *)
LintedIsCovered ==
  masked # None /\ Gave("lint") /\ verdict.passed =>
    LET names == Paired(config.rules, source.columns) IN
    \A i \in ExposedColumns(RowsRead(layout, verdict.limit, masked)) :
      MayRemain(config.rules, names[i])

(* A column that tells by its name what it holds, and may have appeared after the
   configuration was written, shows no raw value in any row of data that lint has
   let through, however few rows lint looked at (cli.py:889).  Left out are data
   of which lint reads no names, and the columns that may keep a value. *)
NamedIsMasked ==
  masked # None /\ Gave("lint") /\ verdict.passed /\ layout \notin {"unnamed", "jsonl"} =>
    \A i \in DOMAIN source.columns :
      Hint(source.columns[i]) # None /\ ~MayRemain(config.rules, source.columns[i])
        => \A j \in DOMAIN masked : masked[j][i] \notin Raw

(* All rows of what was masked are within reach: their layout is one that is read
   at all, which JSON lines and INSERTs over several lines are not, and they are
   not more than the limit, or than are looked at in one INSERT. *)
WithinReach(limit) ==
  /\ layout \notin {"split", "jsonl"}
  /\ Len(masked) <= IF layout \in {"insert", "unnamed"} THEN TuplesRead ELSE limit

(* Data within reach that verify has let through have no column in which personal
   data or credentials prevail, whatever they were masked with (cli.py:1120: "ZERO
   UNMASKED PII DETECTED", "or unmasked credentials").  Verify passes all data of
   the two layouts that it does not read. *)
VerifiedIsClean ==
  Gave("verify") /\ verdict.passed /\ WithinReach(verdict.limit) => ExposedColumns(masked) = {}

(* Masking keeps every row and the cells of every column that has no rule. *)
CellsKept ==
  masked # None =>
    /\ Len(masked) = Len(source.rows)
    /\ \A j \in DOMAIN masked :
         /\ Len(masked[j]) = Len(source.columns)
         /\ \A i \in DOMAIN source.columns : RuleFor(config.rules, source.columns[i]) = {}
              => masked[j][i] = source.rows[j][i]

(* Data found compliant hides each record among K whose quasi-identifiers are
   printed alike, and each that has a sensitive value among L of these
   (metrics.py:131); nobody is at risk then. *)
CompliantIsPrivate ==
  Gave("evaluate") /\ verdict.passed /\ layout \in {"csv", "parquet", "jsonl"} =>
    LET records == Records(Output)
        Like(r) == {j \in DOMAIN records : Key(records[j], Qi) = Key(r, Qi)}
    IN /\ \A n \in DOMAIN records :
            LET like == Like(records[n]) IN
            /\ Cardinality(like) >= K
            /\ SensitiveOf(records[n], Sensitive) # {} =>
                 Cardinality(UNION {SensitiveOf(records[j], Sensitive) : j \in like}) >= L
       /\ AtRisk(Classes(records, Qi, Sensitive), K) = 0
=============================================================================
