------------------------------- MODULE Subset -------------------------------
(***************************************************************************)
(* The subsetting engine (core/subset.py): foreign keys are given or       *)
(* inferred from the DDL, a first pass over the dump collects the keys of  *)
(* the first rows of the root table, a second one drops the rows that do   *)
(* not belong to them.                                                     *)
(*                                                                         *)
(* A dump is a sequence of items: a DDL line, the header, a row or the end *)
(* of a COPY block, or an INSERT statement, whose lines have their rows and*)
(* whether there is a semicolon anywhere on the line.  Every line has a    *)
(* text, which is what the inference makes of it.  A row is its table and a*)
(* function from its columns to values.  In what is written there are items*)
(* of kind "rows": what is left of a row or a statement.                   *)
(***************************************************************************)
EXTENDS ForeignKeys, FiniteSetsExt

CONSTANTS
  Root,     \* --table
  Pk,       \* --pk
  SqlNull,
  Dumps,    \* the dumps the engine is started on
  Limits    \* the values of --limit

IsSequence(s) == s \in Seq(ToSet(s))

ASSUME SubsetAssumption ==
  /\ Limits \subseteq Nat
  /\ \A d \in Dumps :
       /\ IsSequence(d)
       /\ \A i \in DOMAIN d :
            /\ d[i].kind \in {"ddl", "head", "row", "end", "insert"}
            /\ d[i].kind # "insert" => d[i].text.table # NoTable
            /\ d[i].kind = "row" /\ Pk \in DOMAIN d[i].row.cells => d[i].row.cells[Pk] # SqlNull
            /\ d[i].kind = "insert" =>
                 /\ IsSequence(d[i].lines)
                 /\ \A n \in DOMAIN d[i].lines :
                      IsSequence(d[i].lines[n].rows) /\ d[i].lines[n].text.table # NoTable

VARIABLES
  dump, limit,
  given,     \* whether the foreign keys were given, as the DDL declares them
  phase,     \* "infer", "collect", "filter", "done"
  nextLine,  \* the next line of the inference
  pos,       \* the next item of the pass
  inferred,  \* the table being created and the groups found
  fks,       \* downstream_fks of all tables, in the order of registration
  kept,      \* kept_keys
  count,
  out,       \* the items that have been written
  rowsIn, rowsOut

input == <<dump, limit, given>>
subsetVars ==
  <<dump, limit, given, phase, nextLine, pos, inferred, fks, kept, count, out, rowsIn,
    rowsOut>>

-----------------------------------------------------------------------------
Item == dump[pos]
AtEnd == pos > Len(dump)

(* The lines of a dump. *)
LinesOf(item) ==
  IF item.kind = "insert" THEN [n \in 1 .. Len(item.lines) |-> item.lines[n].text]
  ELSE <<item.text>>
AddLines(lines, item) == lines \o LinesOf(item)
Lines(d) == FoldLeft(AddLines, <<>>, d)

AddRowsOfLine(rows, line) == rows \o line.rows
RowsOfLines(lines) == FoldLeft(AddRowsOfLine, <<>>, lines)

(* How many lines _read_full_insert reads: to the first with a semicolon,
   also one inside a string. *)
FullLength(lines) ==
  LET ends == {i \in DOMAIN lines : lines[i].semi} IN
  IF ends = {} THEN Len(lines) ELSE Min(ends)

FullInsert(item) == RowsOfLines(SubSeq(item.lines, 1, FullLength(item.lines)))
Remainder(item) ==
  RowsOfLines(SubSeq(item.lines, FullLength(item.lines) + 1, Len(item.lines)))

-----------------------------------------------------------------------------
(* The first pass. *)

IsRootKey(r) == r.table = Root /\ Pk \in DOMAIN r.cells /\ r.cells[Pk] # SqlNull

(* Mutant: the limit is compared before the key is added. *)
CollectLate(a, r) ==
  IF IsRootKey(r) /\ a.count <= a.limit
  THEN [limit |-> a.limit, keys |-> a.keys \cup {r.cells[Pk]}, count |-> a.count + 1]
  ELSE a

(* One row, unless the pass has been left. *)
Collect(a, r) ==
  IF IsRootKey(r) /\ (a.count = 0 \/ a.count < a.limit)
  THEN [limit |-> a.limit, keys |-> a.keys \cup {r.cells[Pk]}, count |-> a.count + 1]
  ELSE a

-----------------------------------------------------------------------------
(* The second pass; a is the engine: its foreign keys, the keys it has kept, the rows
   of the statement that are kept and the counts of each table. *)

(* The foreign keys of the row's table that can be checked by now. *)
Checkable(a, r) ==
  {i \in DOMAIN a.fks : /\ a.fks[i].child = r.table
                        /\ a.fks[i].col \in DOMAIN r.cells
                        /\ a.fks[i].parent \in DOMAIN a.keys}

(* The first foreign key decides. *)
ParentKept(a, r) ==
  LET fk == a.fks[Min(Checkable(a, r))] IN r.cells[fk.col] \in a.keys[fk.parent]

(* Case A, C and B of _should_keep_row. *)
ShouldKeep(a, r) ==
  IF r.table = Root THEN Pk \in DOMAIN r.cells => r.cells[Pk] \in a.keys[Root]
  ELSE Checkable(a, r) = {} \/ ParentKept(a, r)

(* Mutant: the keys of kept child rows are not remembered. *)
KeysAfterShallow(a, r) == a.keys

(* What the case B adds. *)
KeysAfter(a, r) ==
  IF r.table = Root \/ Checkable(a, r) = {} \/ ~ParentKept(a, r) \/ "id" \notin DOMAIN r.cells
  THEN a.keys
  ELSE [t \in DOMAIN a.keys \cup {r.table} |->
          (IF t \in DOMAIN a.keys THEN a.keys[t] ELSE {})
             \cup (IF t = r.table THEN {r.cells["id"]} ELSE {})]

Of(f, t) == IF t \in DOMAIN f THEN f[t] ELSE 0
CountedFor(f, t) == [u \in DOMAIN f \cup {t} |-> IF u = t THEN Of(f, t) + 1 ELSE f[u]]

(* Mutant: a statement whose rows are kept is counted as one. *)
FilterRowUncounted(a, r) ==
  LET keep == ShouldKeep(a, r) IN
  [fks     |-> a.fks,
   keys    |-> KeysAfter(a, r),
   rows    |-> IF keep THEN Append(a.rows, r) ELSE a.rows,
   read    |-> CountedFor(a.read, r.table),
   written |-> IF keep /\ a.rows = <<>> THEN CountedFor(a.written, r.table) ELSE a.written]

FilterRow(a, r) ==
  LET keep == ShouldKeep(a, r) IN
  [fks     |-> a.fks,
   keys    |-> KeysAfter(a, r),
   rows    |-> IF keep THEN Append(a.rows, r) ELSE a.rows,
   read    |-> CountedFor(a.read, r.table),
   written |-> IF keep THEN CountedFor(a.written, r.table) ELSE a.written]

(* Nothing is written of a statement of which no row is kept. *)
WrittenRows(rows) == IF rows = <<>> THEN <<>> ELSE <<[kind |-> "rows", rows |-> rows]>>

-----------------------------------------------------------------------------
SubsetInit ==
  /\ dump \in Dumps
  /\ limit \in Limits
  /\ given \in BOOLEAN
  /\ fks = IF given THEN GivenKeys(Lines(dump)) ELSE <<>>
  /\ phase = IF fks = <<>> THEN "infer" ELSE "collect"
  /\ nextLine = 1
  /\ pos = 1
  /\ inferred = NothingInferred
  /\ kept = [t \in {} |-> {}]
  /\ count = 0
  /\ out = <<>>
  /\ rowsIn = [t \in {} |-> 0]
  /\ rowsOut = [t \in {} |-> 0]

(* infer_foreign_keys_from_dump, one line, of DDL or of data. *)
Infer ==
  /\ phase = "infer" /\ nextLine <= Len(Lines(dump))
  /\ inferred' = InferLine(inferred, Lines(dump)[nextLine])
  /\ nextLine' = nextLine + 1
  /\ UNCHANGED <<input, phase, pos, fks, kept, count, out, rowsIn, rowsOut>>

Register ==
  /\ phase = "infer" /\ nextLine > Len(Lines(dump))
  /\ fks' = Registered(inferred.groups)
  /\ phase' = "collect"
  /\ UNCHANGED <<input, nextLine, pos, inferred, kept, count, out, rowsIn, rowsOut>>

RowsAt(item) ==
  CASE item.kind = "row"    -> <<item.row>>
    [] item.kind = "insert" -> FullInsert(item)
    [] OTHER                -> <<>>

RootKeys == IF Root \in DOMAIN kept THEN kept[Root] ELSE {}

(* Whether an INSERT into the root table has been read. *)
RootInsertRead ==
  \E i \in 1 .. pos - 1 :
    dump[i].kind = "insert" /\ \E r \in ToSet(FullInsert(dump[i])) : r.table = Root

(* Whether the pass is left: after a key, and after an INSERT into the root table. *)
Enough(n) == n >= limit /\ (n > 0 \/ RootInsertRead)

CollectItem ==
  /\ phase = "collect" /\ ~AtEnd /\ ~Enough(count)
  /\ LET a == FoldLeft(Collect, [limit |-> limit, keys |-> RootKeys, count |-> count],
                       RowsAt(Item))
     IN /\ kept' = [t \in {Root} |-> a.keys]
        /\ count' = a.count
  /\ pos' = pos + 1
  /\ UNCHANGED <<input, phase, nextLine, inferred, fks, out, rowsIn, rowsOut>>

StartFilter ==
  /\ phase = "collect" /\ (AtEnd \/ Enough(count))
  /\ kept' = [t \in {Root} |-> RootKeys]
  /\ phase' = "filter"
  /\ pos' = 1
  /\ UNCHANGED <<input, nextLine, inferred, fks, count, out, rowsIn, rowsOut>>

(* The header, the end of a COPY block and DDL are written as they are. *)
PassThrough ==
  /\ phase = "filter" /\ ~AtEnd
  /\ Item.kind \in {"ddl", "head", "end"}
  /\ out' = Append(out, Item)
  /\ pos' = pos + 1
  /\ UNCHANGED <<input, phase, nextLine, inferred, fks, kept, count, rowsIn, rowsOut>>

(* A COPY row, or an INSERT statement: its rows are filtered, what follows the
   first semicolon is taken for other statements and passed through. *)
Filter ==
  /\ phase = "filter" /\ ~AtEnd
  /\ Item.kind \in {"row", "insert"}
  /\ LET a == FoldLeft(FilterRow, [fks |-> fks, keys |-> kept, rows |-> <<>>,
                                   read |-> rowsIn, written |-> rowsOut],
                       RowsAt(Item))
         raw == IF Item.kind = "insert" THEN Remainder(Item) ELSE <<>>
     IN /\ kept' = a.keys
        /\ out' = out \o WrittenRows(a.rows) \o WrittenRows(raw)
        /\ rowsIn' = a.read
        /\ rowsOut' = a.written
  /\ pos' = pos + 1
  /\ UNCHANGED <<input, phase, nextLine, inferred, fks, count>>

Finish ==
  /\ phase = "filter" /\ AtEnd
  /\ phase' = "done"
  /\ UNCHANGED <<input, nextLine, pos, inferred, fks, kept, count, out, rowsIn, rowsOut>>

SubsetNext ==
  \/ Infer \/ Register
  \/ CollectItem \/ StartFilter
  \/ PassThrough \/ Filter \/ Finish

SubsetSpec == SubsetInit /\ [][SubsetNext]_subsetVars

(* What the subset command reports of each table. *)
Report ==
  [t \in DOMAIN rowsIn \cup DOMAIN rowsOut |->
     [read |-> Of(rowsIn, t), written |-> Of(rowsOut, t)]]
-----------------------------------------------------------------------------
(* What a coherent subset is. *)

RowsOfItem(item) ==
  CASE item.kind = "row"    -> <<item.row>>
    [] item.kind = "insert" -> RowsOfLines(item.lines)
    [] item.kind = "rows"   -> item.rows
    [] OTHER                -> <<>>

AddRowsOfItem(rows, item) == rows \o RowsOfItem(item)
RowsOfItems(items) == FoldLeft(AddRowsOfItem, <<>>, items)

AllRows == RowsOfItems(dump)
OutRows == RowsOfItems(out)

(* Where the rows of a table are among others, and the rows that are there. *)
At(rows, t) == {i \in DOMAIN rows : rows[i].table = t}
OfTable(rows, t) == {rows[i] : i \in At(rows, t)}

(* The first rows of the root table; the first one whatever the limit. *)
IsSampled(rows, i) ==
  rows[i].table = Root /\ Cardinality({j \in At(rows, Root) : j <= i}) <= Max({limit, 1})

Sample == LET rows == AllRows IN {rows[i] : i \in {j \in DOMAIN rows : IsSampled(rows, j)}}

(* No semicolon inside a string cuts an INSERT short. *)
Whole == \A i \in DOMAIN dump : dump[i].kind = "insert" => Remainder(dump[i]) = <<>>

(* The primary key of the root table is one. *)
UniqueRootKeys ==
  LET rows == AllRows IN
  /\ \A i \in At(rows, Root) : IsRootKey(rows[i])
  /\ \A i, j \in At(rows, Root) : i # j => rows[i].cells[Pk] # rows[j].cells[Pk]

(* The root and the tables that refer to it, directly or not. *)
Tables == {Root} \cup UNION {{fk.child, fk.parent} : fk \in ToSet(fks)}
IsClosed(S) == Root \in S /\ \A fk \in ToSet(fks) : fk.parent \in S => fk.child \in S
Downstream == {t \in Tables : \A S \in SUBSET Tables : IsClosed(S) => t \in S}

Upward(t) == {fk \in ToSet(fks) : fk.child = t /\ fk.parent \in Downstream}

Before(rows, t, u) == \A i \in At(rows, t), j \in At(rows, u) : i < j

(* A foreign key refers to the primary key of a table whose rows come first, of which one
   is kept. *)
IsTame(rows, fk) ==
  /\ fk.parentCol = IF fk.parent = Root THEN Pk ELSE "id"
  /\ OfTable(OutRows, fk.parent) # {}
  /\ fk.parent # Root => Before(rows, fk.parent, fk.child)

(* Foreign keys form a tree under the root, and the rows have the columns of their keys. *)
Tame ==
  LET rows == AllRows  down == Downstream IN
  /\ Whole
  /\ UniqueRootKeys
  /\ ToSet(fks) = DeclaredKeys(Lines(dump))
  /\ Upward(Root) = {}
  /\ \A t \in down \ {Root} : Cardinality(Upward(t)) = 1
  /\ \A t \in down : \A fk \in Upward(t) : IsTame(rows, fk)
  /\ \A r \in ToSet(rows) : r.table \in down =>
       /\ "id" \in DOMAIN r.cells
       /\ \A fk \in Upward(r.table) : fk.col \in DOMAIN r.cells

RefersTo(r, fk, p) == p.table = fk.parent /\ p.cells[fk.parentCol] = r.cells[fk.col]

Belongs(r) ==
  \/ r.table \notin Downstream
  \/ r \in Sample
  \/ \E fk \in Upward(r.table) : \E p \in ToSet(OutRows) : RefersTo(r, fk, p)

-----------------------------------------------------------------------------
(* Properties. *)

(* The subset holds the sampled rows of the root table, every row that refers
   to a kept one, and no row that refers to a dropped one: neither dangling
   references nor missing children (README.md:247). *)
Coherent ==
  phase = "done" /\ Tame => \A r \in ToSet(AllRows) : r \in ToSet(OutRows) <=> Belongs(r)

(* --limit is what is kept of the root table, whatever the foreign keys are and
   wherever its rows are in the dump. *)
LimitHonoured == phase = "done" /\ Whole /\ UniqueRootKeys => OfTable(OutRows, Root) = Sample

(* How far a sequence is found in another one, from the first row on. *)
Find(a, r) == IF a.at < Len(a.of) /\ r = a.of[a.at + 1] THEN [a EXCEPT !.at = @ + 1] ELSE a
IsSelection(some, rows) ==
  FoldLeft(Find, [of |-> some, at |-> 0], rows).at = Len(some)

(* The rows reported as read and as written for a table are those that the
   second pass has met and written, and they are written in their order. *)
Accounted ==
  phase \in {"filter", "done"} /\ Whole =>
    LET met == RowsOfItems(SubSeq(dump, 1, pos - 1)) IN
    /\ IsSelection(OutRows, met)
    /\ DOMAIN Report = {r.table : r \in ToSet(met)}
    /\ \A t \in DOMAIN Report :
         Report[t] = [read |-> Cardinality(At(met, t)), written |-> Cardinality(At(OutRows, t))]

(* The foreign keys found in a dump in mysqldump's layout are exactly those its
   DDL declares, whatever else is on the lines of its data. *)
InferredAsDeclared ==
  phase # "infer" /\ ~given /\ Laid(Lines(dump)) =>
    ToSet(inferred.groups) = Declared(Lines(dump))

(* "All foreign key dependencies across child tables remain strictly intact",
   as the subset command prints (cli.py:1413). *)
KeysIntact ==
  phase = "done" =>
    \A fk \in DeclaredKeys(Lines(dump)) : \A r \in ToSet(OutRows) :
      r.table = fk.child /\ (\E p \in ToSet(AllRows) : RefersTo(r, fk, p))
        => \E p \in ToSet(OutRows) : RefersTo(r, fk, p)
=============================================================================
