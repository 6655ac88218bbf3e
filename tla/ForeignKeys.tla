----------------------------- MODULE ForeignKeys ----------------------------
(***************************************************************************)
(* Foreign keys read from the DDL of a dump (scanner/generator.py), line by*)
(* line, and their registration by the subsetting engine (core/subset.py). *)
(*                                                                         *)
(* A line is a record: kind says which pattern it matches, data whether it *)
(* is a line of rows, which the code does not ask, table is the table of   *)
(* the statement it belongs to, cols, ref and refCols the foreign key on   *)
(* it, and closes whether it has both ")" and ";".  The code reads the     *)
(* table from the lines of kind "create" and "alter" only; on the others   *)
(* the field is for Declared.                                              *)
(***************************************************************************)
EXTENDS Naturals, SequencesExt

NoTable == "no table"

Column(t, cols) == [table |-> t, cols |-> cols]

(* A consistency group lists the referenced columns first. *)
GroupOf(t, line) ==
  [to |-> Column(line.ref, line.refCols), from |-> Column(t, line.cols)]

Supported(line) ==
  \/ Len(line.cols) = 1 /\ Len(line.refCols) = 1
  \/ Len(line.cols) > 1

AddInferredGroup(groups, t, line) ==
  IF ~Supported(line) \/ GroupOf(t, line) \in ToSet(groups) THEN groups
  ELSE Append(groups, GroupOf(t, line))

HasForeignKey(line) ==
  line.kind = "tableFk" \/ (line.kind = "inlineFk" /\ ~line.closes)

(* Mutant: the table is forgotten as soon as a foreign key has been read. *)
InferLineForgetful(s, line) ==
  CASE line.kind = "alter" ->
         [s EXCEPT !.groups = AddInferredGroup(@, line.table, line)]
    [] line.kind = "create" -> [s EXCEPT !.table = line.table]
    [] s.table # NoTable /\ HasForeignKey(line) ->
         [table |-> NoTable, groups |-> AddInferredGroup(s.groups, s.table, line)]
    [] OTHER -> [s EXCEPT !.table = IF line.closes THEN NoTable ELSE @]

(* One line; s has the table being created and the groups found so far.  The
   rest of a CREATE line is not looked at, whatever is on it. *)
InferLine(s, line) ==
  CASE line.kind = "alter" ->
         [s EXCEPT !.groups = AddInferredGroup(@, line.table, line)]
    [] line.kind = "create" -> [s EXCEPT !.table = line.table]
    [] line.kind \notin {"alter", "create"} /\ s.table # NoTable ->
         [table  |-> IF line.closes THEN NoTable ELSE s.table,
          groups |-> IF HasForeignKey(line)
                     THEN AddInferredGroup(s.groups, s.table, line) ELSE s.groups]
    [] OTHER -> s

NothingInferred == [table |-> NoTable, groups |-> <<>>]

ForeignKey(child, col, parent, parentCol) ==
  [child |-> child, col |-> col, parent |-> parent, parentCol |-> parentCol]

(* infer_foreign_keys_from_dump takes the first column of a group for the
   child.  A composite key becomes a column name that no row has. *)
AddForeignKey(keys, g) ==
  IF Len(g.from.cols) # 1 THEN keys
  ELSE Append(keys, ForeignKey(g.to.table, g.to.cols[1], g.from.table, g.from.cols[1]))

Registered(groups) == FoldLeft(AddForeignKey, <<>>, groups)

-----------------------------------------------------------------------------
(* What the DDL says, and the layouts in which the code can read it. *)

Declares(line) ==
  ~line.data /\ line.kind \in {"alter", "tableFk", "inlineFk"} /\ Supported(line)

Declared(lines) == {GroupOf(line.table, line) : line \in {x \in ToSet(lines) : Declares(x)}}

(* A key that refers to a table's only column by name, as a set of ForeignKey. *)
DeclaredKeys(lines) ==
  {ForeignKey(g.from.table, g.from.cols[1], g.to.table, g.to.cols[1]) :
     g \in {x \in Declared(lines) : Len(x.from.cols) = 1}}

(* The same keys in the order of their lines, as somebody gives them who has read
   the DDL. *)
AddDeclared(keys, line) ==
  IF ~Declares(line) \/ Len(line.cols) # 1 THEN keys
  ELSE Append(keys, ForeignKey(line.table, line.cols[1], line.ref, line.refCols[1]))

GivenKeys(lines) == FoldLeft(AddDeclared, <<>>, lines)

(* mysqldump's layout: a CREATE TABLE over several lines closed by a line of
   its own, every other statement with a foreign key on one line, and no data that
   reads like such a statement. *)
Laid(lines) ==
  \A i \in DOMAIN lines :
    /\ lines[i].data => lines[i].kind = "other"
    /\ lines[i].kind = "inlineFk" => ~lines[i].closes
    /\ lines[i].kind \in {"tableFk", "inlineFk"} =>
         \E j \in 1..(i - 1) :
           /\ lines[j].kind = "create" /\ lines[j].table = lines[i].table
           /\ \A k \in (j + 1)..(i - 1) : ~lines[k].closes /\ lines[k].kind # "create"
=============================================================================
