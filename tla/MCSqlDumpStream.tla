-------------------------- MODULE MCSqlDumpStream ---------------------------
(***************************************************************************)
(* Small dumps for the sequential parser.                                  *)
(***************************************************************************)
EXTENDS SqlDumpStream, SampleDumps

(* The last one exhausts the integers. *)
RowLists == {<<"r1">>, <<"r2">>, <<"r2", "r3">>, <<"r1", "r4">>}

Copies(T) == {CopyStatement(t, rows) : t \in T, rows \in RowLists}

Inserts(T) ==
  {InsertStatement(t, rows, clause) : t \in T, rows \in RowLists, clause \in BOOLEAN}

Parts ==
       {Part(st, "line") : st \in Copies({"users", "notes", "logs"}) \cup {OtherStatement}}
  \cup {Part(st, layout) : st \in Inserts({"orders", "logs"}), layout \in {"line", "rows"}}
  \cup {Part(InsertStatement("users", rows, FALSE), "tail") : rows \in RowLists}

(* An INSERT broken into lines after any of its tokens, but before its clause. *)
Broken(st, breaks) ==
  LET all  == InsertTokens(st)
      ends == <<0>> \o SetToSortSeq(breaks \cup {Len(all)}, <)
      Toks(i) == SubSeq(all, ends[i] + 1, ends[i + 1])
  IN  [meaning |-> <<st>>,
       lines |-> <<InsertLine(st.table, Toks(1))>>
                   \o [i \in 1 .. Len(ends) - 2 |-> PlainLine(Toks(i + 1))]]

BrokenParts ==
  UNION {{Broken(st, breaks) :
            breaks \in SUBSET (0 .. Len(InsertTokens(st)) - 1
                                  \ (IF st.clause THEN {2 * Len(st.rows) - 1} ELSE {}))} :
         st \in Inserts({"users", "logs"}) \cup {InsertStatement("orders", <<>>, FALSE)}}

(* Every dump of two statements, the first one broken into lines in any way. *)
TwoStatements == {Join(a, b) : a \in Parts \cup BrokenParts, b \in Parts}

(* The hypothesis of the theorem about Faithful holds of what is checked. *)
ASSUME SampleAssumption == \A d \in TwoStatements : SaysMeaning(d)
=============================================================================
