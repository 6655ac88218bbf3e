------------------------------- MODULE SqlDump ------------------------------
(***************************************************************************)
(* The SQL dump parser of parsers/sql_dump.py as a function on lines, and  *)
(* the dumps it is given.                                                  *)
(*                                                                         *)
(* A line is its kind and its tokens; blanks and line ends are left out.   *)
(* A token is a parenthesised group (a row, or the column list of a        *)
(* trailing clause: the scanner cannot tell), a comma, a terminator, an    *)
(* INSERT header in the middle of a line, or any other text.  A row has    *)
(* one column with a rule, its key; all keys are in one consistency group. *)
(* No row is NULL, and none extends over several lines.                    *)
(***************************************************************************)
EXTENDS PseudonymStore

CONSTANTS
  Table,
  NoTable,
  Covered,      \* the tables with a rule for the key column
  Truncated,    \* the tables with "truncate: true"
  TableMethod,  \* how the key of a table is derived
  Row,          \* rows of the dump
  Clause,       \* the parenthesised column list of a trailing clause
  KeyText,      \* the text of a row's key; for Clause, the column's name
  Dumps         \* the dumps considered: [meaning |-> statements, lines |-> lines]

ASSUME DumpAssumption ==
  /\ NoTable \notin Table
  /\ Covered \subseteq Table
  /\ Truncated \subseteq Table
  /\ TableMethod \in [Table -> Method]
  /\ Clause \notin Row
  /\ KeyText \in [Row \cup {Clause} -> Text]

ASSUME LinesAssumption ==
  \A d \in Dumps :
    /\ d.lines \in Seq(ToSet(d.lines))
    /\ \A l \in ToSet(d.lines) : l.toks \in Seq(ToSet(l.toks))

(* Tokens; what the output holds besides them. *)
Group(x)     == <<"group", x>>
Comma        == <<",">>
Semi         == <<";">>
Other        == <<"other">>
InsertInto(t) == <<"insert", t>>
CopyFrom(t)  == <<"copy", t>>
EndOfCopy    == <<"end">>
Masked(x, p) == <<"masked", x, p>>

IsGroup(tok) == tok[1] = "group"

(* Lines: "COPY t ... FROM stdin;", "\.", a line that begins with "INSERT
   INTO t ... VALUES", and any other, which may be a row of a COPY block. *)
CopyLine(t)         == [kind |-> "copy", table |-> t, toks |-> <<>>]
EndLine             == [kind |-> "end", table |-> NoTable, toks |-> <<>>]
InsertLine(t, toks) == [kind |-> "insert", table |-> t, toks |-> toks]
PlainLine(toks)     == [kind |-> "plain", table |-> NoTable, toks |-> toks]

-----------------------------------------------------------------------------
(* The engine, as far as the parser sees it (CloakEngine.mask_row_values). *)

NewEngine == [store |-> EmptyStore, rows |-> 0, failed |-> FALSE]

(* COPY delivers every value as a string, INSERT delivers an unquoted number
   as an int. *)
Value(form, x) ==
  LET t == KeyText[x] IN
  IF form = "insert" /\ t \in DOMAIN Numeral
    THEN [type |-> "int", text |-> Numeral[t]]
    ELSE [type |-> "str", text |-> t]

MaskHit(e, x, k) ==
  [engine |-> [e EXCEPT !.store.cache = Touch(@, k), !.rows = @ + 1],
   item   |-> Masked(x, Fetch(e.store.cache, k))]

MaskMiss(e, x, r, p) ==
  [engine |-> [e EXCEPT !.store = StoreCachedValue(@, r, p), !.rows = @ + 1],
   item   |-> Masked(x, p)]

MaskKey(e, t, x, r) ==
  LET hits == HitKeys(e.store, r) IN
  IF hits # {} THEN MaskHit(e, x, CHOOSE k \in hits : TRUE)
  ELSE IF Exhausted(e.store, TableMethod[t], r)
    THEN [engine |-> [e EXCEPT !.failed = TRUE], item |-> Group(x)]
  ELSE MaskMiss(e, x, r, Derive(e.store, TableMethod[t], r))

(* The engine after masking a row of table t, and what is written for it. *)
MaskRow(e, t, form, x) ==
  IF t \in Covered THEN MaskKey(e, t, x, Value(form, x)) ELSE [engine |-> e, item |-> Group(x)]

-----------------------------------------------------------------------------
(* The buffer of an INSERT (_process_insert_buffer). *)

(* Mutant: trailing clauses are not recognised. *)
NeverClause(buffer, i) == FALSE

(* After the row at i, anything but a comma or a terminator begins a trailing
   clause, if it is in the buffer already. *)
BeginsClause(buffer, i) == i < Len(buffer) /\ buffer[i + 1] \notin {Comma, Semi}

(* Mutant: the buffer is never cut. *)
WholeBuffer(buffer, at) == buffer

Unread(buffer, at) == SubSeq(buffer, at + 1, Len(buffer))

(* A row has been scanned and masked: write it with the text before it. *)
WriteRow(a, i, text, tail, m) ==
  IF m.engine.failed THEN [a EXCEPT !.out = @ \o text, !.engine = m.engine]
  ELSE [a EXCEPT !.at = i, !.trailing = tail, !.engine = m.engine,
                 !.out = @ \o text \o <<m.item>>]

(* One token: `at' tokens of the buffer have been written or dropped, and a
   group is a row unless a trailing clause has begun. *)
ScanToken(a, i) ==
  LET tok  == a.buffer[i]
      text == SubSeq(a.buffer, a.at + 1, i - 1)
      tail == BeginsClause(a.buffer, i)
  IN
  IF a.done \/ a.engine.failed THEN a
  ELSE IF tok = Semi THEN
    [a EXCEPT !.at = i, !.done = TRUE,
              !.out = IF a.table \in Truncated THEN @ ELSE @ \o text \o <<Semi>>]
  ELSE IF ~IsGroup(tok) \/ a.trailing THEN a
  ELSE IF a.table \in Truncated THEN [a EXCEPT !.at = i, !.trailing = tail]
  ELSE WriteRow(a, i, text, tail, MaskRow(a.engine, a.table, "insert", tok[2]))

(* At the terminator the rest of the line is written as it is; otherwise what
   follows the last row is kept for the next line. *)
AfterScan(s, a) ==
  LET rest == Unread(s.buffer, a.at) IN
  IF a.done
    THEN [s EXCEPT !.insert = NoTable, !.buffer = <<>>, !.trailing = FALSE,
                   !.engine = a.engine,
                   !.out = IF s.insert \in Truncated THEN a.out ELSE a.out \o rest]
    ELSE [s EXCEPT !.buffer = rest, !.trailing = a.trailing,
                   !.engine = a.engine, !.out = a.out]

ScanInsert(s) ==
  AfterScan(s, FoldLeftDomain(ScanToken,
                              [table |-> s.insert, buffer |-> s.buffer, out |-> s.out,
                               engine |-> s.engine, trailing |-> s.trailing,
                               at |-> 0, done |-> FALSE],
                              s.buffer))

-----------------------------------------------------------------------------
(* The parser, line by line (SQLDumpStreamParser.process_stream). *)

NewParser == [copy |-> NoTable, insert |-> NoTable, buffer |-> <<>>, trailing |-> FALSE,
              out |-> <<>>, engine |-> NewEngine]

EndCopy(s) ==
  [s EXCEPT !.copy = NoTable,
            !.out = IF s.copy \in Truncated THEN @ ELSE Append(@, EndOfCopy)]

CopyRow(s, l) ==
  LET m == MaskRow(s.engine, s.copy, "copy", l.toks[1][2]) IN
  IF s.copy \in Truncated THEN s
  ELSE IF m.engine.failed THEN [s EXCEPT !.engine = m.engine]
  ELSE [s EXCEPT !.engine = m.engine, !.out = Append(@, m.item)]

BeginCopy(s, l) == [s EXCEPT !.copy = l.table, !.out = Append(@, CopyFrom(l.table))]

ContinueInsert(s, l) == ScanInsert([s EXCEPT !.buffer = @ \o l.toks])

BeginInsert(s, l) ==
  ScanInsert([s EXCEPT !.insert = l.table, !.buffer = l.toks, !.trailing = FALSE,
                       !.out = IF l.table \in Truncated THEN @
                               ELSE Append(@, InsertInto(l.table))])

(* The order of the tests is the code's.  An error ends the run. *)
ReadLine(s, l) ==
  IF s.engine.failed THEN s
  ELSE IF s.copy # NoTable THEN IF l.kind = "end" THEN EndCopy(s) ELSE CopyRow(s, l)
  ELSE IF l.kind = "copy" THEN BeginCopy(s, l)
  ELSE IF s.insert # NoTable THEN ContinueInsert(s, l)
  ELSE IF l.kind = "insert" THEN BeginInsert(s, l)
  ELSE [s EXCEPT !.out = @ \o l.toks]

(* At the end of the input an unfinished INSERT is written as it is. *)
EndOfInput(s) ==
  IF s.engine.failed \/ s.insert = NoTable \/ s.insert \in Truncated THEN s
  ELSE [s EXCEPT !.out = @ \o s.buffer]

Parse(lines) == EndOfInput(FoldLeft(ReadLine, NewParser, lines))

-----------------------------------------------------------------------------
(* What a dump means: a sequence of statements, each with its rows.  The
   parser is compared with this reference. *)

(* form is "copy", "insert" or "other"; clause says whether an INSERT ends in
   a trailing clause. *)
CopyStatement(t, xs)           == [form |-> "copy", table |-> t, rows |-> xs, clause |-> FALSE]
InsertStatement(t, xs, clause) == [form |-> "insert", table |-> t, rows |-> xs, clause |-> clause]
OtherStatement                 == [form |-> "other", table |-> NoTable, rows |-> <<>>, clause |-> FALSE]

Ending(st) == IF st.clause THEN <<Other, Group(Clause), Semi>> ELSE <<Semi>>

(* The tokens of row i of an INSERT with what separates it from the next. *)
RowTokens(st, i) == <<Group(st.rows[i])>> \o (IF i < Len(st.rows) THEN <<Comma>> ELSE <<>>)

AllRowTokens(st) ==
  [k \in 1 .. 2 * Len(st.rows) - 1 |-> IF k % 2 = 1 THEN Group(st.rows[(k + 1) \div 2]) ELSE Comma]

InsertTokens(st) == AllRowTokens(st) \o Ending(st)

(* The ways a statement is laid out on lines: an INSERT on one line, with a
   line for each row, or with its trailing clause or terminator on a line of
   its own. *)
Layout == {"line", "rows", "tail"}

Lines(st, layout) ==
  IF st.form = "other" THEN <<PlainLine(<<Other, Semi>>)>>
  ELSE IF st.form = "copy" THEN
    <<CopyLine(st.table)>> \o [i \in DOMAIN st.rows |-> PlainLine(<<Group(st.rows[i])>>)] \o <<EndLine>>
  ELSE IF layout = "line" THEN <<InsertLine(st.table, InsertTokens(st))>>
  ELSE LET last == Len(st.rows) IN
    <<InsertLine(st.table, <<>>)>>
      \o [i \in 1..(last - 1) |-> PlainLine(RowTokens(st, i))]
      \o (IF layout = "rows" THEN <<PlainLine(RowTokens(st, last) \o Ending(st))>>
          ELSE <<PlainLine(RowTokens(st, last)), PlainLine(Ending(st))>>)

(* One row masked by an engine; a has the statement, the engine and the output. *)
RefRow(a, i) ==
  LET st  == a.statement
      m   == MaskRow(a.engine, st.table, st.form, st.rows[i])
      sep == IF st.form = "insert" /\ i < Len(st.rows) THEN <<Comma>> ELSE <<>>
  IN  [a EXCEPT !.engine = m.engine, !.out = @ \o <<m.item>> \o sep]

RefRows(a, st) ==
  FoldLeftDomain(RefRow,
                 [statement |-> st, engine |-> a.engine,
                  out |-> Append(a.out, IF st.form = "copy" THEN CopyFrom(st.table)
                                        ELSE InsertInto(st.table))],
                 st.rows)

(* A statement is written with its rows masked in their order; the rows of a
   truncated table are left out, together with the INSERT that holds them. *)
RefStatement(a, st) ==
  LET body == RefRows(a, st) IN
  CASE st.form = "other" -> [a EXCEPT !.out = @ \o <<Other, Semi>>]
    [] st.form = "copy" /\ st.table \in Truncated ->
         [a EXCEPT !.out = @ \o <<CopyFrom(st.table), EndOfCopy>>]
    [] st.form = "copy" /\ st.table \notin Truncated ->
         [engine |-> body.engine, out |-> Append(body.out, EndOfCopy)]
    [] st.form = "insert" /\ st.table \in Truncated -> a
    [] st.form = "insert" /\ st.table \notin Truncated ->
         [engine |-> body.engine, out |-> body.out \o Ending(st)]

Reference(statements) ==
  FoldLeft(RefStatement, [engine |-> NewEngine, out |-> <<>>], statements)

-----------------------------------------------------------------------------
(* Ways to lay out a dump. *)

(* A line follows the first k tokens of an INSERT, which are not all of them; it does not
   end where a trailing clause begins. *)
Continues(st, k, toks) ==
  LET n == k + Len(toks) IN
  /\ k < Len(InsertTokens(st)) /\ n <= Len(InsertTokens(st))
  /\ toks = SubSeq(InsertTokens(st), k + 1, n)
  /\ st.clause => n # Len(AllRowTokens(st))

AddTokens(n, l) == n + Len(l.toks)
TokensOn(lines) == FoldLeft(AddTokens, 0, lines)

(* An INSERT may be broken into lines anywhere else. *)
IsInsert(st, lines) ==
  /\ lines # <<>>
  /\ st.clause => st.rows # <<>>
  /\ TokensOn(lines) = Len(InsertTokens(st))
  /\ \A i \in DOMAIN lines :
       /\ lines[i] = IF i = 1 THEN InsertLine(st.table, lines[i].toks) ELSE PlainLine(lines[i].toks)
       /\ Continues(st, TokensOn(SubSeq(lines, 1, i - 1)), lines[i].toks)

(* Lines that say a statement. *)
Says(lines, st) ==
  \/ st = OtherStatement /\ lines = Lines(st, "line")
  \/ /\ st.table \in Table /\ st.rows \in Seq(Row) /\ st.clause \in BOOLEAN
     /\ \/ st = CopyStatement(st.table, st.rows) /\ lines = Lines(st, "line")
        \/ st = InsertStatement(st.table, st.rows, st.clause) /\ IsInsert(st, lines)

(* A dump that says its statements one after the other; cut has where each ends. *)
IsCut(d, cut) ==
  /\ cut \in [0 .. Len(d.meaning) -> 0 .. Len(d.lines)]
  /\ cut[0] = 0 /\ cut[Len(d.meaning)] = Len(d.lines)
  /\ \A k \in DOMAIN d.meaning :
       cut[k - 1] <= cut[k] /\ Says(SubSeq(d.lines, cut[k - 1] + 1, cut[k]), d.meaning[k])

SaysMeaning(d) ==
  /\ d.meaning \in Seq(ToSet(d.meaning))
  /\ \E cut \in [0 .. Len(d.meaning) -> 0 .. Len(d.lines)] : IsCut(d, cut)

(* No COPY block is one of a truncated table: the code would drop its rows and the "\." that
   ends it, but not the line that begins it. *)
BlocksKept(statements) ==
  \A k \in DOMAIN statements :
    statements[k].form = "copy" => statements[k].table \notin Truncated
=============================================================================
