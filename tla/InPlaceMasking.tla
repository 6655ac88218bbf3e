--------------------------- MODULE InPlaceMasking ---------------------------
(***************************************************************************)
(* A table masked where it is, by the SQLAlchemy connector (live_db.py),   *)
(* with updates in one transaction, or by the DuckDB connector, which      *)
(* copies the table and swaps the copy for it.  Attempts may fail or crash *)
(* and are repeated.  A table is a function from its rows, named by        *)
(* numbers, to their contents: the primary key and a cell with the number  *)
(* of times it was masked, or Null.                                        *)
(***************************************************************************)
EXTENDS Integers, SequencesExt, FiniteSetsExt, TLC

CONSTANTS
  Keys,          \* what a primary key may hold
  RawTables,     \* the tables masking begins with
  Pseudonym(_),  \* of a primary key
  BatchSize,
  MaxAttempts,   \* bound
  Null, Missing

Row == [key : Keys, cell : Nat \cup {Null}]

Unique(table) == \A i, j \in DOMAIN table : i # j => table[i].key # table[j].key

ASSUME InPlaceAssumption ==
  /\ BatchSize \in Nat \ {0} /\ MaxAttempts \in Nat
  /\ Keys \subseteq Nat \ {0} /\ Null \notin Nat
  /\ \A k \in Keys : Pseudonym(k) \in Keys
  /\ RawTables \subseteq Seq(Row) /\ Missing \notin Seq(Row)
  /\ \A t \in RawTables : Unique(t)

VARIABLES
  connector,    \* "live" or "duckdb"
  rule,         \* whether the key is masked, and whether the table has one
  insensitive,  \* whether the cursor of the database is blind to updates
  main,         \* the table as others see it, or Missing
  copy,         \* _cloakdb_<table>_masked
  work,         \* the table inside the transaction
  cursor,       \* the last key read, or the offset
  fetched,      \* the rows read and not yet masked
  batch,        \* updates not yet executed
  phase,        \* "idle", "reading", "copying", "dropped"
  attempts,
  interrupted   \* whether an attempt ended by an error or a crash

setting == <<connector, rule, insensitive>>
scratch == <<work, cursor, fetched, batch>>
inPlaceVars ==
  <<connector, rule, insensitive, main, copy, work, cursor, fetched, batch, phase,
    attempts, interrupted>>

-----------------------------------------------------------------------------
MaskRow(how, r) ==
  [key  |-> IF how.key THEN Pseudonym(r.key) ELSE r.key,
   cell |-> IF r.cell = Null THEN Null ELSE r.cell + 1]

Rest ==
  /\ work' = Missing
  /\ cursor' = 0
  /\ fetched' = {}
  /\ batch' = <<>>

InPlaceInit ==
  /\ connector \in {"live", "duckdb"}
  /\ rule \in [key : BOOLEAN, pk : BOOLEAN]
  /\ insensitive \in BOOLEAN
  /\ main \in RawTables
  /\ copy = Missing
  /\ work = Missing /\ cursor = 0 /\ fetched = {} /\ batch = <<>>
  /\ phase = "idle"
  /\ attempts = 0
  /\ interrupted = FALSE

Attempt ==
  /\ phase = "idle"
  /\ attempts < MaxAttempts
  /\ attempts' = attempts + 1

(* No primary key; no table of that name, or a copy that is already there. *)
Refused ==
  \/ connector = "live" /\ ~rule.pk
  \/ connector = "duckdb" /\ (main = Missing \/ (copy # Missing /\ main # <<>>))

Refuse ==
  /\ Attempt
  /\ Refused
  /\ UNCHANGED <<setting, main, copy, scratch, phase, interrupted>>

-----------------------------------------------------------------------------
(* LiveDatabaseConnector.mask_table *)

Begin ==
  /\ Attempt
  /\ connector = "live" /\ ~Refused
  /\ phase' = "reading"
  /\ work' = main
  /\ UNCHANGED <<setting, main, copy, cursor, fetched, batch, interrupted>>

(* What the cursor has not shown yet; it goes in the order of the keys. *)
Unread ==
  LET source == IF insensitive THEN main ELSE work
  IN {source[i] : i \in {j \in DOMAIN source : source[j].key > cursor}}

Page == {r \in Unread : Cardinality({s \in Unread : s.key < r.key}) < BatchSize}

(* Mutant: the cursor stays where it is. *)
AdvancedNever(rows) == cursor

Advanced(rows) == Max({r.key : r \in rows})

Fetch ==
  /\ phase = "reading" /\ fetched = {}
  /\ Unread # {}
  /\ fetched' = Page
  /\ cursor' = Advanced(Page)
  /\ UNCHANGED <<setting, main, copy, work, batch, phase, attempts, interrupted>>

(* What UPDATE sets of the row it finds: NULL was not masked, and is not set. *)
SetBy(u, r) == [u.row EXCEPT !.cell = IF @ = Null THEN r.cell ELSE @]

(* One UPDATE, of the row that has the key by now; Missing when it breaks the
   uniqueness of the keys. *)
Updated(t, u) ==
  IF t = Missing THEN Missing
  ELSE LET v == [i \in DOMAIN t |-> IF t[i].key = u.key THEN SetBy(u, t[i]) ELSE t[i]]
       IN IF Unique(v) THEN v ELSE Missing

Flushed(table, updates) == FoldLeft(Updated, table, updates)

(* Mutant: what has been sent stays. *)
RollbackNever ==
  /\ Rest
  /\ phase' = "idle"
  /\ main' = IF work = Missing THEN main ELSE work

Rollback ==
  /\ Rest
  /\ phase' = "idle"
  /\ UNCHANGED main

(* The next row; only cells that differ are updated, and a full batch is sent. *)
FirstFetched == CHOOSE r \in fetched : \A s \in fetched : r.key <= s.key

Batched(r) ==
  IF MaskRow(rule, r) = r THEN batch
  ELSE Append(batch, [key |-> r.key, row |-> MaskRow(rule, r)])

MaskFetched ==
  /\ phase = "reading" /\ fetched # {}
  /\ LET b == Batched(FirstFetched)
         flush == Len(b) >= BatchSize
     IN \/ /\ ~flush
           /\ fetched' = fetched \ {FirstFetched}
           /\ batch' = b
           /\ UNCHANGED <<main, work, cursor, phase>>
        \/ /\ flush /\ Flushed(work, b) # Missing
           /\ work' = Flushed(work, b)
           /\ fetched' = fetched \ {FirstFetched}
           /\ batch' = <<>>
           /\ UNCHANGED <<main, cursor, phase>>
        \/ /\ flush /\ Flushed(work, b) = Missing
           /\ Rollback
  /\ UNCHANGED <<setting, copy, attempts, interrupted>>

(* The end of conn.begin(): the rest of the batch, and the commit. *)
Commit ==
  /\ phase = "reading" /\ fetched = {} /\ Unread = {}
  /\ IF Flushed(work, batch) = Missing THEN Rollback
     ELSE /\ main' = Flushed(work, batch)
          /\ Rest
          /\ phase' = "idle"
  /\ UNCHANGED <<setting, copy, attempts, interrupted>>

-----------------------------------------------------------------------------
(* DuckDBConnector.mask_table_in_place: every statement is its own transaction. *)

(* Mutant: the copy is created before the rows are counted. *)
CreateCopyFirst ==
  /\ Attempt
  /\ connector = "duckdb" /\ ~Refused
  /\ copy' = <<>>
  /\ phase' = IF main = <<>> THEN "idle" ELSE "copying"
  /\ UNCHANGED <<setting, main, scratch, interrupted>>

CreateCopy ==
  /\ Attempt
  /\ connector = "duckdb" /\ ~Refused
  /\ IF main = <<>> THEN UNCHANGED <<copy, phase>>
     ELSE copy' = <<>> /\ phase' = "copying"
  /\ UNCHANGED <<setting, main, scratch, interrupted>>

NextOffset == Min({cursor + BatchSize, Len(main)})

(* The copy with the rows up to an offset. *)
CopiedTo(next) ==
  copy \o [i \in 1..(next - cursor) |-> MaskRow(rule, main[cursor + i])]

InsertBatch ==
  /\ phase = "copying" /\ cursor < Len(main)
  /\ copy' = CopiedTo(NextOffset)
  /\ cursor' = NextOffset
  /\ UNCHANGED <<setting, main, work, fetched, batch, phase, attempts, interrupted>>

DropTable ==
  /\ phase = "copying" /\ cursor >= Len(main)
  /\ main' = Missing
  /\ phase' = "dropped"
  /\ UNCHANGED <<setting, copy, scratch, attempts, interrupted>>

RenameCopy ==
  /\ phase = "dropped"
  /\ main' = copy
  /\ copy' = Missing
  /\ phase' = "idle"
  /\ Rest
  /\ UNCHANGED <<setting, attempts, interrupted>>

-----------------------------------------------------------------------------
(* mask_record raises, a statement fails, or the process dies: the transaction
   is rolled back, but of DuckDB's statements those executed stay, and of the
   INSERTs of a batch any number. *)
CallFails ==
  /\ phase # "idle"
  /\ interrupted' = TRUE
  /\ IF phase = "copying" THEN \E next \in cursor..NextOffset : copy' = CopiedTo(next)
     ELSE UNCHANGED copy
  /\ Rollback
  /\ UNCHANGED <<setting, attempts>>

CallStep == Fetch \/ MaskFetched \/ Commit \/ InsertBatch \/ DropTable \/ RenameCopy

InPlaceNext == Refuse \/ Begin \/ CreateCopy \/ CallStep \/ CallFails

(* A call that has begun goes on by itself; nobody has to begin one. *)
InPlaceSpec == InPlaceInit /\ [][InPlaceNext]_inPlaceVars /\ WF_inPlaceVars(CallStep)
-----------------------------------------------------------------------------
(* Properties. *)

(* The rows under the table's name, or under the copy's when it has lost it. *)
Shown == IF main = Missing THEN copy ELSE main

Promise == INSTANCE MaskedInPlace WITH
  Tables <- RawTables, shown <- Shown, Masked <- MaskRow

(* A cursor that sees updates may come upon a row again under its masked key. *)
Undisturbed == insensitive \/ ~rule.key \/ connector = "duckdb" \/ Len(main) < BatchSize

(* Whatever fails, crashes or is rolled back, no one ever sees a table of which some
   rows are masked and others not, or masked twice, and no row is lost. *)
ImplementsPromise == Promise!Init /\ [][Undisturbed => Promise!MaskAll]_Shown

(* After any attempt of the live connector, failed, crashed, rolled back or
   refused, there is a table that can be masked again.  The DuckDB connector
   promises it only while no attempt was interrupted: it never removes a copy
   that it left, and is refused by it from then on. *)
RepeatableUnlessInterrupted ==
  phase = "idle" /\ (connector = "live" \/ ~interrupted) =>
    main # Missing /\ copy = Missing

(* A call comes to its end, also when masked rows turn up again. *)
Ends == phase # "idle" ~> phase = "idle"
=============================================================================
