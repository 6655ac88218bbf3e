--------------------------- MODULE DatabaseProofs ---------------------------
(***************************************************************************)
(* Proofs about the runs that mask databases and files: about a table      *)
(* that is masked where it is (InPlaceMasking), and about all runs of the  *)
(* tool with their configuration and their salt (MaskingRuns).  The two    *)
(* models share no state.                                                  *)
(*                                                                         *)
(* Masking in place is for any table with unique keys, any pseudonyms and  *)
(* batches of any size, wherever calls fail.  The DuckDB connector is      *)
(* simple: its copy has the rows up to the offset, masked (DuckType).  The *)
(* live one reads pages while it updates what it reads.  Where its cursor  *)
(* is not disturbed by that, the rows it has passed are masked in the      *)
(* transaction, except for those queued in the batch, and the cursor shows *)
(* the rest as they were (Reading).  So every update meets the row it was  *)
(* made for, and when nothing is unread, all rows were passed.             *)
(*                                                                         *)
(* The runs are any number of runs, changes, tables, files and requests,   *)
(* wherever they crash.  While the fingerprint of the configuration has    *)
(* been there and no run masked against it, all salts that were used have  *)
(* it: a command reaches its tables or its file only through the           *)
(* fingerprint check, which compares with the configuration as it was      *)
(* loaded; while guarded that is the configuration there is (Checked), and *)
(* no operator has come without a check and with another salt.  What is in *)
(* the database and in the output has then only been masked with such      *)
(* salts (Printed), and a run that appends to an output has one (Writable).*)
(*                                                                         *)
(* What runs end with, guarded or not, follows from what is known of the   *)
(* run in progress: it has changed no data yet (Untouched), or the tables  *)
(* (TablesDone) or items (ItemsDone) up to the next; it will sign with the *)
(* salt the configuration gives (Signed).                                  *)
(***************************************************************************)
EXTENDS InPlaceMasking, MaskingRuns, FiniteSetTheorems, SequenceTheorems, TLAPS

-----------------------------------------------------------------------------
(* The tables that are masked in place. *)

F == INSTANCE FoldLaws WITH Op <- Updated

Update == [key : Keys, row : Row]

(* Tables whose keys are unique. *)
Keyed == {t \in Seq(Row) : Unique(t)}

Resting == work = Missing /\ cursor = 0 /\ fetched = {} /\ batch = <<>>

LiveType ==
  /\ phase \in {"idle", "reading"}
  /\ main \in Keyed
  /\ copy = Missing
  /\ phase = "reading" => /\ work \in Keyed
                          /\ fetched \subseteq Row
                          /\ batch \in Seq(Update)

(* The copy has the rows up to the offset, masked, before it takes the place
   of the table. *)
DuckType ==
  /\ phase \in {"idle", "copying", "dropped"}
  /\ main \in Seq(Row) \cup {Missing}
  /\ copy \in Seq(Row) \cup {Missing}
  /\ main = Missing => copy # Missing
  /\ phase = "copying" => /\ main # Missing /\ cursor \in 0 .. Len(main)
                          /\ copy = [i \in 1 .. cursor |-> MaskRow(rule, main[i])]
  /\ phase = "dropped" => main = Missing
  /\ phase = "idle" /\ ~interrupted => main # Missing /\ copy = Missing

TypeInv ==
  /\ phase = "idle" => Resting
  /\ connector \in {"live", "duckdb"}
  /\ connector = "live" => LiveType
  /\ connector = "duckdb" => DuckType

-----------------------------------------------------------------------------
(* The operators of the community modules are the same in the instance. *)
LEMMA SameOperators ==
  /\ \A t, b : Flushed(t, b) = F!FoldLeft(Updated, t, b)
  /\ \A S : Max(S) = F!Max(S)
  /\ \A S : Min(S) = F!Min(S)
<1>1. ASSUME NEW t, NEW b
      PROVE  Flushed(t, b) = F!FoldLeft(Updated, t, b)
  BY DEF Flushed, FoldLeft, F!FoldLeft, MapThenFoldSet, F!MapThenFoldSet, Max, F!Max
<1>2. ASSUME NEW S
      PROVE  Max(S) = F!Max(S) /\ Min(S) = F!Min(S)
  BY DEF Max, F!Max, Min, F!Min
<1>. QED
  BY <1>1, <1>2

(* A masked row is a row. *)
LEMMA MaskedRow ==
  ASSUME NEW how \in [key : BOOLEAN, pk : BOOLEAN], NEW r \in Row
  PROVE  MaskRow(how, r) \in Row
<1>1. r.key \in Keys /\ Pseudonym(r.key) \in Keys /\ r.cell \in Nat \cup {Null}
  BY InPlaceAssumption DEF Row
<1>2. (IF how.key THEN Pseudonym(r.key) ELSE r.key) \in Keys
  BY <1>1
<1>3. (IF r.cell = Null THEN Null ELSE r.cell + 1) \in Nat \cup {Null}
  BY <1>1
<1>. QED
  BY <1>2, <1>3 DEF MaskRow, Row

(* UPDATE makes a row of a row; of the row it is meant for, what masking makes of it. *)
LEMMA SetRow ==
  ASSUME NEW u, u.row \in Row, NEW r \in Row
  PROVE  /\ SetBy(u, r) \in Row
         /\ \A how : u.row = MaskRow(how, r) => SetBy(u, r) = u.row
<1>1. PICK m \in Row : m = u.row
  OBVIOUS
<1>2. SetBy(u, r) = [key |-> m.key, cell |-> IF m.cell = Null THEN r.cell ELSE m.cell]
  BY <1>1 DEF SetBy, Row
<1>3. SetBy(u, r) \in Row
  <2>1. (IF m.cell = Null THEN r.cell ELSE m.cell) \in Nat \cup {Null}
    BY DEF Row
  <2>2. m.key \in Keys
    BY DEF Row
  <2>. QED
    BY <1>2, <2>1, <2>2 DEF Row
<1>4. ASSUME NEW how, m = MaskRow(how, r)
      PROVE  SetBy(u, r) = m
  <2>1. m.cell = (IF r.cell = Null THEN Null ELSE r.cell + 1) /\ r.cell \in Nat \cup {Null}
    BY <1>4 DEF MaskRow, Row
  <2>2. m.cell = Null => r.cell = Null
    BY <2>1, InPlaceAssumption
  <2>3. m = [key |-> m.key, cell |-> m.cell]
    BY DEF Row
  <2>. QED
    BY <1>2, <2>2, <2>3
<1>. QED
  BY <1>1, <1>3, <1>4

(* An update leaves a table whose keys are unique, or none. *)
LEMMA UpdatedType ==
  ASSUME NEW t \in Keyed \cup {Missing}, NEW u \in Update
  PROVE  Updated(t, u) \in Keyed \cup {Missing}
<1>1. CASE t = Missing
  BY <1>1 DEF Updated
<1>2. CASE t # Missing
  <2>. DEFINE v == [i \in DOMAIN t |-> IF t[i].key = u.key THEN SetBy(u, t[i]) ELSE t[i]]
  <2>1. t \in Seq(Row) /\ u.row \in Row
    BY <1>2 DEF Keyed, Update
  <2>2. \A r \in Row : SetBy(u, r) \in Row
    BY <2>1, SetRow
  <2>3. v \in Seq(Row)
    BY <2>1, <2>2
  <2>. QED
    BY <1>2, <2>3 DEF Updated, Keyed
<1>. QED
  BY <1>1, <1>2

(* So does a batch of them. *)
LEMMA FlushedType ==
  ASSUME NEW t \in Keyed, NEW b \in Seq(Update)
  PROVE  Flushed(t, b) \in Keyed \cup {Missing}
<1>. DEFINE T == [n \in Nat |-> Keyed \cup {Missing}]
<1>0. Len(b) \in Nat /\ \A n \in 1 .. Len(b) : b[n] \in Update /\ n \in Nat /\ n - 1 \in Nat
  OBVIOUS
<1>1. t \in T[0]
  OBVIOUS
<1>2. ASSUME NEW n \in 1 .. Len(b), NEW v \in T[n - 1]
      PROVE  Updated(v, b[n]) \in T[n]
  <2>1. v \in Keyed \cup {Missing} /\ b[n] \in Update
    BY <1>0
  <2>2. Updated(v, b[n]) \in Keyed \cup {Missing}
    BY <2>1, UpdatedType
  <2>. QED
    BY <1>0, <2>2
<1>. HIDE DEF T
<1>3. F!FoldLeft(Updated, t, b) \in T[Len(b)]
  BY <1>1, <1>2, F!FoldInvariant
<1>. QED
  BY <1>0, <1>3, SameOperators DEF T

(* The rows of a table, and a page of those that were not read, are rows. *)
LEMMA FetchedRows ==
  ASSUME TypeInv, connector = "live", phase = "reading"
  PROVE  Unread \subseteq Row /\ Page \subseteq Row
<1>1. main \in Seq(Row) /\ work \in Seq(Row)
  BY DEF TypeInv, LiveType, Keyed
<1>. QED
  BY <1>1 DEF Unread, Page

(* The rule is one. *)
Rules == rule \in [key : BOOLEAN, pk : BOOLEAN]

(* The update of a row joins the others, if masking changes the row. *)
LEMMA BatchedType ==
  ASSUME Rules, batch \in Seq(Update), NEW r \in Row
  PROVE  Batched(r) \in Seq(Update)
<1>1. MaskRow(rule, r) \in Row /\ r.key \in Keys
  BY MaskedRow DEF Rules, Row
<1>2. [key |-> r.key, row |-> MaskRow(rule, r)] \in Update
  BY <1>1 DEF Update
<1>. QED
  BY <1>2 DEF Batched

(* The first of the rows that were read is one of them. *)
LEMMA FirstIsFetched ==
  ASSUME fetched \subseteq Row, fetched # {}
  PROVE  FirstFetched \in fetched
<1>. DEFINE keys == {r.key : r \in fetched}
<1>1. keys \subseteq Nat /\ keys # {}
  <2>1. \A r \in Row : r.key \in Nat
    BY InPlaceAssumption DEF Row
  <2>. QED
    BY <2>1
<1>2. PICK k \in keys : \A l \in keys : k <= l
  BY <1>1, F!LeastOfSet
<1>3. \E r \in fetched : \A s \in fetched : r.key <= s.key
  BY <1>2
<1>. QED
  BY <1>3 DEF FirstFetched

(* Connector, rule and kind of cursor are the same throughout. *)
LEMMA SettingsStay ==
  [InPlaceNext]_inPlaceVars => connector' = connector /\ rule' = rule /\ insensitive' = insensitive
BY DEF InPlaceNext, CallStep, inPlaceVars, setting, Refuse, Begin, CreateCopy, Fetch,
       MaskFetched, Commit, InsertBatch, DropTable, RenameCopy, CallFails

(* What every step leaves a live connector with. *)
LEMMA LiveSteps ==
  ASSUME TypeInv, Rules, connector = "live", [InPlaceNext]_inPlaceVars
  PROVE  LiveType' /\ (phase' = "idle" => Resting')
<1>. USE DEF setting, scratch
<1>0. LiveType /\ (phase = "idle" => Resting) /\ connector # "duckdb" /\ phase # "copying"
        /\ phase # "dropped"
  BY DEF TypeInv, LiveType
<1>1. CASE Refuse \/ UNCHANGED inPlaceVars
  BY <1>0, <1>1 DEF Refuse, inPlaceVars, LiveType, Resting
<1>2. CASE Begin
  BY <1>0, <1>2 DEF Begin, Attempt, LiveType, Resting, Keyed
<1>3. CASE Fetch
  <2>1. Page \subseteq Row
    BY <1>3, FetchedRows DEF Fetch
  <2>. QED
    BY <1>0, <1>3, <2>1 DEF Fetch, LiveType, Resting
<1>4. CASE MaskFetched
  <2>. DEFINE b == Batched(FirstFetched)
  <2>1. /\ phase = "reading" /\ fetched # {} /\ fetched \subseteq Row
        /\ work \in Keyed /\ batch \in Seq(Update) /\ main \in Keyed /\ copy = Missing
    BY <1>0, <1>4 DEF MaskFetched, LiveType
  <2>2. FirstFetched \in Row
    BY <2>1, FirstIsFetched
  <2>3. b \in Seq(Update)
    BY <2>1, <2>2, BatchedType
  <2>4. Flushed(work, b) \in Keyed \cup {Missing}
    BY <2>1, <2>3, FlushedType
  <2>5. \/ /\ fetched' \subseteq Row /\ batch' \in Seq(Update) /\ work' \in Keyed
           /\ UNCHANGED <<main, copy, phase>>
        \/ Resting' /\ phase' = "idle" /\ UNCHANGED <<main, copy>>
    <3>. HIDE DEF b
    <3>1. <<>> \in Seq(Update)
      OBVIOUS
    <3>. QED
      BY <1>4, <2>1, <2>3, <2>4, <3>1 DEF MaskFetched, Rollback, Rest, Resting, b
  <2>. QED
    BY <2>1, <2>5 DEF LiveType, Resting
<1>5. CASE Commit
  <2>1. batch \in Seq(Update) /\ work \in Keyed
    BY <1>0, <1>5 DEF Commit, LiveType
  <2>2. Flushed(work, batch) \in Keyed \cup {Missing}
    BY <2>1, FlushedType
  <2>. QED
    BY <1>0, <1>5, <2>2 DEF Commit, Rollback, Rest, LiveType, Resting
<1>6. CASE CallFails
  BY <1>0, <1>6 DEF CallFails, Rollback, Rest, LiveType, Resting
<1>7. CASE CreateCopy \/ InsertBatch \/ DropTable \/ RenameCopy
  BY <1>0, <1>7 DEF CreateCopy, InsertBatch, DropTable, RenameCopy
<1>. QED
  BY <1>1, <1>2, <1>3, <1>4, <1>5, <1>6, <1>7 DEF InPlaceNext, CallStep

(* The first n rows of a table, masked. *)
FirstMasked(n) == [i \in 1 .. n |-> MaskRow(rule, main[i])]

(* They are rows. *)
LEMMA FirstMaskedRows ==
  ASSUME Rules, main \in Seq(Row), NEW n \in 0 .. Len(main)
  PROVE  FirstMasked(n) \in Seq(Row)
<1>1. n \in Nat /\ \A i \in 1 .. n : main[i] \in Row
  OBVIOUS
<1>2. \A i \in 1 .. n : MaskRow(rule, main[i]) \in Row
  BY <1>1, MaskedRow DEF Rules
<1>. HIDE DEF MaskRow
<1>. QED
  BY <1>1, <1>2 DEF FirstMasked

(* The next offset lies between the offset and the end of the table. *)
LEMMA OffsetAdvances ==
  ASSUME main \in Seq(Row), cursor \in 0 .. Len(main)
  PROVE  NextOffset \in cursor .. Len(main)
<1>1. Len(main) \in Nat /\ cursor \in Nat /\ BatchSize \in Nat \ {0} /\ cursor <= Len(main)
  BY InPlaceAssumption
<1>2. cursor + BatchSize \in Nat
  BY <1>1
<1>3. F!Min({cursor + BatchSize, Len(main)}) \in cursor .. Len(main)
  BY <1>1, <1>2, F!MinOfTwo
<1>. QED
  BY <1>3, SameOperators DEF NextOffset

(* INSERT adds the next rows to those that are there, as many as it gets to. *)
LEMMA InsertedRows ==
  ASSUME Rules, main \in Seq(Row), cursor \in 0 .. Len(main),
         copy = FirstMasked(cursor), NEW next \in cursor .. Len(main)
  PROVE  next \in 0 .. Len(main) /\ CopiedTo(next) = FirstMasked(next)
<1>. DEFINE added == [i \in 1 .. (next - cursor) |-> MaskRow(rule, main[cursor + i])]
<1>0. Len(main) \in Nat /\ cursor \in Nat /\ cursor <= Len(main)
  OBVIOUS
<1>1. next \in cursor .. Len(main)
  OBVIOUS
<1>2. CopiedTo(next) = copy \o added
  BY DEF CopiedTo
<1>3. copy \in Seq(Row) /\ Len(copy) = cursor
  BY <1>0, FirstMaskedRows DEF FirstMasked
<1>4. next - cursor \in Nat /\ \A i \in 1 .. next - cursor : cursor + i \in 1 .. Len(main)
  BY <1>0, <1>1
<1>5. added \in Seq(Row) /\ Len(added) = next - cursor
  <2>1. \A i \in 1 .. next - cursor : MaskRow(rule, main[cursor + i]) \in Row
    BY <1>4, MaskedRow DEF Rules
  <2>. HIDE DEF MaskRow
  <2>. QED
    BY <1>4, <2>1
<1>6. Len(copy \o added) = next /\ DOMAIN (copy \o added) = 1 .. next
  BY <1>0, <1>1, <1>3, <1>5
<1>7. ASSUME NEW i \in 1 .. next
      PROVE  (copy \o added)[i] = MaskRow(rule, main[i])
  <2>1. CASE i <= cursor
    <3>1. i \in 1 .. cursor /\ (copy \o added)[i] = copy[i]
      <4>. HIDE DEF added
      <4>. QED
        BY <1>0, <1>1, <1>3, <1>5, <2>1
    <3>. QED
      BY <3>1 DEF FirstMasked
  <2>2. CASE ~(i <= cursor)
    <3>1. /\ i - cursor \in 1 .. next - cursor
          /\ (copy \o added)[i] = added[i - cursor]
          /\ cursor + (i - cursor) = i
      <4>. HIDE DEF added
      <4>. QED
        BY <1>0, <1>1, <1>3, <1>5, <2>2
    <3>. QED
      BY <3>1
  <2>. QED
    BY <2>1, <2>2
<1>8. copy \o added \in Seq(Row)
  BY <1>3, <1>5
<1>9. copy \o added = [i \in 1 .. next |-> (copy \o added)[i]]
  <2>1. \A s \in Seq(Row) : s = [i \in 1 .. Len(s) |-> s[i]]
    OBVIOUS
  <2>. HIDE DEF added
  <2>. QED
    BY <1>6, <1>8, <2>1
<1>. HIDE DEF added
<1>10. copy \o added = FirstMasked(next)
  BY <1>7, <1>9 DEF FirstMasked
<1>11. next \in 0 .. Len(main)
  BY <1>0, <1>1
<1>. QED
  BY <1>2, <1>10, <1>11

(* What every step leaves the DuckDB connector with. *)
LEMMA DuckSteps ==
  ASSUME TypeInv, Rules, connector = "duckdb", [InPlaceNext]_inPlaceVars
  PROVE  DuckType' /\ (phase' = "idle" => Resting')
<1>. USE DEF setting, scratch
<1>0. DuckType /\ (phase = "idle" => Resting) /\ connector # "live" /\ phase # "reading"
  BY DEF TypeInv, DuckType
<1>r. rule' = rule
  BY SettingsStay
<1>1. CASE Refuse \/ UNCHANGED inPlaceVars
  BY <1>0, <1>1 DEF Refuse, inPlaceVars, DuckType, Resting
<1>2. CASE CreateCopy
  <2>1. phase = "idle" /\ main \in Seq(Row) /\ main # Missing /\ cursor = 0
    BY <1>0, <1>2 DEF CreateCopy, Attempt, Refused, DuckType, Resting
  <2>2. <<>> \in Seq(Row) /\ <<>> = [i \in 1 .. 0 |-> MaskRow(rule, main[i])]
          /\ 0 \in 0 .. Len(main)
    BY <2>1
  <2>. HIDE DEF MaskRow
  <2>3. CASE main = <<>>
    BY <1>0, <1>2, <2>1, <2>3 DEF CreateCopy, Attempt, DuckType, Resting
  <2>4. CASE main # <<>>
    BY <1>0, <1>2, <2>1, <2>2, <2>4 DEF CreateCopy, Attempt, DuckType, Resting
  <2>. QED
    BY <2>3, <2>4
<1>3. CASE InsertBatch
  <2>1. /\ phase = "copying" /\ main \in Seq(Row) /\ main # Missing /\ cursor \in 0 .. Len(main)
        /\ copy = FirstMasked(cursor)
    BY <1>0, <1>3 DEF InsertBatch, DuckType, FirstMasked
  <2>2. cursor' \in 0 .. Len(main) /\ copy' = FirstMasked(cursor')
    BY <1>3, <2>1, OffsetAdvances, InsertedRows DEF InsertBatch
  <2>3. copy' \in Seq(Row)
    BY <2>1, <2>2, FirstMaskedRows
  <2>. QED
    BY <1>3, <1>r, <2>1, <2>2, <2>3 DEF InsertBatch, DuckType, FirstMasked
<1>4. CASE DropTable
  <2>1. copy \in Seq(Row)
    <3>1. main \in Seq(Row) /\ cursor \in 0 .. Len(main) /\ copy = FirstMasked(cursor)
      BY <1>0, <1>4 DEF DropTable, DuckType, FirstMasked
    <3>. QED
      BY <3>1, FirstMaskedRows
  <2>. QED
    BY <1>0, <1>4, <2>1, InPlaceAssumption DEF DropTable, DuckType
<1>5. CASE RenameCopy
  BY <1>0, <1>5 DEF RenameCopy, Rest, DuckType, Resting
<1>6. CASE CallFails
  <2>1. Resting' /\ phase' = "idle" /\ main' = main /\ interrupted'
    BY <1>6 DEF CallFails, Rollback, Rest, Resting
  <2>2. CASE phase = "copying"
    <3>1. /\ main \in Seq(Row) /\ main # Missing /\ cursor \in 0 .. Len(main)
          /\ copy = FirstMasked(cursor)
      BY <1>0, <2>2 DEF DuckType, FirstMasked
    <3>2. PICK next \in cursor .. NextOffset : copy' = CopiedTo(next)
      BY <1>6, <2>2 DEF CallFails
    <3>3. next \in cursor .. Len(main)
      BY <3>1, <3>2, OffsetAdvances
    <3>4. next \in 0 .. Len(main) /\ copy' = FirstMasked(next)
      BY <3>1, <3>2, <3>3, InsertedRows
    <3>5. copy' \in Seq(Row)
      BY <3>1, <3>4, FirstMaskedRows
    <3>. QED
      BY <2>1, <3>1, <3>5 DEF DuckType
  <2>3. CASE phase # "copying"
    <3>1. copy' = copy
      BY <1>6, <2>3 DEF CallFails
    <3>. QED
      BY <1>0, <2>1, <3>1 DEF DuckType
  <2>. QED
    BY <2>2, <2>3
<1>7. CASE Begin \/ Fetch \/ MaskFetched \/ Commit
  BY <1>0, <1>7 DEF Begin, Fetch, MaskFetched, Commit
<1>. QED
  BY <1>1, <1>2, <1>3, <1>4, <1>5, <1>6, <1>7 DEF InPlaceNext, CallStep

(* In every reachable state, of calls that went well, failed or crashed, the parts of
   a call that is in progress are there and no others. *)
THEOREM Typing == InPlaceSpec => [](TypeInv /\ Rules)
<1>1. InPlaceInit => TypeInv /\ Rules
  <2>1. RawTables \subseteq Keyed
    BY InPlaceAssumption DEF Keyed
  <2>. QED
    BY <2>1, InPlaceAssumption DEF InPlaceInit, TypeInv, Rules, Resting, LiveType, DuckType, Keyed
<1>2. TypeInv /\ Rules /\ [InPlaceNext]_inPlaceVars => TypeInv' /\ Rules'
  <2>. SUFFICES ASSUME TypeInv, Rules, [InPlaceNext]_inPlaceVars
                PROVE  TypeInv' /\ Rules'
    OBVIOUS
  <2>1. connector' = connector /\ Rules'
    BY SettingsStay DEF Rules
  <2>2. connector \in {"live", "duckdb"}
    BY DEF TypeInv
  <2>3. CASE connector = "live"
    BY <2>1, <2>3, LiveSteps DEF TypeInv
  <2>4. CASE connector = "duckdb"
    BY <2>1, <2>4, DuckSteps DEF TypeInv
  <2>. QED
    BY <2>2, <2>3, <2>4
<1>. QED
  BY <1>1, <1>2, PTL DEF InPlaceSpec

(* After any attempt of the live connector, and after those of the DuckDB connector
   while none was interrupted, there is a table that can be masked again: its copy is
   only there while a call is, or where one has failed or crashed. *)
THEOREM AttemptsCanBeRepeated == InPlaceSpec => []RepeatableUnlessInterrupted
<1>1. TypeInv => RepeatableUnlessInterrupted
  BY InPlaceAssumption DEF TypeInv, LiveType, DuckType, Keyed, RepeatableUnlessInterrupted
<1>. QED
  BY <1>1, Typing, PTL

-----------------------------------------------------------------------------
(* The table with the rows of D masked. *)
Half(D) ==
  [i \in DOMAIN main |-> IF i \in D THEN MaskRow(rule, main[i]) ELSE main[i]]

UpdateOf(i) == [key |-> main[i].key, row |-> MaskRow(rule, main[i])]

(* The rows with the keys of these updates. *)
Meant(b, n) == {i \in DOMAIN main : \E k \in 1 .. n : b[k].key = main[i].key}

(* So it is a table of as many rows. *)
LEMMA HalfRows ==
  ASSUME Rules, main \in Seq(Row), NEW D
  PROVE  Half(D) \in Seq(Row) /\ DOMAIN Half(D) = DOMAIN main
<1>1. \A i \in 1 .. Len(main) : main[i] \in Row /\ MaskRow(rule, main[i]) \in Row
  BY MaskedRow DEF Rules
<1>. HIDE DEF MaskRow
<1>. QED
  BY <1>1 DEF Half

(* An update of a row that is not masked yet masks that row and no other, unless a
   key would then be there twice. *)
LEMMA UpdatedHalf ==
  ASSUME Rules, main \in Keyed, NEW D, Half(D) \in Keyed,
         NEW i \in DOMAIN main, i \notin D,
         Updated(Half(D), UpdateOf(i)) # Missing
  PROVE  Updated(Half(D), UpdateOf(i)) = Half(D \cup {i}) /\ Half(D \cup {i}) \in Keyed
<1>. DEFINE h == Half(D)
            v == [j \in DOMAIN h |->
                    IF h[j].key = UpdateOf(i).key THEN SetBy(UpdateOf(i), h[j]) ELSE h[j]]
<1>1. main \in Seq(Row) /\ h \in Seq(Row) /\ Unique(h) /\ DOMAIN h = DOMAIN main
  BY HalfRows DEF Keyed
<1>2. h[i] = main[i] /\ UpdateOf(i).key = main[i].key /\ UpdateOf(i).row = MaskRow(rule, main[i])
  BY DEF Half, UpdateOf
<1>3. \A j \in DOMAIN main : h[j].key = main[i].key <=> j = i
  BY <1>1, <1>2 DEF Unique
<1>4. ASSUME NEW j \in DOMAIN main
      PROVE  v[j] = Half(D \cup {i})[j]
  <2>1. SetBy(UpdateOf(i), main[i]) = MaskRow(rule, main[i])
    <3>1. main[i] \in Row
      BY <1>1
    <3>. QED
      BY <1>2, <3>1, MaskedRow, SetRow DEF Rules
  <2>2. v[j] = IF j = i THEN MaskRow(rule, main[i]) ELSE h[j]
    BY <1>1, <1>2, <1>3, <2>1
  <2>. HIDE DEF MaskRow, v
  <2>. QED
    BY <2>2 DEF Half
<1>5. v = Half(D \cup {i})
  BY <1>1, <1>4 DEF Half
<1>6. Updated(h, UpdateOf(i)) = v /\ Unique(v)
  BY DEF Updated
<1>7. Half(D \cup {i}) \in Seq(Row)
  BY <1>1, HalfRows
<1>. QED
  BY <1>5, <1>6, <1>7 DEF Keyed

(* A batch of updates of such rows masks them all. *)
LEMMA FlushedHalf ==
  ASSUME Rules, main \in Keyed, NEW D, Half(D) \in Keyed, NEW b \in Seq(Update),
         \A k \in DOMAIN b : \E i \in DOMAIN main \ D : b[k] = UpdateOf(i),
         \A k, l \in DOMAIN b : k # l => b[k].key # b[l].key,
         Flushed(Half(D), b) # Missing
  PROVE  Flushed(Half(D), b) = Half(D \cup Meant(b, Len(b)))
<1>. DEFINE E(n) == D \cup Meant(b, n)
            T == [n \in Nat |-> {Missing} \cup ({Half(E(n))} \cap Keyed)]
<1>0. Len(b) \in Nat /\ DOMAIN b = 1 .. Len(b)
        /\ \A n \in 1 .. Len(b) : n \in Nat /\ n - 1 \in Nat
  OBVIOUS
<1>1. Half(D) \in T[0]
  <2>1. Meant(b, 0) = {}
    BY DEF Meant
  <2>2. E(0) = D
    BY <2>1
  <2>. HIDE DEF E
  <2>. QED
    BY <2>2
<1>2. ASSUME NEW n \in 1 .. Len(b), NEW v \in T[n - 1]
      PROVE  Updated(v, b[n]) \in T[n]
  <2>. SUFFICES ASSUME Updated(v, b[n]) # Missing
                PROVE  Updated(v, b[n]) \in {Half(E(n))} \cap Keyed
    BY <1>0
  <2>1. v = Half(E(n - 1)) /\ v \in Keyed
    <3>1. v \in {Missing} \cup ({Half(E(n - 1))} \cap Keyed)
      BY <1>0
    <3>. QED
      BY <3>1 DEF Updated
  <2>2. PICK i \in DOMAIN main \ D : b[n] = UpdateOf(i)
    BY <1>0
  <2>3. \A k \in 1 .. n - 1 : k \in DOMAIN b /\ n \in DOMAIN b /\ k # n
    BY <1>0
  <2>4. \A j \in DOMAIN main : b[n].key = main[j].key <=> j = i
    BY <2>2 DEF UpdateOf, Keyed, Unique
  <2>5. i \notin Meant(b, n - 1)
    BY <2>3, <2>4 DEF Meant
  <2>6. Meant(b, n) = Meant(b, n - 1) \cup {i}
    <3>1. \A k : k \in 1 .. n <=> k \in 1 .. n - 1 \/ k = n
      BY <1>0
    <3>. QED
      BY <2>4, <3>1 DEF Meant
  <2>7. i \notin E(n - 1) /\ E(n) = E(n - 1) \cup {i}
    BY <2>2, <2>5, <2>6
  <2>. HIDE DEF E, T
  <2>8. /\ Updated(v, b[n]) = Updated(Half(E(n - 1)), UpdateOf(i))
        /\ Half(E(n - 1)) \in Keyed /\ i \in DOMAIN main
    BY <2>1, <2>2
  <2>9. /\ Updated(Half(E(n - 1)), UpdateOf(i)) = Half(E(n - 1) \cup {i})
        /\ Half(E(n - 1) \cup {i}) \in Keyed
    BY <2>7, <2>8, UpdatedHalf
  <2>. QED
    BY <2>7, <2>8, <2>9
<1>. HIDE DEF T
<1>3. F!FoldLeft(Updated, Half(D), b) \in T[Len(b)]
  BY <1>1, <1>2, F!FoldInvariant
<1>4. Flushed(Half(D), b) \in T[Len(b)]
  BY <1>3, SameOperators
<1>. QED
  BY <1>0, <1>4 DEF T

-----------------------------------------------------------------------------
(* The rows that were read and masked, and those whose updates were not executed. *)
Passed == {i \in DOMAIN main : main[i].key <= cursor /\ main[i] \notin fetched}

Queued == Meant(batch, Len(batch))

Reading ==
  phase = "reading" /\ Undisturbed =>
    /\ cursor \in Nat
    /\ fetched \subseteq {main[i] : i \in DOMAIN main}
    /\ \A r \in fetched : r.key <= cursor
    /\ \A k \in DOMAIN batch : \E i \in Passed : batch[k] = UpdateOf(i)
    /\ \A k, l \in DOMAIN batch : k # l => batch[k].key # batch[l].key
    /\ work = Half(Passed \ Queued)
    /\ Len(main) < BatchSize => work = main /\ Len(batch) <= Cardinality(Passed)

(* The rows of a table have keys that can be compared with the cursor. *)
LEMMA RowKeys ==
  ASSUME NEW t \in Seq(Row)
  PROVE  \A i \in DOMAIN t : t[i] \in Row /\ t[i].key \in Nat
<1>1. \A i \in DOMAIN t : t[i] \in Row
  OBVIOUS
<1>2. \A r \in Row : r.key \in Nat
  BY InPlaceAssumption DEF Row
<1>. QED
  BY <1>1, <1>2

(* What the cursor has yet to show are rows of the table that others see. *)
LEMMA UnreadRows ==
  ASSUME TypeInv, Rules, connector = "live", phase = "reading", Undisturbed, Reading
  PROVE  Unread = {main[i] : i \in {j \in DOMAIN main : main[j].key > cursor}}
<1>1. main \in Seq(Row) /\ work \in Seq(Row) /\ cursor \in Nat
      /\ \A j \in DOMAIN main : main[j].key \in Nat
  <2>1. main \in Seq(Row) /\ work \in Seq(Row) /\ cursor \in Nat
    BY DEF TypeInv, LiveType, Keyed, Reading
  <2>. QED
    BY <2>1, RowKeys
<1>2. CASE insensitive
  BY <1>2 DEF Unread
<1>3. CASE ~insensitive /\ ~rule.key
  <2>1. work = Half(Passed \ Queued) /\ DOMAIN work = DOMAIN main
    BY HalfRows, <1>1 DEF Reading
  <2>2. \A j \in DOMAIN main : work[j].key = main[j].key
    BY <1>3, <2>1 DEF Half, MaskRow
  <2>3. \A j \in DOMAIN main : main[j].key > cursor => j \notin Passed
    BY <1>1 DEF Passed
  <2>4. \A j \in DOMAIN main : main[j].key > cursor => work[j] = main[j]
    BY <2>1, <2>3 DEF Half
  <2>. QED
    BY <1>3, <2>1, <2>2, <2>4 DEF Unread
<1>4. CASE ~insensitive /\ rule.key
  <2>1. work = main
    BY <1>4 DEF Reading, Undisturbed
  <2>. QED
    BY <1>4, <2>1 DEF Unread
<1>. QED
  BY <1>2, <1>3, <1>4

(* A page is the next of those rows, up to the key it moves the cursor to. *)
LEMMA PageIsNext ==
  ASSUME main \in Seq(Row), cursor \in Nat, Unread # {},
         Unread = {main[i] : i \in {j \in DOMAIN main : main[j].key > cursor}}
  PROVE  /\ Page \subseteq Unread
         /\ Advanced(Page) \in Nat /\ cursor < Advanced(Page)
         /\ \A r \in Page : r.key <= Advanced(Page)
         /\ \A r \in Unread : r.key <= Advanced(Page) => r \in Page
<1>. DEFINE rows == {main[i] : i \in DOMAIN main}
            Below(r) == {s \in Unread : s.key < r.key}
            keys == {r.key : r \in Page}
<1>1. /\ Unread \subseteq rows /\ \A r \in Unread : r \in Row /\ r.key \in Nat /\ r.key > cursor
  BY RowKeys
<1>2. IsFiniteSet(Unread)
  <2>1. IsFiniteSet(DOMAIN main)
    <3>1. DOMAIN main = 1 .. Len(main) /\ Len(main) \in Nat
      OBVIOUS
    <3>. QED
      BY <3>1, FS_Interval
  <2>2. IsFiniteSet(rows)
    <3>1. main \in [DOMAIN main -> rows]
      OBVIOUS
    <3>2. main \in Surjection(DOMAIN main, rows)
      BY <3>1 DEF Surjection
    <3>. QED
      BY <2>1, <3>2, FS_Surjection
  <2>. QED
    BY <1>1, <2>2, FS_Subset
<1>3. Page = {r \in Unread : Cardinality(Below(r)) < BatchSize}
  BY DEF Page
<1>4. PICK r0 \in Unread : \A r \in Unread : r0.key <= r.key
  <2>. DEFINE all == {r.key : r \in Unread}
  <2>1. all \subseteq Nat /\ all # {}
    BY <1>1
  <2>2. PICK k \in all : \A l \in all : k <= l
    BY <2>1, F!LeastOfSet
  <2>. QED
    BY <2>2
<1>5. r0 \in Page
  <2>1. Below(r0) = {}
    BY <1>1, <1>4
  <2>2. Cardinality(Below(r0)) = 0
    BY <2>1, FS_EmptySet
  <2>. HIDE DEF Below
  <2>. QED
    BY <1>3, <2>2, InPlaceAssumption
<1>6. PICK b \in Nat : \A r \in Unread : r.key <= b
  <2>. DEFINE s == [i \in 1 .. Len(main) |-> main[i].key]
  <2>1. \A i \in 1 .. Len(main) : main[i].key \in Nat
    BY RowKeys
  <2>2. s \in Seq(Nat) /\ DOMAIN s = DOMAIN main
    BY <2>1
  <2>. HIDE DEF s
  <2>3. PICK b \in Nat : \A i \in DOMAIN s : s[i] <= b
    BY <2>2, F!BoundOfValues
  <2>4. \A i \in DOMAIN main : main[i].key <= b
    BY <2>2, <2>3 DEF s
  <2>. QED
    BY <2>4
<1>7. Advanced(Page) \in keys /\ \A k \in keys : k <= Advanced(Page)
  <2>1. keys \in SUBSET (0 .. b) /\ keys # {}
    <3>1. Page \subseteq Unread /\ Page # {}
      BY <1>3, <1>5
    <3>2. \A r \in Page : r.key \in 0 .. b
      BY <1>1, <1>6, <3>1
    <3>. QED
      BY <3>1, <3>2
  <2>. HIDE DEF keys
  <2>2. F!Max(keys) \in keys /\ \A k \in keys : k <= F!Max(keys)
    BY <2>1, F!MaxOfBounded
  <2>. QED
    BY <2>2, SameOperators DEF Advanced, keys
<1>8. ASSUME NEW r \in Unread, r.key <= Advanced(Page)
      PROVE  r \in Page
  <2>1. PICK p \in Page : p.key = Advanced(Page)
    BY <1>7
  <2>2. p \in Unread /\ Cardinality(Below(p)) < BatchSize
    BY <1>3
  <2>3. Below(r) \subseteq Below(p) /\ Below(p) \subseteq Unread
    BY <1>1, <1>8, <2>1, <2>2
  <2>4. IsFiniteSet(Below(p))
    BY <1>2, <2>3, FS_Subset
  <2>5. /\ IsFiniteSet(Below(r)) /\ Cardinality(Below(r)) <= Cardinality(Below(p))
        /\ Cardinality(Below(r)) \in Nat /\ Cardinality(Below(p)) \in Nat
    <3>. HIDE DEF Below
    <3>. QED
      BY <2>3, <2>4, FS_Subset, FS_CardinalityType
  <2>. HIDE DEF Below
  <2>. QED
    BY <1>3, <2>2, <2>5, InPlaceAssumption
<1>. QED
  BY <1>1, <1>3, <1>5, <1>7, <1>8

(* Nobody has read or changed anything: a transaction has begun. *)
LEMMA BeginReads ==
  ASSUME TypeInv, Rules, Begin
  PROVE  Reading'
<1>1. /\ connector = "live" /\ phase = "idle" /\ main \in Seq(Row)
      /\ cursor' = 0 /\ fetched' = {} /\ batch' = <<>> /\ work' = main
      /\ main' = main /\ rule' = rule
  <2>1. connector = "live" /\ phase = "idle"
    BY DEF Begin, Attempt
  <2>. QED
    BY <2>1 DEF Begin, setting, TypeInv, LiveType, Resting, Keyed
<1>2. Passed' = {}
  <2>1. \A i \in DOMAIN main : main[i].key \in Nat /\ main[i].key # 0
    <3>1. \A r \in Row : r.key \in Nat \ {0}
      BY InPlaceAssumption DEF Row
    <3>. QED
      BY <1>1, <3>1
  <2>2. \A i \in DOMAIN main : ~(main[i].key <= 0)
    BY <2>1
  <2>. QED
    BY <1>1, <2>2 DEF Passed
<1>3. Half({})' = main
  BY <1>1 DEF Half
<1>4. Len(batch') = 0 /\ DOMAIN batch' = {} /\ Cardinality({}) = 0
  BY <1>1, FS_EmptySet
<1>5. work' = Half(Passed \ Queued)'
  <2>1. (Passed \ Queued)' = {}
    BY <1>2
  <2>. QED
    BY <1>1, <1>3, <2>1 DEF Half
<1>. QED
  BY <1>1, <1>2, <1>4, <1>5 DEF Reading

(* The rows that were masked are the same after a page was read. *)
LEMMA FetchReads ==
  ASSUME TypeInv, Rules, Reading, connector = "live", Fetch, Undisturbed
  PROVE  Reading'
<1>1. /\ phase = "reading" /\ fetched = {} /\ Unread # {}
      /\ fetched' = Page /\ cursor' = Advanced(Page)
      /\ main' = main /\ rule' = rule /\ work' = work /\ batch' = batch
  BY DEF Fetch, setting
<1>2. cursor \in Nat /\ main \in Seq(Row)
  BY <1>1 DEF Reading, TypeInv, LiveType, Keyed
<1>3. Unread = {main[i] : i \in {j \in DOMAIN main : main[j].key > cursor}}
  BY <1>1, UnreadRows
<1>4. /\ Page \subseteq Unread
      /\ Advanced(Page) \in Nat /\ cursor < Advanced(Page)
      /\ \A r \in Page : r.key <= Advanced(Page)
      /\ \A r \in Unread : r.key <= Advanced(Page) => r \in Page
  BY <1>1, <1>2, <1>3, PageIsNext
<1>5. ASSUME NEW i \in DOMAIN main
      PROVE  /\ main[i].key \in Nat
             /\ main[i] \in Unread <=> main[i].key > cursor
  BY <1>2, <1>3, RowKeys
<1>6. ASSUME NEW i \in DOMAIN main
      PROVE  (main[i].key <= Advanced(Page) /\ main[i] \notin Page) <=> main[i].key <= cursor
  BY <1>2, <1>4, <1>5
<1>7. Passed' = Passed
  BY <1>1, <1>6 DEF Passed
<1>8. Queued' = Queued /\ Half(Passed \ Queued)' = Half(Passed \ Queued)
  BY <1>1, <1>7 DEF Queued, Half, Meant
<1>9. Page \subseteq {main[i] : i \in DOMAIN main}
  BY <1>3, <1>4
<1>10. \A i : UpdateOf(i)' = UpdateOf(i)
  BY <1>1 DEF UpdateOf
<1>. QED
  BY <1>1, <1>4, <1>7, <1>8, <1>9, <1>10 DEF Reading

(* A batch is right for the rows P: it has updates of some of them, each once, and the
   others have been masked; executed, it masks the rest. *)
BatchRight(b, P) ==
  /\ b \in Seq(Update)
  /\ \A k \in DOMAIN b : \E i \in P : b[k] = UpdateOf(i)
  /\ \A k, l \in DOMAIN b : k # l => b[k].key # b[l].key
  /\ work = Half(P \ Meant(b, Len(b)))
  /\ work = Half(Passed \ Queued)
  /\ \A k \in DOMAIN b : \E i \in DOMAIN main \ (Passed \ Queued) : b[k] = UpdateOf(i)
  /\ Half((Passed \ Queued) \cup Meant(b, Len(b))) = Half(P)
  /\ Len(b) <= Len(batch) + 1

(* The batch with the update of the next row is right for one more row. *)
LEMMA NextBatched ==
  ASSUME TypeInv, Rules, Reading, connector = "live", phase = "reading", Undisturbed,
         NEW j \in DOMAIN main, main[j] \in fetched
  PROVE  BatchRight(Batched(main[j]), Passed \cup {j})
<1>. SUFFICES ASSUME NEW b, b = Batched(main[j]), NEW P, P = Passed \cup {j}
              PROVE  BatchRight(b, P)
  OBVIOUS
<1>. DEFINE u == UpdateOf(j)
<1>1. /\ main \in Seq(Row) /\ Unique(main) /\ batch \in Seq(Update)
      /\ main[j] \in Row
      /\ work = Half(Passed \ Queued)
      /\ \A k \in DOMAIN batch : \E i \in Passed : batch[k] = UpdateOf(i)
      /\ \A k, l \in DOMAIN batch : k # l => batch[k].key # batch[l].key
  BY DEF TypeInv, LiveType, Keyed, Reading
<1>2. b \in Seq(Update)
  BY <1>1, BatchedType
<1>3. j \notin Passed /\ Passed \subseteq DOMAIN main /\ \A i : UpdateOf(i).key = main[i].key
  BY DEF Passed, UpdateOf
<1>4. \A k \in DOMAIN batch : batch[k].key # main[j].key
  BY <1>1, <1>3 DEF Unique
<1>5. Queued \subseteq Passed
  <2>1. \A k \in 1 .. Len(batch) : k \in DOMAIN batch
    BY <1>1
  <2>2. \A i \in DOMAIN main : \A k \in DOMAIN batch : batch[k].key = main[i].key => i \in Passed
    BY <1>1, <1>3 DEF Unique
  <2>. QED
    BY <2>1, <2>2 DEF Queued, Meant
<1>6. \A k \in DOMAIN batch :
        \E i \in DOMAIN main \ (Passed \ Queued) : batch[k] = UpdateOf(i)
  <2>. SUFFICES ASSUME NEW k \in DOMAIN batch
                PROVE  \E i \in DOMAIN main \ (Passed \ Queued) : batch[k] = UpdateOf(i)
    OBVIOUS
  <2>1. PICK i \in Passed : batch[k] = UpdateOf(i)
    BY <1>1
  <2>2. k \in 1 .. Len(batch)
    BY <1>1
  <2>3. i \in Queued
    BY <1>3, <2>1, <2>2 DEF Queued, Meant
  <2>. QED
    BY <1>3, <2>1, <2>3
<1>7. CASE MaskRow(rule, main[j]) = main[j]
  <2>1. b = batch /\ Meant(b, Len(b)) = Queued
    BY <1>7 DEF Batched, Queued
  <2>2. \A D : Half(D \cup {j}) = Half(D)
    BY <1>7 DEF Half
  <2>3. P \ Queued = (Passed \ Queued) \cup {j} /\ (Passed \ Queued) \cup Queued = Passed
    BY <1>3, <1>5
  <2>4. Half(P \ Queued) = Half(Passed \ Queued) /\ Half(P) = Half(Passed)
    BY <2>2, <2>3
  <2>5. Len(batch) \in Nat
    BY <1>1
  <2>6. P \ Meant(b, Len(b)) = P \ Queued /\ (Passed \ Queued) \cup Meant(b, Len(b)) = Passed
    BY <2>1, <2>3
  <2>7. work = Half(P \ Meant(b, Len(b)))
    BY <1>1, <2>4, <2>6
  <2>8. Half((Passed \ Queued) \cup Meant(b, Len(b))) = Half(P)
    BY <2>4, <2>6
  <2>9. Len(b) <= Len(batch) + 1
    BY <2>1, <2>5
  <2>10. \A k \in DOMAIN b : \E i \in P : b[k] = UpdateOf(i)
    BY <1>1, <2>1
  <2>11. /\ \A k, l \in DOMAIN b : k # l => b[k].key # b[l].key
         /\ \A k \in DOMAIN b : \E i \in DOMAIN main \ (Passed \ Queued) : b[k] = UpdateOf(i)
    BY <1>1, <1>6, <2>1
  <2>. QED
    BY <1>1, <1>2, <2>7, <2>8, <2>9, <2>10, <2>11 DEF BatchRight
<1>8. CASE MaskRow(rule, main[j]) # main[j]
  <2>1. b = Append(batch, u)
    BY <1>8 DEF Batched, UpdateOf
  <2>. DEFINE n == Len(batch)
  <2>2. /\ n \in Nat /\ Len(b) = n + 1 /\ DOMAIN b = 1 .. n + 1 /\ DOMAIN batch = 1 .. n
        /\ b[n + 1] = u /\ \A k \in 1 .. n : b[k] = batch[k]
    <3>1. u \in Update
      <4>1. MaskRow(rule, main[j]) \in Row /\ main[j].key \in Keys
        BY <1>1, MaskedRow DEF Rules, Row
      <4>. QED
        BY <4>1 DEF UpdateOf, Update
    <3>. HIDE DEF u
    <3>. QED
      BY <1>1, <2>1, <3>1
  <2>. HIDE DEF n, u
  <2>3. \A k \in 1 .. n + 1 : k \in 1 .. n \/ k = n + 1
    BY <2>2
  <2>4. \A k \in 1 .. n : k \in 1 .. n + 1 /\ n + 1 \in 1 .. n + 1
    BY <2>2
  <2>5. u = UpdateOf(j) /\ u.key = main[j].key
    BY <1>3 DEF u
  <2>6. Meant(b, Len(b)) = Queued \cup {j}
    <3>1. \A i \in DOMAIN main : main[i].key = main[j].key => i = j
      BY <1>1 DEF Unique
    <3>2. 0 \in Nat /\ 1 \in 1 .. n + 1 /\ n + 1 \in 1 .. n + 1
      BY <2>2
    <3>. QED
      BY <2>2, <2>3, <2>4, <2>5, <3>1, <3>2 DEF Meant, Queued, n
  <2>7. P \ (Queued \cup {j}) = Passed \ Queued /\ (Passed \ Queued) \cup (Queued \cup {j}) = P
    BY <1>3, <1>5
  <2>8. \A k \in DOMAIN b : \E i \in P : b[k] = UpdateOf(i)
    BY <1>1, <2>2, <2>3, <2>5
  <2>9. \A k, l \in DOMAIN b : k # l => b[k].key # b[l].key
    BY <1>1, <1>4, <2>2, <2>3, <2>5
  <2>10. \A k \in DOMAIN b : \E i \in DOMAIN main \ (Passed \ Queued) : b[k] = UpdateOf(i)
    BY <1>3, <1>6, <2>2, <2>3, <2>5
  <2>11. P \ Meant(b, Len(b)) = Passed \ Queued /\ (Passed \ Queued) \cup Meant(b, Len(b)) = P
    BY <2>6, <2>7
  <2>12. /\ work = Half(P \ Meant(b, Len(b)))
         /\ Half((Passed \ Queued) \cup Meant(b, Len(b))) = Half(P)
    BY <1>1, <2>11
  <2>13. Len(b) <= Len(batch) + 1
    BY <2>2 DEF n
  <2>. QED
    BY <1>1, <1>2, <2>8, <2>9, <2>10, <2>12, <2>13 DEF BatchRight
<1>. QED
  BY <1>7, <1>8

(* One more row is masked: its update waits, or all that wait are executed. *)
LEMMA MaskReads ==
  ASSUME TypeInv, Rules, Reading, connector = "live", MaskFetched, Undisturbed
  PROVE  Reading'
<1>1. /\ phase = "reading" /\ fetched # {} /\ fetched \subseteq Row
      /\ main \in Keyed /\ main \in Seq(Row) /\ Unique(main) /\ batch \in Seq(Update)
      /\ work \in Keyed
      /\ cursor \in Nat /\ fetched \subseteq {main[i] : i \in DOMAIN main}
      /\ \A r \in fetched : r.key <= cursor
      /\ rule' = rule /\ main' = main
  BY DEF MaskFetched, TypeInv, LiveType, Reading, setting, Rollback, Keyed
<1>2. FirstFetched \in fetched
  BY <1>1, FirstIsFetched
<1>3. PICK j \in DOMAIN main : main[j] = FirstFetched
  BY <1>1, <1>2
<1>4. PICK b : b = Batched(FirstFetched)
  OBVIOUS
<1>5. PICK P : P = Passed \cup {j}
  OBVIOUS
<1>6. /\ b \in Seq(Update)
      /\ \A k \in DOMAIN b : \E i \in P : b[k] = UpdateOf(i)
      /\ \A k, l \in DOMAIN b : k # l => b[k].key # b[l].key
      /\ work = Half(P \ Meant(b, Len(b)))
      /\ work = Half(Passed \ Queued)
      /\ \A k \in DOMAIN b : \E i \in DOMAIN main \ (Passed \ Queued) : b[k] = UpdateOf(i)
      /\ Half((Passed \ Queued) \cup Meant(b, Len(b))) = Half(P)
      /\ Len(b) <= Len(batch) + 1
  <2>1. main[j] \in fetched /\ b = Batched(main[j])
    BY <1>2, <1>3, <1>4
  <2>2. BatchRight(Batched(main[j]), Passed \cup {j})
    BY <1>1, <2>1, NextBatched
  <2>3. BatchRight(b, P)
    BY <1>5, <2>1, <2>2
  <2>. QED
    BY <2>3 DEF BatchRight
<1>7. ASSUME cursor' = cursor, fetched' = fetched \ {main[j]}
      PROVE  Passed' = P
  <2>1. \A i \in DOMAIN main : main[i] = main[j] <=> i = j
    BY <1>1 DEF Unique
  <2>2. main[j] \in fetched /\ main[j].key <= cursor
    BY <1>1, <1>2, <1>3
  <2>. QED
    BY <1>1, <1>5, <1>7, <2>1, <2>2 DEF Passed
<1>8. \A D, D2 : D2 = D => Half(D)' = Half(D2)
  BY <1>1 DEF Half
<1>9. (\A i : UpdateOf(i)' = UpdateOf(i))
  BY <1>1 DEF UpdateOf
<1>10. Len(main) < BatchSize => work = main /\ Len(b) <= Cardinality(P) /\ Len(b) < BatchSize
  <2>. SUFFICES ASSUME Len(main) < BatchSize
                PROVE  work = main /\ Len(b) <= Cardinality(P) /\ Len(b) < BatchSize
    OBVIOUS
  <2>1. work = main /\ Len(batch) <= Cardinality(Passed)
    BY <1>1 DEF Reading
  <2>2. P \subseteq DOMAIN main /\ Passed \subseteq P /\ j \notin Passed
    BY <1>2, <1>3, <1>5 DEF Passed
  <2>3. IsFiniteSet(DOMAIN main) /\ Cardinality(DOMAIN main) = Len(main) /\ Len(main) \in Nat
    <3>1. DOMAIN main = 1 .. Len(main) /\ Len(main) \in Nat
      BY <1>1
    <3>2. PICK n \in Nat : n = Len(main)
      BY <3>1
    <3>3. /\ IsFiniteSet(1 .. n)
          /\ Cardinality(1 .. n) = IF 1 > n THEN 0 ELSE n - 1 + 1
      BY FS_Interval
    <3>. QED
      BY <3>1, <3>2, <3>3
  <2>4. /\ IsFiniteSet(P) /\ Cardinality(P) <= Len(main) /\ IsFiniteSet(Passed)
        /\ Cardinality(P) \in Nat /\ Cardinality(Passed) \in Nat
    BY <2>2, <2>3, FS_Subset, FS_CardinalityType
  <2>5. Cardinality(P) = Cardinality(Passed) + 1
    BY <1>5, <2>2, <2>4, FS_AddElement
  <2>6. Len(b) \in Nat /\ Len(batch) \in Nat
    BY <1>1, <1>6
  <2>. QED
    BY <1>6, <2>1, <2>3, <2>4, <2>5, <2>6, InPlaceAssumption
<1>11. CASE /\ fetched' = fetched \ {FirstFetched}
            /\ batch' = b
            /\ UNCHANGED <<work, cursor, phase>>
  <2>1. Passed' = P
    BY <1>3, <1>7, <1>11
  <2>2. Queued' = Meant(b, Len(b))
    BY <1>1, <1>11 DEF Queued, Meant
  <2>3. Half(Passed \ Queued)' = Half(P \ Meant(b, Len(b)))
    BY <1>1, <2>1, <2>2 DEF Half
  <2>4. (\A k \in DOMAIN b : \E i \in Passed : b[k] = UpdateOf(i))'
    BY <1>6, <1>9, <1>11, <2>1
  <2>. QED
    BY <1>1, <1>6, <1>10, <1>11, <2>1, <2>3, <2>4 DEF Reading
<1>12. CASE /\ Len(b) >= BatchSize /\ Flushed(work, b) # Missing
            /\ work' = Flushed(work, b)
            /\ fetched' = fetched \ {FirstFetched}
            /\ batch' = <<>>
            /\ UNCHANGED <<cursor, phase>>
  <2>1. Passed' = P
    BY <1>3, <1>7, <1>12
  <2>2. Queued' = {}
    BY <1>12 DEF Queued, Meant
  <2>3. Flushed(Half(Passed \ Queued), b) = Half((Passed \ Queued) \cup Meant(b, Len(b)))
    BY <1>1, <1>6, <1>12, FlushedHalf
  <2>4. work' = Half(P)
    BY <1>6, <1>12, <2>3
  <2>5. Half(Passed \ Queued)' = Half(P)
    BY <1>1, <2>1, <2>2 DEF Half
  <2>6. ~(Len(main) < BatchSize)
    <3>1. Len(b) \in Nat
      BY <1>6
    <3>. QED
      BY <1>10, <1>12, <3>1, InPlaceAssumption
  <2>7. DOMAIN batch' = {}
    BY <1>12
  <2>. QED
    BY <1>1, <1>12, <2>4, <2>5, <2>6, <2>7 DEF Reading
<1>13. CASE phase' = "idle"
  BY <1>13 DEF Reading
<1>14. \/ /\ fetched' = fetched \ {FirstFetched}
          /\ batch' = b
          /\ UNCHANGED <<work, cursor, phase>>
       \/ /\ Len(b) >= BatchSize /\ Flushed(work, b) # Missing
          /\ work' = Flushed(work, b)
          /\ fetched' = fetched \ {FirstFetched}
          /\ batch' = <<>>
          /\ UNCHANGED <<cursor, phase>>
       \/ phase' = "idle"
  BY <1>4 DEF MaskFetched, Rollback
<1>. QED
  BY <1>11, <1>12, <1>13, <1>14

(* All rows have been read when none is unread, and the commit shows them all masked. *)
LEMMA CommitMasksAll ==
  ASSUME TypeInv, Rules, Reading, connector = "live", Commit, Undisturbed
  PROVE  main' = main \/ main' = Half(DOMAIN main)
<1>1. /\ phase = "reading" /\ fetched = {} /\ Unread = {}
      /\ main \in Keyed /\ main \in Seq(Row) /\ batch \in Seq(Update)
      /\ cursor \in Nat /\ work \in Keyed
      /\ work = Half(Passed \ Queued)
      /\ \A k \in DOMAIN batch : \E i \in Passed : batch[k] = UpdateOf(i)
      /\ \A k, l \in DOMAIN batch : k # l => batch[k].key # batch[l].key
  BY DEF Commit, TypeInv, LiveType, Keyed, Reading
<1>2. Passed = DOMAIN main
  <2>1. \A j \in DOMAIN main : main[j].key \in Nat
    BY <1>1, RowKeys
  <2>2. Unread = {main[i] : i \in {j \in DOMAIN main : main[j].key > cursor}}
    BY <1>1, UnreadRows
  <2>3. \A j \in DOMAIN main : main[j].key <= cursor
    <3>1. \A j \in DOMAIN main : ~(main[j].key > cursor)
      BY <1>1, <2>2
    <3>. QED
      BY <1>1, <2>1, <3>1
  <2>. QED
    BY <1>1, <2>3 DEF Passed
<1>3. \A k \in DOMAIN batch :
        \E i \in DOMAIN main \ (Passed \ Queued) : batch[k] = UpdateOf(i)
  <2>. SUFFICES ASSUME NEW k \in DOMAIN batch
                PROVE  \E i \in DOMAIN main \ (Passed \ Queued) : batch[k] = UpdateOf(i)
    OBVIOUS
  <2>1. PICK i \in Passed : batch[k] = UpdateOf(i)
    BY <1>1
  <2>2. k \in 1 .. Len(batch) /\ i \in DOMAIN main /\ batch[k].key = main[i].key
    BY <1>1, <1>2, <2>1 DEF UpdateOf
  <2>3. i \in Queued
    BY <2>2 DEF Queued, Meant
  <2>. QED
    BY <2>1, <2>2, <2>3
<1>4. (Passed \ Queued) \cup Meant(batch, Len(batch)) = DOMAIN main
  BY <1>2 DEF Queued, Meant
<1>5. Flushed(work, batch) # Missing =>
        Flushed(work, batch) = Half((Passed \ Queued) \cup Meant(batch, Len(batch)))
  BY <1>1, <1>3, FlushedHalf
<1>6. Flushed(work, batch) # Missing => Flushed(work, batch) = Half(DOMAIN main)
  BY <1>4, <1>5
<1>. QED
  BY <1>6 DEF Commit, Rollback

(* Every step of the live connector leaves the rows it has passed as Reading says. *)
LEMMA LiveReads ==
  ASSUME TypeInv, Rules, Reading, connector = "live", [InPlaceNext]_inPlaceVars
  PROVE  Reading'
<1>0. phase \in {"idle", "reading"} /\ connector # "duckdb"
  BY DEF TypeInv, LiveType
<1>1. CASE UNCHANGED inPlaceVars \/ (phase = "idle" /\ phase' = "idle") \/ phase' = "idle"
  BY <1>1 DEF inPlaceVars, Reading, Undisturbed, Passed, Queued, Half, Meant, UpdateOf
<1>2. CASE Begin
  BY <1>2, BeginReads
<1>3. ASSUME Fetch \/ MaskFetched, phase' # "idle", ~Undisturbed
      PROVE  Reading'
  <2>1. main' = main /\ connector' = connector /\ rule' = rule /\ insensitive' = insensitive
    BY <1>3 DEF Fetch, MaskFetched, Rollback, setting
  <2>. QED
    BY <1>3, <2>1 DEF Reading, Undisturbed
<1>4. CASE Fetch /\ Undisturbed
  BY <1>4, FetchReads
<1>5. CASE MaskFetched /\ Undisturbed
  BY <1>5, MaskReads
<1>6. InPlaceNext => Refuse \/ Begin \/ Fetch \/ MaskFetched \/ Commit \/ CallFails
  BY <1>0 DEF InPlaceNext, CallStep, CreateCopy, InsertBatch, DropTable, RenameCopy
<1>7. Refuse \/ Commit \/ CallFails => phase' = "idle"
  BY <1>0 DEF Refuse, Attempt, Commit, Rollback, CallFails
<1>. QED
  BY <1>1, <1>2, <1>3, <1>4, <1>5, <1>6, <1>7

(* The live connector keeps what Reading says, page by page. *)
LEMMA ReadingHolds == InPlaceSpec => []Reading
<1>1. InPlaceInit => Reading
  BY DEF InPlaceInit, Reading
<1>2. TypeInv /\ Rules /\ Reading /\ [InPlaceNext]_inPlaceVars => Reading'
  <2>. SUFFICES ASSUME TypeInv, Rules, Reading, [InPlaceNext]_inPlaceVars
                PROVE  Reading'
    OBVIOUS
  <2>1. CASE connector = "live"
    BY <2>1, LiveReads
  <2>2. CASE connector = "duckdb"
    <3>1. phase' # "reading"
      BY <2>2, DuckSteps DEF DuckType
    <3>. QED
      BY <3>1 DEF Reading
  <2>. QED
    BY <2>1, <2>2 DEF TypeInv
<1>. QED
  BY <1>1, <1>2, Typing, PTL DEF InPlaceSpec

(* What others see changes to the table with all rows masked, or not at all. *)
LEMMA ShownSteps ==
  ASSUME TypeInv, Rules, Reading, [InPlaceNext]_inPlaceVars, Undisturbed, Shown' # Shown
  PROVE  Promise!MaskAll
<1>1. rule' = rule /\ connector \in {"live", "duckdb"}
  BY SettingsStay DEF TypeInv
<1>2. CASE connector = "live"
  <2>1. main \in Seq(Row) /\ main' \in Seq(Row) /\ phase \in {"idle", "reading"}
    BY <1>2, LiveSteps DEF TypeInv, LiveType, Keyed
  <2>2. Shown = main /\ Shown' = main'
    BY <2>1, InPlaceAssumption DEF Shown
  <2>3. Commit
    BY <1>2, <2>1, <2>2 DEF InPlaceNext, CallStep, inPlaceVars, Refuse, Begin, CreateCopy,
       Fetch, MaskFetched, InsertBatch, DropTable, RenameCopy, CallFails, Rollback
  <2>4. main' = Half(DOMAIN main)
    BY <1>2, <2>2, <2>3, CommitMasksAll
  <2>. QED
    BY <1>1, <2>2, <2>4 DEF Half, Promise!MaskAll
<1>3. CASE connector = "duckdb"
  <2>1. DuckType /\ phase # "reading"
    BY <1>3 DEF TypeInv, DuckType
  <2>2. CASE DropTable
    <3>1. /\ phase = "copying" /\ main \in Seq(Row) /\ main # Missing
          /\ cursor = Len(main) /\ copy = FirstMasked(cursor) /\ main' = Missing /\ copy' = copy
      BY <2>1, <2>2 DEF DuckType, DropTable, FirstMasked
    <3>2. Shown = main /\ Shown' = copy
      BY <3>1 DEF Shown
    <3>3. DOMAIN main = 1 .. Len(main)
      BY <3>1
    <3>. QED
      BY <1>1, <3>1, <3>2, <3>3 DEF FirstMasked, Promise!MaskAll
  <2>3. CASE RenameCopy
    <3>1. main = Missing /\ copy # Missing /\ main' = copy
      BY <2>1, <2>3 DEF DuckType, RenameCopy
    <3>. QED
      BY <3>1 DEF Shown
  <2>4. CASE Refuse \/ CreateCopy \/ InsertBatch \/ CallFails \/ UNCHANGED inPlaceVars
    <3>1. main' = main
      BY <2>4 DEF Refuse, CreateCopy, InsertBatch, CallFails, Rollback, inPlaceVars
    <3>2. main = Missing => phase # "copying" /\ ~CreateCopy /\ ~InsertBatch
      BY <1>3, <2>1 DEF CreateCopy, Refused, InsertBatch, DuckType
    <3>3. main = Missing => copy' = copy
      BY <2>4, <3>2 DEF Refuse, CallFails, inPlaceVars
    <3>. QED
      BY <3>1, <3>3 DEF Shown
  <2>5. ~Begin /\ ~Fetch /\ ~MaskFetched /\ ~Commit
    BY <1>3, <2>1 DEF Begin, Fetch, MaskFetched, Commit
  <2>. QED
    BY <2>2, <2>3, <2>4, <2>5 DEF InPlaceNext, CallStep
<1>. QED
  BY <1>1, <1>2, <1>3

(* Whatever fails, crashes or is rolled back, no one ever sees a table of which some rows are
   masked and others not, or masked twice, and no row is lost. *)
THEOREM MaskedAllOrNothing == InPlaceSpec => ImplementsPromise
<1>1. InPlaceInit => Promise!Init
  BY InPlaceAssumption DEF InPlaceInit, Shown, Promise!Init
<1>2. TypeInv /\ Rules /\ Reading /\ [InPlaceNext]_inPlaceVars
      => [Undisturbed => Promise!MaskAll]_Shown
  BY ShownSteps
<1>. QED
  BY <1>1, <1>2, Typing, ReadingHolds, PTL DEF InPlaceSpec, ImplementsPromise

-----------------------------------------------------------------------------
(* The runs. *)

(* Whatever may be a salt: what a user, a command or an operator supplies. *)
Salts ==
  Environments \cup {c.salt : c \in Configs} \cup {r.salt : r \in Requests}

(* The salts that have the fingerprint of the configuration. *)
Good == {s \in Salts : Fingerprint(s) = config.print}

(* Items of the input, and items as they may be in the output. *)
Item == [item : Kinds(format), salts : {<<>>}]
Masked == [item : Kinds(format), salts : Seq(Good)]

Formats == {"csv", "jsonl", "json", "parquet", "sql"}

Fields ==
  {"req", "env", "print", "salt", "phase", "next", "ignored", "updated", "edited", "before"}

Typed ==
  /\ format \in Formats
  /\ input \in Seq(Item)
  /\ env \in Salts
  /\ config.salt \in Salts
  /\ run # NoRun => /\ DOMAIN run = Fields
                   /\ run.req \in Requests
                   /\ run.salt \in Salts
                   /\ run.next \in Nat \ {0}

(* What is there has been masked with salts of the fingerprint. *)
Printed ==
  /\ config.print # NoPrint
  /\ db \in [DOMAIN tables -> Seq(Good)]
  /\ output = None \/ output \in Seq(Masked)

(* The run in progress will compare its salt with the fingerprint, or has
   compared it. *)
Checked ==
  run # NoRun =>
    /\ run.before.config = config
    /\ run.phase \in {"salt", "fingerprint", "production", "open", "masking", "audit"}
    /\ run.phase = "production" => run.salt \in Good
    /\ run.phase = "open" /\ run.req.via # "airflow" => run.salt \in Good
    /\ run.phase \in {"masking", "audit"} => run.salt \in Good

(* A run that writes has an output to append to, or nothing to read. *)
Writable ==
  At("masking") /\ ~Live /\ Writes => input = <<>> \/ output \in Seq(Masked)

Guarded == Typed /\ Printed /\ Checked /\ Writable

GuardInv == guarded => Guarded

(* Nothing has been masked at first. *)
LEMMA InitGuard == Init => GuardInv
<1>. SUFFICES ASSUME Init, guarded
              PROVE  Guarded
  BY DEF GuardInv
<1>1. PICK f \in Files : format = f.format /\ input = Raw(f.items)
  BY DEF Init
<1>2. format \in Formats /\ f.items \in Seq(Kinds(format))
  BY <1>1, RunsAssumption DEF Formats
<1>3. input \in Seq(Item)
  <2>1. /\ input = [i \in 1 .. Len(f.items) |-> [item |-> f.items[i], salts |-> <<>>]]
        /\ Len(f.items) \in Nat
    BY <1>1, <1>2 DEF Raw
  <2>2. \A i \in 1 .. Len(f.items) : [item |-> f.items[i], salts |-> <<>>] \in Item
    BY <1>2 DEF Item
  <2>. QED
    BY <2>1, <2>2
<1>4. env \in Salts /\ config.salt \in Salts
  BY DEF Init, Salts
<1>5. config.print # NoPrint
  BY DEF Init
<1>6. db \in [DOMAIN tables -> Seq(Good)]
  BY DEF Init
<1>7. output = None /\ run = NoRun
  BY DEF Init
<1>. QED
  BY <1>2, <1>3, <1>4, <1>5, <1>6, <1>7 DEF Guarded, Typed, Printed, Checked, Writable, At, NoRun

(* A run that goes on keeps what it was asked for. *)
LEMMA GoesOn ==
  ASSUME run # NoRun, DOMAIN run = Fields, NEW to, run' = [run EXCEPT !.phase = to]
  PROVE  /\ DOMAIN run' = Fields /\ run'.phase = to
         /\ run'.req = run.req /\ run'.salt = run.salt
         /\ run'.next = run.next /\ run'.before = run.before
BY DEF Fields

(* A step that masks nothing and leaves configuration and files alone. *)
LEMMA QuietStep ==
  ASSUME Guarded, UNCHANGED <<config, env, fixed, db, input, output>>,
         \/ run' = NoRun
         \/ /\ run # NoRun /\ DOMAIN run' = Fields
            /\ run'.req = run.req /\ run'.salt = run.salt /\ run'.next = run.next
            /\ Checked' /\ Writable'
  PROVE  Guarded'
<1>1. Good' = Good /\ Item' = Item /\ Masked' = Masked
  BY DEF Good, Item, Masked, fixed
<1>2. Printed'
  BY <1>1 DEF Guarded, Printed, fixed
<1>3. Typed'
  BY <1>1 DEF Guarded, Typed, fixed
<1>4. Checked' /\ Writable'
  BY DEF Checked, Writable, At, NoRun
<1>. QED
  BY <1>2, <1>3, <1>4 DEF Guarded

(* The environment changes between two runs. *)
LEMMA EnvironmentStep ==
  ASSUME Guarded, NEW s \in Environments, SetEnvironment(s)
  PROVE  Guarded'
<1>1. Good' = Good /\ Item' = Item /\ Masked' = Masked
  BY DEF SetEnvironment, Good, Item, Masked, fixed
<1>2. run = NoRun /\ run' = NoRun /\ env' \in Salts
  BY DEF SetEnvironment, Salts
<1>. QED
  BY <1>1, <1>2
    DEF SetEnvironment, Guarded, Typed, Printed, Checked, Writable, At, NoRun, fixed, data

(* A run begins with the salt of the configuration, or with the operator's. *)
LEMMA StartStep ==
  ASSUME Guarded, NEW req \in Requests, Start(req)
  PROVE  Guarded'
<1>1. UNCHANGED <<config, fixed, db, input, output>>
  BY DEF Start, data
<1>2. Good' = Good /\ Item' = Item /\ Masked' = Masked
  BY <1>1 DEF Good, Item, Masked, fixed
<1>3. Printed'
  BY <1>1, <1>2 DEF Guarded, Printed, fixed
<1>4. env' \in Salts
  BY DEF Guarded, Typed, Start, Salts
<1>. DEFINE loaded == Interpolated(config, env')
<1>5. loaded \in Salts
  BY <1>4 DEF Guarded, Typed, Interpolated
<1>6. CASE run' = NoRun
  BY <1>1, <1>2, <1>3, <1>4, <1>6 DEF Guarded, Typed, Checked, Writable, At, NoRun, fixed
<1>7. CASE run' # NoRun
  <2>. DEFINE salt == IF req.salt = None THEN loaded ELSE req.salt
  <2>1. run' = [req |-> req, env |-> env', print |-> config.print, salt |-> salt,
                phase |-> IF req.via = "cli" THEN "salt" ELSE "open",
                next |-> 1, ignored |-> FALSE, updated |-> FALSE, edited |-> FALSE,
                before |-> [data |-> data, config |-> config]]
    BY <1>7 DEF Start, Halt, NoRun
  <2>2. salt \in Salts
    BY <1>5 DEF Salts
  <2>. HIDE DEF salt
  <2>3. /\ DOMAIN run' = Fields /\ run'.req = req /\ run'.salt = salt /\ run'.next = 1
        /\ run'.phase = (IF req.via = "cli" THEN "salt" ELSE "open")
        /\ run'.before.config = config
    BY <2>1 DEF Fields
  <2>4. req.via \in {"cli", "airflow"}
    BY RunsAssumption
  <2>5. Typed'
    BY <1>1, <1>2, <1>4, <2>2, <2>3 DEF Guarded, Typed, fixed
  <2>6. Checked' /\ Writable'
    BY <1>1, <2>3, <2>4 DEF Checked, Writable, At, NoRun
  <2>. QED
    BY <1>3, <2>5, <2>6 DEF Guarded
<1>. QED
  BY <1>6, <1>7

(* The checks, and what comes after masking: a run is over, or in its next
   phase with a salt that is good where it has to be. *)
LEMMA CheckStep ==
  ASSUME Guarded, guarded',
         \/ CheckSalt \/ CheckFingerprint \/ SaveConfig \/ CheckProduction
         \/ Finish \/ WriteAudit \/ Crash
  PROVE  Guarded'
<1>1. ~At("saving")
  BY DEF Guarded, Checked, At, NoRun
<1>2. UNCHANGED <<config, env, fixed, db, input, output>>
  BY <1>1 DEF CheckSalt, CheckFingerprint, SaveConfig, CheckProduction, Finish, WriteAudit, Crash,
              data, fixed
<1>3. Good' = Good
  BY <1>2 DEF Good
<1>4. CASE run' = NoRun
  BY <1>2, <1>4, QuietStep
<1>5. ASSUME NEW from, NEW to, At(from), run' = [run EXCEPT !.phase = to],
             \/ from = "salt" /\ to = "fingerprint"
             \/ from = "fingerprint" /\ to = "production" /\ run.salt \in Good
             \/ from = "production" /\ to = "open"
             \/ from = "masking" /\ to = "audit"
      PROVE  Guarded'
  <2>1. run # NoRun /\ DOMAIN run = Fields /\ run.phase = from
    BY <1>5 DEF At, NoRun, Guarded, Typed
  <2>2. /\ DOMAIN run' = Fields /\ run'.phase = to
        /\ run'.req = run.req /\ run'.salt = run.salt
        /\ run'.next = run.next /\ run'.before = run.before
    BY <1>5, <2>1, GoesOn
  <2>3. Checked' /\ Writable'
    BY <1>2, <1>3, <1>5, <2>1, <2>2 DEF Guarded, Checked, Writable, At, NoRun
  <2>. QED
    BY <1>2, <2>1, <2>2, <2>3, QuietStep
<1>6. CASE CheckFingerprint
  <2>1. ~Mismatch(run.before.config, run.salt) => run.salt \in Good
    BY <1>6 DEF CheckFingerprint, At, NoRun, Guarded, Typed, Checked, Printed, Mismatch, Good
  <2>2. run' = NoRun \/ (~Mismatch(run.before.config, run.salt) /\ Proceed("production"))
    BY <1>6 DEF CheckFingerprint, Halt, NoRun
  <2>. QED
    BY <1>4, <1>5, <1>6, <2>1, <2>2 DEF CheckFingerprint, Proceed
<1>. QED
  BY <1>1, <1>4, <1>5, <1>6
    DEF CheckSalt, SaveConfig, CheckProduction, Finish, WriteAudit, Crash, Proceed, Halt, NoRun

(* A file is opened by a run that has passed the check: the operator's runs,
   which have not, end the guard. *)
LEMMA OpenStep ==
  ASSUME Guarded, guarded', Open
  PROVE  Guarded'
<1>1. /\ run # NoRun /\ DOMAIN run = Fields /\ run.phase = "open"
      /\ run.req \in Requests /\ run.salt \in Good /\ run.before.config = config
  <2>1. ~Unchecked /\ run.phase = "open"
    BY DEF Open, At
  <2>2. run # NoRun
    BY <2>1 DEF NoRun
  <2>3. /\ DOMAIN run = Fields /\ run.req \in Requests /\ run.salt \in Salts
        /\ run.before.config = config /\ config.print # NoPrint
    BY <2>2 DEF Guarded, Typed, Checked, Printed
  <2>4. CASE Airflow
    BY <2>1, <2>2, <2>3, <2>4 DEF Unchecked, Mismatch, Good
  <2>5. CASE ~Airflow
    BY <2>1, <2>2, <2>3, <2>5 DEF Airflow, Guarded, Checked
  <2>. QED
    BY <2>1, <2>2, <2>3, <2>4, <2>5
<1>2. UNCHANGED <<config, env, fixed, db>>
  BY DEF Open
<1>3. Good' = Good /\ Item' = Item /\ Masked' = Masked
  BY <1>2 DEF Good, Item, Masked, fixed
<1>4. CASE CannotOpen
  BY <1>2, <1>4, QuietStep DEF Open, Halt, NoRun
<1>5. CASE ~CannotOpen
  <2>1. /\ run' = [run EXCEPT !.phase = "masking"]
        /\ output' = IF ~Live /\ Writes /\ run.req.output = "out" THEN <<>> ELSE output
        /\ input' = IF ~Live /\ Writes /\ run.req.output = "in" THEN <<>> ELSE input
    BY <1>5 DEF Open, Proceed
  <2>2. /\ DOMAIN run' = Fields /\ run'.phase = "masking"
        /\ run'.req = run.req /\ run'.salt = run.salt
        /\ run'.next = run.next /\ run'.before = run.before
    BY <1>1, <2>1, GoesOn
  <2>3. output' = output \/ output' \in Seq(Masked)
    <3>1. <<>> \in Seq(Masked)
      OBVIOUS
    <3>. QED
      BY <2>1, <3>1
  <2>4. input' = input \/ input' \in Seq(Item)
    <3>1. <<>> \in Seq(Item)
      OBVIOUS
    <3>. QED
      BY <2>1, <3>1
  <2>5. Printed'
    BY <1>2, <1>3, <2>3 DEF Guarded, Printed, fixed
  <2>6. Typed'
    BY <1>1, <1>2, <1>3, <2>2, <2>4 DEF Guarded, Typed, fixed
  <2>7. Checked'
    BY <1>1, <1>2, <1>3, <2>2 DEF Checked
  <2>8. ~Live /\ Writes => run.req.output \in {"in", "out"}
    <3>1. ~Live /\ Writes => run.req.output # None
      BY <1>5 DEF CannotOpen, Writes
    <3>. QED
      BY <1>1, <3>1, RunsAssumption
  <2>9. Writable'
    <3>1. Live' = Live /\ Writes' = Writes
      BY <2>2 DEF Live, Writes, Airflow
    <3>2. <<>> \in Seq(Masked)
      OBVIOUS
    <3>3. ~Live /\ Writes => input' = <<>> \/ output' \in Seq(Masked)
      BY <2>1, <2>8, <3>2
    <3>. QED
      BY <1>3, <3>1, <3>3 DEF Writable
  <2>. QED
    BY <2>5, <2>6, <2>7, <2>9 DEF Guarded
<1>. QED
  BY <1>4, <1>5

(* A table is masked with the salt of the run, once more. *)
LEMMA TableStep ==
  ASSUME Guarded, MaskTable
  PROVE  Guarded'
<1>1. /\ run # NoRun /\ DOMAIN run = Fields /\ run.phase = "masking" /\ Live
      /\ run.req \in Requests /\ run.salt \in Good /\ run.next \in Nat \ {0}
  BY DEF MaskTable, At, NoRun, Guarded, Typed, Checked
<1>2. UNCHANGED <<config, env, fixed, input, output>>
  BY DEF MaskTable
<1>3. Good' = Good /\ Item' = Item /\ Masked' = Masked
  BY <1>2 DEF Good, Item, Masked, fixed
<1>4. db' = db \/ db' = [db EXCEPT ![run.next] = Append(@, run.salt)]
  BY DEF MaskTable
<1>5. db' \in [DOMAIN tables -> Seq(Good)]
  <2>1. db \in [DOMAIN tables -> Seq(Good)]
    BY DEF Guarded, Printed
  <2>2. \A i \in DOMAIN tables : Append(db[i], run.salt) \in Seq(Good)
    BY <1>1, <2>1
  <2>. QED
    BY <1>4, <2>1, <2>2
<1>6. Printed'
  BY <1>2, <1>3, <1>5 DEF Guarded, Printed, fixed
<1>7. CASE run' = NoRun
  BY <1>2, <1>3, <1>6, <1>7 DEF Guarded, Typed, Checked, Writable, At, NoRun, fixed
<1>8. CASE run' = [run EXCEPT !.next = @ + 1]
  <2>1. /\ DOMAIN run' = Fields /\ run'.next = run.next + 1
        /\ run'.req = run.req /\ run'.salt = run.salt
        /\ run'.phase = run.phase /\ run'.before = run.before
    BY <1>1, <1>8 DEF Fields
  <2>2. Typed'
    BY <1>1, <1>2, <1>3, <2>1 DEF Guarded, Typed, fixed
  <2>3. Checked'
    BY <1>1, <1>2, <1>3, <2>1 DEF Guarded, Checked
  <2>4. Writable'
    BY <1>1, <2>1 DEF Writable, Live
  <2>. QED
    BY <1>6, <2>2, <2>3, <2>4 DEF Guarded
<1>. QED
  BY <1>7, <1>8 DEF MaskTable, Halt, NoRun

(* What a parser does with an item that it does not fail on. *)
LEMMA TreatmentType ==
  ASSUME format \in Formats, NEW item \in Kinds(format)
  PROVE  Treatment(item) \in {"raises", "masked", "copied", "skipped"}
<1>1. item \in {"record", "retyped", "other", "blank", "malformed"}
  BY DEF Formats, Kinds
<1>. QED
  BY <1>1 DEF Treatment

(* An item becomes at most one item of the output, which has the salt of the
   run if it has any. *)
LEMMA WrittenType ==
  ASSUME format \in Formats, NEW x \in Item, Treatment(x.item) # "raises", run.salt \in Good
  PROVE  Written(x) \in Seq(Masked)
<1>1. x.item \in Kinds(format) /\ x.salts = <<>> /\ x = [item |-> x.item, salts |-> x.salts]
  BY DEF Item
<1>2. Treatment(x.item) \in {"masked", "copied", "skipped"}
  BY <1>1, TreatmentType
<1>3. x \in Masked
  <2>1. x.salts \in Seq(Good)
    BY <1>1
  <2>. QED
    BY <1>1, <2>1 DEF Masked
<1>4. [x EXCEPT !.salts = Append(@, run.salt)] \in Masked
  <2>1. Append(x.salts, run.salt) \in Seq(Good)
    BY <1>3 DEF Masked
  <2>. QED
    BY <1>3, <2>1 DEF Masked
<1>5. \A y \in Masked : <<y>> \in Seq(Masked)
  OBVIOUS
<1>6. <<>> \in Seq(Masked)
  OBVIOUS
<1>. QED
  BY <1>2, <1>3, <1>4, <1>5, <1>6 DEF Written

(* An item of the input is written, or the run ends. *)
LEMMA ItemStep ==
  ASSUME Guarded, WriteItem
  PROVE  Guarded'
<1>1. /\ run # NoRun /\ DOMAIN run = Fields /\ run.phase = "masking" /\ ~Live
      /\ run.req \in Requests /\ run.salt \in Good /\ run.next \in Nat \ {0}
      /\ At("masking") /\ run.next <= Len(input)
  BY DEF WriteItem, At, NoRun, Guarded, Typed, Checked
<1>2. UNCHANGED <<config, env, fixed, db, input>>
  BY DEF WriteItem
<1>3. Good' = Good /\ Item' = Item /\ Masked' = Masked
  BY <1>2 DEF Good, Item, Masked, fixed
<1>4. CASE Fails
  BY <1>2, <1>4, QuietStep DEF WriteItem, Halt, NoRun
<1>5. CASE ~Fails
  <2>1. /\ output' = IF Writes THEN output \o Written(input[run.next]) ELSE output
        /\ run' = [run EXCEPT !.next = @ + 1]
    BY <1>5 DEF WriteItem
  <2>2. /\ DOMAIN run' = Fields /\ run'.next = run.next + 1
        /\ run'.req = run.req /\ run'.salt = run.salt
        /\ run'.phase = run.phase /\ run'.before = run.before
    BY <1>1, <2>1 DEF Fields
  <2>3. input \in Seq(Item) /\ input[run.next] \in Item
    <3>1. input \in Seq(Item)
      BY DEF Guarded, Typed
    <3>. QED
      BY <1>1, <3>1
  <2>4. Written(input[run.next]) \in Seq(Masked)
    BY <1>1, <1>5, <2>3, WrittenType DEF Fails, Guarded, Typed
  <2>5. Writes => output \in Seq(Masked)
    <3>1. input # <<>>
      BY <1>1, <2>3
    <3>. QED
      BY <1>1, <3>1 DEF Guarded, Writable
  <2>6. Writes => output' \in Seq(Masked)
    BY <2>1, <2>4, <2>5, ConcatProperties
  <2>7. Printed'
    BY <1>2, <1>3, <2>1, <2>6 DEF Guarded, Printed, fixed
  <2>8. Typed'
    BY <1>1, <1>2, <1>3, <2>2 DEF Guarded, Typed, fixed
  <2>9. Checked'
    BY <1>1, <1>2, <1>3, <2>2 DEF Guarded, Checked
  <2>10. Writable'
    <3>1. Writes' = Writes
      BY <2>2 DEF Writes, Airflow
    <3>. QED
      BY <1>3, <2>6, <3>1 DEF Writable
  <2>. QED
    BY <2>7, <2>8, <2>9, <2>10 DEF Guarded
<1>. QED
  BY <1>4, <1>5

(* The guard is never regained, and while it holds every action keeps what it
   guards. *)
LEMMA GuardStep == GuardInv /\ [Next]_vars => GuardInv'
<1>. SUFFICES ASSUME GuardInv, [Next]_vars, guarded'
              PROVE  Guarded'
  BY DEF GuardInv
<1>1. CASE UNCHANGED vars
  <2>1. Good' = Good /\ Item' = Item /\ Masked' = Masked
    BY <1>1 DEF vars, fixed, Good, Item, Masked
  <2>. QED
    BY <1>1, <2>1 DEF vars, fixed, GuardInv, Guarded, Typed, Printed, Checked, Writable, At, NoRun,
                      Live, Writes, Airflow
<1>2. ASSUME NEW c, Edit(c)
      PROVE  FALSE
  BY <1>2 DEF Edit
<1>3. ASSUME guarded, NEW s \in Environments, SetEnvironment(s)
      PROVE  Guarded'
  BY <1>3, EnvironmentStep DEF GuardInv
<1>4. ASSUME guarded, NEW req \in Requests, Start(req)
      PROVE  Guarded'
  BY <1>4, StartStep DEF GuardInv
<1>5. ASSUME guarded, Step \/ Crash
      PROVE  Guarded'
  BY <1>5, CheckStep, OpenStep, TableStep, ItemStep DEF GuardInv, Step
<1>6. ASSUME Next, ~guarded
      PROVE  FALSE
  <2>1. ASSUME Step
        PROVE  guarded
    BY <2>1 DEF Step, CheckSalt, CheckFingerprint, SaveConfig, CheckProduction, Open, MaskTable,
                WriteItem, Finish, WriteAudit
  <2>2. ASSUME NEW s, SetEnvironment(s)
        PROVE  guarded
    BY <2>2 DEF SetEnvironment
  <2>3. ASSUME NEW req, Start(req)
        PROVE  guarded
    BY <2>3 DEF Start
  <2>4. ASSUME Crash
        PROVE  guarded
    BY <2>4 DEF Crash
  <2>. QED
    BY <1>2, <1>6, <2>1, <2>2, <2>3, <2>4 DEF Next, InitConfig, ScanOutput, Wizard
<1>. QED
  BY <1>1, <1>2, <1>3, <1>4, <1>5, <1>6 DEF Next, InitConfig, ScanOutput, Wizard

(* The invariant holds in every behaviour. *)
LEMMA GuardInvariance == Spec => []GuardInv
BY InitGuard, GuardStep, PTL DEF Spec

(* With a fingerprint in the configuration that nobody edits or overrides, no two
   runs of the commands use salts of different fingerprints, whatever the
   environment holds, the requests ask for and wherever runs die: their check
   (cli.py:80) is enough to keep the keys of several runs comparable.  The operator
   makes no such check (airflow.py:59), and is covered while it happens to be given
   the salt of the fingerprint. *)
THEOREM OneSaltOfRuns == Spec => []OneSalt
<1>1. GuardInv => OneSalt
  <2>. SUFFICES ASSUME GuardInv, guarded, NEW s \in Used
                PROVE  Fingerprint(s) = config.print
    BY DEF OneSalt
  <2>1. Printed
    BY DEF GuardInv, Guarded
  <2>2. \A q \in Seq(Good) : ToSet(q) \subseteq Good
    BY DEF ToSet
  <2>3. \A i \in DOMAIN db : ToSet(db[i]) \subseteq Good
    BY <2>1, <2>2 DEF Printed
  <2>4. output # None => \A i \in DOMAIN output : ToSet(output[i].salts) \subseteq Good
    <3>. SUFFICES ASSUME output # None, NEW i \in DOMAIN output
                  PROVE  ToSet(output[i].salts) \subseteq Good
      OBVIOUS
    <3>1. output[i] \in Masked
      BY <2>1 DEF Printed
    <3>. QED
      BY <2>2, <3>1 DEF Masked
  <2>5. s \in Good
    BY <2>3, <2>4 DEF Used
  <2>. QED
    BY <2>5 DEF Good
<1>. QED
  BY <1>1, GuardInvariance, PTL

-----------------------------------------------------------------------------
(* What runs end with, guarded or not. *)

Early == {"salt", "fingerprint", "saving", "production", "open"}
Late == {"masking", "audit"}

Going == run # NoRun
Was == run.before.data

RunTyped ==
  /\ format \in Formats
  /\ input \in Seq(Item)
  /\ Len(tables) \in Nat /\ DOMAIN tables = 1 .. Len(tables)
  /\ DOMAIN db = DOMAIN tables /\ db = [i \in DOMAIN tables |-> db[i]]
  /\ Going => /\ DOMAIN run = Fields
              /\ run.req \in Requests
              /\ run.phase \in Early \cup Late
              /\ run.next \in Nat \ {0}
              /\ run.phase \in Early => run.next = 1

(* A step of a run, by what becomes of the run: the phases follow one another,
   and what the run was asked for and found at its start stays. *)
Moves(from, to) ==
  /\ run.phase = from /\ run'.phase = to /\ run'.next = run.next
  /\ run'.print = run.print /\ run'.updated = run.updated
  /\ run'.ignored = run.ignored /\ run'.edited = run.edited

Keeps ==
  /\ Going /\ run' # NoRun /\ DOMAIN run' = Fields
  /\ run'.req = run.req /\ run'.salt = run.salt
  /\ run'.env = run.env /\ run'.before = run.before

(* The next item or table of the same run. *)
Goes ==
  /\ Keeps
  /\ run.phase = "masking" /\ run'.phase = "masking" /\ run'.next = run.next + 1
  /\ run'.print = run.print /\ run'.updated = run.updated
  /\ run'.ignored = run.ignored /\ run'.edited = run.edited

(* Only a run in progress is in one of its phases; what the updates of its
   record leave alone. *)
LEMMA InPhase ==
  ASSUME NEW from, At(from), from # "none"
  PROVE  Going
BY DEF At, Going, NoRun

LEMMA ProceedMoves ==
  ASSUME RunTyped, NEW from, from # "none", NEW to, At(from), Proceed(to)
  PROVE  Keeps /\ Moves(from, to)
<1>1. Going /\ DOMAIN run = Fields /\ run.phase = from
  BY InPhase DEF RunTyped, At
<1>2. run' = [run EXCEPT !.phase = to]
  BY DEF Proceed
<1>3. run' # NoRun /\ DOMAIN run' = Fields
  BY <1>1, <1>2 DEF NoRun, Fields
<1>. QED
  BY <1>1, <1>2, <1>3 DEF Fields, Keeps, Moves

LEMMA NextMoves ==
  ASSUME RunTyped, At("masking"), run' = [run EXCEPT !.next = @ + 1]
  PROVE  Goes
<1>1. Going /\ DOMAIN run = Fields /\ run.phase = "masking"
  BY InPhase DEF RunTyped, At
<1>2. run' # NoRun /\ DOMAIN run' = Fields
  BY <1>1 DEF NoRun, Fields
<1>. QED
  BY <1>1, <1>2 DEF Fields, Keeps, Goes

LEMMA EditMoves ==
  ASSUME RunTyped, NEW c, Edit(c), Going
  PROVE  /\ Keeps /\ run'.edited /\ run'.phase = run.phase /\ run'.next = run.next
         /\ run'.print = run.print /\ run'.updated = run.updated /\ run'.ignored = run.ignored
<1>1. run' = [run EXCEPT !.edited = TRUE] /\ DOMAIN run = Fields
  BY DEF Edit, RunTyped, Going
<1>2. run' # NoRun /\ DOMAIN run' = Fields
  BY <1>1 DEF NoRun, Fields
<1>. QED
  BY <1>1, <1>2 DEF Fields, Keeps

LEMMA StartMoves ==
  ASSUME NEW req \in Requests, Start(req), run' # NoRun
  PROVE  LET loaded == Interpolated(config, env') IN
         /\ DOMAIN run' = Fields
         /\ run'.req = req /\ run'.env = env' /\ run'.print = config.print
         /\ run'.salt = IF req.salt = None THEN loaded ELSE req.salt
         /\ run'.phase = IF req.via = "cli" THEN "salt" ELSE "open"
         /\ run'.next = 1 /\ ~run'.ignored /\ ~run'.updated /\ ~run'.edited
         /\ run'.before = [data |-> data, config |-> config]
BY DEF Start, Halt, Fields

(* The fingerprint check lets a run go on in one of three ways. *)
LEMMA FingerprintMoves ==
  ASSUME RunTyped, CheckFingerprint, run' # NoRun \/ last' # "refused"
  PROVE  /\ Keeps /\ run.phase = "fingerprint" /\ run'.next = run.next /\ run'.edited = run.edited
         /\ \/ /\ ~Mismatch(run.before.config, run.salt) /\ run'.phase = "production"
               /\ run'.print = run.print /\ run'.updated = run.updated /\ run'.ignored = run.ignored
            \/ /\ run'.phase = "saving" /\ run'.print = Fingerprint(run.salt)
               /\ run'.updated /\ run'.ignored = run.ignored
            \/ /\ run'.phase = "production" /\ run'.ignored
               /\ run'.print = run.print /\ run'.updated = run.updated
<1>1. Going /\ DOMAIN run = Fields /\ run.phase = "fingerprint" /\ At("fingerprint")
  BY InPhase DEF RunTyped, At, CheckFingerprint
<1>2. CASE Proceed("production") /\ ~Mismatch(run.before.config, run.salt)
  BY <1>1, <1>2, ProceedMoves DEF Moves
<1>3. CASE run' = [run EXCEPT !.phase = "saving", !.print = Fingerprint(run.salt), !.updated = TRUE]
  <2>1. run' # NoRun /\ DOMAIN run' = Fields
    BY <1>1, <1>3 DEF NoRun, Fields
  <2>. QED
    BY <1>1, <1>3, <2>1 DEF Fields, Keeps
<1>4. CASE run' = [run EXCEPT !.phase = "production", !.ignored = TRUE]
  <2>1. run' # NoRun /\ DOMAIN run' = Fields
    BY <1>1, <1>4 DEF NoRun, Fields
  <2>. QED
    BY <1>1, <1>4, <2>1 DEF Fields, Keeps
<1>. QED
  BY <1>2, <1>3, <1>4 DEF CheckFingerprint, Halt
(* The actions, those that edit the configuration as one. *)
LEMMA Actions ==
  ASSUME Next
  PROVE  \/ \E s : SetEnvironment(s)
         \/ \E c : Edit(c)
         \/ \E req \in Requests : Start(req)
         \/ CheckSalt \/ CheckFingerprint \/ SaveConfig \/ CheckProduction
         \/ Open \/ MaskTable \/ WriteItem \/ Finish \/ WriteAudit \/ Crash
BY DEF Next, Step, InitConfig, ScanOutput, Wizard

(* The type of a run and of what it works on. *)
LEMMA RunType == Spec => []RunTyped
<1>1. ASSUME Init
      PROVE  RunTyped
  <2>1. PICK f \in Files : format = f.format /\ input = Raw(f.items)
    BY <1>1 DEF Init
  <2>2. format \in Formats /\ f.items \in Seq(Kinds(format))
    BY <2>1, RunsAssumption DEF Formats
  <2>3. /\ input = [i \in 1 .. Len(f.items) |-> [item |-> f.items[i], salts |-> <<>>]]
        /\ Len(f.items) \in Nat
    BY <2>1, <2>2 DEF Raw
  <2>4. \A i \in 1 .. Len(f.items) : [item |-> f.items[i], salts |-> <<>>] \in Item
    BY <2>2 DEF Item
  <2>5. input \in Seq(Item)
    BY <2>3, <2>4
  <2>6. Len(tables) \in Nat /\ DOMAIN tables = 1 .. Len(tables)
    BY <1>1, RunsAssumption DEF Init
  <2>. QED
    BY <1>1, <2>2, <2>5, <2>6 DEF Init, RunTyped, Going
<1>2. ASSUME RunTyped, [Next]_vars
      PROVE  RunTyped'
  <2>1. Item' = Item /\ format' = format /\ tables' = tables
    <3>1. UNCHANGED fixed
      BY <1>2, Actions
        DEF vars, SetEnvironment, Edit, Start, CheckSalt, CheckFingerprint, SaveConfig,
            CheckProduction, Open, MaskTable, WriteItem, Finish, WriteAudit, Crash
    <3>. QED
      BY <3>1 DEF fixed, Item
  <2>. DEFINE Run == Going => /\ DOMAIN run = Fields
                              /\ run.req \in Requests
                              /\ run.phase \in Early \cup Late
                              /\ run.next \in Nat \ {0}
                              /\ run.phase \in Early => run.next = 1
              Db == DOMAIN db = DOMAIN tables /\ db = [i \in DOMAIN tables |-> db[i]]
  <2>. USE DEF Early, Late
  <2>2. ASSUME UNCHANGED <<db, input>>, Run'
        PROVE  RunTyped'
    BY <1>2, <2>1, <2>2 DEF RunTyped
  <2>3. ASSUME run' = run
        PROVE  Run'
    BY <1>2, <2>3 DEF RunTyped, Going
  <2>4. ASSUME run' = NoRun
        PROVE  Run'
    BY <2>4 DEF Going
  <2>5. ASSUME NEW from \in Early \cup Late, NEW to \in Early \cup Late, At(from), Proceed(to),
               from \in Early \/ to \in Late
        PROVE  Run'
    BY <1>2, <2>5, ProceedMoves DEF RunTyped, Keeps, Moves
  <2>6. CASE UNCHANGED vars
    BY <2>2, <2>3, <2>6 DEF vars
  <2>7. ASSUME NEW s, SetEnvironment(s)
        PROVE  RunTyped'
    BY <2>2, <2>3, <2>7 DEF SetEnvironment, data
  <2>8. ASSUME NEW c, Edit(c)
        PROVE  RunTyped'
    <3>1. CASE run = NoRun
      BY <2>2, <2>4, <2>8, <3>1 DEF Edit, data
    <3>2. CASE run # NoRun
      BY <1>2, <2>2, <2>8, <3>2, EditMoves DEF Edit, data, RunTyped, Going, Keeps
    <3>. QED
      BY <3>1, <3>2
  <2>9. ASSUME NEW req \in Requests, Start(req)
        PROVE  RunTyped'
    <3>1. CASE run' = NoRun
      BY <2>2, <2>4, <2>9, <3>1 DEF Start, data
    <3>2. CASE run' # NoRun
      BY <2>2, <2>9, <3>2, StartMoves DEF Start, data
    <3>. QED
      BY <3>1, <3>2
  <2>10. CASE CheckSalt \/ SaveConfig \/ CheckProduction \/ Finish
    BY <2>2, <2>4, <2>5, <2>10 DEF CheckSalt, SaveConfig, CheckProduction, Finish, Halt, data
  <2>11. CASE CheckFingerprint
    BY <1>2, <2>2, <2>4, <2>11, FingerprintMoves DEF CheckFingerprint, data, RunTyped, Keeps
  <2>12. CASE WriteAudit \/ Crash
    BY <2>2, <2>4, <2>12 DEF WriteAudit, Crash, Halt, data
  <2>13. CASE Open
    <3>1. Run'
      BY <2>4, <2>5, <2>13 DEF Open, Halt
    <3>2. <<>> \in Seq(Item)
      OBVIOUS
    <3>3. input' \in Seq(Item) /\ db' = db
      BY <1>2, <2>13, <3>2 DEF Open, RunTyped
    <3>. QED
      BY <1>2, <2>1, <3>1, <3>3 DEF RunTyped
  <2>14. CASE MaskTable
    <3>1. Run'
      BY <1>2, <2>4, <2>14, NextMoves DEF MaskTable, Halt, Keeps, Goes, RunTyped
    <3>2. db' = db \/ db' = [db EXCEPT ![run.next] = Append(@, run.salt)]
      BY <2>14 DEF MaskTable
    <3>3. input' = input
      BY <2>14 DEF MaskTable
    <3>. QED
      BY <1>2, <2>1, <3>1, <3>2, <3>3 DEF RunTyped
  <2>15. CASE WriteItem
    BY <1>2, <2>2, <2>4, <2>15, NextMoves DEF WriteItem, Halt, Keeps, Goes, RunTyped
  <2>. QED
    BY <1>2, <2>6, <2>7, <2>8, <2>9, <2>10, <2>11, <2>12, <2>13, <2>14, <2>15, Actions
<1>. QED
  BY <1>1, <1>2, PTL DEF Spec
(* A run that has not begun to mask has changed no data, and the configuration
   only if it was asked to, or the user did. *)
Untouched ==
  Going => /\ run.phase \in Early => Was = data
           /\ run.updated \/ run.edited \/ config = run.before.config
           /\ run.phase = "saving" => run.updated

(* Every step keeps it so: data change only once a run is masking. *)
LEMMA UntouchedStep == RunTyped /\ Untouched /\ [Next]_vars => Untouched'
<1>. SUFFICES ASSUME RunTyped, Untouched, [Next]_vars, Going'
              PROVE  Untouched'
  BY DEF Untouched
<1>. USE DEF Early
<1>1. CASE UNCHANGED vars
  BY <1>1 DEF vars, data, Going, Untouched, Was
<1>2. ASSUME NEW s, SetEnvironment(s)
      PROVE  FALSE
  BY <1>2 DEF SetEnvironment, Going
<1>3. ASSUME NEW c, Edit(c)
      PROVE  Untouched'
  <2>1. Going
    BY <1>3 DEF Edit, Going
  <2>. QED
    BY <1>3, <2>1, EditMoves DEF Edit, data, Untouched, Keeps, Was
<1>4. ASSUME NEW req \in Requests, Start(req)
      PROVE  Untouched'
  BY <1>4, StartMoves DEF Start, Going, Untouched, Was, data
<1>5. CASE CheckSalt \/ CheckProduction \/ Finish
  BY <1>5, ProceedMoves
    DEF CheckSalt, CheckProduction, Finish, Halt, Going, Untouched, Keeps, Moves, Was, data
<1>6. CASE CheckFingerprint
  BY <1>6, FingerprintMoves DEF CheckFingerprint, Going, Untouched, Keeps, Was, data
<1>7. CASE SaveConfig
  BY <1>7, ProceedMoves DEF SaveConfig, Going, Untouched, Keeps, Moves, Was, data
<1>8. CASE Open
  BY <1>8, ProceedMoves DEF Open, Halt, Going, Untouched, Keeps, Moves, Was
<1>9. CASE MaskTable \/ WriteItem
  BY <1>9, NextMoves DEF MaskTable, WriteItem, Halt, Going, Untouched, Keeps, Goes, Was
<1>10. CASE WriteAudit \/ Crash
  BY <1>10 DEF WriteAudit, Crash, Halt, Going
<1>. QED
  BY <1>1, <1>2, <1>3, <1>4, <1>5, <1>6, <1>7, <1>8, <1>9, <1>10, Actions

(* It holds in every behaviour. *)
LEMMA UntouchedInvariance == Spec => []Untouched
<1>1. Init => Untouched
  BY DEF Init, Untouched, Going
<1>. QED
  BY <1>1, UntouchedStep, RunType, PTL DEF Spec

(* A run that is refused has masked nothing, emptied nothing and written no
   audit log; the configuration is as before unless it was asked to update it,
   or somebody edited it: each check of the command line (cli.py:453-476) comes
   before anything is opened. *)
THEOREM RefusedIsHarmless == Spec => RefusedChangesNothing
<1>. DEFINE Harmless == run # NoRun /\ run' = NoRun /\ last' = "refused"
                          => /\ data' = run.before.data
                             /\ config' = run.before.config \/ run.updated \/ run.edited
<1>1. ASSUME RunTyped, Untouched, [Next]_vars
      PROVE  [Harmless]_vars
  <2>. SUFFICES ASSUME Next, run # NoRun, run' = NoRun, last' = "refused"
                PROVE  /\ data' = run.before.data
                       /\ config' = run.before.config \/ run.updated \/ run.edited
    BY <1>1
  <2>1. CASE CheckSalt \/ CheckFingerprint \/ CheckProduction \/ Open
    <3>1. UNCHANGED <<data, config>> /\ run.phase \in Early
      BY <1>1, <2>1, ProceedMoves
        DEF CheckSalt, CheckFingerprint, CheckProduction, Open, data, At, Early, Keeps
    <3>. QED
      BY <1>1, <3>1 DEF Untouched, Going, Was
  <2>2. ASSUME NEW c, Edit(c)
        PROVE  FALSE
    BY <1>1, <2>2, EditMoves DEF Going, Keeps
  <2>3. CASE SaveConfig
    BY <1>1, <2>3, ProceedMoves DEF SaveConfig, Keeps
  <2>4. CASE MaskTable \/ WriteItem
    BY <1>1, <2>4, NextMoves DEF MaskTable, WriteItem, Halt, Keeps, Goes
  <2>5. CASE Finish \/ WriteAudit \/ Crash
    BY <1>1, <2>5, ProceedMoves DEF Finish, WriteAudit, Crash, Halt, Keeps
  <2>6. ASSUME NEW s, NEW req, SetEnvironment(s) \/ Start(req)
        PROVE  FALSE
    BY <2>6 DEF SetEnvironment, Start
  <2>. QED
    BY <1>1, <2>1, <2>2, <2>3, <2>4, <2>5, <2>6, Actions
<1>. QED
  BY <1>1, RunType, UntouchedInvariance, PTL DEF Spec, RefusedChangesNothing
(* The run's salt is the one the configuration gives, and what it will report as
   its fingerprint is the salt's. *)
Signed ==
  Going /\ run.req.via = "cli" =>
    /\ ~run.edited => Interpolated(config, run.env) = run.salt
    /\ run.phase \in {"salt", "fingerprint"} => run.print = run.before.config.print
    /\ run.phase \notin {"salt", "fingerprint"} /\ ~run.ignored
         => run.print \in {NoPrint, Fingerprint(run.salt)}

(* Every step keeps the salt that of the configuration, saving it included. *)
LEMMA SignedStep == RunTyped /\ Signed /\ [Next]_vars => Signed'
<1>. SUFFICES ASSUME RunTyped, Signed, [Next]_vars, Going', run'.req.via = "cli"
              PROVE  Signed'
  BY DEF Signed
<1>1. CASE UNCHANGED vars
  BY <1>1 DEF vars, Going, Signed, Interpolated
<1>2. ASSUME NEW s, SetEnvironment(s)
      PROVE  FALSE
  BY <1>2 DEF SetEnvironment, Going
<1>3. ASSUME NEW c, Edit(c)
      PROVE  Signed'
  <2>1. Going
    BY <1>3 DEF Edit, Going
  <2>. QED
    BY <1>3, <2>1, EditMoves DEF Signed, Keeps
<1>4. ASSUME NEW req \in Requests, Start(req)
      PROVE  Signed'
  <2>1. req.salt = None /\ config' = config
    BY <1>4, StartMoves, RunsAssumption DEF Going, Start
  <2>. QED
    BY <1>4, <2>1, StartMoves DEF Going, Signed, Interpolated
<1>5. CASE CheckSalt \/ CheckProduction \/ Finish
  <2>1. PICK from, to : Keeps /\ Moves(from, to) /\ (from = "salt" <=> to = "fingerprint")
                        /\ from # "fingerprint" /\ to # "salt"
    BY <1>5, ProceedMoves DEF CheckSalt, CheckProduction, Finish, Halt, Going
  <2>2. config' = config
    BY <1>5 DEF CheckSalt, CheckProduction, Finish
  <2>. QED
    BY <2>1, <2>2 DEF Signed, Keeps, Moves, Interpolated
<1>6. CASE CheckFingerprint
  <2>1. config' = config
    BY <1>6 DEF CheckFingerprint
  <2>. QED
    BY <1>6, <2>1, FingerprintMoves DEF Going, Signed, Keeps, Interpolated, Mismatch
<1>7. CASE SaveConfig
  <2>1. Keeps /\ Moves("saving", "production") /\ config' = Saved(run.salt, run.print)
    BY <1>7, ProceedMoves DEF SaveConfig
  <2>2. config'.salt = run.salt
    BY <2>1 DEF Saved
  <2>. QED
    BY <2>1, <2>2 DEF Signed, Keeps, Moves, Interpolated
<1>8. CASE Open
  BY <1>8, ProceedMoves DEF Open, Halt, Going, Signed, Keeps, Moves, Interpolated
<1>9. CASE MaskTable \/ WriteItem
  BY <1>9, NextMoves DEF MaskTable, WriteItem, Halt, Going, Signed, Keeps, Goes, Interpolated
<1>10. CASE WriteAudit \/ Crash
  BY <1>10 DEF WriteAudit, Crash, Halt, Going
<1>. QED
  BY <1>1, <1>2, <1>3, <1>4, <1>5, <1>6, <1>7, <1>8, <1>9, <1>10, Actions

(* The audit logs there are, and who writes one. *)
Audits ==
  /\ DOMAIN audits = 1 .. Len(audits) /\ Len(audits) \in Nat
  /\ AuditTruthful
  /\ Going /\ run.phase = "audit" => run.req.audit

(* Only a run at its end writes an audit log, of what it is signed with. *)
LEMMA AuditsStep == RunTyped /\ Signed /\ Audits /\ [Next]_vars => Audits'
<1>. SUFFICES ASSUME RunTyped, Signed, Audits, [Next]_vars
              PROVE  Audits'
  OBVIOUS
<1>1. ASSUME audits' = audits, Going' /\ run'.phase = "audit" => run'.req.audit
      PROVE  Audits'
  BY <1>1 DEF Audits, AuditTruthful, Verifies, Interpolated
<1>2. CASE UNCHANGED vars
  BY <1>1, <1>2 DEF vars, data, Going, Audits
<1>3. ASSUME NEW s, SetEnvironment(s)
      PROVE  Audits'
  BY <1>1, <1>3 DEF SetEnvironment, data, Going, Audits
<1>4. ASSUME NEW c, Edit(c)
      PROVE  Audits'
  <2>1. CASE Going
    BY <1>1, <1>4, <2>1, EditMoves DEF Edit, data, Keeps, Audits
  <2>2. CASE ~Going
    BY <1>1, <1>4, <2>2 DEF Edit, data, Going
  <2>. QED
    BY <2>1, <2>2
<1>5. ASSUME NEW req \in Requests, Start(req)
      PROVE  Audits'
  BY <1>1, <1>5, StartMoves DEF Start, data, Going
<1>6. CASE CheckSalt \/ CheckProduction \/ SaveConfig \/ Open
  BY <1>1, <1>6, ProceedMoves
    DEF CheckSalt, CheckProduction, SaveConfig, Open, Halt, data, Going, Moves
<1>7. CASE CheckFingerprint
  BY <1>1, <1>7, FingerprintMoves DEF CheckFingerprint, data, Going
<1>8. CASE MaskTable \/ WriteItem
  BY <1>1, <1>8, NextMoves DEF MaskTable, WriteItem, Halt, Going, Goes
<1>9. CASE Finish
  BY <1>1, <1>9, ProceedMoves DEF Finish, Halt, data, Going, Keeps
<1>10. CASE Crash
  BY <1>1, <1>10 DEF Crash, Halt, data, Going
<1>11. CASE WriteAudit
  <2>. DEFINE a == [print |-> ReportedPrint, hashed |-> config, signer |-> run.salt,
                    env |-> run.env, ignored |-> run.ignored, edited |-> run.edited]
  <2>1. audits' = Append(audits, a) /\ ~Going'
    BY <1>11 DEF WriteAudit, Halt, Going
  <2>2. Going /\ run.phase = "audit" /\ run.req.via = "cli"
    BY <1>11, InPhase, RunsAssumption DEF WriteAudit, At, RunTyped, Audits
  <2>3. /\ ~a.ignored => a.print = Fingerprint(a.signer)
        /\ ~a.edited => Verifies(a, Interpolated(a.hashed, a.env))
    BY <2>2 DEF Signed, ReportedPrint, Verifies
  <2>. HIDE DEF a
  <2>4. /\ DOMAIN audits' = 1 .. Len(audits') /\ Len(audits') \in Nat
        /\ \A i \in DOMAIN audits' :
             audits'[i] = a \/ (i \in DOMAIN audits /\ audits'[i] = audits[i])
    BY <2>1 DEF Audits
  <2>. QED
    BY <2>1, <2>3, <2>4 DEF Audits, AuditTruthful, Verifies, Interpolated
<1>. QED
  BY <1>2, <1>3, <1>4, <1>5, <1>6, <1>7, <1>8, <1>9, <1>10, <1>11, Actions

(* An audit log states the fingerprint of the salt that was used, and verifies
   with the salt of the configuration whose hash it gives: except that after a
   mismatch that was ignored it states the fingerprint of the file, and says no
   word of the mismatch, and except where the file was changed during the run.
   It holds also when the run updated the configuration in between (cli.py:93,
   audit.py:75). *)
THEOREM AuditLogsTrue == Spec => []AuditTruthful
<1>1. Init => Signed /\ Audits
  BY DEF Init, Signed, Audits, AuditTruthful, Going
<1>2. Audits => AuditTruthful
  BY DEF Audits
<1>. QED
  BY <1>1, <1>2, RunType, SignedStep, AuditsStep, PTL DEF Spec

-----------------------------------------------------------------------------
(* The tables the run has been at are masked once more, with its salt, and no
   others. *)
Done ==
  IF Live /\ ~run.req.dry
  THEN [i \in DOMAIN tables |-> IF i \in MaskedTables /\ i < run.next
                                THEN Append(Was[1][i], run.salt) ELSE Was[1][i]]
  ELSE Was[1]

TablesDone ==
  Going /\ run.phase \in Late => db = Done /\ (run.phase = "audit" => run.next > Length)

(* A table is masked as the run moves on to the next. *)
LEMMA TablesDoneStep == RunTyped /\ Untouched /\ TablesDone /\ [Next]_vars => TablesDone'
<1>. SUFFICES ASSUME RunTyped, Untouched, TablesDone, [Next]_vars, Going', run'.phase \in Late
              PROVE  TablesDone'
  BY DEF TablesDone
<1>. USE DEF Early, Late
<1>1. ASSUME Keeps \/ (Going /\ run' = run), UNCHANGED <<db, tables, input>>,
             run'.phase = run.phase, run'.next = run.next
      PROVE  TablesDone'
  BY <1>1 DEF TablesDone, Done, Keeps, Was, Live, Length, MaskedTables
<1>2. CASE UNCHANGED vars
  BY <1>1, <1>2 DEF vars, fixed, Going
<1>3. ASSUME NEW s, SetEnvironment(s)
      PROVE  FALSE
  BY <1>3 DEF SetEnvironment, Going
<1>4. ASSUME NEW c, Edit(c)
      PROVE  TablesDone'
  <2>1. Going
    BY <1>4 DEF Edit, Going
  <2>. QED
    BY <1>1, <1>4, <2>1, EditMoves DEF Edit, fixed, data
<1>5. ASSUME NEW req \in Requests, Start(req)
      PROVE  FALSE
  BY <1>5, StartMoves DEF Going
<1>6. CASE CheckSalt \/ CheckProduction \/ SaveConfig
  BY <1>6, ProceedMoves DEF CheckSalt, CheckProduction, SaveConfig, Halt, Going, Moves
<1>7. CASE CheckFingerprint
  BY <1>7, FingerprintMoves DEF Going
<1>8. CASE Finish
  <2>1. Keeps /\ Moves("masking", "audit") /\ run.next > Length /\ UNCHANGED <<db, tables, input>>
    BY <1>8, ProceedMoves DEF Finish, Halt, Going, data, fixed
  <2>. QED
    BY <2>1 DEF TablesDone, Done, Keeps, Moves, Was, Live, Length, MaskedTables
<1>9. CASE Open
  <2>1. Keeps /\ Moves("open", "masking") /\ UNCHANGED <<db, tables>>
    BY <1>9, ProceedMoves DEF Open, Halt, Going, fixed
  <2>2. Was = data /\ run.next = 1
    BY <2>1 DEF Untouched, Keeps, Moves, RunTyped
  <2>3. Was[1] = db
    BY <2>2 DEF data
  <2>4. Was' = Was /\ run'.next = 1
    BY <2>1, <2>2 DEF Keeps, Moves, Was
  <2>5. db' = [i \in DOMAIN tables' |-> IF i \in MaskedTables' /\ i < run'.next
                                        THEN Append(Was'[1][i], run'.salt) ELSE Was'[1][i]]
    BY <2>1, <2>3, <2>4 DEF RunTyped
  <2>. QED
    BY <2>1, <2>3, <2>4, <2>5 DEF TablesDone, Done, Moves
<1>10. CASE WriteItem
  <2>1. Goes /\ UNCHANGED <<db, tables>> /\ ~Live
    BY <1>10, NextMoves DEF WriteItem, Halt, Going, fixed
  <2>. QED
    BY <2>1 DEF TablesDone, Done, Keeps, Goes, Was, Live
<1>11. CASE MaskTable
  <2>1. /\ Goes /\ Live /\ run.next <= Len(tables) /\ tables' = tables
        /\ db' = IF Touches(tables[run.next]) /\ Masks(tables[run.next])
                 THEN [db EXCEPT ![run.next] = Append(@, run.salt)] ELSE db
    BY <1>11, NextMoves DEF MaskTable, Halt, Going, fixed
  <2>2. /\ Going /\ run.phase = "masking" /\ run'.phase = "masking" /\ run'.next = run.next + 1
        /\ Was' = Was /\ run'.salt = run.salt /\ run'.req = run.req
        /\ run.next \in 1 .. Len(tables) /\ run.next \in DOMAIN tables
    BY <2>1 DEF Goes, Keeps, Was, RunTyped
  <2>3. Live' = Live /\ MaskedTables' = MaskedTables
    BY <2>1, <2>2 DEF Live, MaskedTables
  <2>4. CASE run.req.dry
    BY <2>1, <2>2, <2>3, <2>4 DEF TablesDone, Done, Touches
  <2>5. CASE ~run.req.dry
    <3>. DEFINE D(n) == [i \in DOMAIN tables |-> IF i \in MaskedTables /\ i < n
                                THEN Append(Was[1][i], run.salt) ELSE Was[1][i]]
    <3>1. db = D(run.next)
      BY <2>1, <2>2, <2>5 DEF TablesDone, Done
    <3>2. run.next \in MaskedTables <=> Touches(tables[run.next]) /\ Masks(tables[run.next])
      BY <2>2, <2>5 DEF MaskedTables, Touches, Masks
    <3>3. db' = D(run.next + 1)
      <4>1. \A i \in DOMAIN tables : i < run.next + 1 <=> i < run.next \/ i = run.next
        BY <2>2 DEF RunTyped
      <4>2. CASE run.next \in MaskedTables
        <5>1. db' = [D(run.next) EXCEPT ![run.next] = Append(D(run.next)[run.next], run.salt)]
          BY <2>1, <3>1, <3>2, <4>2
        <5>2. D(run.next)[run.next] = Was[1][run.next]
          BY <2>2
        <5>. QED
          BY <2>2, <4>1, <4>2, <5>1, <5>2
      <4>3. CASE run.next \notin MaskedTables
        BY <2>1, <2>2, <3>1, <3>2, <4>1, <4>3
      <4>. QED
        BY <4>2, <4>3
    <3>. QED
      BY <2>1, <2>2, <2>3, <2>5, <3>3 DEF TablesDone, Done
  <2>. QED
    BY <2>4, <2>5
<1>12. CASE WriteAudit \/ Crash
  BY <1>12 DEF WriteAudit, Crash, Halt, Going
<1>. QED
  BY <1>2, <1>3, <1>4, <1>5, <1>6, <1>7, <1>8, <1>9, <1>10, <1>11, <1>12, Actions
(* Before the run in progress, or now that there is none, the tables had been
   masked alike. *)
Joined(d) == \A i, j \in MaskedTables : d[i] = d[j]
Shared == IF Going THEN Joined(Was[1]) ELSE Joined(db)
AllJoined == whole => Shared

(* A run ends before its first table or after its last, or it ends whole. *)
LEMMA AllJoinedStep ==
  RunTyped /\ Untouched /\ TablesDone /\ AllJoined /\ [Next]_vars => AllJoined'
<1>. SUFFICES ASSUME RunTyped, Untouched, TablesDone, AllJoined, [Next]_vars, whole'
              PROVE  Shared'
  BY DEF AllJoined
<1>. USE DEF Early, Late
<1>1. ASSUME Keeps \/ run' = run, UNCHANGED <<tables, whole>>, Going \/ db' = db
      PROVE  Shared'
  BY <1>1 DEF Shared, Joined, AllJoined, Going, Keeps, Was, MaskedTables
<1>2. ASSUME Going, run' = NoRun, UNCHANGED <<tables, db>>, whole,
             run.phase \in Early \/ ~Live \/ run.req.dry
      PROVE  Shared'
  <2>1. db = Was[1]
    <3>1. CASE run.phase \in Early
      BY <1>2, <3>1 DEF Untouched, data
    <3>2. CASE run.phase \in Late
      BY <1>2, <3>2 DEF TablesDone, Done
    <3>. QED
      BY <1>2, <3>1, <3>2 DEF RunTyped
  <2>. QED
    BY <1>2, <2>1 DEF Shared, Joined, AllJoined, Going, MaskedTables
<1>3. ASSUME Going, run' = NoRun, UNCHANGED <<tables, db>>, whole, run.phase \in Late, Live,
             ~run.req.dry, run.next > Length
      PROVE  Shared'
  <2>1. \A i \in MaskedTables : i \in DOMAIN tables /\ i < run.next
    BY <1>3 DEF MaskedTables, Length, RunTyped
  <2>2. \A i \in MaskedTables : db[i] = Append(Was[1][i], run.salt)
    BY <1>3, <2>1 DEF TablesDone, Done
  <2>3. Joined(Was[1])
    BY <1>3 DEF AllJoined, Shared
  <2>4. ~Going' /\ MaskedTables' = MaskedTables /\ db' = db
    BY <1>3 DEF Going, MaskedTables
  <2>5. \A i, j \in MaskedTables : db[i] = db[j]
    BY <2>2, <2>3 DEF Joined
  <2>. QED
    BY <2>4, <2>5 DEF Shared, Joined
<1>4. CASE UNCHANGED vars
  BY <1>1, <1>4 DEF vars, fixed
<1>5. ASSUME NEW s, SetEnvironment(s)
      PROVE  Shared'
  BY <1>1, <1>5 DEF SetEnvironment, fixed, data
<1>6. ASSUME NEW c, Edit(c)
      PROVE  Shared'
  <2>1. CASE Going
    BY <1>1, <1>6, <2>1, EditMoves DEF Edit, fixed, data
  <2>2. CASE ~Going
    BY <1>1, <1>6, <2>2 DEF Edit, fixed, data, Going
  <2>. QED
    BY <2>1, <2>2
<1>7. ASSUME NEW req \in Requests, Start(req)
      PROVE  Shared'
  <2>1. ~Going /\ UNCHANGED <<tables, db, whole>>
    BY <1>7 DEF Start, fixed, data, Going
  <2>2. CASE run' = NoRun
    BY <2>1, <2>2 DEF AllJoined, Shared, Joined, Going, MaskedTables
  <2>3. CASE run' # NoRun
    <3>1. Was' = data
      BY <1>7, <2>3, StartMoves DEF Was
    <3>. QED
      BY <2>1, <3>1 DEF AllJoined, Shared, Joined, Going, MaskedTables, data
  <2>. QED
    BY <2>2, <2>3
<1>8. CASE CheckSalt \/ CheckFingerprint \/ CheckProduction \/ SaveConfig \/ Open
  <2>1. Going /\ run.phase \in Early /\ UNCHANGED <<tables, db, whole>>
    BY <1>8, InPhase
      DEF CheckSalt, CheckFingerprint, CheckProduction, SaveConfig, Open, fixed, data, At
  <2>2. Keeps \/ run' = NoRun
    BY <1>8, ProceedMoves, FingerprintMoves DEF CheckSalt, CheckProduction, SaveConfig, Open, Halt
  <2>3. CASE Keeps
    BY <1>1, <2>1, <2>3
  <2>4. CASE run' = NoRun
    BY <1>2, <2>1, <2>4
  <2>. QED
    BY <2>2, <2>3, <2>4
<1>9. CASE MaskTable
  BY <1>1, <1>9, NextMoves DEF MaskTable, Going, Goes, Keeps, fixed
<1>10. CASE WriteItem
  <2>1. Going /\ ~Live /\ UNCHANGED <<tables, db, whole>>
    BY <1>10, InPhase DEF WriteItem, fixed
  <2>2. Goes \/ run' = NoRun
    BY <1>10, NextMoves DEF WriteItem, Halt
  <2>3. run.phase \in Early \cup Late
    BY <2>1 DEF RunTyped
  <2>. QED
    BY <1>1, <1>2, <2>1, <2>2, <2>3 DEF Goes
<1>11. CASE Finish \/ WriteAudit
  <2>1. Going /\ run.phase \in Late /\ UNCHANGED <<tables, db, whole>>
    BY <1>11, InPhase DEF Finish, WriteAudit, fixed, data, At
  <2>2. run.next > Length
    BY <1>11, <2>1 DEF Finish, WriteAudit, TablesDone, At
  <2>3. Keeps \/ run' = NoRun
    BY <1>11, ProceedMoves DEF Finish, WriteAudit, Halt
  <2>. QED
    BY <1>1, <1>2, <1>3, <2>1, <2>2, <2>3
<1>12. CASE Crash
  <2>1. Going /\ run' = NoRun /\ UNCHANGED <<tables, db>> /\ whole
        /\ ~(At("masking") /\ Live /\ ~run.req.dry)
    BY <1>12 DEF Crash, Halt, fixed, data, Going
  <2>2. CASE run.phase = "audit"
    BY <1>2, <1>3, <2>1, <2>2 DEF TablesDone
  <2>3. CASE run.phase # "audit"
    BY <1>2, <2>1, <2>3 DEF RunTyped, At
  <2>. QED
    BY <2>2, <2>3
<1>. QED
  BY <1>4, <1>5, <1>6, <1>7, <1>8, <1>9, <1>10, <1>11, <1>12, Actions

(* What is said of the tables holds in every behaviour. *)
LEMMA TablesInvariance == Spec => []TablesDone
<1>1. Init => TablesDone
  BY DEF Init, TablesDone, Going
<1>. QED
  BY <1>1, RunType, UntouchedInvariance, TablesDoneStep, PTL DEF Spec

(* Between runs all tables have been masked with the same salts, as often, so
   that their keys join: a refused run, an error and a crash leave them so, unless
   they end a live run among its tables (cli.py:493). *)
THEOREM TablesStayJoined == Spec => []JoinsIntact
<1>1. Init => AllJoined
  <2>. SUFFICES ASSUME Init
                PROVE  Joined(db)
    BY DEF Init, AllJoined, Shared, Going
  <2>1. db = [i \in DOMAIN tables |-> <<>>]
    BY DEF Init
  <2>. QED
    BY <2>1 DEF Shared, Joined, MaskedTables
<1>2. AllJoined => JoinsIntact
  BY DEF AllJoined, Shared, Joined, JoinsIntact, Going
<1>. QED
  BY <1>1, <1>2, RunType, UntouchedInvariance, TablesInvariance, AllJoinedStep, PTL DEF Spec
-----------------------------------------------------------------------------
(* A file that a run reads in its own format and writes to another. *)
Intended == ~Live /\ Writes /\ run.req.output # "in" /\ (Airflow => format = ReadAs)

OutItem == [item : Kinds(format), salts : {<<>>, <<run.salt>>}]

CountTo(n, k) == Cardinality({i \in 1 .. n : input[i].item = k})

Records == {"record", "retyped"}

(* The output has the items of the input up to the next, masked. *)
Transcribed ==
  /\ output \in Seq(OutItem)
  /\ \A i \in DOMAIN output : MaskedBy(output[i])
  /\ \A k \in Records : Count(output, k) = CountTo(run.next - 1, k)

ItemsDone ==
  Going /\ run.phase \in Late =>
    /\ run.req.output # "in" => input = Was[2]
    /\ Live \/ ~Writes => output = Was[3]
    /\ ~Live => run.next <= Len(input) + 1
    /\ Intended => Transcribed

(* One more item, one more or none of a kind. *)
LEMMA CountAppend ==
  ASSUME NEW S, NEW items \in Seq(S), NEW x \in S, NEW k
  PROVE  /\ Count(items, k) \in Nat
         /\ Count(Append(items, x), k) = Count(items, k) + (IF x.item = k THEN 1 ELSE 0)
<1>. DEFINE T == {i \in DOMAIN items : items[i].item = k}
            more == Append(items, x)
            n == Len(items) + 1
<1>1. IsFiniteSet(T) /\ n \notin T
  <2>1. IsFiniteSet(1 .. Len(items)) /\ T \subseteq 1 .. Len(items)
    BY FS_Interval
  <2>. QED
    BY <2>1, FS_Subset
<1>2. Cardinality(T) \in Nat /\ Cardinality(T \cup {n}) = Cardinality(T) + 1
  BY <1>1, FS_CardinalityType, FS_AddElement
<1>3. /\ DOMAIN more = DOMAIN items \cup {n} /\ more[n] = x
      /\ \A i \in DOMAIN items : more[i] = items[i]
  OBVIOUS
<1>4. {i \in DOMAIN more : more[i].item = k} = IF x.item = k THEN T \cup {n} ELSE T
  BY <1>1, <1>3
<1>5. Count(items, k) = Cardinality(T)
  BY DEF Count
<1>6. Count(more, k) = Cardinality(IF x.item = k THEN T \cup {n} ELSE T)
  BY <1>4 DEF Count
<1>. HIDE DEF T, n
<1>. QED
  BY <1>2, <1>5, <1>6

(* The same of the items up to the next. *)
LEMMA CountNext ==
  ASSUME NEW S, input \in Seq(S), NEW n \in Nat, n + 1 <= Len(input), NEW k
  PROVE  /\ CountTo(n, k) \in Nat
         /\ CountTo(n + 1, k) = CountTo(n, k) + (IF input[n + 1].item = k THEN 1 ELSE 0)
<1>. DEFINE T == {i \in 1 .. n : input[i].item = k}
<1>1. IsFiniteSet(T) /\ n + 1 \notin T
  <2>1. IsFiniteSet(1 .. n) /\ T \subseteq 1 .. n
    BY FS_Interval
  <2>. QED
    BY <2>1, FS_Subset
<1>2. Cardinality(T) \in Nat /\ Cardinality(T \cup {n + 1}) = Cardinality(T) + 1
  BY <1>1, FS_CardinalityType, FS_AddElement
<1>3. {i \in 1 .. n + 1 : input[i].item = k} = IF input[n + 1].item = k THEN T \cup {n + 1} ELSE T
  OBVIOUS
<1>4. CountTo(n, k) = Cardinality(T)
  BY DEF CountTo
<1>5. CountTo(n + 1, k) = Cardinality(IF input[n + 1].item = k THEN T \cup {n + 1} ELSE T)
  BY <1>3 DEF CountTo
<1>. HIDE DEF T
<1>. QED
  BY <1>2, <1>4, <1>5

(* What is written of an item: nothing if it is no record, and else one item of
   its kind, masked if it is a record. *)
LEMMA WrittenItem ==
  ASSUME format \in Formats, format = ReadAs, NEW x \in Item, Treatment(x.item) # "raises"
  PROVE  \/ Written(x) = <<>> /\ x.item \notin Records
         \/ \E y \in OutItem : Written(x) = <<y>> /\ y.item = x.item /\ MaskedBy(y)
<1>1. x.item \in Kinds(format) /\ x.salts = <<>> /\ x = [item |-> x.item, salts |-> x.salts]
  BY DEF Item
<1>2. x.item \in {"record", "retyped", "other", "blank", "malformed"}
  BY <1>1 DEF Formats, Kinds
<1>3. /\ Treatment(x.item) \in {"masked", "copied", "skipped"}
      /\ x.item \in Records => Treatment(x.item) = "masked"
  BY <1>2 DEF Treatment, Records
<1>4. CASE Treatment(x.item) = "masked"
  <2>. DEFINE y == [x EXCEPT !.salts = Append(@, run.salt)]
  <2>1. Written(x) = <<y>>
    BY <1>4 DEF Written
  <2>2. y = [item |-> x.item, salts |-> Append(<<>>, run.salt)]
    BY <1>1
  <2>3. Append(<<>>, run.salt) = <<run.salt>>
    OBVIOUS
  <2>4. y \in OutItem /\ y.item = x.item /\ MaskedBy(y)
    BY <1>1, <2>2, <2>3 DEF OutItem, MaskedBy
  <2>. QED
    BY <2>1, <2>4
<1>5. CASE Treatment(x.item) = "copied"
  <2>1. Written(x) = <<x>> /\ x.item \notin Records
    BY <1>3, <1>5 DEF Written
  <2>2. x \in OutItem /\ MaskedBy(x)
    BY <1>1, <2>1 DEF OutItem, MaskedBy, Records
  <2>. QED
    BY <2>1, <2>2
<1>6. CASE Treatment(x.item) = "skipped"
  BY <1>3, <1>6 DEF Written
<1>. QED
  BY <1>3, <1>4, <1>5, <1>6

(* The step that writes an item keeps the output a transcription. *)
LEMMA TranscribedStep ==
  ASSUME RunTyped, Goes, UNCHANGED <<format, input>>, Intended, Transcribed,
         ~Fails, run.next <= Len(input), output' = output \o Written(input[run.next])
  PROVE  Transcribed'
<1>. DEFINE x == input[run.next]
<1>1. run.next \in Nat \ {0} /\ input \in Seq(Item) /\ x \in Item /\ Going
  <2>1. run.next \in Nat \ {0} /\ input \in Seq(Item) /\ Going
    BY DEF RunTyped, Goes, Keeps
  <2>. QED
    BY <2>1
<1>2. format \in Formats /\ format = ReadAs /\ Treatment(x.item) # "raises"
  BY DEF RunTyped, Intended, ReadAs, Fails
<1>3. \A k : /\ CountTo(run.next - 1, k) \in Nat
             /\ CountTo(run.next, k) = CountTo(run.next - 1, k) + (IF x.item = k THEN 1 ELSE 0)
  BY <1>1, CountNext
<1>4. OutItem' = OutItem /\ run'.salt = run.salt /\ run'.next = run.next + 1
  BY DEF OutItem, Goes, Keeps
<1>5. \A k : CountTo(run.next - 1, k)' = CountTo(run.next, k)
  <2>1. run'.next - 1 = run.next /\ input' = input
    BY <1>1, <1>4
  <2>. QED
    BY <2>1 DEF CountTo
<1>6. \A y : MaskedBy(y)' = MaskedBy(y)
  BY <1>4 DEF MaskedBy
<1>7. CASE Written(x) = <<>> /\ x.item \notin Records
  <2>1. output' = output
    BY <1>7 DEF Transcribed
  <2>. QED
    BY <1>3, <1>4, <1>5, <1>6, <1>7, <2>1 DEF Transcribed
<1>8. ASSUME NEW y \in OutItem, Written(x) = <<y>>, y.item = x.item, MaskedBy(y)
      PROVE  Transcribed'
  <2>1. output' = Append(output, y) /\ output \in Seq(OutItem)
    BY <1>8 DEF Transcribed
  <2>2. output' \in Seq(OutItem)
    BY <2>1
  <2>3. \A i \in DOMAIN output' : MaskedBy(output'[i])
    BY <1>8, <2>1 DEF Transcribed
  <2>4. \A k : Count(output', k) = Count(output, k) + (IF x.item = k THEN 1 ELSE 0)
    <3>. HIDE DEF x
    <3>1. \A k : Count(Append(output, y), k) = Count(output, k) + (IF y.item = k THEN 1 ELSE 0)
      BY <2>1, CountAppend
    <3>. QED
      BY <1>8, <2>1, <3>1
  <2>5. \A k \in Records : Count(output, k) = CountTo(run.next - 1, k)
    BY <1>8 DEF Transcribed
  <2>6. \A k \in Records : Count(output', k) = CountTo(run.next, k)
    BY <1>3, <2>4, <2>5
  <2>7. \A k \in Records : Count(output, k)' = CountTo(run.next - 1, k)'
    BY <1>5, <2>6 DEF Count
  <2>8. \A i \in DOMAIN output' : MaskedBy(output[i])'
    BY <1>4, <2>3 DEF MaskedBy
  <2>. QED
    BY <1>4, <2>2, <2>7, <2>8 DEF Transcribed
<1>. QED
  BY <1>1, <1>2, <1>7, <1>8, WrittenItem
(* An item is written as the run moves on to the next. *)
LEMMA ItemsDoneStep == RunTyped /\ Untouched /\ ItemsDone /\ [Next]_vars => ItemsDone'
<1>. SUFFICES ASSUME RunTyped, Untouched, ItemsDone, [Next]_vars, Going', run'.phase \in Late
              PROVE  ItemsDone'
  BY DEF ItemsDone
<1>. USE DEF Early, Late
<1>0. ASSUME Keeps \/ (Going /\ run' = run), format' = format
      PROVE  /\ Going /\ Was' = Was /\ run'.req = run.req /\ run'.salt = run.salt
             /\ Live' = Live /\ Writes' = Writes /\ Intended' = Intended /\ OutItem' = OutItem
             /\ \A y : MaskedBy(y)' = MaskedBy(y)
  <2>1. Going /\ run'.req = run.req /\ run'.salt = run.salt /\ run'.before = run.before
    BY <1>0 DEF Keeps
  <2>2. Live' = Live /\ Airflow' = Airflow /\ Was' = Was
    BY <2>1 DEF Live, Airflow, Was
  <2>3. Writes' = Writes /\ ReadAs' = ReadAs
    BY <1>0, <2>1, <2>2 DEF Writes, ReadAs
  <2>. QED
    BY <1>0, <2>1, <2>2, <2>3 DEF Intended, OutItem, MaskedBy
<1>1. ASSUME Keeps \/ (Going /\ run' = run), UNCHANGED <<format, input, output>>,
             run.phase \in Late, run'.next = run.next
      PROVE  ItemsDone'
  <2>1. Transcribed => Transcribed'
    <3>1. \A k : CountTo(run.next - 1, k)' = CountTo(run.next - 1, k)
      BY <1>1 DEF CountTo
    <3>2. \A k : Count(output, k)' = Count(output, k)
      BY <1>1 DEF Count
    <3>. QED
      BY <1>0, <1>1, <3>1, <3>2 DEF Transcribed
  <2>. QED
    BY <1>0, <1>1, <2>1 DEF ItemsDone
<1>2. CASE UNCHANGED vars
  BY <1>1, <1>2 DEF vars, fixed, Going
<1>3. ASSUME NEW s, SetEnvironment(s)
      PROVE  FALSE
  BY <1>3 DEF SetEnvironment, Going
<1>4. ASSUME NEW c, Edit(c)
      PROVE  ItemsDone'
  <2>1. Going
    BY <1>4 DEF Edit, Going
  <2>. QED
    BY <1>1, <1>4, <2>1, EditMoves DEF Edit, fixed, data
<1>5. ASSUME NEW req \in Requests, Start(req)
      PROVE  FALSE
  BY <1>5, StartMoves DEF Going
<1>6. CASE CheckSalt \/ CheckProduction \/ SaveConfig
  BY <1>6, ProceedMoves DEF CheckSalt, CheckProduction, SaveConfig, Halt, Going, Moves
<1>7. CASE CheckFingerprint
  BY <1>7, FingerprintMoves DEF Going
<1>8. CASE Finish
  <2>1. Keeps /\ Moves("masking", "audit") /\ UNCHANGED <<format, input, output>>
    BY <1>8, ProceedMoves DEF Finish, Halt, Going, data, fixed
  <2>. QED
    BY <1>1, <2>1 DEF Moves
<1>9. CASE Open
  <2>1. /\ Keeps /\ Moves("open", "masking") /\ format' = format /\ ~CannotOpen
        /\ output' = IF ~Live /\ Writes /\ run.req.output = "out" THEN <<>> ELSE output
        /\ input' = IF ~Live /\ Writes /\ run.req.output = "in" THEN <<>> ELSE input
    BY <1>9, ProceedMoves DEF Open, Halt, Going, fixed
  <2>2. run.next = 1 /\ run'.next = 1 /\ Was = data /\ run.req \in Requests
    BY <2>1 DEF Untouched, Keeps, Moves, RunTyped
  <2>3. Was[2] = input /\ Was[3] = output
    BY <2>2 DEF data
  <2>4. Intended => run.req.output = "out"
    BY <2>1, <2>2, RunsAssumption DEF Intended, CannotOpen, Writes
  <2>5. Intended => Transcribed'
    <3>. SUFFICES ASSUME Intended
                  PROVE  Transcribed'
      OBVIOUS
    <3>1. output' = <<>>
      BY <2>1, <2>4 DEF Intended
    <3>2. <<>> \in Seq(OutItem')
      OBVIOUS
    <3>3. \A k : Count(<<>>, k) = 0
      <4>1. \A k : {i \in DOMAIN <<>> : <<>>[i].item = k} = {}
        OBVIOUS
      <4>. QED
        BY <4>1, FS_EmptySet DEF Count
    <3>4. \A k : CountTo(run.next - 1, k)' = 0
      <4>1. run'.next - 1 = 0
        BY <2>2
      <4>2. \A k : {i \in 1 .. 0 : input'[i].item = k} = {}
        OBVIOUS
      <4>. QED
        BY <4>1, <4>2, FS_EmptySet DEF CountTo
    <3>. QED
      BY <3>1, <3>2, <3>3, <3>4 DEF Transcribed
  <2>6. ~Live => 1 <= Len(input') + 1
    <3>1. <<>> \in Seq(Item) /\ input \in Seq(Item)
      BY DEF RunTyped
    <3>2. Len(input') \in Nat
      BY <2>1, <3>1
    <3>. QED
      BY <3>2
  <2>. QED
    BY <1>0, <2>1, <2>2, <2>3, <2>5, <2>6 DEF ItemsDone
<1>10. CASE MaskTable
  <2>1. Goes /\ UNCHANGED <<format, input, output>> /\ Live
    BY <1>10, NextMoves DEF MaskTable, Halt, Going, fixed
  <2>. QED
    BY <1>0, <2>1 DEF ItemsDone, Goes, Intended
<1>11. CASE WriteItem
  <2>1. /\ Goes /\ UNCHANGED <<format, input>> /\ ~Live /\ run.next <= Len(input) /\ ~Fails
        /\ output' = IF Writes THEN output \o Written(input[run.next]) ELSE output
    BY <1>11, NextMoves DEF WriteItem, Halt, Going, fixed
  <2>2. Intended => Transcribed'
    BY <2>1, TranscribedStep DEF ItemsDone, Goes, Keeps, Intended
  <2>3. run'.next <= Len(input') + 1
    BY <2>1 DEF Goes, Keeps, RunTyped
  <2>. QED
    BY <1>0, <2>1, <2>2, <2>3 DEF ItemsDone, Goes
<1>12. CASE WriteAudit \/ Crash
  BY <1>12 DEF WriteAudit, Crash, Halt, Going
<1>. QED
  BY <1>2, <1>3, <1>4, <1>5, <1>6, <1>7, <1>8, <1>9, <1>10, <1>11, <1>12, Actions

(* What is said of the items holds in every behaviour. *)
LEMMA ItemsInvariance == Spec => []ItemsDone
<1>1. Init => ItemsDone
  BY DEF Init, ItemsDone, Going
<1>. QED
  BY <1>1, RunType, UntouchedInvariance, ItemsDoneStep, PTL DEF Spec

(* A run reported as completed (cli.py:634) has masked every table with a rule
   once more, or every record of the input into the output, with its one salt, and
   no record is missing or there twice; a dry run of the commands has changed
   neither.  Output over the input, formats that the operator does not read and
   its dry runs are left out (AsDocumented). *)
THEOREM CompletedRunsAreDone == Spec => CompletedAsAsked
<1>. DEFINE Asked == 
       run # NoRun /\ run' = NoRun /\ last' = "completed" /\ AsDocumented
       => LET was == run.before.data IN
          /\ db' = IF ~Live \/ run.req.dry THEN was[1]
                   ELSE [i \in DOMAIN tables |-> IF i \in MaskedTables
                           THEN Append(was[1][i], run.salt) ELSE was[1][i]]
          /\ input' = was[2]
          /\ IF Live \/ ~Writes THEN output' = was[3]
             ELSE /\ \A i \in DOMAIN output' : MaskedBy(output'[i])
                  /\ \A k \in {"record", "retyped"} : Count(output', k) = Count(input, k)
<1>1. ASSUME RunTyped, TablesDone, ItemsDone, [Next]_vars
      PROVE  [Asked]_vars
  <2>. SUFFICES ASSUME Next, run # NoRun, run' = NoRun, last' = "completed",
                       AsDocumented
                PROVE  Asked
    BY <1>1
  <2>0. run.req.output # "in" /\ (Airflow => format = ReadAs)
    BY DEF AsDocumented
  <2>1. /\ run.phase \in Late /\ run.next > Length
        /\ UNCHANGED <<db, input, output>>
    <3>1. CASE Finish \/ WriteAudit
      BY <1>1, <3>1 DEF Finish, WriteAudit, Late, At, data, TablesDone, Going
    <3>2. CASE CheckSalt \/ CheckFingerprint \/ CheckProduction \/ Open \/ SaveConfig
      BY <1>1, <3>2, ProceedMoves, FingerprintMoves
        DEF CheckSalt, CheckFingerprint, CheckProduction, Open, SaveConfig, Halt, Keeps
    <3>3. ASSUME NEW c, Edit(c)
          PROVE  FALSE
      BY <1>1, <3>3, EditMoves DEF Going, Keeps
    <3>4. CASE MaskTable \/ WriteItem
      BY <1>1, <3>4, NextMoves DEF MaskTable, WriteItem, Halt, Keeps, Goes
    <3>5. CASE Crash
      BY <3>5 DEF Crash, Halt
    <3>6. ASSUME NEW s, NEW req, SetEnvironment(s) \/ Start(req)
          PROVE  FALSE
      BY <3>6 DEF SetEnvironment, Start
    <3>. QED
      BY <1>1, <3>1, <3>2, <3>3, <3>4, <3>5, <3>6, Actions
  <2>2. Going /\ db = Done /\ (run.req.output # "in" => input = Was[2])
        /\ (Live \/ ~Writes => output = Was[3]) /\ (~Live => run.next <= Len(input) + 1)
        /\ (Intended => Transcribed)
    BY <1>1, <2>1 DEF TablesDone, ItemsDone, Going
  <2>3. db' = IF ~Live \/ run.req.dry THEN Was[1]
              ELSE [i \in DOMAIN tables |-> IF i \in MaskedTables
                      THEN Append(Was[1][i], run.salt) ELSE Was[1][i]]
    <3>1. Live => \A i \in DOMAIN tables : i < run.next
      BY <1>1, <2>1, <2>2 DEF Length, RunTyped
    <3>2. CASE Live /\ ~run.req.dry
      BY <2>1, <2>2, <3>1, <3>2 DEF Done
    <3>3. CASE ~(Live /\ ~run.req.dry)
      BY <2>1, <2>2, <3>3 DEF Done
    <3>. QED
      BY <3>2, <3>3
  <2>4. ASSUME ~Live, Writes
        PROVE  /\ \A i \in DOMAIN output' : MaskedBy(output'[i])
               /\ \A k \in Records : Count(output', k) = Count(input, k)
    <3>1. Intended /\ Transcribed
      BY <2>0, <2>2, <2>4 DEF Intended
    <3>2. input \in Seq(Item) /\ run.next \in Nat
      BY <1>1, <2>2 DEF RunTyped
    <3>3. run.next - 1 = Len(input)
      BY <2>1, <2>2, <2>4, <3>2 DEF Length
    <3>4. 1 .. run.next - 1 = DOMAIN input
      BY <3>2, <3>3
    <3>5. \A k : CountTo(run.next - 1, k) = Count(input, k)
      BY <3>4 DEF CountTo, Count
    <3>. QED
      BY <2>1, <3>1, <3>5 DEF Transcribed
  <2>. QED
    BY <2>0, <2>1, <2>2, <2>3, <2>4 DEF Was, Records
<1>. QED
  BY <1>1, RunType, TablesInvariance, ItemsInvariance, PTL DEF Spec, CompletedAsAsked
=============================================================================
