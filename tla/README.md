# CloakDB: TLA+ models, model checking and proofs

CloakDB masks database dumps and live databases: personal data is replaced by pseudonyms
and keys are replaced consistently, so that the masked tables still join. This directory
holds TLA+ modules for the parts of CloakDB whose correctness depends on *order* (which key
came first, what a cache still holds, where a statement ends, which worker finishes first,
which run came before), on *failures* (a killed worker, a crash between two statements, a
refused run) or on *small numbers* (check digits, rounds, bounds, shares). TLC checks small
instances; seven modules of proofs and one of laws about folds, checked with TLAPS, establish
the guarantees for all instances.

Paths below are relative to `src/src/cloakdb/`; `PROJECT.json` maps every definition to
the lines it stands for.

## 1. The system

| Component | State it keeps | Operations | Interacts with |
| --- | --- | --- | --- |
| Referential integrity manager, `core/integrity.py` | for each consistency group an LRU cache (raw value to pseudonym, `max_cache_size` entries) and a reverse lookup (pseudonym to raw value) | `get_cached_value`, `store_cached_value`, `is_collision`, `get_raw_for_masked` | called by the engine and by the hash strategy |
| Hash strategies, `strategies/hash.py` | none; rejection sampling reads and writes the manager | `transform` | manager |
| Masking engine, `core/engine.py`, `core/context.py` | rules, the manager, statistics, incremental cut-off | `mask_record`, `mask_row_values`, `_apply_column_rule`, `_apply_composite_groups`, `evaluate_condition` | called by every parser and connector |
| SQL dump parser, `parsers/sql_dump.py` | COPY mode and table, open INSERT with its buffer, counters | `process_stream`, `_process_insert_buffer` | engine |
| Parallel stream parser, `parsers/chunking.py` | the chunk being collected, the queue of futures, the pool | `process_stream`, `_chunk_stream_by_statements`, `_process_chunk_worker` | worker processes, each with a parser and an engine of its own |
| Subsetting, `core/subset.py` | foreign keys, kept keys of each table, counters | inference of keys, two passes over a dump | the generator's DDL reader |
| Format-preserving encryption, check digits, `strategies/fpe.py`, `utils/checksums.py` | none | Feistel rounds, Luhn and TCKN digits | engine |
| Other strategies, `strategies/` | the privacy budget, in the engine's statistics | `transform` | engine |
| Live connector, `connectors/live_db.py` | a transaction for each table, a batch of updates | `mask_table` | engine, database |
| DuckDB connector, `connectors/duckdb_connector.py` | a masked copy of a table | `mask_table_in_place` | engine, database |
| Command line and configuration, `cli.py`, `config/` | YAML configuration, salt fingerprint | commands, safety checks | everything |
| Airflow operator, audit log, `integrations/`, `observability/` | a log signed with the salt | `execute`, `generate_audit_log` | parsers, configuration |
| Scanner and generator, `scanner/` | none | `detect_column`, scans, the proposed configuration | command line, subsetting |
| Privacy metrics, `core/metrics.py` | equivalence classes | one pass, then ratios | command line |
| Other parsers, `parsers/` | none | CSV, JSON, JSON Lines, Parquet | engine |

What is hard in this code, and what makes each part correct:

* *The manager and the hash strategy.* The cache forgets. When a key comes back its
  pseudonym is derived again, against a reverse lookup that has grown in the meantime, and
  it must come out the same, while two keys whose HMACs collide must come out different.
* *The parser.* Statements are recognised line by line, a row may wait in a buffer, and the
  decision "row or trailing clause" is taken from what happens to be in the buffer. Every
  row must be masked exactly once and nothing else touched.
* *The parallel parser.* Chunks are cut by rules of their own, are masked by engines that
  know nothing of each other, finish in any order, and fail. The output must be the
  sequential one, failures must surface, memory must stay bounded, the call must end.
* *The engine.* Rules are applied one after the other to a record that is half masked
  already; conditions, composite keys and the incremental cut-off interact.
* *Subsetting.* One pass decides with the keys it has seen so far: a subset is coherent
  only if what is remembered when a row arrives is what the row must be compared with.
* *Strategies.* An encryption must be one to one with halves of unequal length and with
  punctuation between the characters; check digits come after the encryption; noise,
  clamping and rounding come one after the other.
* *In-place masking.* The table is updated under an open cursor, or copied and swapped in
  two statements; an error or a crash may come at or between any two, and the call is repeated.
* *Runs.* Nothing records which tables of a live database are masked; the salt comes from an
  environment that changes, the fingerprint from a file that is edited; a run is refused,
  raises or dies half way, and its output and audit log remain.
* *Gates.* scan, lint, verify and evaluate each look at a part of the data of their own,
  while rows and columns are added; what they let through must be what they say it is.

`PROJECT.json` lists these hazards at their lines, with the properties that cover them.

## 2. The modules

| Module | Models | In a word |
| --- | --- | --- |
| `PseudonymStore` | `core/integrity.py`, `strategies/hash.py` | the LRU cache, the reverse lookup, rejection sampling, as operators |
| `Pseudonymizer` | `core/engine.py` `_apply_column_rule` | an engine masking the cells of a dump in any order |
| `PseudonymMap` | (abstract) | a one-to-one map per group that only grows |
| `PseudonymizerProofs` | | theorems about `Pseudonymizer` |
| `SqlDump` | `parsers/sql_dump.py` | the parser as a function on lines; what a dump means and the lines that say it |
| `SqlDumpStream` | `process_stream` | the parser reading a dump line by line |
| `SqlDumpProofs` | | theorems about `SqlDumpStream` |
| `Chunking` | `_chunk_stream_by_statements` | where chunks end |
| `ParallelStream` | `parsers/chunking.py` | main process, pool, failures |
| `OrderedStream` | (abstract) | results written once, whole and in order |
| `ParallelStreamProofs` | | theorems about `ParallelStream` |
| `RecordMasking` | `core/engine.py` `mask_record` | one record: composite keys, rules, conditions, the cut-off, the counters |
| `ForeignKeys` | `scanner/generator.py`, `core/subset.py` | foreign keys read from DDL and registered |
| `Subset` | `core/subset.py` | the passes over a dump; what a coherent subset is |
| `RecordProofs` | | theorems about `RecordMasking` and `Subset` |
| `Checksums`, `FormatPreserving`, `ValueStrategies` | `utils/checksums.py`, `strategies/` | what a strategy makes of a value, as operators |
| `ColumnMasking` | `_apply_column_rule`, `context.py` | the cells of one column, masked by any strategy |
| `ColumnMaskingProofs` | | theorems about `ColumnMasking` and the strategies |
| `MaskedInPlace` | (abstract) | all rows masked at once, or none |
| `InPlaceMasking` | `connectors/` | both connectors, statement by statement, with errors and crashes |
| `SaltGuard` | `config/`, `utils/security.py` | the salt, its fingerprint and the checks, as operators |
| `MaskingRuns` | `cli.py`, `integrations/airflow.py`, `observability/audit.py` | several runs on one configuration |
| `DatabaseProofs` | | theorems about `InPlaceMasking` and `MaskingRuns` |
| `Detection`, `PrivacyMetrics` | `scanner/`, `core/metrics.py` | what is read and found; k-anonymity and l-diversity, as operators |
| `Gates` | `cli.py` scan, lint, verify, evaluate | the commands in any order over data that changes |
| `GatesProofs` | | theorems about `Gates` |
| `FoldLaws` | | laws of folds over sequences, for the proofs |
| `SampleDumps`, `MC*` | | constants for TLC |

`SqlDump` extends `PseudonymStore` (rows are masked by the same derivation), `Chunking`
extends `SqlDump`, and `ParallelStream` extends `Chunking`: a worker's result is `Parse` of
its chunk, so the parallel run is compared with the very function that `SqlDumpStream`
steps through. `Subset` extends `ForeignKeys`; `ColumnMasking` extends `FormatPreserving`
and `ValueStrategies`; `MaskingRuns` extends `SaltGuard`, and its `MaskTable` is one whole
call as `InPlaceMasking` models it; `Gates` extends `Detection` and `PrivacyMetrics`.

### PseudonymStore and Pseudonymizer

A raw value is its printed text together with its Python type, because `str(value)` is what
is hashed while `==` and `hash` of the Python value are what the dictionaries use. `Probe`
is the HMAC of the integer branch, text and counter to integer, and `Digest` that of the
string branch; both are arbitrary constants, so collisions are whatever they make them.
The LRU cache is the sequence of its entries, least recently used first. `HitKeys` is the
lookup with its alias (`"5"` for 5 and the other way round), `IsCollision` the test by
printed text, `FirstFree` the counter at which the loop of `hash.py:63-83` stops.

`MaskCached`, `MaskDerived` and `MaskExhausted` are the three ways one cell can go. The cell
is any member of `Input`, so every order of every dump over these cells is a behaviour.
`issued` is a history variable: what was given to whom.

The engine and the hash strategy both look the value up and both store the result; the
second lookup and the second store find what the first did, so the model does each once.
Floats, booleans and NULL are left out, and so are `prefix`, `suffix` and the output
formats of the digest, which are part of `Digest`.

### SqlDump and SqlDumpStream

A line is a kind and its tokens: a parenthesised group, a comma, a terminator, an INSERT
header in the middle of a line, other text. `ReadLine` has the code's tests in the code's
order. `ScanInsert` is `_process_insert_buffer`: the writing position, the trailing clause
flag, and what is cut from the buffer. A row has one column with a rule. Not modelled:
CSV COPY, quoting and escapes inside a row, rows over several lines, comments.

`ParseLine` is one line of `process_stream`, `ParseEnd` what follows the last one.

`Reference` is written from the meaning of the statements (a sequence of statements with
their rows), not from the lines, and shares only `MaskRow` with the parser. `SaysMeaning`
relates the two: the lines are those of one statement after the other (`Says`), where an
INSERT may be broken into lines after any of its tokens (`IsInsert`), but not just before
its trailing clause (`Continues`).

### Chunking and ParallelStream

`Yielded` is what the generator has yielded after so many lines, `Chunks` what it yields of
the whole dump. `Feed` reads a line and, when it completes a chunk, submits it; `Full` then makes the main
process wait for the oldest future. `Write`, `Raise`, `Return` and `Propagate` are the four
things that can happen at `.result()` and at the end of the `with` block. The pool is
external: workers take chunks in the order of submission (`Take`), `Complete` sets the
future's result or exception, and `Die` is a killed worker process, which breaks the pool
as `concurrent.futures` does: all unfinished futures fail and later submissions raise.

### RecordMasking

`Mask` is one call of `mask_record`: the composite keys (`ApplyComposites`), then the
cut-off (`Old`), then the column rules in their order (`ApplyRule`), each on the record as
the one before has left it, and the two counters. Both loops are folds whose accumulator
has the raw cells, the cells as they are by now and the count. The pseudonym of a single key
is the term it is derived from, since what caching and collisions do to it is the subject of
`Pseudonymizer`. A composite key is derived from the tuple with its Python types, and what
it shows is its `Digest`, any function: of an integer part modulo 899999 (`engine.py:182`),
without a test for collisions. A condition is the set of what it may read for which it is
true; NULL and a missing column are both `None` to it (`Read`), for which `col != 'US'` is
true. The counters of a bypassed record keep what its composite keys added to them, as in
the code.

`Maskings` is what the configuration says of the *raw* record. It agrees with `mask_record`
on tables that are `Orderly`: no column is masked twice, and no condition reads a column
that is masked by then. `SingleAlike` says of two rows that their keys of one column join
after masking if and only if they printed the same before; `CompositeAlike` that keys of
several columns do if they were equal with their types, and only then unless their digests
agree (`SameDigests`): a part that is 5 in one table and "5" in the other joined in the file
and does not join any more. Both are said of rows that are masked: one that `--since` returns
as it came (`Bypassed`) joins with no masked one. Left out: the
syntax of conditions, the spelling of table names (globs, schema prefixes), strategies other
than a key and a constant, and the shortcut of `mask_row_values` for tables without rules.

### ForeignKeys and Subset

A line has the pattern it matches, the table it belongs to, the key on it and whether it
has `)` and `;`. The inference reads every line of the dump (`Lines`), those of the data
too, and a row that quotes a foreign key declares one. `InferLine` is the loop of `infer_foreign_keys_sql_dump`, which keeps the
table whose CREATE TABLE it has seen; `Registered` is what the engine makes of the groups.
`Declared` is what the lines say.

A run is `Infer` (one line) and `Register`, unless the keys were given; `CollectItem`, which
takes root keys until there are `limit` of them (`Enough`: the code leaves the pass after it
has taken a key or read an INSERT into the root table, so not for a limit of 0 before that),
and `StartFilter`; `PassThrough` and `Filter`, which writes the rows `ShouldKeep` keeps;
`Finish`. The loops over the rows of an item are folds of `Collect` and of `FilterRow`, and
`KeysAfter` is what the code remembers of a row it has looked at. `FullLength` is where the
code believes an INSERT to end, and `Remainder` what it then takes for other text. `Belongs`
is the abstract subset: the rows of the root sample, what refers to them and so on, and every
row of a table that is not below the root.

`Coherent` is stated for `Tame` dumps: keys that form a tree and were read as declared,
parents before their children, no semicolon in a string, a root table whose keys are unique,
and no parent table that keeps no row. On the others (they are among the dumps of the run) the
code keeps rows whose parents it has dropped.

### Checksums, FormatPreserving, ValueStrategies and ColumnMasking

Strings are sequences of small numbers: digits first, then letters, then `Dash` and other
marks. `Round` and `Encrypt` are the Feistel network with arbitrary constants for the HMAC,
and `Fpe`, `FpeCard`, `FpePhone`, `FpeNationalId` and `FpeEmail` are the strategies around it, with
what each keeps, spreads and recomputes. Spaces around an identity number or before an e-mail
address are stripped (`Strip`, `StripLeft`) and looked past before the + of a phone number
(`International`). Numbers are in quarters of a unit (`Unit`), so that
half a unit is a value and rounding can be wrong; dates are days. What a generator draws is
any value it may draw.

`Mask` is one cell of the column: any value of `Inputs`, with any of its `Outcomes` that
`Seeded` allows, which is the only thing cells have in common: the generator is seeded with
the value, unless the rule has `deterministic: false` (`Repeats`). A value for which the
strategy raises, such as bounds the wrong way round for `randint`, has no outcome.
The loops are folds that carry what they need with them: `Inside` picks characters, `Number`
reads digits, `Power` is a power, `Halves` is what the rounds begin with, `LuhnSum` adds up.
`HmacNatural` says that an HMAC is read as a natural number, and nothing more of it; `Values`
what kind of value each strategy is given.

`Reversible`, `EvenlySplit` and `InPlace` name the lengths, alphabets and formats for which
`OneToOne` and `FormatKept` hold; the inputs include the others.

### MaskedInPlace and InPlaceMasking

A row is its primary key and a cell that counts how often it was masked. `main` is the table
as others see it, `work` the table inside the transaction of the live connector, `copy` the
table that DuckDB fills. `Refuse`, `Begin`, `Fetch`, `MaskFetched` and `Commit` are
`mask_table` with its server-side cursor and its batches; an update that meets a key that is
still raw breaks the primary key, and `Rollback` ends the call. `CreateCopy`, `InsertBatch`,
`DropTable` and `RenameCopy` are the four statements of `mask_table_in_place`, each its own
transaction. `CallFails` may come at any of them: a strategy raises, a statement fails (a
pseudonym that does not fit its column) or the process dies, and the rows of the batch
inserted by then stay. A DuckDB call that ended like this leaves its copy and is `Refused`
from then on, as `CREATE TABLE` fails. Up to `MaxAttempts` calls are made.
`insensitive` says whether the database's cursor sees the updates made under it; both kinds exist.

`MaskedInPlace` promises that the table changes only by masking all of its rows.
`ImplementsPromise` is the refinement, with `Shown` (the table, or the copy while the name
is free) for the abstract table, in all steps that are `Undisturbed`: no masked row can come
before the cursor again. What the cursor has fetched is a set of rows, as SQL gives no order
to them; `SetBy` is the UPDATE of one row by its key, `Keys` and `Null` what a key may be.

### SaltGuard and MaskingRuns

A configuration is its salt, which may be `Env`, and its fingerprint, which may be absent.
The steps of a run are those of `_run_masking` in their order: `Start` (loading and
interpolation), `CheckSalt`, `CheckFingerprint`, `SaveConfig`, `CheckProduction`, `Open`
(which empties the output), `MaskTable` or `WriteItem`, `Finish`, `WriteAudit`. The Airflow
operator is the same without the checks, with its salt put in the place of the loaded one,
and writes its output in a dry run too. Where it masks with a salt that the fingerprint
check of the commands would have stopped (`Unchecked`), `guarded` ends.
What an item of a file becomes depends on its kind and on the format it is read as
(`Treatment`). Around the runs, `SetEnvironment`, `Edit`, `InitConfig`, `ScanOutput` and
`Wizard` change what the next one finds, and edits happen during a run too. `Crash` ends a
run anywhere, `SaveConfig` included, which leaves the old file or nothing.

A table of the database is the sequence of salts it was masked with, so that "joins" and
"masked twice" can be told apart from "masked". `guarded` and `whole` are history variables
that say when `OneSalt` and `JoinsIntact` apply.

### Detection, PrivacyMetrics and Gates

A value is known by the tests it passes and its entropy (`Facts`), and by how `str` prints it
(`Printed`: NULL like the text "None"). `RowsRead` is how far each scan reads a
data set of each layout, with the counts of the code, which differ by one or stop at ten
tuples or at a batch; `Detect` is the order of the tests and their thresholds.
`Compliant` is the one pass of `evaluate_privacy_metrics`.

The user calls `Scan`, `Lint`, `Mask`, `Verify` and `Evaluate` in any order while
`InsertRow` and `AddColumn` change the data; `verdict` is the answer of the command called
last, which the user reads (`GoOn`). `Paired` is the pairing of values with columns for an
INSERT without a column list (the layout `unnamed`), and `CellsKept` fails there and, as
`NamedCellsKept` proves, nowhere else. `KeepsUnparsed` are the types, salary and date of birth,
whose strategies (jitter and `date_shift`) return what they cannot parse as it is: in such a
column a value of any other kind stays raw, and lint is satisfied.

A column is `Exposed` in some rows if raw values of one type prevail among those that do not
look masked, or if it is made of raw secrets. Three properties say of which rows and columns
that cannot be: `LintedIsCovered` of the rows lint has looked at, `NamedIsMasked` of all rows
of the columns that tell by their names what they hold, `VerifiedIsClean` of data all of which
is within verify's reach (`WithinReach`). Verify reads nothing of JSON lines and of INSERTs over
several lines, and passes them.

## 3. The runs

| Run | Expected | What it asks |
| --- | --- | --- |
| `keys` | pass | consistency, injectivity, resolution, the cache bound, permanence of claims and the refinement of `PseudonymMap`, through evictions and up to the exhaustion error |
| `sql` | pass | every dump of two statements: output as the meaning demands, rows written at once |
| `parallel` | pass | same output as sequential, order, bounds, failures, termination, with killed workers |
| `parallel_quoted` | violation of `ChunksCoherent` | a semicolon in a string |
| `records` | pass | masked as configured, joins of masked rows kept within and across tables, cells counted |
| `subset` | pass | the subset is coherent, the limit and the counts hold, keys are inferred as declared |
| `subset_cli` | violation of `KeysIntact` | foreign keys inferred as the `subset` command infers them |
| `column` | pass | encryption one to one, formats, check digits, bounds, what partial masks show, the budget |
| `in_place` | pass | both connectors implement the all-or-nothing promise through errors, crashes and retries; calls end |
| `runs` | pass | joins, one salt, refused runs change nothing, completed runs did what was asked, true audit logs |
| `gates` | pass | what lint, verify and evaluate let through is what they say, as far as they looked; named columns are masked in every row |
| `gates_unnamed` | violation of `CellsKept` | INSERT statements without a column list |

The violation runs are disagreements between the code and a sentence of its documentation,
comments or output; `PROJECT.json` quotes the sentence for each. A disagreement that only
restricts where a property holds is not a run of its own: it is a named hypothesis of the
property, and the instance contains the case, so that the restriction is seen to be needed.

### Where a property is restricted

| Hypothesis | Module | What is outside of it |
| --- | --- | --- |
| `UniformTyping` | `Pseudonymizer` | a key that arrives as 5 and as "5" in a group hashed without `as_integer`: whether the two agree depends on what the cache still holds |
| `DigestInjective`, `CacheEnabled` | `Pseudonymizer` | truncated digests that collide; engines without a cache, which test no collision |
| `Orderly` | `RecordMasking` | a condition on a column an earlier rule masks; two rules or two composite keys on one column; a column twice in a composite key |
| the right-hand side of `CompositeAlike` | `RecordMasking` | composite keys whose parts print alike but differ in type: the tuple is hashed with its types (`engine.py:177`) |
| `SameDigests` in it | `RecordMasking` | composite keys whose digests agree, an integer's modulo 899999: they join after masking, as nothing looks for a collision (`engine.py:182`) |
| `~Bypassed` in `JoinsPreserved` | `RecordMasking` | rows that `--since` returns as they came, which no longer join with masked ones |
| `Countable` | `RecordMasking` | a composite key counted before the row is bypassed; a NULL that a rule without `keep_null` counts and leaves NULL |
| `KeysApart` | `ParallelStream` | workers do not know each other's integers, so two keys of different chunks may share one; numbers written with leading zeros, which are masked as 01 in a COPY block and as 1 in an INSERT |
| `WholeStatements` | `ParallelStream` | a semicolon in a row (run `parallel_quoted`); COPY blocks or INSERTs that never end |
| `SaysMeaning` | `SqlDumpStream` | a trailing clause that begins on its own line has its column list taken for a row; statements that follow another on its line |
| `BlocksKept` | `SqlDumpStream` | the COPY block of a truncated table: the code writes its first line, but neither its rows nor the `\.` that ends it (`parsers/sql_dump.py:252-257`) |
| `Tame`, `Whole`, `UniqueRootKeys`, `Laid` | `Subset` | children before parents, several parents, semicolons in strings, pg_dump's two-line ALTER TABLE, rows that quote DDL |
| `Reversible`, `EvenlySplit`, `InPlace` | `ColumnMasking` | an odd number of rounds on an odd number of characters, single characters, identity numbers with check digits; formats that are rebuilt |
| `Taken`, `Repeats` | `ColumnMasking` | the spaces around an identity number, which are lost; rules with `deterministic: false` and differential privacy, which mask equal values differently |
| `FourDigits` | `ColumnMasking` | a card number of exactly four digits, which its mask shows whole |
| `InOrder`, `Whole` | `ColumnMasking` | noise rules whose lower bound is above the upper one, which nothing checks: clamping then gives the upper one, and drawing anything between the two; bounds that are fractions, which the rounding that comes last may step over |
| `Undisturbed` | `InPlaceMasking` | a cursor that shows a row again under its masked key |
| `interrupted` | `InPlaceMasking` | a DuckDB call that an error or a crash has ended: its copy stays, and no later call succeeds |
| `Shown` | `InPlaceMasking` | between DROP and RENAME the table is only there under the name of the copy |
| `guarded`, `whole` | `MaskingRuns` | configurations that had no fingerprint; operator runs with a salt of another, since the operator compares nothing (`airflow.py:52-59`); a run that died among its tables |
| `AsDocumented` | `MaskingRuns` | an output that is the input, which opening empties; formats that the operator copies raw; the operator's dry runs, which write |
| `ignored`, `edited` in `AuditTruthful` | `MaskingRuns` | a mismatch that was ignored: the log states the fingerprint of the file; a file edited during the run |
| `MayRemain` | `Gates` | columns with a rule for a salary or a date of birth: a value that is no number or date stays raw |
| `WithinReach`; the rows read | `Gates` | rows beyond a scan's limit; JSON lines and INSERTs over several lines, which verify passes unread |
| `SensitiveOf(...) # {}` | `Gates` | records of a class without any sensitive value, which `evaluate` leaves out of the minimum |

### Bounds

* `keys`: two groups (one hashed to integers and shared by two tables, one with ints and
  strings), three integers, a cache of two entries per group, eight kinds of cell. Four
  keys compete for three integers, so a key can be evicted after its first and second
  choice were rejected, and another key can take or miss the integer in between. Nothing
  bounds the length of the run: the state space is finite because the number of claims is.
  One key hashes to the same integer at every counter, so the exhaustion error is reached.
* `records`: fourteen records of six tables, in every order and every subset (16384 states):
  keys that are equal, that differ in one part or only in its type, whose digests agree and
  that are NULL in part, conditions that are true and false, of a NULL and of a missing
  column too, rows before and after the cut-off. Every property is about
  one record or two, or a sum over records, so more records of the same kinds would add
  nothing.
* `sql`: two statements of at most two rows, the first one, if it is an INSERT, broken into
  lines in every way (13279 dumps, 89221 states). The parser keeps nothing from one statement
  to the next but its mode, its buffer and the engine's store; two statements are what
  it takes for one to disturb the next, two rows for a comma and for a cached key.
* `parallel`: two workers, so at most four chunks in flight (`MaxInFlight`), and dumps of
  five to seven chunks: the queue fills, drains and refills. `ChunkLines` is 1, the
  smallest target, which cuts at every place where a cut is allowed. One dump has a chunk
  that fails. One killed worker is enough, since the pool is broken from then on.
* `subset`: a schema of three tables below each other and two beside them, in the DDL of
  mysqldump and of pg_dump, as COPY, as COPY with rows that quote a foreign key, as INSERT and as INSERT with a
  semicolon in a string, in all six orders of the tables, limits 0 to 3 of three root rows, keys given or inferred.
  Three levels are what it takes for remembering a kept child to matter.
* `column`: forty rules, two cells at most: every property is about one cell or two, or
  a sum. Small alphabets are exhausted (all strings of up to three characters and longer ones over two
  symbols); cards, phones and identity numbers are chosen for their lengths and first digits.
* `in_place`: tables of up to four rows, batches of two, three attempts. Pseudonyms fall
  among the raw keys, above and below, so that updates collide and rows turn up again; four
  rows make two batches, and three attempts one after a crash and one after its repetition.
* `runs`: two runs of eleven different requests (salts, overrides, dry runs, outputs, the
  operator), one change of the environment or the file, five environments, nine files in
  five formats, two schemas. Two runs are what it takes for salts to differ; a change before,
  between or during them is enough to make the second one see something else.
* `gates`: up to three rows of four kinds, two or three columns, seven layouts, `K` = `L` = 2,
  `TuplesRead` 2 for ten. With the limit 1 every scan leaves the third row out, with 3 all rows
  are within reach. One column is named like a salary and holds an address in one row, another
  shows by its values alone what it holds. The layouts `live` and `copy` are read as `parquet`
  is and are not repeated.

### Fairness

`Terminates` needs `FairSpec`. The main process is weakly fair: it is a loop that runs
whenever it can. Each worker is weakly fair in taking a waiting chunk and in finishing it:
the pool starts its processes and masking a chunk is a finite computation. `Die` has no
fairness: it may happen and need not. `Ends` needs weak fairness of
`CallStep`, which `InPlaceSpec` states: a
call that has begun goes on, since it is one loop in one thread; nobody is bound to begin
one, and nothing has to fail. The other specifications have no fairness: every process may
stop at any point.

Deadlock is not checked where the system stops by design: after the last line, after an
error, after the call has returned, when the runs or attempts allowed are used up. That none
of these stops comes too early is what `Faithful`, `FailuresSurface`, `Terminates`, `Ends`
and `CompletedAsAsked` say.

## 4. The proofs

`PseudonymizerProofs` holds for every HMAC, range of integers,
cache capacity, set of groups and columns, and order of the cells:

| Theorem | Statement | Assumes |
| --- | --- | --- |
| `Invariance` | `Spec => []IInv` | `UniformTyping` |
| `TypeCorrect` | `Spec => []TypeOK` | `UniformTyping` |
| `Consistency` | a key never gets two pseudonyms | `UniformTyping` |
| `Injectivity` | two keys never share one | and `CacheEnabled`, `DigestInjective` |
| `Transparency` | an evicted pseudonym would be derived again | `UniformTyping` |
| `Refinement` | `Spec => ImplementsPseudonymMap` | and `CacheEnabled`, `DigestInjective` |
| `CacheBound` | a cache stays within its capacity and has no key twice | |
| `Permanence` | claims are never dropped or passed on | `UniformTyping`, `CacheEnabled`, `DigestInjective` |
| `Resolution` | every pseudonym issued resolves to its key | `UniformTyping`, `CacheEnabled`, `DigestInjective` |

The other modules state, for every value of the constants that the named assumptions of the
models allow:

| Theorem | Statement |
| --- | --- |
| `SqlDumpProofs` | any statements, rows and tables, any breaking of INSERTs into lines |
| `OutputIsFaithful` | `Faithful` for dumps that `SaysMeaning`: the output is the dump with each row masked as one of its table, and nothing else |
| `NoRowWaits` | `RowsWrittenAtOnce`, for every sequence of lines |
| `ParallelStreamProofs` | any dump, any number of workers, whichever fail or are killed |
| `BoundedInFlight` | no more than `MaxInFlight` chunks are submitted and not yet written |
| `NothingSwallowed` | the call returns only if every chunk was masked, raises only if one was not, and leaves no worker with work |
| `OrderIsKept` | `Spec => WritesInOrder`: the refinement of `OrderedStream` |
| `ChunksAreWhole` | `ChunksCoherent` for dumps of `WholeStatements`, for any size of chunk |
| `ParallelIsSequential` | `SameAsSequential` for such dumps whose keys are `KeysApart` |
| `ParallelOutputIsFaithful` | what the parallel parser has written of such a dump is the beginning of what the dump means, and all of it when the call returns |
| `RecordProofs` | any tables, rules, composite keys and records; any dumps, foreign keys and limits |
| `CellsAsConfigured` | `MaskedAsConfigured`: the half masked record gives what the raw one demands |
| `JoinsSurvive` | `JoinsPreserved`: masked rows join as before, within a table and across, for keys of one column and of several, the latter as far as their digests tell them apart |
| `CountedOnce` | `CellsCounted`: `cells_masked` is the number of cells that differ |
| `CountsAreThoseOfRows` | `Accounted`: the rows written are rows of the dump in their order, and the counters count both |
| `LimitIsHonoured` | `LimitHonoured`: of the root table, the sample and nothing else |
| `SubsetIsCoherent` | `Coherent`: of a `Tame` dump, exactly the rows that belong to the subset |
| `AllIsInferred` | `InferredAsDeclared`: the foreign keys read from DDL in mysqldump's layout are those declared, if no row quotes DDL |
| `DatabaseProofs` | any number of runs, changes, tables, files and requests; any table with unique keys, any pseudonyms, batches of any size, errors and crashes anywhere |
| `OneSaltOfRuns` | while `guarded`, all salts in the database and in the output have one fingerprint; an operator run with another salt ends it |
| `TablesStayJoined` | `JoinsIntact`: tables that share keys are masked by the same salts, unless a run died between them |
| `RefusedIsHarmless` | a run refused before its masking loop has changed no data (an action property) |
| `CompletedRunsAreDone` | a completed run did all that was asked, but for what `AsDocumented` leaves out (an action property) |
| `AuditLogsTrue` | unless a mismatch was ignored, an audit log states the fingerprint of the salt that was used; it verifies with the salt of the configuration it hashes |
| `AttemptsCanBeRepeated` | after any call of the live connector, and any of DuckDB's as long as none was interrupted, the table is in its place and no copy is left |
| `MaskedAllOrNothing` | `Spec => ImplementsPromise`: the refinement of `MaskedInPlace`, for both connectors |
| `ColumnMaskingProofs` | any values, rules of the kinds modelled, draws, keyed hashes and numbers of cells |
| `EncryptInjective` | the Feistel network confuses no two strings of a length, for any radix and length, and any keyed hash |
| `ColumnOneToOne` | `OneToOne`: equal values alike unless drawn anew, and those encrypted reversibly apart |
| `ColumnFormatKept` | `FormatKept`: length, punctuation, classes of characters, kept prefixes |
| `ColumnChecksumsValid` | `ChecksumsValid`: Luhn's digit and the two of an identity number |
| `ColumnWithinBounds` | `WithinBounds`: noise, generalised values, and the budget |
| `ColumnConcealed` | `Concealed`: a partial mask shows its ends at most, and nothing when they are everything, but for a card of four digits |
| `GatesProofs` | any data, detector, layout, limit and order of commands |
| `NamedData` | `NamedIsMasked`: linted and masked, a column that tells by its name what it holds has no raw value in any row, unless its rule may keep one |
| `LintedData`, `VerifiedData` | what lint has let through exposes nothing in the rows it read, but in columns whose rule may keep a value; what verify has let through nothing, if all of it was within reach |
| `CompliantData` | data found compliant is k-anonymous and l-diverse and puts nobody at risk |
| `NamedCellsKept` | `CellsKept` unless the data come without column names |

The first four results about columns assume `HmacNatural`, that an HMAC is a natural number;
nothing else is asked of it, so they do not rest on cryptography.

The hypotheses of the theorems about `Pseudonymizer` are statements about the configuration
and the data:

* `UniformTyping`: values of one group that the alias lookup identifies print alike, and
  values that print alike take the same branch. `as_integer` on every column of the group
  ensures the second part.
* `CacheEnabled`: with `stateless` or without `cache_pseudonyms` there is no collision test
  at all, and only consistency is left, which the theorem `Consistency` covers.
* `DigestInjective`: no code checks the truncated HMAC of the string branch for collisions.

*Consistency.* `Consistent` is not inductive: it says nothing about a key whose cache entry
is gone. The strengthening is `Settled`: every pseudonym issued so far is what derivation
would give *now*. It is preserved because (1) candidates that were rejected stay
rejected, since claims in the reverse lookup are never given up or handed to a key that
prints differently, and (2) the accepted candidate stays accepted, since its claim
(`IntegersClaimed`) keeps every other key from taking it. `CacheIssued` ties the cache to the history, so
that a hit returns what was issued. The lemmas about `Touch`, `Put` and `RemoveAt` say what
the LRU cache holds after each operation; `LeastElement` gives the first free counter. Each
action of `Next` then has one step for each conjunct of `IInv`.

*Claims.* That the integer branch overwrites no claim follows from the collision test; the
string branch has no such test, and there the argument needs the history: every claim was
issued (`ClaimsIssued`), so that a claim that is overwritten belonged to a key with the same
digest, which by `Injectivity` is the key itself. `Permanence` is that step, and
`Resolution` follows because every cell masked has claimed its pseudonym once and claims
stay. `CacheBound` rests on nothing but the shape of `Touch` and `Put`: a key is removed
before it is added, and the oldest entry goes when there is one too many.

*In flight.* `InFlightBounded` is not inductive either, since it does not say which chunks
are in the queue. The invariant `FlightInv` says that the queue is the tail of the
submissions (`QueueIsTail`), that whatever is pending or running is in it (`Unwritten`), and
that the main process reads on only while there is room for one more (`Room`).

*Failures and order.* What has been submitted are the first chunks of the dump, because the
generator never takes back what it has yielded (`ReadGrows`), and all of them once the input
is read (`CutInv`). A worker completes only what it alone is running (`JobInv`), so nobody
changes what is finished, and what has left the queue had a result (`OutcomeInv`). When the
call has returned, every chunk has therefore left the queue with a result; when it has
raised, one failed. Writing the oldest future maps to the one action of `OrderedStream`, all
else to stuttering.

*Whole statements.* The generator of chunks follows the lines with two flags, the parser with
a state of its own. `Agree` says that, of the lines of the chunk begun, they are inside of a
COPY block and of an INSERT at the same time, and that no terminator waits in the parser's
buffer: a scan ends an INSERT exactly at a terminator (`ScanInsertEnds`), which is where the
generator sees its semicolon if no row holds another (`SemicolonIsTerminator`). The generator
cuts only where it is outside of both, so the parser is outside too. `WholeDump` covers the
last chunk, which is cut by the end of the input.

*The same result.* Two parsers are `Alike` if they are at the same place of the same
statement and the one has written the same as the other after a given text, and counted as
many rows more. Their engines differ: the sequential one has masked all chunks before. But
if no two keys compete, an engine that `Fits` gives every key the pseudonym its name says,
whether it finds it in its cache, in the reverse lookup or derives it (`MaskKeyByName`), so
that a line read by both leaves them alike (`AlikeStep`). At a cut the parser of the chunk
is outside of everything and may as well be a new one (`CutAlike`). So the results of the
chunks put together (`Delivery`) are the result of the dump (`DeliveryOfAll`), and the main
process has always written the delivery of the chunks that left its queue (`WrittenInv`).
`MCParallelStream` asserts both hypotheses of its dumps, `KeysApart` of those that do not
exhaust the integers.

*SQL dumps.* The reference goes statement by statement and row by row, the parser line by
line and, in an INSERT, token by token over a buffer from which it cuts what it has written.
Three invariants lie inside each other. After i tokens of the buffer the scanner has written
the rows that end among them with what separates those, and has come as far as the last of
them (`ScanInv`); it is a trailing clause that it reads if and only if all rows are done,
which is where the restriction on `Continues` is needed. After some lines of an INSERT the
parser holds the tokens after the last row (`InInsert`), after some lines of a COPY block
nothing (`InCopy`). Between statements it has written what those before mean (`Idle`), unless
a row could not be masked and it has written the beginning (`Gone`). `DumpSays` is the three
together for the first lines of a dump, and `ParserInv` for the parser. `NoRowWaits` needs
none of this: a scan that does not end leaves no row between its position and the last token
(`RowsRead`), unless a trailing clause has begun, whatever the lines are (`NothingHeld`).
With `DeliveryOfAll` above, `ParallelOutputIsFaithful` follows for all workers.

*Records.* `mask_record` is two loops, and each has an invariant over the number of keys
(`KeyedBy`) or rules (`RuledBy`) applied: what each cell is by now, said of the *raw* record.
In a table that is `Orderly`, the column which the next rule masks and the one its condition
reads are still as they came, so the loops end with what `Maskings` says (`Result`). Joins
follow because pseudonyms are functions of the keys, of single ones one to one and of composite
ones as far as their digests differ; the count, because no column is counted twice.

*Subsets.* A step of `Subset` is a statement, of which each row is one round of a loop, so
each invariant is first one of the loop over rows. `HasPassed` is that of the second pass: the
counters are those of the rows met and of those written (`Tally`), the latter are among the
former in their order (`IsSelected`), the rows of the root table written are those in the
sample (`RootsAmong`), and, where the keys are a tree with parents first, a row is written if
and only if it deserves it (`Cascades`): for then all its parents have been met, and what is
remembered of their table are exactly the keys of those written. `HasCollected` is that of the
first pass, the sample of the rows met, up to the limit; `HasInferred` that of the DDL lines,
the groups declared so far and the table whose definition is open. `SubsetInv` joins them with
the types, and says of the steps between two passes what the second starts with.

*Runs.* `OneSalt` says nothing of the run in progress, whose salt is not used yet. The
invariant `Guarded` adds that it will be compared, or was, with the fingerprint of the
configuration as it is now (`Checked`: nothing changes the file while `guarded`, and an operator
run ends it when it opens its files with another salt), that the
database and the output hold nothing but salts of that fingerprint (`Printed`), and that a
run which writes has emptied an output to append to (`Writable`). The others need no guard:
before its loop a run has changed nothing (`Untouched`); in it, the tables or items before
`next` are done and the others are as they were (`TablesDone`, `ItemsDone`); and it signs
with the salt its configuration gave it (`Signed`).

*In place.* For DuckDB the invariant is that the copy holds the rows up to the offset,
masked. The live connector updates what it reads: while its cursor is undisturbed, the rows
it has passed are masked in the transaction except for those still queued in the batch, and
the cursor shows the rest as they were (`Reading`). So every update meets the row it was made
for, and when nothing is unread all rows are masked. Two rows cannot be confused because
keys are unique, which each UPDATE preserves or fails.

*Gates.* The invariant `GatesInv` says of what each part of the state still speaks: what was
masked is the data there are under the configuration, a verdict is about both. Two lemmas
carry the gates. `ExposedIsFound`: a column in which personal data prevail is among the columns
read, and the least of the tests that enough values pass has a type (`PrevailingIsReached`), or
the entropies of its secrets add up to more than is usual (`SecretsAreRandom`); and a column
whose name has a type is found whatever it holds. `LintedCells`: a masked cell is, without a
rule, the cell it was, otherwise nothing that must not remain, unless its rule may keep a
value. `ReadWhole` says when the rows read are all there are.

*Columns.* The invariant `IInv` of a column says that its cells are outcomes of its rule,
that equal values were masked alike and that a budget of whole steps is exact; everything
else is said of a single cell, or of two with one result. `EncryptInjective` is the
textbook argument carried out for the code as it is: one round can be undone
(`RoundInjective`: the number added depends on the half that is kept), so all of them can
(`RoundsInjective`), and the digits of a number below a power of the radix determine it
(`NumberInjective`, `NumeralInjective`), which is where the two halves must have the lengths
they are written with: odd lengths after an odd number of rounds are excluded there, and TLC
shows that they must be. Around it, `Rank` counts the characters of an alphabet up to a
place: `InsideRanked` says that the k-th character picked is the one of rank k, and
`SpreadPlaces` that putting back undoes picking, so that what is left in place and what is
encrypted determine the value (`PutBackInjective`). A recomputed check digit loses nothing
since it is determined by the digits before it (`LuhnDigitRight`, `CardFinalDigits`); phone
numbers keep the prefix that is also the tweak. Bounds follow from `Rounded`, which says
where rounding may end, and `ClampedWithin`; the masks from counting the places that are no
stars.

*Loops.* The models write loops as folds. `FoldLaws` proves what the community modules'
`FoldLeft` computes: `FoldEmpty`, `FoldAppend`, `FoldInvariant`, and `FoldSteps` and
`FoldPositions`, by which a fold has a result after each of its steps; `RecordProofs` has the
same of `FoldSet` for an operator whose order does not matter. The library states induction
with an operator for a parameter, which the provers cannot instantiate, so these proofs argue
by the least counterexample instead (`LeastOfSet`), and the loops of the models instantiate
the module with the operator they fold.

*Only model-checked.* `Terminates` and `Ends` are liveness under fairness, which is out of the
reach of the proof system, as is any claim that an action is enabled. `KeysIntact`,
`ChunksCoherent` with semicolons in rows and `CellsKept` without names are the properties that
TLC shows to be violated. Every other property of the runs is a theorem.

## Not modelled

* Regular expressions, quoting and escapes inside a row, CSV COPY, comments: tokens stand
  for them. COPY escapes and their round trip are the first point of the plan.
* The text-producing strategies (constants, shuffling, Faker providers, free text, paths in
  JSON values): they rearrange text and keep no state.
* `preview`, `strategies`, `bench`, `diff` and `version`, which change nothing; what is printed.
* Rules with `track_budget: false`, which leave the budget as it is.
* Averages of the privacy metrics that are only reported; spans and metrics of telemetry.
* Secret stores, GitHub annotations, benchmarks, logging: pure input and output.
* The HMAC, the generators, the process pool, databases and the file system are external
  and appear as constants, choices or actions of their own.

## 5. Plan

Done: the manager, the SQL parser, the parallel parser, records, subsetting, the strategies,
both connectors, runs, gates, and proofs for all of them. Next:

1. `SqlTokens`: quoting, rows over several lines, COPY escapes and their round trip.
2. The privacy budget of a parallel run, which the main process does not add up.
3. A progress theorem of the parallel parser, should the proof system learn about liveness.

## 6. Running the checks

    for m in Pseudonymizer SqlDumpStream ParallelStream RecordMasking Subset \
             ColumnMasking InPlaceMasking MaskingRuns Gates; do
      tlc -workers 2 -config MC$m.cfg MC$m
    done
    tlc -workers 2 -config MCParallelStreamQuoted.cfg MCParallelStream   # violated
    tlc -workers 2 -config MCSubsetCli.cfg MCSubset                      # violated
    tlc -workers 2 -config MCGatesUnnamed.cfg MCGates                    # violated
    for m in FoldLaws PseudonymizerProofs SqlDumpProofs ParallelStreamProofs RecordProofs \
             DatabaseProofs GatesProofs ColumnMaskingProofs; do
      tlapm $m.tla
    done

Every definition marked "Mutant:" is a plausible mistake in the definition below it. With
the mutant in its place TLC finds the property violated that `PROJECT.json` names.
