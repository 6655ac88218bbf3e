----------------------------- MODULE MaskingRuns ----------------------------
(***************************************************************************)
(* Runs of `mask` and `apply` (cli.py), or of the Airflow operator, one    *)
(* after the other on one configuration: the checks, the tables of a live  *)
(* database or the records of a file, the audit log.  Between the runs the *)
(* environment changes; configurations are edited and generated at any     *)
(* time; a run may die at any moment.                                      *)
(*                                                                         *)
(* A table, or a record written, has the sequence of salts it has been     *)
(* masked with.                                                            *)
(***************************************************************************)
EXTENDS SaltGuard, SequencesExt

CONSTANTS
  Schemas,    \* the tables in the inspector's order: [rule, columns, pk]
  Files,      \* input files: [format, items]
  Configs, Environments, FreshSalts,
  Requests,   \* the command lines, and the operators
  MaxRuns, MaxChanges,   \* bounds
  None

(* What a file of a format may hold: records, records with a masked value that
   is not of its column's type, other JSON values or other lines of a dump, empty
   lines, and what cannot be parsed. *)
Kinds(format) ==
  CASE format = "csv"     -> {"record", "retyped", "blank", "malformed"}
    [] format = "jsonl"   -> {"record", "retyped", "other", "blank", "malformed"}
    [] format = "json"    -> {"record", "retyped", "other", "malformed"}
    [] format = "parquet" -> {"record", "retyped", "malformed"}
    [] format = "sql"     -> {"record", "retyped", "other", "blank"}

ASSUME RunsAssumption ==
  /\ Schemas \subseteq Seq([rule : BOOLEAN, columns : BOOLEAN, pk : BOOLEAN])
  /\ \A f \in Files :
       /\ f.format \in {"csv", "jsonl", "json", "parquet", "sql"}
       /\ f.items \in Seq(Kinds(f.format))
  /\ \A s \in FreshSalts : ~Insecure(s)
  /\ \A r \in Requests :
       /\ r.via \in {"cli", "airflow"} /\ r.output \in {None, "in", "out"}
       /\ r.via = "airflow" => ~r.audit
       /\ r.salt # None => r.via = "airflow"
  /\ MaxRuns \in Nat /\ MaxChanges \in Nat

VARIABLES
  config,   \* the configuration file, None when there is nothing left of it
  env,      \* SECRET_SALT
  tables,   \* what the database has
  db,       \* what has been done to them
  format,   \* of the input file, by the end of its name
  input,    \* what is in it
  output,   \* the output file
  audits,   \* audit logs written
  run,      \* the run in progress
  runs, changes,
  last,     \* how the last run ended
  guarded,  \* the fingerprint has been there from the start, no run masked against it
  whole     \* no live run has ended among its tables

fixed == <<format, tables>>
data == <<db, input, output, audits>>
bounds == <<runs, changes>>
vars == <<config, env, fixed, db, input, output, audits, run, runs, changes, last, guarded, whole>>

-----------------------------------------------------------------------------
Raw(items) == [i \in DOMAIN items |-> [item |-> items[i], salts |-> <<>>]]

NoRun == [phase |-> "none"]

Masks(t) == t.rule /\ t.columns

Init ==
  /\ config \in Configs
  /\ env \in Environments
  /\ tables \in Schemas
  /\ db = [i \in DOMAIN tables |-> <<>>]
  /\ \E f \in Files : format = f.format /\ input = Raw(f.items)
  /\ output = None
  /\ audits = <<>>
  /\ run = NoRun
  /\ runs = 0 /\ changes = 0
  /\ last = "none"
  /\ guarded = (config.print # NoPrint)
  /\ whole = TRUE

Change == changes < MaxChanges /\ changes' = changes + 1

SetEnvironment(s) ==
  /\ run = NoRun
  /\ Change
  /\ env' = s
  /\ UNCHANGED <<fixed, config, data, run, runs, last, guarded, whole>>

(* The user edits the file. *)
Edit(c) ==
  /\ Change
  /\ config' = c
  /\ guarded' = FALSE
  /\ run' = IF run = NoRun THEN NoRun ELSE [run EXCEPT !.edited = TRUE]
  /\ UNCHANGED <<fixed, env, data, runs, last, whole>>

(* Each command writes a configuration with a salt of its own and the salt's
   fingerprint; init alone looks whether it overwrites one. *)
InitConfig(force, s) == (force \/ config = None) /\ Edit(Saved(s, Fingerprint(s)))

ScanOutput(s) == Edit(Saved(s, Fingerprint(s)))

Wizard(s) == Edit(Saved(s, Fingerprint(s)))

-----------------------------------------------------------------------------
Live == run.req.target = "live"
Airflow == run.req.via = "airflow"
Writes == Airflow \/ (run.req.output # None /\ ~run.req.dry)

At(phase) == run.phase = phase
Proceed(phase) == run' = [run EXCEPT !.phase = phase] /\ UNCHANGED last
Halt(status) == run' = NoRun /\ last' = status

(* load_config, which refuses a configuration without a salt; the operator
   puts its salt in the environment first, and in the place of the one loaded. *)
Start(req) ==
  /\ run = NoRun /\ runs < MaxRuns
  /\ config # None
  /\ runs' = runs + 1
  /\ env' = IF req.salt = None THEN env ELSE req.salt
  /\ LET loaded == Interpolated(config, env') IN
     \/ Valid(loaded) /\ UNCHANGED last
        /\ run' = [req |-> req, env |-> env', print |-> config.print,
                   salt |-> IF req.salt = None THEN loaded ELSE req.salt,
                   phase |-> IF req.via = "cli" THEN "salt" ELSE "open",
                   next |-> 1, ignored |-> FALSE, updated |-> FALSE, edited |-> FALSE,
                   before |-> [data |-> data, config |-> config]]
     \/ ~Valid(loaded) /\ Halt("refused")
  /\ UNCHANGED <<fixed, config, data, changes, guarded, whole>>

CheckSalt ==
  /\ At("salt")
  /\ IF Insecure(run.salt) /\ ~run.req.allow THEN Halt("refused") ELSE Proceed("fingerprint")
  /\ UNCHANGED <<fixed, config, env, data, bounds, guarded, whole>>

(* Mutant: a mismatch is a warning only. *)
CheckFingerprintWarns ==
  /\ At("fingerprint")
  /\ LET mismatch == Mismatch(run.before.config, run.salt)
         update == mismatch /\ run.req.update
     IN
     /\ run' = [run EXCEPT !.phase = IF update THEN "saving" ELSE "production",
                           !.print = IF update THEN Fingerprint(run.salt) ELSE @,
                           !.updated = update, !.ignored = mismatch /\ ~update]
     /\ guarded' = (guarded /\ ~(mismatch /\ (run.req.update \/ run.req.ignore)))
  /\ UNCHANGED <<fixed, config, env, data, bounds, last, whole>>

CheckFingerprint ==
  /\ At("fingerprint")
  /\ LET mismatch == Mismatch(run.before.config, run.salt) IN
     \/ ~mismatch /\ Proceed("production") /\ UNCHANGED guarded
     \/ /\ mismatch /\ run.req.update
        /\ run' = [run EXCEPT !.phase = "saving", !.print = Fingerprint(run.salt), !.updated = TRUE]
        /\ guarded' = FALSE
        /\ UNCHANGED last
     \/ /\ mismatch /\ ~run.req.update /\ run.req.ignore
        /\ run' = [run EXCEPT !.phase = "production", !.ignored = TRUE]
        /\ guarded' = FALSE
        /\ UNCHANGED last
     \/ mismatch /\ ~run.req.update /\ ~run.req.ignore /\ Halt("refused") /\ UNCHANGED guarded
  /\ UNCHANGED <<fixed, config, env, data, bounds, whole>>

SaveConfig ==
  /\ At("saving")
  /\ config' = Saved(run.salt, run.print)
  /\ Proceed("production")
  /\ UNCHANGED <<fixed, env, data, bounds, guarded, whole>>

CheckProduction ==
  /\ At("production")
  /\ IF Live /\ IsProduction(run.req.words) /\ ~run.req.confirm THEN Halt("refused")
     ELSE Proceed("open")
  /\ UNCHANGED <<fixed, config, env, data, bounds, guarded, whole>>

(* The operator takes what is not CSV for a dump. *)
ReadAs == IF Airflow /\ format # "csv" THEN "sql" ELSE format

(* The operator knows files only, and opens its output in a dry run too. *)
CannotOpen ==
  \/ Live /\ Airflow
  \/ ~Live /\ run.req.output = None /\ (Airflow \/ ~run.req.dry)
  \/ ~Live /\ ReadAs = "parquet" /\ \E i \in DOMAIN input : input[i].item = "malformed"

(* The operator does not compare the fingerprint. *)
Unchecked == Airflow /\ Mismatch(run.before.config, run.salt)

(* Mutant: the output is opened before the input is looked at. *)
OpenFirst ==
  /\ At("open")
  /\ output' = IF ~Live /\ run.req.output = "out" THEN <<>> ELSE output
  /\ IF CannotOpen THEN Halt("refused") ELSE Proceed("masking")
  /\ guarded' = (guarded /\ ~Unchecked)
  /\ UNCHANGED <<fixed, config, env, db, input, audits, bounds, whole>>

(* The connection, or the files: the output is emptied when it is opened. *)
Open ==
  /\ At("open")
  /\ IF CannotOpen THEN Halt("refused") /\ UNCHANGED <<input, output>>
     ELSE /\ Proceed("masking")
          /\ output' = IF ~Live /\ Writes /\ run.req.output = "out" THEN <<>> ELSE output
          /\ input' = IF ~Live /\ Writes /\ run.req.output = "in" THEN <<>> ELSE input
  /\ guarded' = (guarded /\ ~Unchecked)
  /\ UNCHANGED <<fixed, config, env, db, audits, bounds, whole>>

-----------------------------------------------------------------------------
(* A live database, table by table; each is a transaction (InPlaceMasking). *)

Touches(t) == t.rule /\ ~run.req.dry

(* Mutant: the first table that is not masked ends the loop. *)
MaskTableUntil ==
  /\ At("masking") /\ Live /\ run.next <= Len(tables)
  /\ LET t == tables[run.next] IN
     /\ db' = IF Touches(t) /\ Masks(t) THEN [db EXCEPT ![run.next] = Append(@, run.salt)] ELSE db
     /\ run' = [run EXCEPT !.next = IF Masks(t) THEN @ + 1 ELSE Len(tables) + 1]
  /\ UNCHANGED <<fixed, config, env, input, output, audits, bounds, last, guarded, whole>>

MaskTable ==
  /\ At("masking") /\ Live /\ run.next <= Len(tables)
  /\ LET t == tables[run.next] IN
     \/ /\ Touches(t) => t.pk
        /\ db' = IF Touches(t) /\ Masks(t) THEN [db EXCEPT ![run.next] = Append(@, run.salt)] ELSE db
        /\ run' = [run EXCEPT !.next = @ + 1]
        /\ UNCHANGED <<last, whole>>
     \/ /\ Touches(t) /\ ~t.pk
        /\ Halt("raised")
        /\ whole' = FALSE
        /\ UNCHANGED db
  /\ UNCHANGED <<fixed, config, env, input, output, audits, bounds, guarded>>

(* Records of a file: what the parser of a format does with an item.  A dump is
   copied but for its rows, and so is JSON that is taken for one; Parquet is no
   text at all. *)
Treatment(item) ==
  CASE format # ReadAs     -> IF format = "parquet" THEN "raises" ELSE "copied"
    [] format = ReadAs ->
         CASE item = "record"    -> "masked"
           [] item = "retyped"   -> IF format = "parquet" THEN "raises" ELSE "masked"
           [] item = "other"     -> IF format = "jsonl" THEN "raises" ELSE "copied"
           [] item = "blank"     -> IF format = "jsonl" THEN "skipped" ELSE "copied"
           [] item = "malformed" -> "raises"

(* A document is parsed before anything is written. *)
Fails ==
  \/ Treatment(input[run.next].item) = "raises"
  \/ ReadAs = "json" /\ \E i \in DOMAIN input : input[i].item = "malformed"

(* Mutant: a record whose types change is copied. *)
WrittenTyped(x) == <<IF x.item = "record" THEN [x EXCEPT !.salts = Append(@, run.salt)] ELSE x>>

Written(x) ==
  LET how == Treatment(x.item) IN
  CASE how = "masked"  -> <<[x EXCEPT !.salts = Append(@, run.salt)]>>
    [] how = "copied"  -> <<x>>
    [] how = "skipped" -> <<>>

WriteItem ==
  /\ At("masking") /\ ~Live /\ run.next <= Len(input)
  /\ IF Fails
     THEN Halt("raised") /\ UNCHANGED output
     ELSE /\ output' = IF Writes THEN output \o Written(input[run.next]) ELSE output
          /\ run' = [run EXCEPT !.next = @ + 1]
          /\ UNCHANGED last
  /\ UNCHANGED <<fixed, config, env, db, input, audits, bounds, guarded, whole>>

Length == IF Live THEN Len(tables) ELSE Len(input)

(* A Parquet file is still being read when its output is opened over it. *)
OverwritesParquet ==
  ~Live /\ ReadAs = "parquet" /\ Writes /\ run.req.output = "in" /\ run.before.data[2] # <<>>

(* engine.finish() and the summary; the operator looks for what is left of the
   personal data, and raises with the output in place. *)
Finish ==
  /\ At("masking") /\ run.next > Length
  /\ \/ (OverwritesParquet \/ Airflow) /\ Halt("raised")
     \/ ~OverwritesParquet /\ run.req.audit /\ Proceed("audit")
     \/ ~OverwritesParquet /\ ~run.req.audit /\ Halt("completed")
  /\ UNCHANGED <<fixed, config, env, data, bounds, guarded, whole>>

(* Mutant: the fingerprint is that of the file. *)
ReportedPrintOfFile == IF config.print = NoPrint THEN Fingerprint(run.salt) ELSE config.print

ReportedPrint == IF run.print = NoPrint THEN Fingerprint(run.salt) ELSE run.print

(* generate_audit_log hashes the file as it is now and signs with the salt. *)
WriteAudit ==
  /\ At("audit")
  /\ audits' = Append(audits, [print |-> ReportedPrint, hashed |-> config, signer |-> run.salt,
                               env |-> run.env, ignored |-> run.ignored, edited |-> run.edited])
  /\ Halt("completed")
  /\ UNCHANGED <<fixed, config, env, db, input, output, bounds, guarded, whole>>

(* A file that was being written is lost; an unfinished audit log is not counted. *)
Crash ==
  /\ run # NoRun
  /\ Halt("crashed")
  /\ config' \in (IF At("saving") THEN {config, None} ELSE {config})
  /\ whole' = (whole /\ ~(At("masking") /\ Live /\ ~run.req.dry))
  /\ UNCHANGED <<fixed, env, data, bounds, guarded>>

Step ==
  \/ CheckSalt \/ CheckFingerprint \/ SaveConfig \/ CheckProduction
  \/ Open \/ MaskTable \/ WriteItem \/ Finish \/ WriteAudit

Next ==
  \/ \E s \in Environments : SetEnvironment(s)
  \/ \E c \in Configs : Edit(c)
  \/ \E s \in FreshSalts, force \in BOOLEAN : InitConfig(force, s)
  \/ \E s \in FreshSalts : ScanOutput(s) \/ Wizard(s)
  \/ \E req \in Requests : Start(req)
  \/ Step
  \/ Crash

Spec == Init /\ [][Next]_vars

Verifies(audit, key) == audit.signer = key
-----------------------------------------------------------------------------
(* Properties. *)

MaskedTables == {i \in DOMAIN tables : Masks(tables[i])}

(* Between runs all tables have been masked with the same salts, as often, so
   that their keys join; a run that died among the tables is the exception
   (cli.py:493). *)
JoinsIntact == run = NoRun /\ whole => \A i, j \in MaskedTables : db[i] = db[j]

Used ==
  (UNION {ToSet(db[i]) : i \in DOMAIN db})
    \cup (IF output = None THEN {} ELSE UNION {ToSet(output[i].salts) : i \in DOMAIN output})

(* "to prevent accidental foreign key consistency breaks across runs"
   (cli.py:86): with a fingerprint in the configuration that nobody edits or
   overrides, no two runs of the commands use salts of different fingerprints,
   whatever becomes of the environment.  The operator masks without a comparison
   (airflow.py:59): after a run of it with another salt nothing is promised. *)
OneSalt == guarded => \A s, t \in Used : Fingerprint(s) = Fingerprint(t)

(* A run that is refused has masked nothing, emptied nothing and written no
   audit log; the configuration is as before unless it was asked to update it. *)
RefusedChangesNothing ==
  [][run # NoRun /\ run' = NoRun /\ last' = "refused"
       => /\ data' = run.before.data
          /\ config' = run.before.config \/ run.updated \/ run.edited]_vars

MaskedBy(x) == x.item \in {"record", "retyped"} => x.salts = <<run.salt>>

Count(items, k) == Cardinality({i \in DOMAIN items : items[i].item = k})

(* A run reported as completed (cli.py:634) has masked every table with a rule
   once more, or every record of the input into the output, with its one salt; a
   dry run of the commands has changed neither.  Not said when the output is the
   input, when the operator is given another format than the two it reads, and of
   the operator's dry runs, which write (airflow.py:75). *)
AsDocumented ==
  run.req.output # "in" /\ (Airflow => format = ReadAs /\ ~run.req.dry)

CompletedAsAsked ==
  [][run # NoRun /\ run' = NoRun /\ last' = "completed" /\ AsDocumented
       => LET was == run.before.data IN
          /\ db' = IF ~Live \/ run.req.dry THEN was[1]
                   ELSE [i \in DOMAIN tables |-> IF i \in MaskedTables
                           THEN Append(was[1][i], run.salt) ELSE was[1][i]]
          /\ input' = was[2]
          /\ IF Live \/ ~Writes THEN output' = was[3]
             ELSE /\ \A i \in DOMAIN output' : MaskedBy(output'[i])
                  /\ \A k \in {"record", "retyped"} : Count(output', k) = Count(input, k)]_vars

(* An audit log states the fingerprint of the salt that was used, unless a mismatch
   was ignored, of which it says nothing (audit.py:75), and verifies with the salt
   of the configuration whose hash it gives, unless the file was changed during the
   run. *)
AuditTruthful ==
  \A i \in DOMAIN audits :
    LET a == audits[i] IN
    /\ ~a.ignored => a.print = Fingerprint(a.signer)
    /\ ~a.edited => Verifies(a, Interpolated(a.hashed, a.env))
=============================================================================
