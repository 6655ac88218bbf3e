--------------------------- MODULE MCMaskingRuns ----------------------------
EXTENDS MaskingRuns

Salt(text, padded, length) ==
  [text |-> text, padded |-> padded, length |-> length, placeholder |-> FALSE]

S1 == Salt("s1", FALSE, 64)
Padded == Salt("s1", TRUE, 64)   \* the same with a newline
S2 == Salt("s2", FALSE, 64)
Weak == [Salt("changeme", FALSE, 8) EXCEPT !.placeholder = TRUE]
Unset == Salt("", FALSE, 0)

MCEnvironments == {S1, Padded, S2, Weak, Unset}
MCFreshSalts == {S2}

MCConfigs ==
  {[salt |-> Env, print |-> Fingerprint(S1)], [salt |-> Env, print |-> NoPrint],
   [salt |-> S1, print |-> Fingerprint(S2)]}

Table(rule, pk) == [rule |-> rule, columns |-> rule, pk |-> pk]

(* Tables without a rule, without columns and without a key. *)
MCSchemas ==
  {<<Table(TRUE, TRUE), Table(FALSE, FALSE), Table(TRUE, TRUE)>>,
   <<Table(TRUE, TRUE), [Table(TRUE, TRUE) EXCEPT !.columns = FALSE], Table(TRUE, FALSE)>>}

MCFiles ==
  {[format |-> "csv", items |-> <<"record", "blank", "retyped">>],
   [format |-> "csv", items |-> <<"record", "malformed">>],
   [format |-> "sql", items |-> <<"blank", "record", "other", "retyped">>],
   [format |-> "jsonl", items |-> <<"record", "blank", "retyped", "other">>],
   [format |-> "json", items |-> <<"retyped", "other", "record">>],
   [format |-> "json", items |-> <<"record", "malformed">>],
   [format |-> "parquet", items |-> <<"record", "retyped">>],
   [format |-> "parquet", items |-> <<"record", "record">>],
   [format |-> "parquet", items |-> <<"malformed">>]}

Plain ==
  [via |-> "cli", target |-> "file", words |-> {}, output |-> "out", dry |-> FALSE,
   audit |-> FALSE, allow |-> FALSE, ignore |-> FALSE, update |-> FALSE, confirm |-> FALSE,
   salt |-> None]
OnDb == [Plain EXCEPT !.target = "live", !.output = None]

MCRequests ==
  {Plain,
   [Plain EXCEPT !.output = "in", !.audit = TRUE],
   [Plain EXCEPT !.allow = TRUE, !.dry = TRUE],
   [Plain EXCEPT !.output = None],
   [Plain EXCEPT !.via = "airflow", !.salt = S2, !.dry = TRUE],
   [Plain EXCEPT !.via = "airflow"],
   [Plain EXCEPT !.via = "airflow", !.output = None],
   [OnDb EXCEPT !.audit = TRUE],
   [OnDb EXCEPT !.allow = TRUE, !.ignore = TRUE, !.audit = TRUE],
   [OnDb EXCEPT !.update = TRUE, !.words = {"shop", "prod"}, !.audit = TRUE],
   [OnDb EXCEPT !.words = {"live"}, !.confirm = TRUE, !.dry = TRUE]}
=============================================================================
