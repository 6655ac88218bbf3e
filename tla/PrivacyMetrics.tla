--------------------------- MODULE PrivacyMetrics ---------------------------
(***************************************************************************)
(* k-anonymity and l-diversity of a sequence of records, in one pass over  *)
(* them (core/metrics.py).  A record is a function from its columns.       *)
(***************************************************************************)
EXTENDS Naturals, SequencesExt, FiniteSetsExt

CONSTANTS
  Null,
  Printed(_)   \* str(): not one-to-one, NULL is printed like the text "None"

(* str(rec.get(col, "")) of each column. *)
Key(r, qi) == [c \in qi |-> IF c \in DOMAIN r THEN Printed(r[c]) ELSE ""]

(* Of a set of one column, or none; NULL is not a value. *)
SensitiveOf(r, sensitive) ==
  {Printed(r[c]) : c \in {x \in sensitive \cap DOMAIN r : r[x] # Null}}

(* The counters after the last record. *)
Classes(records, qi, sensitive) ==
  [key \in {Key(records[j], qi) : j \in DOMAIN records} |->
     LET members == {j \in DOMAIN records : Key(records[j], qi) = key} IN
     [size |-> Cardinality(members),
      values |-> UNION {SensitiveOf(records[j], sensitive) : j \in members}]]

(* Mutant: the largest class counts. *)
AnonymityLargest(classes) == IF classes = <<>> THEN 0 ELSE Max({classes[x].size : x \in DOMAIN classes})

Anonymity(classes) == IF classes = <<>> THEN 0 ELSE Min({classes[x].size : x \in DOMAIN classes})

(* Classes without a sensitive value have no entry. *)
Diversity(classes) ==
  LET counts == {Cardinality(classes[x].values) : x \in DOMAIN classes} \ {0} IN
  IF counts = {} THEN 0 ELSE Min(counts)

AtRisk(classes, k) ==
  MapThenSumSet(LAMBDA x : classes[x].size, {x \in DOMAIN classes : classes[x].size < k})

Compliant(records, qi, sensitive, k, l) ==
  LET classes == Classes(records, qi, sensitive) IN
  records = <<>> \/ (Anonymity(classes) >= k /\ (sensitive # {} => Diversity(classes) >= l))
=============================================================================
