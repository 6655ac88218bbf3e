------------------------------ MODULE MCGates -------------------------------
EXTENDS Gates

MCAllColumns == <<"mail", "note", "pay">>
MCHint(column) == CASE column = "mail" -> "email" [] column = "pay" -> "salary" [] OTHER -> None
MCPrinted(v) == IF v = Null THEN "None" ELSE v

Fact(tests) ==
  [tests |-> tests, hidden |-> FALSE, blank |-> FALSE, null |-> FALSE, entropy |-> 20, long |-> FALSE]

MCRaw == {"ann@x", "bob@y", "4111", "k3y"}

(* A card number with dashes would pass for a telephone number too. *)
MCFacts ==
  [v \in {"ann@x", "bob@y", "fake1@x", "fake2@y"} |-> Fact({"email"})]
    @@ "4111" :> Fact({"credit_card", "phone"})
    @@ "****" :> [Fact({}) EXCEPT !.hidden = TRUE]
    @@ "k3y" :> [Fact({}) EXCEPT !.entropy = 50, !.long = TRUE]
    @@ [v \in {"5", "6", "None", "placeholder"} |-> Fact({})]
    @@ "" :> [Fact({}) EXCEPT !.blank = TRUE, !.entropy = 0]
    @@ Null :> [Fact({}) EXCEPT !.null = TRUE, !.entropy = 0]

(* An address in the column pay is no number, and is kept. *)
MCMasked(type, v) ==
  CASE type = "email" -> IF v = "ann@x" THEN "fake1@x" ELSE "fake2@y"
    [] type = "credit_card" -> IF v = "" THEN "" ELSE "****"
    [] type = "salary" -> IF v \in {"5", "4111"} THEN "6" ELSE v
    [] OTHER -> "placeholder"

MCRowSet ==
  {<<"ann@x", "4111", Null>>, <<"bob@y", "None", "5">>, <<Null, "k3y", "bob@y">>,
   <<"bob@y", Null, "k3y">>}

Rule(column, type) == [column |-> column, type |-> type]

MCHandWritten ==
  {None, [rules |-> <<Rule("note", "password"), Rule("mail", "password")>>, other |-> TRUE]}

NoHandWritten == {None}

MCLayouts == {"csv", "parquet", "inserts", "insert", "unnamed", "split", "jsonl"}
UnnamedLayouts == {"unnamed"}

MCLimits == {1, 3}
MCQi == {"mail", "note"}
MCSensitive == {"pay"}
=============================================================================
