--------------------------- MODULE MCRecordMasking --------------------------
(***************************************************************************)
(* A schema with tenants: users have a composite key that orders refer to, *)
(* staff and audit share a single key, leads has a condition on a column   *)
(* that is masked before it, and the two composite keys of items share the *)
(* tenant.                                                                 *)
(***************************************************************************)
EXTENDS RecordMasking, TLC

MCTable == {"users", "orders", "items", "audit", "staff", "leads"}

Rule(col, group, strategy) ==
  [col |-> col, group |-> group, strategy |-> strategy, keepNull |-> TRUE,
   on |-> "none", holds |-> {}]

If(rule, col, texts) == [rule EXCEPT !.on = col, !.holds = texts]

(* country != 'US', of the countries there are. *)
NotUS == {<<"UK">>, Null}

UserKey(cols) == [group |-> "user", cols |-> cols]
ProductKey(cols) == [group |-> "product", cols |-> cols]

MCRules ==
     "users"  :> <<If(Rule("email", "", "constant"), "country", NotUS),
                   Rule("country", "", "constant")>>
  @@ "orders" :> <<[Rule("total", "", "constant") EXCEPT !.keepNull = FALSE]>>
  @@ "items"  :> <<>>
  @@ "audit"  :> <<Rule("actor", "person", "key")>>
  @@ "staff"  :> <<Rule("person", "person", "key")>>
  @@ "leads"  :> <<Rule("country", "", "constant"),
                   If(Rule("email", "", "constant"), "country", {<<"US">>})>>

MCComposites ==
     "users"  :> <<UserKey(<<"tenant", "id">>)>>
  @@ "orders" :> <<UserKey(<<"tenant", "user">>)>>
  @@ "items"  :> <<UserKey(<<"tenant", "user">>), ProductKey(<<"tenant", "product">>)>>
  @@ "audit"  :> <<>>
  @@ "staff"  :> <<>>
  @@ "leads"  :> <<>>

Number(t) == [type |-> "int", text |-> <<t>>]
Str(t) == [type |-> "str", text |-> <<t>>]

User(tenant, id, country) ==
  [table |-> "users", cells |-> "tenant" :> tenant @@ "id" :> id @@ "email" :> Str("mail")
                                  @@ "country" :> country]
Order(tenant, user, total, day) ==
  [table |-> "orders", cells |-> "tenant" :> tenant @@ "user" :> user @@ "total" :> total
                                   @@ "updated_at" :> Str(day)]
Item(tenant, user, product) ==
  [table |-> "items", cells |-> "tenant" :> tenant @@ "user" :> user @@ "product" :> product]
Audit(actor, day) ==
  [table |-> "audit", cells |-> "actor" :> actor @@ "updated_at" :> Str(day)]
Staff(person) == [table |-> "staff", cells |-> "person" :> person]
Lead(country) == [table |-> "leads", cells |-> "country" :> Str(country) @@ "email" :> Str("mail")]

MCSince == {<<"old">>}

(* Digests differ, but those of the integers of tenant 2 are those of tenant 1
   modulo 899999. *)
MCDigest(group, vals, i) ==
  LET number == <<"">> :> 0 @@ <<"1">> :> 1 @@ <<"2">> :> 2 @@ <<"7">> :> 7
      digit(v) == IF v.type = "int" THEN number[v.text] ELSE 10 + number[v.text]
      tenant == IF vals[1] = Number("2") THEN 899999 + digit(Number("1")) ELSE digit(vals[1])
  IN  tenant + 20 * digit(vals[2]) + 400 * i + (IF group = "user" THEN 0 ELSE 2000)

(* Keys that are NULL in part, a composite key as text where that of the user
   it prints like is numbers, two composite keys that get the same pseudonym,
   conditions that hold and that do not, of a NULL and of no column too, a rule
   that does not keep NULL, rows before and after the cut-off, and rows of the
   tables that are not Orderly: one with a condition on a column that an
   earlier rule masks, one with two composite keys that share a column. *)
Records ==
  { [table |-> "users", cells |-> "email" :> Str("mail")],
    User(Number("1"), Number("1"), Str("US")), User(Number("1"), Number("2"), Str("UK")),
    User(Number("2"), Number("1"), Null),
    Order(Number("1"), Number("1"), Number("9"), "new"), Order(Number("1"), Null, Number("9"), "new"),
    Order(Number("2"), Number("1"), Null, "new"), Order(Number("1"), Number("2"), Number("9"), "old"),
    Order(Str("1"), Str("1"), Number("9"), "new"),
    Audit(Number("1"), "new"), Audit(Number("2"), "old"), Staff(Str("1")),
    Lead("US"), Item(Number("1"), Number("1"), Number("7")) }
=============================================================================
