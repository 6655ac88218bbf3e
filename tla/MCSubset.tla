------------------------------ MODULE MCSubset ------------------------------
(***************************************************************************)
(* Users with orders, orders with items; users are in a region and items   *)
(* of a product, which are not downstream of the root.  The keys of all    *)
(* tables are small numbers, so that confusing tables shows.               *)
(***************************************************************************)
EXTENDS Subset, TLC

Key(kind, t, cols, ref, refCols, closes) ==
  [kind |-> kind, data |-> FALSE, table |-> t, cols |-> cols, ref |-> ref, refCols |-> refCols,
   closes |-> closes]
Create(t) == Key("create", t, <<>>, "", <<>>, FALSE)
Close(t) == Key("other", t, <<>>, "", <<>>, TRUE)
AddKey(kind, t, col, ref, closes) == Key(kind, t, <<col>>, ref, <<"id">>, closes)

(* As mysqldump writes it, with a composite key and one that is there twice. *)
MySqlDdl ==
  << Create("users"), AddKey("inlineFk", "users", "region", "regions", FALSE), Close("users"),
     Create("orders"), AddKey("tableFk", "orders", "user", "users", TRUE),
     Create("items"), AddKey("tableFk", "items", "product", "products", FALSE),
     AddKey("tableFk", "items", "order", "orders", FALSE),
     Key("tableFk", "items", <<"order", "product">>, "stock", <<"order", "product">>, FALSE),
     Close("items"), AddKey("alter", "orders", "user", "users", TRUE) >>

(* As pg_dump writes it: ALTER TABLE over two lines, after a CREATE TABLE on
   one line, which is still open for the code. *)
PgDdl ==
  << Create("users"), Close("users"), Create("orders"),
     AddKey("tableFk", "items", "order", "orders", TRUE),
     AddKey("tableFk", "orders", "user", "users", TRUE),
     AddKey("tableFk", "users", "region", "regions", TRUE) >>

User(id) == [table |-> "users", cells |-> "id" :> id @@ "region" :> 1]
Order(id, user) == [table |-> "orders", cells |-> "id" :> id @@ "user" :> user]
Item3(id, order) ==
  [table |-> "items", cells |-> "id" :> id @@ "order" :> order @@ "product" :> 1]
Region == [table |-> "regions", cells |-> "id" :> 1 @@ "name" :> "r"]
Product == [table |-> "products", cells |-> "id" :> 1 @@ "name" :> "p"]

(* Order 3 has no user; item 1 belongs to the second order. *)
MCRows ==
     "users"  :> <<User(2), User(1), User(3)>>
  @@ "orders" :> <<Order(1, 2), Order(2, 1), Order(3, SqlNull), Order(4, 2)>>
  @@ "items"  :> <<Item3(1, 2), Item3(2, 1), Item3(3, 4)>>

(* What the inference sees of data: nothing, or the end of the CREATE TABLE before it
   where there is a parenthesis and a semicolon. *)
Plain(t, closes) == [Key("other", t, <<>>, "", <<>>, closes) EXCEPT !.data = TRUE]
HeaderOf(t) == [kind |-> "head", table |-> t, text |-> Plain(t, TRUE)]
EndOf(t) == [kind |-> "end", table |-> t, text |-> Plain(t, FALSE)]
RowItem(r, text) == [kind |-> "row", row |-> r, text |-> text]
AsCopy(t, rows) ==
  <<HeaderOf(t)>> \o [i \in DOMAIN rows |-> RowItem(rows[i], Plain(t, FALSE))] \o <<EndOf(t)>>
(* The rows have a text that quotes a foreign key. *)
Quote(t) == [AddKey("alter", t, "id", "users", TRUE) EXCEPT !.data = TRUE]
AsQuotes(t, rows) ==
  <<HeaderOf(t)>> \o [i \in DOMAIN rows |-> RowItem(rows[i], Quote(t))] \o <<EndOf(t)>>
Line(rows, semi) ==
  [rows |-> rows, semi |-> semi, text |-> Plain(rows[1].table, semi)]
Insert(t, lines) == <<[kind |-> "insert", table |-> t, lines |-> lines]>>
AsInsert(t, rows) ==
  Insert(t, << Line(<<rows[1]>>, FALSE), Line(SubSeq(rows, 2, Len(rows)), TRUE) >>)
(* The first row has a string with a semicolon. *)
AsCutInsert(t, rows) ==
  Insert(t, << Line(<<rows[1]>>, TRUE), Line(SubSeq(rows, 2, Len(rows)), TRUE) >>)

Write(layout, t, rows) ==
  CASE layout = "copy"   -> AsCopy(t, rows)
    [] layout = "quotes" -> AsQuotes(t, rows)
    [] layout = "insert" -> AsInsert(t, rows)
    [] layout = "cut"    -> AsCutInsert(t, rows)

DdlItems(ddl) == [i \in DOMAIN ddl |-> [kind |-> "ddl", text |-> ddl[i]]]

Data(layout, order) ==
  FlattenSeq([i \in DOMAIN order |-> Write(layout, order[i], MCRows[order[i]])])
    \o AsCopy("regions", <<Region>>) \o AsCopy("products", <<Product>>)

Orders == {o \in [1..3 -> {"users", "orders", "items"}] : \A i, j \in 1..3 : i # j => o[i] # o[j]}

MCDumps ==
  {DdlItems(ddl) \o Data(layout, order) :
     ddl \in {MySqlDdl, PgDdl}, layout \in {"copy", "quotes", "insert", "cut"}, order \in Orders}

CliDumps == {DdlItems(MySqlDdl) \o Data("insert", <<"users", "orders", "items">>)}
=============================================================================
