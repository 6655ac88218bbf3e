----------------------------- MODULE SampleDumps ----------------------------
(***************************************************************************)
(* Values for the constants of SqlDump and building blocks for small       *)
(* dumps, shared by the MC modules.  Users and orders share a key that is  *)
(* hashed as an integer, logs is truncated, notes has no rule.             *)
(***************************************************************************)
EXTENDS SqlDump, TLC

MCTable == {"users", "orders", "logs", "notes"}
MCCovered == {"users", "orders"}
MCTruncated == {"logs"}
MCTableMethod == [t \in MCTable |-> "integer"]
MCRow == {"r1", "r2", "r3", "r4"}
MCText == {"1", "2", "3", "id"}
MCNumeral == "1" :> "1" @@ "2" :> "2" @@ "3" :> "3"
MCKeyText == "r1" :> "1" @@ "r2" :> "2" @@ "r3" :> "1" @@ "r4" :> "3" @@ "on(id)" :> "id"
MCDigest == [t \in MCText |-> "h" \o t]
MCHexPseudonym == {MCDigest[t] : t \in MCText}

Int4 == {"p1", "p2", "p3", "p4"}

(* The keys "1" and "2" collide at the first counter; for "3" every counter
   selects the same integer. *)
Colliding ==
  [t \in MCText |-> [n \in 0..4 |->
     CASE t = "id" -> <<"p1", "p2", "p3", "p4", "p1">>[n + 1]
       [] t = "3"  -> "p1"
       [] OTHER    -> <<"p1", "p1", "p2", "p3", "p4">>[n + 1]]]

(* The keys "1", "2" and "id" select different integers; "3" selects that of
   "1". *)
Spread ==
  [t \in MCText |-> [n \in 0..4 |->
     CASE t = "2"  -> "p2"
       [] t = "id" -> "p3"
       [] OTHER    -> "p1"]]

-----------------------------------------------------------------------------
(* A statement in a layout, as the part of a dump that it makes up. *)
Part(st, layout) == [meaning |-> <<st>>, lines |-> Lines(st, layout)]

Join(a, b) == [meaning |-> a.meaning \o b.meaning, lines |-> a.lines \o b.lines]

JoinAll(parts) == FoldLeft(Join, [meaning |-> <<>>, lines |-> <<>>], parts)
=============================================================================
