--------------------------- MODULE MCPseudonymizer --------------------------
(***************************************************************************)
(* Small dumps for the Pseudonymizer.  The group "user" holds an integer   *)
(* key (the README's cg_user_identity, as_integer) that two tables share;  *)
(* the group "actor" is hashed without as_integer, so its ints take the    *)
(* integer branch and its strings the digest.  The HMAC is chosen so that  *)
(* keys collide at several counters.                                       *)
(***************************************************************************)
EXTENDS Pseudonymizer, TLC

MCText == {"1", "2", "3", "05", "5", "x"}

MCNumeral == "1" :> "1" @@ "2" :> "2" @@ "3" :> "3" @@ "05" :> "5" @@ "5" :> "5"

MCDigest == [t \in MCText |-> "h" \o t]
MCHexPseudonym == {MCDigest[t] : t \in MCText}

(* "1" and "2" collide at two counters; "3" selects the same integer at every
   counter, so that it is masked only if it comes before the key that takes
   the integer. *)
Int3 == {"p1", "p2", "p3"}
Probe3 ==
  [t \in MCText |-> [n \in 0..3 |->
     CASE t = "1" -> <<"p1", "p2", "p3", "p1">>[n + 1]
       [] t = "2" -> <<"p1", "p1", "p2", "p3">>[n + 1]
       [] t = "3" -> "p2"
       [] OTHER   -> <<"p1", "p2", "p1", "p3">>[n + 1]]]

Str(T) == [type : {"str"}, text : T]
IntRaw(T) == [type : {"int"}, text : T]

MCGroup == {"user", "actor"}
MCColumn == {"users.id", "orders.user_id", "audit.actor"}
MCGroupOf == "users.id" :> "user" @@ "orders.user_id" :> "user" @@ "audit.actor" :> "actor"
MCMethodOf == "users.id" :> "integer" @@ "orders.user_id" :> "integer" @@ "audit.actor" :> "hash"

(* users comes from COPY, so its keys are strings; orders from INSERT, so its
   keys are ints.  Every cell is typed uniformly in the sense of the model. *)
UniformInput ==
       {"users.id"} \X Str({"1", "2", "5"})
  \cup {"orders.user_id"} \X IntRaw({"2", "3"})
  \cup {"audit.actor"} \X (IntRaw({"1", "2"}) \cup Str({"x"}))
=============================================================================
