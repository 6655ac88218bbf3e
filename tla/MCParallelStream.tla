-------------------------- MODULE MCParallelStream --------------------------
(***************************************************************************)
(* Dumps of more chunks than two workers may have in flight.               *)
(***************************************************************************)
EXTENDS ParallelStream, SampleDumps

Users(keys) == Part(InsertStatement("users", keys, FALSE), "line")
Orders(keys, layout) == Part(InsertStatement("orders", keys, TRUE), layout)
CopyUsers(keys) == Part(CopyStatement("users", keys), "line")
Ddl == Part(OtherStatement, "line")

(* COPY blocks, INSERTs on one and on several lines, and other statements, in
   more chunks than may be in flight. *)
PlainParts ==
  { <<Ddl, CopyUsers(<<"r1", "r2">>), Orders(<<"r1", "r2">>, "rows"),
      Users(<<"r2">>), Ddl, Users(<<"r1">>), Orders(<<"r3">>, "line")>>,
    <<Orders(<<"r2">>, "rows"), Ddl, Ddl, Users(<<"r1">>), CopyUsers(<<"r3">>)>> }

Plain == {JoinAll(parts) : parts \in PlainParts}

(* Where each statement of a dump ends. *)
Ends(parts) == [k \in 0 .. Len(parts) |-> Len(JoinAll(SubSeq(parts, 1, k)).lines)]

(* Masking the second statement exhausts the integers. *)
Failing ==
  { JoinAll(<<Ddl, Users(<<"r1", "r4">>), Ddl, Users(<<"r2">>), Ddl, Users(<<"r1">>)>>) }

Mixed == Failing \cup Plain

(* An INSERT with a row for each line and a semicolon in the text of the
   first. *)
Quoted == { Join(Part(InsertStatement("users", <<"r2", "r1">>, FALSE), "rows"), Ddl) }

MCWorker == {"w1", "w2"}

(* Where no row contains a semicolon these dumps are of whole statements; the keys of the
   plain ones do not compete for a pseudonym, and their lines say what they mean: the
   hypotheses of the theorems about chunks hold of what is checked. *)
ASSUME SampleAssumption ==
  /\ SemiRow = {} => \A d \in Mixed : WholeStatements(d.lines)
  /\ \A d \in Plain : KeysApart(d.lines)
  /\ \A parts \in PlainParts :
       IsCut(JoinAll(parts), Ends(parts)) /\ BlocksKept(JoinAll(parts).meaning)
=============================================================================
