-------------------------- MODULE MCInPlaceMasking --------------------------
(***************************************************************************)
(* Tables of up to four rows; pseudonyms fall among the raw keys, so that  *)
(* updates meet rows which still have their own.                           *)
(***************************************************************************)
EXTENDS InPlaceMasking

MCKeys == 1 .. 11

MCPseudonym(k) == 1 + ((k * 3) % 11)

RowWith(key, null) == [key |-> key, cell |-> IF null THEN Null ELSE 0]

MCRawTables ==
  {<<>>} \cup {[i \in DOMAIN keys |-> RowWith(keys[i], i = 2)] :
     keys \in {<<2>>, <<1, 2>>, <<2, 5, 7>>, <<1, 4, 2>>, <<1, 3, 6, 8>>, <<9, 8, 5, 3>>}}
=============================================================================
