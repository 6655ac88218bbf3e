---------------------------- MODULE PseudonymMap ----------------------------
(***************************************************************************)
(* What pseudonymisation promises, whatever is cached, probed or evicted:  *)
(* every group keeps a partial one-to-one map from keys to pseudonyms that *)
(* only ever grows.                                                        *)
(***************************************************************************)
CONSTANTS Group, Key, Pseudonym

VARIABLE assigned   \* the triples <<group, key, pseudonym>> decided so far

Init == assigned = {}

(* A key that has no pseudonym yet gets one that no other key has. *)
Assign(g, k, p) ==
  /\ \A a \in assigned : a[1] = g => a[2] # k /\ a[3] # p
  /\ assigned' = assigned \cup {<<g, k, p>>}

Next == \E g \in Group, k \in Key, p \in Pseudonym : Assign(g, k, p)

Spec == Init /\ [][Next]_assigned
=============================================================================
