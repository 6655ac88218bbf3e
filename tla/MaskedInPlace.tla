---------------------------- MODULE MaskedInPlace ---------------------------
(***************************************************************************)
(* What masking a table in place promises: its rows are masked all at      *)
(* once, by every attempt that ends well, and not at all by the others.    *)
(***************************************************************************)
CONSTANTS
  Tables,        \* the tables at the start, functions from rows to contents
  Masked(_, _)   \* the contents of a row after mask_record by a rule

VARIABLES rule, shown

Init == shown \in Tables

MaskAll ==
  /\ shown' = [i \in DOMAIN shown |-> Masked(rule, shown[i])]
  /\ UNCHANGED rule

Spec == Init /\ [][MaskAll]_<<rule, shown>>
=============================================================================
