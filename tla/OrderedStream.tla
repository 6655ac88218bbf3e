---------------------------- MODULE OrderedStream ---------------------------
(***************************************************************************)
(* What the parallel parser promises of its output: the results of the     *)
(* chunks, each written once, whole, and in the order of the chunks in the *)
(* input; it may stop early.                                               *)
(***************************************************************************)
EXTENDS Naturals, Sequences

CONSTANT Results   \* for each input, the results of its chunks

VARIABLES
  input,    \* the input
  written,  \* how many results have been written
  out       \* what has been written

vars == <<input, written, out>>

Init ==
  /\ written = 0
  /\ out = <<>>

Next ==
  /\ written < Len(Results[input])
  /\ written' = written + 1
  /\ out' = out \o Results[input][written + 1]
  /\ UNCHANGED input

Spec == Init /\ [][Next]_vars
=============================================================================
