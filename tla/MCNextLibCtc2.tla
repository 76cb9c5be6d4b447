--------------------------- MODULE MCNextLibCtc2 ---------------------------
(***************************************************************************)
(* Instance of NextLibCtc2 for TLC: the banks of the ctctest demo, a       *)
(* sample that crosses from its first bank to its second (until the first  *)
(* request the cells hold another, of no bytes at 0), and a program that   *)
(* pages slot 0, where the handlers put tunes and samples.                 *)
(***************************************************************************)
EXTENDS NextLibCtc2

MCTable == [n \in {1} |-> [bank |-> 57, start |-> 8191, length |-> 1]]
MCPages == {<<0, 30>>}
SfxPages == {<<1, 30>>}
=============================================================================
