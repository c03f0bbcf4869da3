------------------------------ MODULE MCWorkbook ------------------------------
(* Finite instances of Workbook. *)
EXTENDS Workbook, TLC

Symmetry == Permutations(Calls) \cup Permutations(Users \ {Creator})
=============================================================================
