----------------------------- MODULE MCExecutions -----------------------------
(* Executions for TLC: calls and steps are interchangeable model values. *)
EXTENDS Executions, TLC

Symmetry == Permutations(Calls) \cup Permutations(Steps)

===============================================================================
