------------------------------ MODULE MCAccounts ------------------------------
(* Accounts for TLC: requests are interchangeable. *)
EXTENDS Accounts, TLC

Symmetry == Permutations(Calls)
===============================================================================
