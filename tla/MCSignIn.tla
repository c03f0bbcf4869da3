------------------------------- MODULE MCSignIn -------------------------------
(* SignIn for TLC: requests are interchangeable. *)
EXTENDS SignIn, TLC

Symmetry == Permutations(Calls)
===============================================================================
