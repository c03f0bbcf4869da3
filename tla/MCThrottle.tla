------------------------------ MODULE MCThrottle ------------------------------
(* Throttle for TLC: requests and accounts are interchangeable. *)
EXTENDS Throttle, TLC

Symmetry == Permutations(Requests) \cup Permutations(Accounts)
===============================================================================
