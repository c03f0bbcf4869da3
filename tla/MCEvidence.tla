------------------------------ MODULE MCEvidence ------------------------------
(* Evidence for TLC: one content is stored already, once for one engagement and *)
(* twice for another.                                                           *)
EXTENDS Evidence, TLC

CONSTANTS b1, e1, e2
MCStored == {[id |-> 1, eng |-> e1, sha |-> b1], [id |-> 2, eng |-> e2, sha |-> b1],
             [id |-> 3, eng |-> e2, sha |-> b1]}
Symmetry == Permutations(Requests)
===============================================================================
