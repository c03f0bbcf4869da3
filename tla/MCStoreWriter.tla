---------------------------- MODULE MCStoreWriter ----------------------------
(* Finite instances of StoreWriter. *)
EXTENDS StoreWriter, TLC

Symmetry == Permutations(Writes) \cup Permutations(Readers)
=============================================================================
