----------------------------- MODULE MCJobRunner -----------------------------
(* Finite instances of JobRunner. *)
EXTENDS JobRunner
=============================================================================
