---------------------------- MODULE MCEventStream ----------------------------
(* Finite instances of EventStream. *)
EXTENDS EventStream
=============================================================================
