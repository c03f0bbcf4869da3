---------------------------- MODULE MCReportShare ----------------------------
(* ReportShare for TLC: calls and people are interchangeable. *)
EXTENDS ReportShare, TLC

Symmetry == Permutations(Calls) \cup Permutations(Users)
===============================================================================
