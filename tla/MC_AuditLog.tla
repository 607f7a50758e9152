----------------------------- MODULE MC_AuditLog -----------------------------
(* Two processes on one task id, each started at most twice, a log of at   *)
(* most four rows.  The writers and the event bodies are interchangeable.  *)
EXTENDS AuditLog, TLC

Symmetry == Permutations(Writers) \cup Permutations(Bodies)
=============================================================================
