----------------------------- MODULE MCAuditLog -----------------------------
(***************************************************************************)
(* AuditLog for TLC: callers are interchangeable, and so are bodies.       *)
(***************************************************************************)
EXTENDS AuditLog, TLC

Symmetry == Permutations(Callers) \cup Permutations(Bodies)

=============================================================================
