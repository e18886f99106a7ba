------------------------------ MODULE MCAuditLog ------------------------------
(* Instances of AuditLog for TLC. *)
EXTENDS AuditLog, TLC

CONSTANTS t1, t2, t3

Symmetry == Permutations(Threads)

=============================================================================
