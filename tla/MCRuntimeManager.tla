---------------------------- MODULE MCRuntimeManager ----------------------------
(* Instances of RuntimeManager for TLC. *)
EXTENDS RuntimeManager

CONSTANTS c1, c2

=============================================================================
