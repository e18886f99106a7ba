-------------------------- MODULE MCTaskOrchestrator --------------------------
(* Instances of TaskOrchestrator for TLC. *)
EXTENDS TaskOrchestrator

CONSTANTS r1, r2

MCRule(matches, length, decision, approval, expires) ==
  [matches |-> matches, length |-> length, decision |-> decision,
   requireApproval |-> approval, expires |-> expires]

\* As the rules expire, in either order, r1 goes from DENY to ALLOW to no rule, and r2 from
\* ALLOW to an approval requirement.
MCRules ==
  <<MCRule({r1}, 4, "DENY", FALSE, TRUE), MCRule({r1, r2}, 3, "ALLOW", FALSE, TRUE),
    MCRule({r2}, 2, "ALLOW", TRUE, FALSE)>>

=============================================================================
