---------------------------- MODULE MCPlanningLoop ----------------------------
(* Instances of PlanningLoop for TLC. *)
EXTENDS PlanningLoop

\* Histories of at most two messages: one that fills the budget, one that exceeds it, a
\* tool message of a client that keeps its own conversation, a role no model knows.
MCMessages == [role : {"user"}, size : {1, 4, 5}, turn : {0}]
              \cup [role : {"tool", "other"}, size : {2}, turn : {0}]

MCHistories == UNION {[1..n -> MCMessages] : n \in 0..2}

=============================================================================
