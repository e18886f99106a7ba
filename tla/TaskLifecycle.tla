---------------------------- MODULE TaskLifecycle ----------------------------
(***************************************************************************)
(* What the runtime promises about one task, whoever executes it: it moves  *)
(* along the state machine only, a terminal state is final, and the caller  *)
(* is released once, either with the task still QUEUED (the request was     *)
(* refused before a life cycle began) or with the task terminal.            *)
(***************************************************************************)
EXTENDS TaskStateMachine

VARIABLES
  state,     \* TaskLifecycle.state
  released   \* TaskOrchestrator.run has returned or raised

vars == <<state, released>>

TypeOK == state \in TaskStates /\ released \in BOOLEAN

Init == state = "QUEUED" /\ released = FALSE

Advance ==
  /\ ~released
  /\ state' \in Allowed(state)
  /\ released' = released

Release ==
  /\ ~released
  /\ state \in Terminal \cup {"QUEUED"}
  /\ released' = TRUE
  /\ state' = state

Next == Advance \/ Release

Spec == Init /\ [][Next]_vars /\ WF_vars(Next)

=============================================================================
