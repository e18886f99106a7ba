-------------------------- MODULE TaskStateMachine --------------------------
(***************************************************************************)
(* The task states of the runtime and the transitions the state machine    *)
(* accepts (state_machine.py).  Pure data, shared by the abstract life     *)
(* cycle and by the orchestrator that drives it.                           *)
(***************************************************************************)

Terminal == {"SUCCEEDED", "FAILED", "CANCELLED", "DENIED", "TIMED_OUT"}

TaskStates ==
  {"QUEUED", "PLANNING", "WAITING_APPROVAL", "RUNNING", "VALIDATING",
   "ROLLING_BACK"} \cup Terminal

\* The table _ALLOWED.
Allowed(from) ==
  CASE from = "QUEUED" -> {"PLANNING", "CANCELLED", "DENIED", "TIMED_OUT"}
    [] from = "PLANNING" ->
         {"WAITING_APPROVAL", "RUNNING", "FAILED", "DENIED", "CANCELLED", "TIMED_OUT"}
    [] from = "WAITING_APPROVAL" -> {"RUNNING", "DENIED", "CANCELLED", "TIMED_OUT"}
    [] from = "RUNNING" -> {"VALIDATING", "SUCCEEDED", "FAILED", "CANCELLED", "TIMED_OUT"}
    [] from = "VALIDATING" -> {"SUCCEEDED", "FAILED", "ROLLING_BACK", "CANCELLED", "TIMED_OUT"}
    [] from = "ROLLING_BACK" -> {"FAILED", "CANCELLED", "TIMED_OUT"}
    [] OTHER -> {}

\* TaskStateMachine.transition: FALSE where the code raises InvalidTransitionError.
CanTransition(from, to) == from \notin Terminal /\ to \in Allowed(from)

=============================================================================
