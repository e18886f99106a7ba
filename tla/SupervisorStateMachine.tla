----------------------- MODULE SupervisorStateMachine -----------------------
(* The transition table of execution_supervisor.py, shared by the two       *)
(* modules that drive an execution through it.                              *)

Allowed == [
  AUTHORIZED  |-> {"STARTING", "TERMINAL"},
  STARTING    |-> {"READY", "TIMING_OUT", "CRASHED", "TERMINATING", "CLEANUP"},
  READY       |-> {"RUNNING", "CANCELLING", "TERMINATING", "CRASHED"},
  RUNNING     |-> {"CANCELLING", "TIMING_OUT", "CRASHED", "COMPLETED", "TERMINATING"},
  CANCELLING  |-> {"TERMINATING", "CLEANUP"},
  TIMING_OUT  |-> {"TERMINATING", "CLEANUP"},
  CRASHED     |-> {"CLEANUP", "TERMINATING"},
  COMPLETED   |-> {"CLEANUP"},
  TERMINATING |-> {"CLEANUP"},
  CLEANUP     |-> {"TERMINAL"},
  TERMINAL    |-> {}]

\* authorize() makes an entry AUTHORIZED and none is ever NEW: "none" stands for an
\* execution that has no entry yet.
SupervisorStates == DOMAIN Allowed \cup {"none"}
=============================================================================
