------------------------- MODULE WindowsEnforcement -------------------------
(***************************************************************************)
(* What the Windows adapter makes of a policy: the limits it sets on a job  *)
(* object, and the plan in which it says what it enforces and what it does  *)
(* not.  The values of the limits are left out; the adapter's calls are     *)
(* steps of EnforcedExecution.                                              *)
(***************************************************************************)

\* The fields of an IsolationPolicy that are not None.
Fields == {"process_limit", "memory_limit_bytes", "cpu_limit_percent"}

FlagOf == [process_limit      |-> "ACTIVE_PROCESS",
           memory_limit_bytes |-> "PROCESS_MEMORY",
           cpu_limit_percent  |-> "CPU_RATE"]

ControlOf == [process_limit      |-> "PROCESS_COUNT_LIMITS",
              memory_limit_bytes |-> "MEMORY_LIMITS",
              cpu_limit_percent  |-> "CPU_LIMITS"]

Limits == {"KILL_ON_JOB_CLOSE", "ACTIVE_PROCESS", "PROCESS_MEMORY", "CPU_RATE"}

Controls == {"FORCED_TERMINATION", "DESCENDANT_CONTROL", "PROCESS_COUNT_LIMITS", "MEMORY_LIMITS",
             "CPU_LIMITS", "FILESYSTEM_ISOLATION", "NETWORK_ISOLATION", "CREDENTIAL_ISOLATION",
             "ENVIRONMENT_ISOLATION"}

\* The two calls of SetInformationJobObject.
ExtendedLimits(policy) ==
  {"KILL_ON_JOB_CLOSE"} \cup {FlagOf[f] : f \in policy \ {"cpu_limit_percent"}}
CpuLimits(policy) == {FlagOf[f] : f \in policy \cap {"cpu_limit_percent"}}

\* EnforcementPlan
PlanFor(policy) ==
  [enforced |-> {"FORCED_TERMINATION", "DESCENDANT_CONTROL"} \cup {ControlOf[f] : f \in policy},
   gaps     |-> {"FILESYSTEM_ISOLATION", "NETWORK_ISOLATION", "CREDENTIAL_ISOLATION",
                 "ENVIRONMENT_ISOLATION"} \cup {ControlOf[f] : f \in Fields \ policy}]

NoPlan == [enforced |-> {}, gaps |-> {}]

\* The limits a job must have for a control to hold.  Any job can be terminated.
Backing(control) ==
  IF control = "DESCENDANT_CONTROL" THEN {"KILL_ON_JOB_CLOSE"}
  ELSE {FlagOf[f] : f \in {g \in Fields : ControlOf[g] = control}}

\* A control is reported as enforced only if the job applies it, what the policy asks for is
\* enforced or reported as a gap, and nothing is both.
Truthful(policy, plan, limits) ==
  /\ \A c \in plan.enforced : Backing(c) \subseteq limits
  /\ \A f \in policy : ControlOf[f] \in plan.enforced \cup plan.gaps
  /\ plan.enforced \cap plan.gaps = {}

=============================================================================
