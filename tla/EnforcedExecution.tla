-------------------------- MODULE EnforcedExecution --------------------------
(***************************************************************************)
(* One execution of an ExecutionSupervisor that has the Windows            *)
(* enforcement adapter: the calls a client may make in any order it likes, *)
(* the worker process and what it starts itself, and the job objects of    *)
(* the adapter.  The client makes one call after another; what they call   *)
(* may fail at every point, and the worker die at any moment, also while   *)
(* it is being started.  A job dies with its handle (KILL_ON_JOB_CLOSE), and takes *)
(* the processes in it along: the worker, and all its descendants.         *)
(***************************************************************************)
EXTENDS SupervisorStateMachine, WindowsEnforcement

CONSTANTS Jobs,     \* handles the adapter can create; each is used once
          NoJob

ASSUME NoJobAssumption == NoJob \notin Jobs

VARIABLES
  state, complete,  \* SupervisorExecution.state and .cleanup_complete
  prepared,         \* SupervisorExecution.prepared_enforcement
  start,            \* where start_worker() is, "none" outside it: the process is created,
                    \* assigned to its job, or has been told to START
  registered,       \* whether ExecutionSupervisor._workers holds the worker
  ipc,              \* whether the worker's pipe is open
  process,          \* the worker process
  confined,         \* the job the process is assigned to
  descendants,      \* whether processes live that the worker has started
  policy,           \* SupervisorExecution.policy: the limits it asks for
  job,              \* the jobs: not created, in the adapter's _jobs, closed, and leaked:
                    \* forgotten by the adapter though CloseHandle failed
  limits,           \* what the system enforces on a job
  plan              \* what the adapter says of it

boundary == <<job, limits, plan>>
worker == <<registered, ipc, process, confined, descendants>>
vars == <<state, complete, prepared, start, policy, worker, boundary>>

TypeOK ==
  /\ state \in SupervisorStates
  /\ complete \in BOOLEAN
  /\ prepared \in Jobs \cup {NoJob}
  /\ start \in {"none", "created", "assigned", "told"}
  /\ registered \in BOOLEAN /\ ipc \in BOOLEAN
  /\ process \in {"none", "alive", "dead"}
  /\ confined \in Jobs \cup {NoJob}
  /\ descendants \in BOOLEAN
  /\ policy \in SUBSET Fields
  /\ job \in [Jobs -> {"new", "open", "closed", "leaked"}]
  /\ limits \in [Jobs -> SUBSET Limits]
  /\ plan \in [Jobs -> [enforced : SUBSET Controls, gaps : SUBSET Controls]]

Init ==
  /\ state = "none" /\ complete = FALSE
  /\ prepared = NoJob /\ start = "none"
  /\ registered = FALSE /\ ipc = FALSE
  /\ process = "none" /\ confined = NoJob /\ descendants = FALSE
  /\ policy = {}
  /\ job = [j \in Jobs |-> "new"]
  /\ limits = [j \in Jobs |-> {}] /\ plan = [j \in Jobs |-> NoPlan]

Killed == IF process = "alive" THEN "dead" ELSE process

Authorize ==
  /\ state = "none" /\ state' = "AUTHORIZED"
  /\ policy' \in SUBSET Fields
  /\ UNCHANGED <<complete, prepared, start, worker, boundary>>

\* The adapter's prepare(): the limits are set, and the plan says so.
Described(j) ==
  /\ limits' = [limits EXCEPT ![j] = ExtendedLimits(policy) \cup CpuLimits(policy)]
  /\ plan' = [plan EXCEPT ![j] = PlanFor(policy)]

\* _JobHandle.close(): CloseHandle may fail, and the handle is forgotten all the same.
Closed(j, end) == end \in {"closed", "leaked"} /\ job' = [job EXCEPT ![j] = end]

\* prepare_enforcement().  Nothing keeps a client from preparing twice: the second handle
\* takes the place of the first.
Prepare(j) ==
  /\ state = "AUTHORIZED" /\ job[j] = "new"
  /\ job' = [job EXCEPT ![j] = "open"] /\ prepared' = j
  /\ Described(j)
  /\ UNCHANGED <<state, complete, start, policy, worker>>

\* One of the limits cannot be set: the adapter closes its job.  start_worker() does the same
\* when it is the one that prepares.
PrepareFails(j) ==
  /\ state = "AUTHORIZED" /\ job[j] = "new"
  /\ limits' \in {limits, [limits EXCEPT ![j] = ExtendedLimits(policy)]}
  /\ \E end \in {"closed", "leaked"} : Closed(j, end)
  /\ UNCHANGED <<state, complete, prepared, start, policy, worker, plan>>

\* start_worker() prepares if nobody has: j is the job it starts under.
Preparing(j) ==
  /\ state = "AUTHORIZED"
  /\ IF prepared = NoJob THEN job[j] = "new" ELSE j = prepared
  /\ Described(j)

\* start_worker() up to process.start(): the worker lives, boots, and waits for START.  It is
\* in no job yet.
SpawnWorker(j) ==
  /\ Preparing(j)
  /\ state' = "STARTING" /\ prepared' = j /\ registered' = TRUE /\ ipc' = TRUE
  /\ job' = [job EXCEPT ![j] = "open"]
  /\ process' = "alive" /\ start' = "created"
  /\ UNCHANGED <<complete, policy, confined, descendants>>

\* The callback process_started: assign_process().
AssignProcess ==
  /\ start = "created" /\ process = "alive"
  /\ confined' = prepared /\ start' = "assigned"
  /\ UNCHANGED <<state, complete, prepared, policy, registered, ipc, process, descendants, boundary>>

\* Mutant: START is sent, and then the callback called.
SendStartEarly ==
  /\ start \in {"created", "assigned"} /\ start' = "told"
  /\ UNCHANGED <<state, complete, prepared, policy, worker, boundary>>

\* From START on the worker takes requests.
SendStart ==
  /\ start = "assigned" /\ start' = "told"
  /\ UNCHANGED <<state, complete, prepared, policy, worker, boundary>>

ReceiveReady ==
  /\ start = "told"
  /\ state' = "READY" /\ start' = "none"
  /\ UNCHANGED <<complete, prepared, policy, worker, boundary>>

\* The way out of start_worker(): the process is terminated, its pipe closed, the job
\* released; and the execution is over, or release() raises and the entry is left as it is.
FailStart(end) ==
  /\ ipc' = FALSE
  /\ prepared' = NoJob /\ start' = "none"
  /\ IF end = "closed"
     THEN registered' = FALSE /\ state' = "TERMINAL" /\ complete' = TRUE
     ELSE registered' = TRUE /\ state' = "STARTING" /\ UNCHANGED complete
  /\ UNCHANGED <<policy, confined, descendants>>

\* The process is not created.
SpawnFails(j, end) ==
  /\ Preparing(j)
  /\ Closed(j, end) /\ FailStart(end)
  /\ UNCHANGED process

\* It is not assigned, or does not answer START.
StartFails(end) ==
  /\ start # "none"
  /\ process' = Killed
  /\ Closed(prepared, end) /\ FailStart(end)
  /\ UNCHANGED <<limits, plan>>

Executing == state = "READY" /\ registered

\* What the request is about may start processes, and leave them behind.
Runs == descendants' \in BOOLEAN

ExecuteWorker ==
  /\ Executing
  /\ process = "alive" /\ ipc
  /\ state' = "COMPLETED" /\ Runs
  /\ UNCHANGED <<complete, prepared, start, policy, registered, ipc, process, confined, boundary>>

\* The adapter's terminate(): nothing in the job survives.
Terminate == prepared # NoJob /\ job[prepared] = "open" /\ descendants' = FALSE

\* The deadline passes: the adapter terminates the job with all that is in it, or fails to;
\* the worker is terminated in either case, its descendants are not.
ExecuteTimesOut ==
  /\ Executing
  /\ process = "alive" /\ ipc
  /\ state' = "TIMING_OUT" /\ process' = Killed
  /\ Terminate \/ Runs
  /\ UNCHANGED <<complete, prepared, start, policy, registered, ipc, confined, boundary>>

\* Any other error.  The worker may be alive: an error of the request, not of the worker.
ExecuteFails ==
  /\ Executing
  /\ state' = "CRASHED"
  /\ IF process = "alive" THEN Runs ELSE UNCHANGED descendants
  /\ UNCHANGED <<complete, prepared, start, policy, registered, ipc, process, confined, boundary>>

ProcessDies ==
  /\ process = "alive" /\ process' = "dead"
  /\ UNCHANGED <<state, complete, prepared, start, policy, registered, ipc, confined, descendants, boundary>>

DescendantsEnd ==
  /\ descendants /\ descendants' = FALSE
  /\ UNCHANGED <<state, complete, prepared, start, policy, registered, ipc, process, confined, boundary>>

\* transition(): a client may ask for whatever the table allows.
Transition(next) ==
  /\ state # "none" /\ start = "none" /\ next \in Allowed[state]
  /\ state' = next
  /\ UNCHANGED <<complete, prepared, start, policy, worker, boundary>>

\* _release_enforcement(): the handle is forgotten before the job is closed.
Release(end) ==
  /\ prepared' = NoJob
  /\ IF prepared = NoJob THEN end = "closed" /\ UNCHANGED job ELSE Closed(prepared, end)
  /\ descendants' = (descendants /\ (prepared # confined \/ end = "leaked"))

\* cleanup() lets the worker go before anything else.
StopWorker ==
  /\ process' = IF registered THEN Killed ELSE process
  /\ ipc' = (ipc /\ ~registered)

\* Mutant: the handle of the job is forgotten, and the job not closed.
CleanupUnreleased ==
  LET over == state = "CLEANUP" \/ "CLEANUP" \in Allowed[state] IN
  /\ state # "none" /\ ~complete /\ start = "none"
  /\ StopWorker
  /\ prepared' = NoJob /\ UNCHANGED <<job, descendants>>
  /\ state' = IF over THEN "TERMINAL" ELSE state
  /\ complete' = over
  /\ registered' = (registered /\ ~over)
  /\ UNCHANGED <<start, policy, confined, limits, plan>>

\* cleanup(): the worker and the job go first; whether the state allows it is seen after.
Cleanup ==
  LET over == state = "CLEANUP" \/ "CLEANUP" \in Allowed[state] IN
  /\ state # "none" /\ ~complete /\ start = "none"
  /\ StopWorker
  /\ Release("closed")
  /\ state' = IF over THEN "TERMINAL" ELSE state
  /\ complete' = over
  /\ registered' = (registered /\ ~over)
  /\ UNCHANGED <<start, policy, confined, limits, plan>>

\* release() raises out of cleanup().
CleanupFails ==
  /\ state # "none" /\ ~complete /\ start = "none" /\ prepared # NoJob
  /\ StopWorker
  /\ Release("leaked")
  /\ UNCHANGED <<state, complete, start, policy, registered, confined, limits, plan>>

Next ==
  \/ Authorize
  \/ \E j \in Jobs :
       \/ Prepare(j) \/ PrepareFails(j) \/ SpawnWorker(j)
       \/ \E end \in {"closed", "leaked"} : SpawnFails(j, end)
  \/ AssignProcess \/ SendStart \/ ReceiveReady
  \/ \E end \in {"closed", "leaked"} : StartFails(end)
  \/ ExecuteWorker \/ ExecuteTimesOut \/ ExecuteFails
  \/ ProcessDies \/ DescendantsEnd
  \/ \E next \in SupervisorStates : Transition(next)
  \/ Cleanup \/ CleanupFails

Spec == Init /\ [][Next]_vars
-----------------------------------------------------------------------------
(* Properties *)

\* The worker's job applies whatever its plan claims, and the plan tells all the policy asks.
InItsBoundary == confined # NoJob /\ Truthful(policy, plan[confined], limits[confined])

\* A worker takes no request outside its boundary: from START until its process ends it is in
\* a job that the adapter knows and can terminate, through every failed start, failed release
\* and misplaced cleanup; outside one it only boots, while start_worker() has created it and
\* not yet assigned it, and the way out of a failed start does not leave it alive.  What the
\* worker has started is in that job too, as long as there is one.
NoUnconfinedWork ==
  /\ process = "alive" =>
       \/ InItsBoundary /\ job[confined] = "open"
       \/ start = "created" /\ ~descendants
  /\ descendants => InItsBoundary /\ job[confined] \in {"open", "leaked"}

\* A finished execution holds no boundary and no worker, whichever of its steps failed.  Of
\* what the worker has started something lives on only in a job the system refused to close.
EndsHoldNothing ==
  complete =>
    /\ prepared = NoJob /\ ~registered /\ process # "alive" /\ ~ipc
    /\ descendants => job[confined] = "leaked"

=============================================================================
