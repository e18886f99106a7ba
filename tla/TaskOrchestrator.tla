--------------------------- MODULE TaskOrchestrator ---------------------------
(***************************************************************************)
(* One task on its way through TaskOrchestrator.run: the thread that called *)
(* run (through ExecutionCoordinator, AuthorizedToolRunner and ToolExecutor *)
(* down to the loop that waits for the handler), the watchdog thread it     *)
(* starts, the handler threads, a user who may cancel at any moment, policy *)
(* rules that may expire at any moment and audit appends that may fail.     *)
(* One action stands for the code between two points at which another       *)
(* thread can be observed or can observe this one.                          *)
(***************************************************************************)
EXTENDS TaskStateMachine, PolicyBroker

CONSTANT MaxAuditFaults  \* bound: failing appends to the audit log

ASSUME AuditFaultsAssumption == MaxAuditFaults \in Nat

VARIABLES
  state,      \* TaskLifecycle.state
  pc,         \* where the thread that runs the task is
  call,       \* what the request, the call and the descriptor look like
  token,      \* CancellationToken: "none" or the reason it was requested
  fired,      \* timeout_fired
  stop,       \* watchdog_stop
  watchdog,   \* where the watchdog thread is
  expired,    \* the policy rules that have expired
  pending,    \* permission requests still to be evaluated
  refused,    \* AuthorizedToolRunner.authorize met a decision other than ALLOW
  attempt,    \* the attempt ToolExecutor.execute is in
  due,        \* the deadline of this attempt has passed
  handler,    \* what the handler thread of each attempt is doing or has done
  signalled,  \* ToolExecutionContext.cancellation_event of each attempt
  toolLog,    \* ToolExecutor._audit: the events recorded for this call
  result,     \* status of the ToolResult the executor returned
  exc,        \* exception that left the inner try block
  report,     \* the error and the result that go into the TaskOutcome
  audit,      \* outcomes appended to the audit log for this task
  faults      \* audit appends that may still fail

permissionVars == <<pending, refused>>
work == <<attempt, result, exc, report>>
orchestratorVars == <<pc, permissionVars, work>>
cancelVars == <<token, fired, stop, watchdog>>
world == <<call, expired, cancelVars>>
handlerVars == <<due, handler, signalled>>
logVars == <<toolLog, audit, faults>>
allButPc == <<state, world, permissionVars, work, handlerVars, logVars>>
vars == <<pc, allButPc>>

Attempts == 1..2

Calls == [correlated : BOOLEAN, wellFormed : BOOLEAN, known : BOOLEAN,
          invocationOk : BOOLEAN, safe : BOOLEAN, descriptorSafe : BOOLEAN]

\* How a handler ends: "ok"; "invalid" (its validator rejects it), "unchecked" (its
\* validator raises), "malformed" (accepted, but the ToolResult built from it fails its
\* schema); "error" (it raises); "timeout" (it raises a TimeoutError of its own).
HandlerEnds == {"ok", "invalid", "unchecked", "malformed", "error", "timeout"}

ExecutorStatuses == {"SUCCEEDED", "FAILED", "DENIED", "TIMED_OUT"}

\* The outcomes ToolExecutor._record writes.
Events == {"REJECTED", "DENIED", "APPROVAL_REQUIRED", "AUTHORIZED_EXECUTION", "CANCELLED",
           "TIMED_OUT", "RETRYING", "FAILED", "VALIDATION_FAILED", "SUCCEEDED"}

Reports == [error : {"none", "TASK_CANCELLED", "PERMISSION_DENIED", "TASK_TIMED_OUT",
                     "RUNTIME_FAILURE"},
            result : BOOLEAN]

Places ==
  {"submitted", "validating", "preflight", "authorizing", "execute", "evaluating",
   "attempt", "launch", "polling", "remaining", "waiting", "collected", "returned",
   "cancelled", "settle", "validating_result", "auditing", "stopping", "joining",
   "failing", "auditing_failure", "done", "raised", "rejected"}

Finished == {"done", "raised", "rejected"}

TypeOK ==
  /\ state \in TaskStates
  /\ pc \in Places
  /\ call \in Calls
  /\ token \in {"none", "user", "timeout"}
  /\ fired \in BOOLEAN
  /\ stop \in BOOLEAN
  /\ watchdog \in {"off", "waiting", "elapsed", "armed", "marked", "over"}
  /\ expired \subseteq Expiring
  /\ pending \subseteq Requests
  /\ refused \in BOOLEAN
  /\ attempt \in Attempts
  /\ due \in BOOLEAN
  /\ handler \in [Attempts -> {"idle", "running"} \cup HandlerEnds]
  /\ signalled \in [Attempts -> BOOLEAN]
  /\ toolLog \in Seq(Events)
  /\ result \in {"none"} \cup ExecutorStatuses
  /\ exc \in {"none", "cancel", "error"}
  /\ report \in Reports
  /\ audit \in Seq(TaskStates)
  /\ faults \in 0..MaxAuditFaults

Init ==
  /\ state = "QUEUED"
  /\ pc = "submitted"
  /\ call \in Calls
  /\ token = "none" /\ fired = FALSE /\ stop = FALSE /\ watchdog = "off"
  /\ expired \in SUBSET Expiring
  /\ pending = {} /\ refused = FALSE
  /\ attempt = 1 /\ due = FALSE
  /\ handler = [a \in Attempts |-> "idle"]
  /\ signalled = [a \in Attempts |-> FALSE]
  /\ toolLog = <<>> /\ audit = <<>> /\ faults = MaxAuditFaults
  /\ result = "none" /\ exc = "none"
  /\ report = [error |-> "none", result |-> FALSE]

Goto(from, to) == pc = from /\ pc' = to

Record(event) == toolLog' = Append(toolLog, event)

Report(error, withResult) == report' = [error |-> error, result |-> withResult]

-----------------------------------------------------------------------------
(* run up to RUNNING *)

\* A mismatch of the correlation ids is raised before there is a life cycle.
Reject ==
  /\ ~call.correlated
  /\ Goto("submitted", "rejected")
  /\ UNCHANGED allButPc

Plan ==
  /\ call.correlated
  /\ Goto("submitted", "validating")
  /\ state' = "PLANNING"
  /\ UNCHANGED <<world, permissionVars, work, handlerVars, logVars>>

ValidateCall ==
  /\ \/ call.wellFormed /\ Goto("validating", "preflight") /\ exc' = exc
     \/ ~call.wellFormed /\ Goto("validating", "failing") /\ exc' = "error"
  /\ UNCHANGED <<state, world, permissionVars, attempt, result, report, handlerVars, logVars>>

PreflightCancelled ==
  /\ token # "none"
  /\ Goto("preflight", "auditing")
  /\ state' = "CANCELLED"
  /\ Report("TASK_CANCELLED", FALSE)
  /\ UNCHANGED <<world, permissionVars, attempt, result, exc, handlerVars, logVars>>

Preflight ==
  /\ token = "none"
  /\ Goto("preflight", "authorizing")
  /\ pending' = Requests
  /\ UNCHANGED <<state, world, refused, work, handlerVars, logVars>>

\* authorize evaluates every permission before it looks at any decision.
Authorize(r) ==
  /\ pc = "authorizing" /\ r \in pending
  /\ pending' = pending \ {r}
  /\ refused' = (refused \/ Evaluate(r, expired) # "ALLOW")
  /\ UNCHANGED <<state, world, pc, work, handlerVars, logVars>>

Deny ==
  /\ pending = {} /\ refused
  /\ Goto("authorizing", "auditing")
  /\ state' = "DENIED"
  /\ Report("PERMISSION_DENIED", FALSE)
  /\ UNCHANGED <<world, permissionVars, attempt, result, exc, handlerVars, logVars>>

\* A variant that goes on whatever the decisions were.
StartRunningUnchecked ==
  /\ pending = {}
  /\ Goto("authorizing", "execute")
  /\ state' = "RUNNING" /\ watchdog' = "waiting"
  /\ UNCHANGED <<call, expired, permissionVars, work, token, fired, stop, handlerVars, logVars>>

\* The task is RUNNING and its watchdog thread is started.
StartRunning ==
  /\ pending = {} /\ ~refused
  /\ Goto("authorizing", "execute")
  /\ state' = "RUNNING" /\ watchdog' = "waiting"
  /\ UNCHANGED <<call, expired, permissionVars, work, token, fired, stop, handlerVars, logVars>>
-----------------------------------------------------------------------------
(* ToolExecutor.execute, in the thread of run *)

\* CancellationRequested on its way to the orchestrator.
RaiseCancelled(from) ==
  /\ token # "none"
  /\ Goto(from, "cancelled")
  /\ exc' = "cancel"
  /\ UNCHANGED <<state, world, permissionVars, attempt, result, report>>

\* A ToolResult on its way to the orchestrator.
ReturnResult(from, status, event) ==
  /\ Goto(from, "returned")
  /\ result' = status
  /\ Record(event)
  /\ UNCHANGED <<state, world, permissionVars, attempt, exc, report, audit, faults>>

ExecuteCancelled == RaiseCancelled("execute") /\ UNCHANGED <<handlerVars, logVars>>

\* Unknown tool, or an invocation that does not match the descriptor.
RejectInvocation ==
  /\ token = "none" /\ ~(call.known /\ call.invocationOk)
  /\ ReturnResult("execute", "FAILED", "REJECTED")
  /\ UNCHANGED handlerVars

EnterExecutor ==
  /\ token = "none" /\ call.known /\ call.invocationOk
  /\ Goto("execute", "evaluating")
  /\ pending' = Requests
  /\ UNCHANGED <<state, world, refused, work, handlerVars, logVars>>

\* The executor evaluates every permission again; the last ALLOW opens the attempt loop.
Confirm(r) ==
  /\ pc = "evaluating" /\ r \in pending
  /\ Evaluate(r, expired) = "ALLOW"
  /\ pending' = pending \ {r}
  /\ pc' = IF pending' = {} THEN "attempt" ELSE pc
  /\ UNCHANGED <<state, world, refused, work, handlerVars, logVars>>

ExecutorDenies(r) ==
  /\ r \in pending /\ Evaluate(r, expired) = "DENY"
  /\ ReturnResult("evaluating", "DENIED", "DENIED")
  /\ UNCHANGED handlerVars

\* ToolApprovalRequiredError is none of the exceptions the orchestrator expects.
ApprovalRequired(r) ==
  /\ r \in pending /\ Evaluate(r, expired) = "REQUIRE_APPROVAL"
  /\ Goto("evaluating", "stopping")
  /\ exc' = "error"
  /\ Record("APPROVAL_REQUIRED")
  /\ UNCHANGED <<state, world, permissionVars, attempt, result, report, handlerVars, audit, faults>>

AttemptCancelled == RaiseCancelled("attempt") /\ UNCHANGED <<handlerVars, logVars>>

BeginAttempt ==
  /\ token = "none"
  /\ Goto("attempt", "launch")
  /\ due' = FALSE
  /\ Record("AUTHORIZED_EXECUTION")
  /\ UNCHANGED <<state, world, permissionVars, work, handler, signalled, audit, faults>>

\* How the executor logs a cancellation it raises inside an attempt.
RecordCancellation ==
  /\ Record(IF token = "timeout" THEN "TIMED_OUT" ELSE "CANCELLED")
  /\ UNCHANGED <<audit, faults>>

LaunchCancelled ==
  RaiseCancelled("launch") /\ RecordCancellation /\ UNCHANGED handlerVars

\* The handler is submitted to a one-thread pool of its own.
Launch ==
  /\ token = "none"
  /\ Goto("launch", "polling")
  /\ handler' = [handler EXCEPT ![attempt] = "running"]
  /\ UNCHANGED <<state, world, permissionVars, work, due, signalled, logVars>>

\* context.cancellation_event.set(): the handler thread is told, never stopped.
Signal == signalled' = [signalled EXCEPT ![attempt] = TRUE] /\ UNCHANGED <<due, handler>>

PollCancelled == RaiseCancelled("polling") /\ RecordCancellation /\ Signal

Poll ==
  /\ token = "none"
  /\ Goto("polling", "remaining")
  /\ UNCHANGED allButPc

\* A variant that gives the deadline's TimeoutError the retry of an ordinary exception.
DeadlineExceededRetried ==
  /\ due
  /\ IF attempt = 1 /\ call.safe /\ call.descriptorSafe
     THEN /\ Goto("remaining", "attempt")
          /\ attempt' = 2
          /\ Record("RETRYING")
          /\ UNCHANGED <<state, world, permissionVars, result, exc, report, audit, faults>>
     ELSE ReturnResult("remaining", "TIMED_OUT", "TIMED_OUT")
  /\ Signal

\* A variant that stops waiting without telling the handler.
DeadlineExceededSilently ==
  /\ due
  /\ ReturnResult("remaining", "TIMED_OUT", "TIMED_OUT")
  /\ UNCHANGED handlerVars

DeadlineExceeded ==
  /\ due
  /\ ReturnResult("remaining", "TIMED_OUT", "TIMED_OUT")
  /\ Signal

WithinDeadline ==
  /\ ~due
  /\ Goto("remaining", "waiting")
  /\ UNCHANGED allButPc

\* The slice of future.result is over, or the handler itself raised a TimeoutError,
\* which is the same exception: in both cases the loop goes round.
KeepWaiting ==
  /\ handler[attempt] \in {"running", "timeout"}
  /\ Goto("waiting", "polling")
  /\ UNCHANGED allButPc

GotResult ==
  /\ handler[attempt] \in {"ok", "invalid", "unchecked", "malformed"}
  /\ Goto("waiting", "collected")
  /\ UNCHANGED allButPc

RetryAllowed == attempt = 1 /\ call.safe /\ call.descriptorSafe

\* A variant that never counts: it retries whenever both sides declared it safe.
RetryOrFailUnbounded(from) ==
  IF call.safe /\ call.descriptorSafe
  THEN /\ Goto(from, "attempt")
       /\ attempt' = attempt + 1
       /\ Record("RETRYING")
       /\ UNCHANGED <<state, world, permissionVars, result, exc, report, audit, faults>>
  ELSE ReturnResult(from, "FAILED", "FAILED")

\* An exception of the attempt: one more attempt if both sides declared it safe.
RetryOrFail(from) ==
  IF RetryAllowed
  THEN /\ Goto(from, "attempt")
       /\ attempt' = 2
       /\ Record("RETRYING")
       /\ UNCHANGED <<state, world, permissionVars, result, exc, report, audit, faults>>
  ELSE ReturnResult(from, "FAILED", "FAILED")

HandlerRaised ==
  /\ handler[attempt] = "error"
  /\ RetryOrFail("waiting")
  /\ Signal

CollectCancelled ==
  RaiseCancelled("collected") /\ RecordCancellation /\ UNCHANGED handlerVars

ValidatorRaised ==
  /\ token = "none" /\ handler[attempt] = "unchecked"
  /\ RetryOrFail("collected")
  /\ UNCHANGED handlerVars

ResultInvalid ==
  /\ token = "none" /\ handler[attempt] = "invalid"
  /\ ReturnResult("collected", "FAILED", "VALIDATION_FAILED")
  /\ UNCHANGED handlerVars

ResultAccepted ==
  /\ token = "none" /\ handler[attempt] \in {"ok", "malformed"}
  /\ ReturnResult("collected", "SUCCEEDED", "SUCCEEDED")
  /\ UNCHANGED handlerVars

\* ExecutionCoordinator.execute looks at the token once more: a cancellation that came
\* while the result was on its way discards it.
ReturnCancelled == RaiseCancelled("returned") /\ UNCHANGED <<handlerVars, logVars>>

\* A variant of the coordinator that never looks again.
ReturnUnchecked ==
  /\ Goto("returned", "settle")
  /\ UNCHANGED allButPc

Return ==
  /\ token = "none"
  /\ Goto("returned", "settle")
  /\ UNCHANGED allButPc
-----------------------------------------------------------------------------
(* run after the execution: settle, audit, stop the watchdog, answer *)

SettleCancelled ==
  /\ Goto("cancelled", "auditing")
  /\ state' = IF fired THEN "TIMED_OUT" ELSE "CANCELLED"
  /\ Report(IF fired THEN "TASK_TIMED_OUT" ELSE "TASK_CANCELLED", FALSE)
  /\ UNCHANGED <<world, permissionVars, attempt, result, exc, handlerVars, logVars>>

SettleResult ==
  /\ Goto("settle", "validating_result")
  /\ state' = "VALIDATING"
  /\ UNCHANGED <<world, permissionVars, work, handlerVars, logVars>>

ResultWellFormed == ~(result = "SUCCEEDED" /\ handler[attempt] = "malformed")

ResultSettles == ResultWellFormed /\ CanTransition("VALIDATING", result)

\* A variant that writes the executor's status into the task without the state machine.
FinishValidationUnguarded ==
  /\ Goto("validating_result", "auditing")
  /\ state' = "SUCCEEDED"
  /\ Report(IF result = "TIMED_OUT" THEN "TASK_TIMED_OUT" ELSE "none", TRUE)
  /\ UNCHANGED <<world, permissionVars, attempt, result, exc, handlerVars, logVars>>

FinishValidation ==
  /\ ResultSettles
  /\ Goto("validating_result", "auditing")
  /\ state' = result
  /\ Report(IF result = "TIMED_OUT" THEN "TASK_TIMED_OUT" ELSE "none", TRUE)
  /\ UNCHANGED <<world, permissionVars, attempt, result, exc, handlerVars, logVars>>

\* The schema check fails, or the state machine refuses the executor's status.
ValidationRaises ==
  /\ ~ResultSettles
  /\ Goto("validating_result", "stopping")
  /\ exc' = "error"
  /\ UNCHANGED <<state, world, permissionVars, attempt, result, report, handlerVars, logVars>>

\* Where run goes once the terminal state has been audited, or could not be.
AfterAudit(failed) ==
  IF watchdog # "off" THEN "stopping" ELSE IF failed THEN "failing" ELSE "done"

Audit ==
  /\ Goto("auditing", AfterAudit(FALSE))
  /\ audit' = Append(audit, state)
  /\ UNCHANGED <<state, world, permissionVars, work, handlerVars, toolLog, faults>>

AuditFails ==
  /\ faults > 0 /\ faults' = faults - 1
  /\ Goto("auditing", AfterAudit(TRUE))
  /\ exc' = "error"
  /\ UNCHANGED <<state, world, permissionVars, attempt, result, report, handlerVars, toolLog, audit>>

\* A variant that returns without waiting for the watchdog.
StopWatchdogUnjoined ==
  /\ Goto("stopping", IF exc = "error" THEN "failing" ELSE "done")
  /\ stop' = TRUE
  /\ UNCHANGED <<state, call, expired, permissionVars, work, token, fired, watchdog, handlerVars, logVars>>

StopWatchdog ==
  /\ Goto("stopping", "joining")
  /\ stop' = TRUE
  /\ UNCHANGED <<state, call, expired, permissionVars, work, token, fired, watchdog, handlerVars, logVars>>

JoinWatchdog ==
  /\ watchdog = "over"
  /\ Goto("joining", IF exc = "error" THEN "failing" ELSE "done")
  /\ UNCHANGED allButPc

\* A variant without the test for a task that is already terminal.
FailUnguarded ==
  /\ Goto("failing", "auditing_failure")
  /\ state' = "FAILED"
  /\ Report("RUNTIME_FAILURE", FALSE)
  /\ UNCHANGED <<world, permissionVars, attempt, result, exc, handlerVars, logVars>>

\* The outer handler: FAILED unless the task already is terminal.
Fail ==
  /\ Goto("failing", "auditing_failure")
  /\ state' = IF state \in Terminal THEN state ELSE "FAILED"
  /\ Report("RUNTIME_FAILURE", FALSE)
  /\ UNCHANGED <<world, permissionVars, attempt, result, exc, handlerVars, logVars>>

AuditFailure ==
  /\ Goto("auditing_failure", "done")
  /\ audit' = Append(audit, "FAILED")
  /\ UNCHANGED <<state, world, permissionVars, work, handlerVars, toolLog, faults>>

\* The append in the outer handler fails too: run raises.
AuditFailureFails ==
  /\ faults > 0 /\ faults' = faults - 1
  /\ Goto("auditing_failure", "raised")
  /\ UNCHANGED <<state, world, permissionVars, work, handlerVars, toolLog, audit>>
-----------------------------------------------------------------------------
(* The watchdog thread *)

WatchdogMoves(from, to) ==
  /\ watchdog = from /\ watchdog' = to
  /\ UNCHANGED <<state, call, expired, stop, orchestratorVars, handlerVars, logVars>>

\* The wait times out.  The thread may be late to notice, after stop has been set.
WatchdogElapses == ~stop /\ WatchdogMoves("waiting", "elapsed") /\ UNCHANGED <<token, fired>>

WatchdogStopped == stop /\ WatchdogMoves("waiting", "over") /\ UNCHANGED <<token, fired>>

WatchdogChecks ==
  /\ WatchdogMoves("elapsed", IF token = "none" THEN "armed" ELSE "over")
  /\ UNCHANGED <<token, fired>>

\* A variant that requests the cancellation before it sets timeout_fired.
WatchdogMarksLate ==
  /\ WatchdogMoves("armed", "marked")
  /\ token' = IF token = "none" THEN "timeout" ELSE token
  /\ UNCHANGED fired

WatchdogMarks == WatchdogMoves("armed", "marked") /\ fired' = TRUE /\ UNCHANGED token

\* The token keeps the first reason it is given.
WatchdogRequests ==
  /\ WatchdogMoves("marked", "over")
  /\ token' = IF token = "none" THEN "timeout" ELSE token
  /\ UNCHANGED fired
-----------------------------------------------------------------------------
(* The rest of the world *)

UserCancels ==
  /\ token = "none" /\ token' = "user"
  /\ UNCHANGED <<state, call, expired, fired, stop, watchdog, orchestratorVars, handlerVars, logVars>>

HandlerEndsWith(a, end) ==
  /\ handler[a] = "running"
  /\ handler' = [handler EXCEPT ![a] = end]
  /\ UNCHANGED <<state, world, orchestratorVars, due, signalled, logVars>>

DeadlinePasses ==
  /\ ~due /\ pc \in {"polling", "remaining", "waiting"}
  /\ due' = TRUE
  /\ UNCHANGED <<state, world, orchestratorVars, handler, signalled, logVars>>

RuleExpires(i) ==
  /\ i \in Expiring \ expired
  /\ expired' = expired \cup {i}
  /\ UNCHANGED <<state, call, cancelVars, orchestratorVars, handlerVars, logVars>>
-----------------------------------------------------------------------------

Execute ==
  \/ ExecuteCancelled \/ RejectInvocation \/ EnterExecutor
  \/ \E r \in Requests : Confirm(r) \/ ExecutorDenies(r) \/ ApprovalRequired(r)
  \/ AttemptCancelled \/ BeginAttempt \/ LaunchCancelled \/ Launch
  \/ PollCancelled \/ Poll \/ DeadlineExceeded \/ WithinDeadline
  \/ KeepWaiting \/ GotResult \/ HandlerRaised
  \/ CollectCancelled \/ ValidatorRaised \/ ResultInvalid \/ ResultAccepted
  \/ ReturnCancelled \/ Return

Run ==
  \/ Reject \/ Plan \/ ValidateCall \/ PreflightCancelled \/ Preflight
  \/ (\E r \in Requests : Authorize(r)) \/ Deny \/ StartRunning
  \/ Execute
  \/ SettleCancelled \/ SettleResult \/ FinishValidation \/ ValidationRaises
  \/ Audit \/ AuditFails \/ StopWatchdog \/ JoinWatchdog
  \/ Fail \/ AuditFailure \/ AuditFailureFails

Watchdog ==
  \/ WatchdogElapses \/ WatchdogStopped \/ WatchdogChecks
  \/ WatchdogMarks \/ WatchdogRequests

Environment ==
  \/ UserCancels
  \/ \E a \in Attempts, end \in HandlerEnds : HandlerEndsWith(a, end)
  \/ DeadlinePasses
  \/ \E i \in Expiring : RuleExpires(i)

Next == Run \/ Watchdog \/ Environment

\* The two threads are scheduled and time passes; nothing makes a handler end, a user
\* cancel, a rule expire or an append fail.
Fairness == WF_vars(Run) /\ WF_vars(Watchdog) /\ WF_vars(DeadlinePasses)

Spec == Init /\ [][Next]_vars /\ Fairness

-----------------------------------------------------------------------------
(* Properties *)

\* A task moves along the state machine, a terminal state is final, and the caller is
\* released exactly once, with the task terminal or refused: what orchestrator.run
\* promises its callers, through every race of the threads below it.
Lifecycle == INSTANCE TaskLifecycle WITH released <- pc \in Finished
ImplementsLifecycle == Lifecycle!Spec

\* The state, the error and the audit record of one outcome tell the same story; a task
\* reported as a runtime failure is FAILED unless an audit append had failed.
OutcomeAgrees ==
  pc = "done" =>
    /\ audit # <<>>
    /\ report.error # "RUNTIME_FAILURE" => audit = <<state>>
    /\ <<report.error, state>> \in
         {<<"none", "SUCCEEDED">>, <<"none", "FAILED">>, <<"TASK_CANCELLED", "CANCELLED">>,
          <<"PERMISSION_DENIED", "DENIED">>, <<"TASK_TIMED_OUT", "TIMED_OUT">>,
          <<"RUNTIME_FAILURE", "FAILED">>}
         \cup {<<"RUNTIME_FAILURE", s>> : s \in IF faults < MaxAuditFaults THEN Terminal ELSE {}}

\* A task is CANCELLED only because its user cancelled it, TIMED_OUT only because a timer
\* of the task ran out, DENIED only because the policy refused it.
CauseAgrees ==
  /\ state = "CANCELLED" => token = "user"
  /\ state = "TIMED_OUT" => fired \/ due
  /\ state = "DENIED" => refused

\* A call the policy refused, at the gate or in the executor, never reaches its handler.
RefusedNeverRuns ==
  (refused \/ result = "DENIED" \/ (toolLog # <<>> /\ toolLog[1] = "APPROVAL_REQUIRED"))
    => \A a \in Attempts : handler[a] = "idle"

\* A handler is run a second time only when its first run has ended, badly, and both the
\* call and the descriptor declared the operation safe: two runs never overlap.
SecondRunIsSafe ==
  handler[2] # "idle" =>
    /\ handler[1] \in {"error", "unchecked"}
    /\ call.safe /\ call.descriptorSafe

\* A handler thread that outlives its task has been told to stop.
AbandonedIsSignalled ==
  pc \in Finished => \A a \in Attempts : handler[a] = "running" => signalled[a]

\* When the task is over every authorized attempt has been closed in the executor's log,
\* no handler ran that was not logged, and a SUCCEEDED task ends in a SUCCEEDED event.
ToolLogAgrees ==
  pc \in Finished =>
    /\ \A i \in DOMAIN toolLog : toolLog[i] = "AUTHORIZED_EXECUTION" =>
         i < Len(toolLog) /\ toolLog[i + 1] # "AUTHORIZED_EXECUTION"
    /\ \A a \in Attempts : handler[a] # "idle" =>
         2 * a <= Len(toolLog) /\ toolLog[2 * a - 1] = "AUTHORIZED_EXECUTION"
    /\ state = "SUCCEEDED" => toolLog[Len(toolLog)] = "SUCCEEDED"

\* Once run has returned the watchdog of the task touches nothing any more.
QuietAfterReturn ==
  [][(pc \in Finished) => fired' = fired /\ (token = "none" => token' # "timeout")]_vars

BeforeReturn == Places \ {"settle", "validating_result", "auditing", "stopping", "joining",
                          "failing", "auditing_failure", "done", "raised", "rejected"}

\* A cancellation requested while the result was not yet back in the orchestrator is never
\* overtaken by it: the task cannot succeed any more.
CancellationSticks ==
  [](token # "none" /\ pc \in BeforeReturn => [](state # "SUCCEEDED"))

=============================================================================
