------------------------ MODULE TaskOrchestratorProofs ------------------------
(***************************************************************************)
(* Proofs about TaskOrchestrator, for every set of permission requests,     *)
(* every rule list and any number of failing audit appends.                 *)
(***************************************************************************)
EXTENDS TaskOrchestrator, SequenceTheorems, WellFoundedInduction, TLAPS

Gate == {"validating", "preflight", "authorizing"}

Waiting == {"polling", "remaining", "waiting"}

Executing ==
  {"execute", "evaluating", "attempt", "launch", "collected"} \cup Waiting

Before == {"submitted", "rejected"} \cup Gate

\* The life cycle state that belongs to each place of the thread.
StateOfPlace ==
  /\ pc \in {"submitted", "rejected"} => state = "QUEUED"
  /\ pc \in Gate => state = "PLANNING"
  /\ pc \in Executing \cup {"returned", "cancelled", "settle"} => state = "RUNNING"
  /\ pc = "validating_result" => state = "VALIDATING"
  /\ pc \in {"auditing", "auditing_failure", "done", "raised"} => state \in Terminal
  /\ pc \in {"stopping", "joining"} =>
       state \in Terminal \/ (exc = "error" /\ state \in {"RUNNING", "VALIDATING"})
  /\ pc = "failing" => state \in Terminal \cup {"PLANNING", "RUNNING", "VALIDATING"}

\* Which of the threads can have requested the cancellation.
TokenOfThreads ==
  /\ pc \in Before => watchdog = "off"
  /\ watchdog = "off" => ~fired
  /\ fired => watchdog \in {"marked", "over"}
  /\ watchdog = "marked" => fired
  /\ token = "timeout" => fired
  /\ pc = "cancelled" => token # "none"
  /\ pc \in {"failing", "auditing_failure", "done", "raised"} => watchdog \in {"off", "over"}

\* Where a result or a refusal can be on its way.
ResultOfPlace ==
  /\ pc \in Before \cup Executing => result = "none"
  /\ result = "TIMED_OUT" => due
  /\ state = "VALIDATING" => pc \in {"validating_result", "stopping", "joining", "failing"}
  /\ refused =>
       /\ pc \in {"authorizing", "auditing", "failing", "auditing_failure", "done", "raised"}
       /\ watchdog = "off"

\* What the handlers can be doing at each place.
HandlerOfPlace ==
  /\ pc \in Before \cup {"execute", "evaluating"} \/ refused \/ result = "DENIED" =>
       /\ \A a \in Attempts : handler[a] = "idle"
       /\ attempt = 1
  /\ attempt = 1 => handler[2] = "idle"
  /\ attempt = 2 =>
       handler[1] \in {"error", "unchecked"} /\ call.safe /\ call.descriptorSafe
  /\ pc = "collected" => handler[attempt] # "running"
  /\ \A a \in Attempts : handler[a] = "running" =>
       signalled[a] \/ (a = attempt /\ pc \in Waiting)

\* What the executor has logged at each place.
LogOfPlace ==
  /\ pc \in Before \cup {"execute", "evaluating"} => toolLog = <<>>
  /\ pc = "attempt" => toolLog = <<>> \/ handler[1] # "idle"
  /\ pc = "launch" \/ handler[1] # "idle" => toolLog # <<>> /\ toolLog[1] = "AUTHORIZED_EXECUTION"

IInv ==
  /\ TypeOK /\ StateOfPlace /\ TokenOfThreads /\ ResultOfPlace /\ HandlerOfPlace /\ LogOfPlace
  /\ CauseAgrees

\* What a further entry does to the executor's log.
LEMMA RecordType ==
  ASSUME NEW e \in Events, toolLog \in Seq(Events), Record(e) PROVE toolLog' \in Seq(Events)
BY AppendProperties DEF Record

\* What a further record does to the audit log.
LEMMA AuditType ==
  ASSUME NEW s \in TaskStates, audit \in Seq(TaskStates) PROVE Append(audit, s) \in Seq(TaskStates)
BY AppendProperties

\* A submitted task has variables of their types.
LEMMA TypeInit == Init => TypeOK
<1> SUFFICES ASSUME Init PROVE TypeOK
  OBVIOUS
<1>1. toolLog \in Seq(Events) /\ audit \in Seq(TaskStates)
  BY EmptySeq DEF Init
<1>2. report \in Reports
  BY DEF Init, Reports
<1>3. handler \in [Attempts -> {"idle", "running"} \cup HandlerEnds] /\ signalled \in [Attempts -> BOOLEAN]
  BY DEF Init
<1>4. faults \in 0..MaxAuditFaults /\ attempt \in Attempts
  BY AuditFaultsAssumption DEF Init, Attempts
<1>5. QED
  BY <1>1, <1>2, <1>3, <1>4, AuditFaultsAssumption DEF Init, TypeOK, TaskStates, Places

\* Every step of the threads keeps the types.
LEMMA TypeStep == ASSUME TypeOK, [Next]_vars PROVE TypeOK'
<1> USE AuditFaultsAssumption DEF TypeOK, TaskStates, Terminal, Places, Reports, Attempts,
      HandlerEnds, ExecutorStatuses, world, permissionVars, work, orchestratorVars, cancelVars,
      handlerVars, logVars, allButPc, Goto
<1>1. CASE Reject
  BY <1>1 DEF Reject
<1>2. CASE Plan
  BY <1>2 DEF Plan
<1>3. CASE ValidateCall
  BY <1>3 DEF ValidateCall
<1>4. CASE PreflightCancelled
  BY <1>4 DEF PreflightCancelled, Report
<1>5. CASE Preflight
  BY <1>5 DEF Preflight
<1>6. CASE Deny
  BY <1>6 DEF Deny, Report
<1>7. CASE StartRunning
  BY <1>7 DEF StartRunning
<1>8. CASE ExecuteCancelled
  BY <1>8 DEF ExecuteCancelled, RaiseCancelled
<1>9. CASE RejectInvocation
  BY <1>9, RecordType DEF RejectInvocation, ReturnResult, Events
<1>10. CASE EnterExecutor
  BY <1>10 DEF EnterExecutor
<1>11. CASE AttemptCancelled
  BY <1>11 DEF AttemptCancelled, RaiseCancelled
<1>12. CASE BeginAttempt
  <2>1. toolLog' \in Seq(Events)
    BY <1>12, RecordType DEF BeginAttempt, Events
  <2>2. /\ pc' = "launch" /\ due' \in BOOLEAN
        /\ UNCHANGED <<state, world, permissionVars, work, handler, signalled, audit, faults>>
    BY <1>12 DEF BeginAttempt
  <2>3. QED
    BY <2>1, <2>2
<1>13. CASE LaunchCancelled
  BY <1>13, RecordType DEF LaunchCancelled, RaiseCancelled, RecordCancellation, Events
<1>14. CASE Launch
  BY <1>14 DEF Launch
<1>15. CASE PollCancelled
  BY <1>15, RecordType DEF PollCancelled, RaiseCancelled, RecordCancellation, Signal, Events
<1>16. CASE Poll
  BY <1>16 DEF Poll
<1>17. CASE DeadlineExceeded
  BY <1>17, RecordType DEF DeadlineExceeded, ReturnResult, Signal, Events
<1>18. CASE WithinDeadline
  BY <1>18 DEF WithinDeadline
<1>19. CASE KeepWaiting
  BY <1>19 DEF KeepWaiting
<1>20. CASE GotResult
  BY <1>20 DEF GotResult
<1>21. CASE HandlerRaised
  BY <1>21, RecordType DEF HandlerRaised, RetryOrFail, RetryAllowed, ReturnResult, Signal, Events
<1>22. CASE CollectCancelled
  BY <1>22, RecordType DEF CollectCancelled, RaiseCancelled, RecordCancellation, Events
<1>23. CASE ValidatorRaised
  BY <1>23, RecordType DEF ValidatorRaised, RetryOrFail, RetryAllowed, ReturnResult, Events
<1>24. CASE ResultInvalid
  BY <1>24, RecordType DEF ResultInvalid, ReturnResult, Events
<1>25. CASE ResultAccepted
  BY <1>25, RecordType DEF ResultAccepted, ReturnResult, Events
<1>26. CASE ReturnCancelled
  BY <1>26 DEF ReturnCancelled, RaiseCancelled
<1>27. CASE Return
  BY <1>27 DEF Return
<1>28. CASE SettleCancelled
  BY <1>28 DEF SettleCancelled, Report
<1>29. CASE SettleResult
  BY <1>29 DEF SettleResult
<1>30. CASE FinishValidation
  BY <1>30 DEF FinishValidation, Report, ResultSettles, ResultWellFormed, CanTransition, ExecutorStatuses, Allowed
<1>31. CASE ValidationRaises
  BY <1>31 DEF ValidationRaises
<1>32. CASE Audit
  BY <1>32, AuditType DEF Audit, AfterAudit
<1>33. CASE AuditFails
  BY <1>33 DEF AuditFails, AfterAudit
<1>34. CASE StopWatchdog
  BY <1>34 DEF StopWatchdog
<1>35. CASE JoinWatchdog
  BY <1>35 DEF JoinWatchdog
<1>36. CASE Fail
  BY <1>36 DEF Fail, Report
<1>37. CASE AuditFailure
  BY <1>37, AuditType DEF AuditFailure
<1>38. CASE AuditFailureFails
  BY <1>38 DEF AuditFailureFails
<1>39. CASE WatchdogElapses
  BY <1>39 DEF WatchdogElapses, WatchdogMoves
<1>40. CASE WatchdogStopped
  BY <1>40 DEF WatchdogStopped, WatchdogMoves
<1>41. CASE WatchdogChecks
  BY <1>41 DEF WatchdogChecks, WatchdogMoves
<1>42. CASE WatchdogMarks
  BY <1>42 DEF WatchdogMarks, WatchdogMoves
<1>43. CASE WatchdogRequests
  BY <1>43 DEF WatchdogRequests, WatchdogMoves
<1>44. CASE UserCancels
  BY <1>44 DEF UserCancels
<1>45. CASE DeadlinePasses
  BY <1>45 DEF DeadlinePasses
<1>46. ASSUME NEW r \in Requests, Authorize(r) PROVE TypeOK'
  BY <1>46 DEF Authorize
<1>47. ASSUME NEW r \in Requests, Confirm(r) PROVE TypeOK'
  BY <1>47 DEF Confirm
<1>48. ASSUME NEW r \in Requests, ExecutorDenies(r) PROVE TypeOK'
  BY <1>48, RecordType DEF ExecutorDenies, ReturnResult, Events
<1>49. ASSUME NEW r \in Requests, ApprovalRequired(r) PROVE TypeOK'
  BY <1>49, RecordType DEF ApprovalRequired, Events
<1>50. ASSUME NEW a \in Attempts, NEW end \in HandlerEnds, HandlerEndsWith(a, end) PROVE TypeOK'
  BY <1>50 DEF HandlerEndsWith
<1>51. ASSUME NEW i \in Expiring, RuleExpires(i) PROVE TypeOK'
  BY <1>51 DEF RuleExpires
<1>52. CASE UNCHANGED vars
  BY <1>52 DEF vars, allButPc
<1>53. QED
  BY <1>1, <1>2, <1>3, <1>4, <1>5, <1>6, <1>7, <1>8, <1>9, <1>10, <1>11, <1>12, <1>13,
     <1>14, <1>15, <1>16, <1>17, <1>18, <1>19, <1>20, <1>21, <1>22, <1>23, <1>24, <1>25,
     <1>26, <1>27, <1>28, <1>29, <1>30, <1>31, <1>32, <1>33, <1>34, <1>35, <1>36, <1>37,
     <1>38, <1>39, <1>40, <1>41, <1>42, <1>43, <1>44, <1>45, <1>46, <1>47, <1>48, <1>49,
     <1>50, <1>51, <1>52
  DEF Next, Run, Execute, Watchdog, Environment

\* Every variable keeps its type.
THEOREM TypeCorrect == Spec => []TypeOK
BY TypeInit, TypeStep, PTL DEF Spec

\* The state changes with the place of the thread, and nobody else changes it.
LEMMA StateOfPlaceStep == ASSUME IInv, [Next]_vars PROVE StateOfPlace'
<1> USE DEF IInv, TypeOK, StateOfPlace, Terminal, ExecutorStatuses, Gate, Waiting, Executing, Before, world, permissionVars, work, orchestratorVars, cancelVars,
      handlerVars, logVars, allButPc, Goto
<1>1. CASE Reject
  BY <1>1 DEF Reject
<1>2. CASE Plan
  BY <1>2 DEF Plan
<1>3. CASE ValidateCall
  BY <1>3 DEF ValidateCall
<1>4. CASE PreflightCancelled
  BY <1>4 DEF PreflightCancelled, Report
<1>5. CASE Preflight
  BY <1>5 DEF Preflight
<1>6. CASE Deny
  BY <1>6 DEF Deny, Report
<1>7. CASE StartRunning
  BY <1>7 DEF StartRunning
<1>8. CASE ExecuteCancelled
  BY <1>8 DEF ExecuteCancelled, RaiseCancelled
<1>9. CASE RejectInvocation
  BY <1>9 DEF RejectInvocation, ReturnResult
<1>10. CASE EnterExecutor
  BY <1>10 DEF EnterExecutor
<1>11. CASE AttemptCancelled
  BY <1>11 DEF AttemptCancelled, RaiseCancelled
<1>12. CASE BeginAttempt
  BY <1>12 DEF BeginAttempt
<1>13. CASE LaunchCancelled
  BY <1>13 DEF LaunchCancelled, RaiseCancelled, RecordCancellation
<1>14. CASE Launch
  BY <1>14 DEF Launch
<1>15. CASE PollCancelled
  BY <1>15 DEF PollCancelled, RaiseCancelled, RecordCancellation, Signal
<1>16. CASE Poll
  BY <1>16 DEF Poll
<1>17. CASE DeadlineExceeded
  BY <1>17 DEF DeadlineExceeded, ReturnResult, Signal
<1>18. CASE WithinDeadline
  BY <1>18 DEF WithinDeadline
<1>19. CASE KeepWaiting
  BY <1>19 DEF KeepWaiting
<1>20. CASE GotResult
  BY <1>20 DEF GotResult
<1>21. CASE HandlerRaised
  BY <1>21 DEF HandlerRaised, RetryOrFail, RetryAllowed, ReturnResult, Signal
<1>22. CASE CollectCancelled
  BY <1>22 DEF CollectCancelled, RaiseCancelled, RecordCancellation
<1>23. CASE ValidatorRaised
  BY <1>23 DEF ValidatorRaised, RetryOrFail, RetryAllowed, ReturnResult
<1>24. CASE ResultInvalid
  BY <1>24 DEF ResultInvalid, ReturnResult
<1>25. CASE ResultAccepted
  BY <1>25 DEF ResultAccepted, ReturnResult
<1>26. CASE ReturnCancelled
  BY <1>26 DEF ReturnCancelled, RaiseCancelled
<1>27. CASE Return
  BY <1>27 DEF Return
<1>28. CASE SettleCancelled
  BY <1>28 DEF SettleCancelled, Report
<1>29. CASE SettleResult
  BY <1>29 DEF SettleResult
<1>30. CASE FinishValidation
  BY <1>30 DEF FinishValidation, Report, ResultSettles, ResultWellFormed, CanTransition, ExecutorStatuses, Allowed
<1>31. CASE ValidationRaises
  BY <1>31 DEF ValidationRaises
<1>32. CASE Audit
  BY <1>32 DEF Audit, AfterAudit
<1>33. CASE AuditFails
  BY <1>33 DEF AuditFails, AfterAudit
<1>34. CASE StopWatchdog
  BY <1>34 DEF StopWatchdog
<1>35. CASE JoinWatchdog
  BY <1>35 DEF JoinWatchdog
<1>36. CASE Fail
  BY <1>36 DEF Fail, Report
<1>37. CASE AuditFailure
  BY <1>37 DEF AuditFailure
<1>38. CASE AuditFailureFails
  BY <1>38 DEF AuditFailureFails
<1>39. CASE WatchdogElapses
  BY <1>39 DEF WatchdogElapses, WatchdogMoves
<1>40. CASE WatchdogStopped
  BY <1>40 DEF WatchdogStopped, WatchdogMoves
<1>41. CASE WatchdogChecks
  BY <1>41 DEF WatchdogChecks, WatchdogMoves
<1>42. CASE WatchdogMarks
  BY <1>42 DEF WatchdogMarks, WatchdogMoves
<1>43. CASE WatchdogRequests
  BY <1>43 DEF WatchdogRequests, WatchdogMoves
<1>44. CASE UserCancels
  BY <1>44 DEF UserCancels
<1>45. CASE DeadlinePasses
  BY <1>45 DEF DeadlinePasses
<1>46. ASSUME NEW r \in Requests, Authorize(r) PROVE StateOfPlace'
  BY <1>46 DEF Authorize
<1>47. ASSUME NEW r \in Requests, Confirm(r) PROVE StateOfPlace'
  BY <1>47 DEF Confirm
<1>48. ASSUME NEW r \in Requests, ExecutorDenies(r) PROVE StateOfPlace'
  BY <1>48 DEF ExecutorDenies, ReturnResult
<1>49. ASSUME NEW r \in Requests, ApprovalRequired(r) PROVE StateOfPlace'
  BY <1>49 DEF ApprovalRequired
<1>50. ASSUME NEW a \in Attempts, NEW end \in HandlerEnds, HandlerEndsWith(a, end) PROVE StateOfPlace'
  BY <1>50 DEF HandlerEndsWith
<1>51. ASSUME NEW i \in Expiring, RuleExpires(i) PROVE StateOfPlace'
  BY <1>51 DEF RuleExpires
<1>52. CASE UNCHANGED vars
  BY <1>52 DEF vars, allButPc
<1>53. QED
  BY <1>1, <1>2, <1>3, <1>4, <1>5, <1>6, <1>7, <1>8, <1>9, <1>10, <1>11, <1>12, <1>13,
     <1>14, <1>15, <1>16, <1>17, <1>18, <1>19, <1>20, <1>21, <1>22, <1>23, <1>24, <1>25,
     <1>26, <1>27, <1>28, <1>29, <1>30, <1>31, <1>32, <1>33, <1>34, <1>35, <1>36, <1>37,
     <1>38, <1>39, <1>40, <1>41, <1>42, <1>43, <1>44, <1>45, <1>46, <1>47, <1>48, <1>49,
     <1>50, <1>51, <1>52
  DEF Next, Run, Execute, Watchdog, Environment

\* The token is requested by the user, or by the watchdog after it has left its mark.
LEMMA TokenOfThreadsStep == ASSUME IInv, [Next]_vars PROVE TokenOfThreads'
<1> USE DEF IInv, TypeOK, StateOfPlace, TokenOfThreads, Gate, Waiting, Executing, Before, world, permissionVars, work, orchestratorVars, cancelVars,
      handlerVars, logVars, allButPc, Goto
<1>1. CASE Reject
  BY <1>1 DEF Reject
<1>2. CASE Plan
  BY <1>2 DEF Plan
<1>3. CASE ValidateCall
  BY <1>3 DEF ValidateCall
<1>4. CASE PreflightCancelled
  BY <1>4 DEF PreflightCancelled, Report
<1>5. CASE Preflight
  BY <1>5 DEF Preflight
<1>6. CASE Deny
  BY <1>6 DEF Deny, Report
<1>7. CASE StartRunning
  BY <1>7 DEF StartRunning
<1>8. CASE ExecuteCancelled
  BY <1>8 DEF ExecuteCancelled, RaiseCancelled
<1>9. CASE RejectInvocation
  BY <1>9 DEF RejectInvocation, ReturnResult
<1>10. CASE EnterExecutor
  BY <1>10 DEF EnterExecutor
<1>11. CASE AttemptCancelled
  BY <1>11 DEF AttemptCancelled, RaiseCancelled
<1>12. CASE BeginAttempt
  BY <1>12 DEF BeginAttempt
<1>13. CASE LaunchCancelled
  BY <1>13 DEF LaunchCancelled, RaiseCancelled, RecordCancellation
<1>14. CASE Launch
  BY <1>14 DEF Launch
<1>15. CASE PollCancelled
  BY <1>15 DEF PollCancelled, RaiseCancelled, RecordCancellation, Signal
<1>16. CASE Poll
  BY <1>16 DEF Poll
<1>17. CASE DeadlineExceeded
  BY <1>17 DEF DeadlineExceeded, ReturnResult, Signal
<1>18. CASE WithinDeadline
  BY <1>18 DEF WithinDeadline
<1>19. CASE KeepWaiting
  BY <1>19 DEF KeepWaiting
<1>20. CASE GotResult
  BY <1>20 DEF GotResult
<1>21. CASE HandlerRaised
  BY <1>21 DEF HandlerRaised, RetryOrFail, RetryAllowed, ReturnResult, Signal
<1>22. CASE CollectCancelled
  BY <1>22 DEF CollectCancelled, RaiseCancelled, RecordCancellation
<1>23. CASE ValidatorRaised
  BY <1>23 DEF ValidatorRaised, RetryOrFail, RetryAllowed, ReturnResult
<1>24. CASE ResultInvalid
  BY <1>24 DEF ResultInvalid, ReturnResult
<1>25. CASE ResultAccepted
  BY <1>25 DEF ResultAccepted, ReturnResult
<1>26. CASE ReturnCancelled
  BY <1>26 DEF ReturnCancelled, RaiseCancelled
<1>27. CASE Return
  BY <1>27 DEF Return
<1>28. CASE SettleCancelled
  BY <1>28 DEF SettleCancelled, Report
<1>29. CASE SettleResult
  BY <1>29 DEF SettleResult
<1>30. CASE FinishValidation
  BY <1>30 DEF FinishValidation, Report, ResultSettles, ResultWellFormed, CanTransition, ExecutorStatuses, Allowed
<1>31. CASE ValidationRaises
  BY <1>31 DEF ValidationRaises
<1>32. CASE Audit
  BY <1>32 DEF Audit, AfterAudit
<1>33. CASE AuditFails
  BY <1>33 DEF AuditFails, AfterAudit
<1>34. CASE StopWatchdog
  BY <1>34 DEF StopWatchdog
<1>35. CASE JoinWatchdog
  BY <1>35 DEF JoinWatchdog
<1>36. CASE Fail
  BY <1>36 DEF Fail, Report
<1>37. CASE AuditFailure
  BY <1>37 DEF AuditFailure
<1>38. CASE AuditFailureFails
  BY <1>38 DEF AuditFailureFails
<1>39. CASE WatchdogElapses
  BY <1>39 DEF WatchdogElapses, WatchdogMoves
<1>40. CASE WatchdogStopped
  BY <1>40 DEF WatchdogStopped, WatchdogMoves
<1>41. CASE WatchdogChecks
  BY <1>41 DEF WatchdogChecks, WatchdogMoves
<1>42. CASE WatchdogMarks
  BY <1>42 DEF WatchdogMarks, WatchdogMoves
<1>43. CASE WatchdogRequests
  BY <1>43 DEF WatchdogRequests, WatchdogMoves
<1>44. CASE UserCancels
  BY <1>44 DEF UserCancels
<1>45. CASE DeadlinePasses
  BY <1>45 DEF DeadlinePasses
<1>46. ASSUME NEW r \in Requests, Authorize(r) PROVE TokenOfThreads'
  BY <1>46 DEF Authorize
<1>47. ASSUME NEW r \in Requests, Confirm(r) PROVE TokenOfThreads'
  BY <1>47 DEF Confirm
<1>48. ASSUME NEW r \in Requests, ExecutorDenies(r) PROVE TokenOfThreads'
  BY <1>48 DEF ExecutorDenies, ReturnResult
<1>49. ASSUME NEW r \in Requests, ApprovalRequired(r) PROVE TokenOfThreads'
  BY <1>49 DEF ApprovalRequired
<1>50. ASSUME NEW a \in Attempts, NEW end \in HandlerEnds, HandlerEndsWith(a, end) PROVE TokenOfThreads'
  BY <1>50 DEF HandlerEndsWith
<1>51. ASSUME NEW i \in Expiring, RuleExpires(i) PROVE TokenOfThreads'
  BY <1>51 DEF RuleExpires
<1>52. CASE UNCHANGED vars
  BY <1>52 DEF vars, allButPc
<1>53. QED
  BY <1>1, <1>2, <1>3, <1>4, <1>5, <1>6, <1>7, <1>8, <1>9, <1>10, <1>11, <1>12, <1>13,
     <1>14, <1>15, <1>16, <1>17, <1>18, <1>19, <1>20, <1>21, <1>22, <1>23, <1>24, <1>25,
     <1>26, <1>27, <1>28, <1>29, <1>30, <1>31, <1>32, <1>33, <1>34, <1>35, <1>36, <1>37,
     <1>38, <1>39, <1>40, <1>41, <1>42, <1>43, <1>44, <1>45, <1>46, <1>47, <1>48, <1>49,
     <1>50, <1>51, <1>52
  DEF Next, Run, Execute, Watchdog, Environment

\* There is no result before the executor returns, and none of a refused task.
LEMMA ResultOfPlaceStep == ASSUME IInv, [Next]_vars PROVE ResultOfPlace'
<1> USE DEF IInv, TypeOK, StateOfPlace, TokenOfThreads, ResultOfPlace, ExecutorStatuses, Terminal, Gate, Waiting, Executing, Before, world, permissionVars, work, orchestratorVars, cancelVars,
      handlerVars, logVars, allButPc, Goto
<1>1. CASE Reject
  BY <1>1 DEF Reject
<1>2. CASE Plan
  BY <1>2 DEF Plan
<1>3. CASE ValidateCall
  BY <1>3 DEF ValidateCall
<1>4. CASE PreflightCancelled
  BY <1>4 DEF PreflightCancelled, Report
<1>5. CASE Preflight
  BY <1>5 DEF Preflight
<1>6. CASE Deny
  BY <1>6 DEF Deny, Report
<1>7. CASE StartRunning
  BY <1>7 DEF StartRunning
<1>8. CASE ExecuteCancelled
  BY <1>8 DEF ExecuteCancelled, RaiseCancelled
<1>9. CASE RejectInvocation
  BY <1>9 DEF RejectInvocation, ReturnResult
<1>10. CASE EnterExecutor
  BY <1>10 DEF EnterExecutor
<1>11. CASE AttemptCancelled
  BY <1>11 DEF AttemptCancelled, RaiseCancelled
<1>12. CASE BeginAttempt
  BY <1>12 DEF BeginAttempt
<1>13. CASE LaunchCancelled
  BY <1>13 DEF LaunchCancelled, RaiseCancelled, RecordCancellation
<1>14. CASE Launch
  BY <1>14 DEF Launch
<1>15. CASE PollCancelled
  BY <1>15 DEF PollCancelled, RaiseCancelled, RecordCancellation, Signal
<1>16. CASE Poll
  BY <1>16 DEF Poll
<1>17. CASE DeadlineExceeded
  BY <1>17 DEF DeadlineExceeded, ReturnResult, Signal
<1>18. CASE WithinDeadline
  BY <1>18 DEF WithinDeadline
<1>19. CASE KeepWaiting
  BY <1>19 DEF KeepWaiting
<1>20. CASE GotResult
  BY <1>20 DEF GotResult
<1>21. CASE HandlerRaised
  BY <1>21 DEF HandlerRaised, RetryOrFail, RetryAllowed, ReturnResult, Signal
<1>22. CASE CollectCancelled
  BY <1>22 DEF CollectCancelled, RaiseCancelled, RecordCancellation
<1>23. CASE ValidatorRaised
  BY <1>23 DEF ValidatorRaised, RetryOrFail, RetryAllowed, ReturnResult
<1>24. CASE ResultInvalid
  BY <1>24 DEF ResultInvalid, ReturnResult
<1>25. CASE ResultAccepted
  BY <1>25 DEF ResultAccepted, ReturnResult
<1>26. CASE ReturnCancelled
  BY <1>26 DEF ReturnCancelled, RaiseCancelled
<1>27. CASE Return
  BY <1>27 DEF Return
<1>28. CASE SettleCancelled
  BY <1>28 DEF SettleCancelled, Report
<1>29. CASE SettleResult
  BY <1>29 DEF SettleResult
<1>30. CASE FinishValidation
  BY <1>30 DEF FinishValidation, Report, ResultSettles, ResultWellFormed, CanTransition, ExecutorStatuses, Allowed
<1>31. CASE ValidationRaises
  BY <1>31 DEF ValidationRaises
<1>32. CASE Audit
  BY <1>32 DEF Audit, AfterAudit
<1>33. CASE AuditFails
  BY <1>33 DEF AuditFails, AfterAudit
<1>34. CASE StopWatchdog
  BY <1>34 DEF StopWatchdog
<1>35. CASE JoinWatchdog
  BY <1>35 DEF JoinWatchdog
<1>36. CASE Fail
  BY <1>36 DEF Fail, Report
<1>37. CASE AuditFailure
  BY <1>37 DEF AuditFailure
<1>38. CASE AuditFailureFails
  BY <1>38 DEF AuditFailureFails
<1>39. CASE WatchdogElapses
  BY <1>39 DEF WatchdogElapses, WatchdogMoves
<1>40. CASE WatchdogStopped
  BY <1>40 DEF WatchdogStopped, WatchdogMoves
<1>41. CASE WatchdogChecks
  BY <1>41 DEF WatchdogChecks, WatchdogMoves
<1>42. CASE WatchdogMarks
  BY <1>42 DEF WatchdogMarks, WatchdogMoves
<1>43. CASE WatchdogRequests
  BY <1>43 DEF WatchdogRequests, WatchdogMoves
<1>44. CASE UserCancels
  BY <1>44 DEF UserCancels
<1>45. CASE DeadlinePasses
  BY <1>45 DEF DeadlinePasses
<1>46. ASSUME NEW r \in Requests, Authorize(r) PROVE ResultOfPlace'
  BY <1>46 DEF Authorize
<1>47. ASSUME NEW r \in Requests, Confirm(r) PROVE ResultOfPlace'
  BY <1>47 DEF Confirm
<1>48. ASSUME NEW r \in Requests, ExecutorDenies(r) PROVE ResultOfPlace'
  BY <1>48 DEF ExecutorDenies, ReturnResult
<1>49. ASSUME NEW r \in Requests, ApprovalRequired(r) PROVE ResultOfPlace'
  BY <1>49 DEF ApprovalRequired
<1>50. ASSUME NEW a \in Attempts, NEW end \in HandlerEnds, HandlerEndsWith(a, end) PROVE ResultOfPlace'
  BY <1>50 DEF HandlerEndsWith
<1>51. ASSUME NEW i \in Expiring, RuleExpires(i) PROVE ResultOfPlace'
  BY <1>51 DEF RuleExpires
<1>52. CASE UNCHANGED vars
  BY <1>52 DEF vars, allButPc
<1>53. QED
  BY <1>1, <1>2, <1>3, <1>4, <1>5, <1>6, <1>7, <1>8, <1>9, <1>10, <1>11, <1>12, <1>13,
     <1>14, <1>15, <1>16, <1>17, <1>18, <1>19, <1>20, <1>21, <1>22, <1>23, <1>24, <1>25,
     <1>26, <1>27, <1>28, <1>29, <1>30, <1>31, <1>32, <1>33, <1>34, <1>35, <1>36, <1>37,
     <1>38, <1>39, <1>40, <1>41, <1>42, <1>43, <1>44, <1>45, <1>46, <1>47, <1>48, <1>49,
     <1>50, <1>51, <1>52
  DEF Next, Run, Execute, Watchdog, Environment

\* A handler is started by the executor only, after its own evaluation.
LEMMA HandlerOfPlaceStep == ASSUME IInv, [Next]_vars PROVE HandlerOfPlace'
<1> USE DEF IInv, TypeOK, ResultOfPlace, HandlerOfPlace, Attempts, HandlerEnds, Gate, Waiting, Executing, Before, world, permissionVars, work, orchestratorVars, cancelVars,
      handlerVars, logVars, allButPc, Goto
<1>1. CASE Reject
  BY <1>1 DEF Reject
<1>2. CASE Plan
  BY <1>2 DEF Plan
<1>3. CASE ValidateCall
  BY <1>3 DEF ValidateCall
<1>4. CASE PreflightCancelled
  BY <1>4 DEF PreflightCancelled, Report
<1>5. CASE Preflight
  BY <1>5 DEF Preflight
<1>6. CASE Deny
  BY <1>6 DEF Deny, Report
<1>7. CASE StartRunning
  BY <1>7 DEF StartRunning
<1>8. CASE ExecuteCancelled
  BY <1>8 DEF ExecuteCancelled, RaiseCancelled
<1>9. CASE RejectInvocation
  BY <1>9 DEF RejectInvocation, ReturnResult
<1>10. CASE EnterExecutor
  BY <1>10 DEF EnterExecutor
<1>11. CASE AttemptCancelled
  BY <1>11 DEF AttemptCancelled, RaiseCancelled
<1>12. CASE BeginAttempt
  BY <1>12 DEF BeginAttempt
<1>13. CASE LaunchCancelled
  BY <1>13 DEF LaunchCancelled, RaiseCancelled, RecordCancellation
<1>14. CASE Launch
  BY <1>14 DEF Launch
<1>15. CASE PollCancelled
  BY <1>15 DEF PollCancelled, RaiseCancelled, RecordCancellation, Signal
<1>16. CASE Poll
  BY <1>16 DEF Poll
<1>17. CASE DeadlineExceeded
  BY <1>17 DEF DeadlineExceeded, ReturnResult, Signal
<1>18. CASE WithinDeadline
  BY <1>18 DEF WithinDeadline
<1>19. CASE KeepWaiting
  BY <1>19 DEF KeepWaiting
<1>20. CASE GotResult
  BY <1>20 DEF GotResult
<1>21. CASE HandlerRaised
  BY <1>21 DEF HandlerRaised, RetryOrFail, RetryAllowed, ReturnResult, Signal
<1>22. CASE CollectCancelled
  BY <1>22 DEF CollectCancelled, RaiseCancelled, RecordCancellation
<1>23. CASE ValidatorRaised
  BY <1>23 DEF ValidatorRaised, RetryOrFail, RetryAllowed, ReturnResult
<1>24. CASE ResultInvalid
  BY <1>24 DEF ResultInvalid, ReturnResult
<1>25. CASE ResultAccepted
  BY <1>25 DEF ResultAccepted, ReturnResult
<1>26. CASE ReturnCancelled
  BY <1>26 DEF ReturnCancelled, RaiseCancelled
<1>27. CASE Return
  BY <1>27 DEF Return
<1>28. CASE SettleCancelled
  BY <1>28 DEF SettleCancelled, Report
<1>29. CASE SettleResult
  BY <1>29 DEF SettleResult
<1>30. CASE FinishValidation
  BY <1>30 DEF FinishValidation, Report, ResultSettles, ResultWellFormed, CanTransition, ExecutorStatuses, Allowed
<1>31. CASE ValidationRaises
  BY <1>31 DEF ValidationRaises
<1>32. CASE Audit
  BY <1>32 DEF Audit, AfterAudit
<1>33. CASE AuditFails
  BY <1>33 DEF AuditFails, AfterAudit
<1>34. CASE StopWatchdog
  BY <1>34 DEF StopWatchdog
<1>35. CASE JoinWatchdog
  BY <1>35 DEF JoinWatchdog
<1>36. CASE Fail
  BY <1>36 DEF Fail, Report
<1>37. CASE AuditFailure
  BY <1>37 DEF AuditFailure
<1>38. CASE AuditFailureFails
  BY <1>38 DEF AuditFailureFails
<1>39. CASE WatchdogElapses
  BY <1>39 DEF WatchdogElapses, WatchdogMoves
<1>40. CASE WatchdogStopped
  BY <1>40 DEF WatchdogStopped, WatchdogMoves
<1>41. CASE WatchdogChecks
  BY <1>41 DEF WatchdogChecks, WatchdogMoves
<1>42. CASE WatchdogMarks
  BY <1>42 DEF WatchdogMarks, WatchdogMoves
<1>43. CASE WatchdogRequests
  BY <1>43 DEF WatchdogRequests, WatchdogMoves
<1>44. CASE UserCancels
  BY <1>44 DEF UserCancels
<1>45. CASE DeadlinePasses
  BY <1>45 DEF DeadlinePasses
<1>46. ASSUME NEW r \in Requests, Authorize(r) PROVE HandlerOfPlace'
  BY <1>46 DEF Authorize
<1>47. ASSUME NEW r \in Requests, Confirm(r) PROVE HandlerOfPlace'
  BY <1>47 DEF Confirm
<1>48. ASSUME NEW r \in Requests, ExecutorDenies(r) PROVE HandlerOfPlace'
  BY <1>48 DEF ExecutorDenies, ReturnResult
<1>49. ASSUME NEW r \in Requests, ApprovalRequired(r) PROVE HandlerOfPlace'
  BY <1>49 DEF ApprovalRequired
<1>50. ASSUME NEW a \in Attempts, NEW end \in HandlerEnds, HandlerEndsWith(a, end) PROVE HandlerOfPlace'
  BY <1>50 DEF HandlerEndsWith
<1>51. ASSUME NEW i \in Expiring, RuleExpires(i) PROVE HandlerOfPlace'
  BY <1>51 DEF RuleExpires
<1>52. CASE UNCHANGED vars
  BY <1>52 DEF vars, allButPc
<1>53. QED
  BY <1>1, <1>2, <1>3, <1>4, <1>5, <1>6, <1>7, <1>8, <1>9, <1>10, <1>11, <1>12, <1>13,
     <1>14, <1>15, <1>16, <1>17, <1>18, <1>19, <1>20, <1>21, <1>22, <1>23, <1>24, <1>25,
     <1>26, <1>27, <1>28, <1>29, <1>30, <1>31, <1>32, <1>33, <1>34, <1>35, <1>36, <1>37,
     <1>38, <1>39, <1>40, <1>41, <1>42, <1>43, <1>44, <1>45, <1>46, <1>47, <1>48, <1>49,
     <1>50, <1>51, <1>52
  DEF Next, Run, Execute, Watchdog, Environment

\* An entry never replaces an earlier one.
LEMMA RecordKeeps ==
  ASSUME NEW e \in Events, toolLog \in Seq(Events), Record(e)
  PROVE  /\ toolLog' # <<>>
         /\ toolLog # <<>> => toolLog'[1] = toolLog[1]
         /\ toolLog = <<>> => toolLog'[1] = e
BY AppendProperties DEF Record

\* The executor's log follows its attempts.
LEMMA LogOfPlaceStep == ASSUME IInv, [Next]_vars PROVE LogOfPlace'
<1> USE DEF IInv, TypeOK, HandlerOfPlace, LogOfPlace, Attempts, HandlerEnds, Gate, Waiting, Executing, Before, world, permissionVars, work, orchestratorVars, cancelVars,
      handlerVars, logVars, allButPc, Goto
<1>1. CASE Reject
  BY <1>1 DEF Reject
<1>2. CASE Plan
  BY <1>2 DEF Plan
<1>3. CASE ValidateCall
  BY <1>3 DEF ValidateCall
<1>4. CASE PreflightCancelled
  BY <1>4 DEF PreflightCancelled, Report
<1>5. CASE Preflight
  BY <1>5 DEF Preflight
<1>6. CASE Deny
  BY <1>6 DEF Deny, Report
<1>7. CASE StartRunning
  BY <1>7 DEF StartRunning
<1>8. CASE ExecuteCancelled
  BY <1>8 DEF ExecuteCancelled, RaiseCancelled
<1>9. CASE RejectInvocation
  BY <1>9, RecordKeeps DEF RejectInvocation, ReturnResult, Events
<1>10. CASE EnterExecutor
  BY <1>10 DEF EnterExecutor
<1>11. CASE AttemptCancelled
  BY <1>11 DEF AttemptCancelled, RaiseCancelled
<1>12. CASE BeginAttempt
  <2>1. toolLog' # <<>> /\ (toolLog # <<>> => toolLog'[1] = toolLog[1])
        /\ (toolLog = <<>> => toolLog'[1] = "AUTHORIZED_EXECUTION")
    BY <1>12, RecordKeeps DEF BeginAttempt, Events
  <2>2. pc = "attempt" /\ pc' = "launch" /\ UNCHANGED handler
    BY <1>12 DEF BeginAttempt
  <2>3. QED
    BY <2>1, <2>2
<1>13. CASE LaunchCancelled
  BY <1>13, RecordKeeps DEF LaunchCancelled, RaiseCancelled, RecordCancellation, Events
<1>14. CASE Launch
  BY <1>14 DEF Launch
<1>15. CASE PollCancelled
  BY <1>15, RecordKeeps DEF PollCancelled, RaiseCancelled, RecordCancellation, Signal, Events
<1>16. CASE Poll
  BY <1>16 DEF Poll
<1>17. CASE DeadlineExceeded
  BY <1>17, RecordKeeps DEF DeadlineExceeded, ReturnResult, Signal, Events
<1>18. CASE WithinDeadline
  BY <1>18 DEF WithinDeadline
<1>19. CASE KeepWaiting
  BY <1>19 DEF KeepWaiting
<1>20. CASE GotResult
  BY <1>20 DEF GotResult
<1>21. CASE HandlerRaised
  BY <1>21, RecordKeeps DEF HandlerRaised, RetryOrFail, RetryAllowed, ReturnResult, Signal, Events
<1>22. CASE CollectCancelled
  BY <1>22, RecordKeeps DEF CollectCancelled, RaiseCancelled, RecordCancellation, Events
<1>23. CASE ValidatorRaised
  BY <1>23, RecordKeeps DEF ValidatorRaised, RetryOrFail, RetryAllowed, ReturnResult, Events
<1>24. CASE ResultInvalid
  BY <1>24, RecordKeeps DEF ResultInvalid, ReturnResult, Events
<1>25. CASE ResultAccepted
  BY <1>25, RecordKeeps DEF ResultAccepted, ReturnResult, Events
<1>26. CASE ReturnCancelled
  BY <1>26 DEF ReturnCancelled, RaiseCancelled
<1>27. CASE Return
  BY <1>27 DEF Return
<1>28. CASE SettleCancelled
  BY <1>28 DEF SettleCancelled, Report
<1>29. CASE SettleResult
  BY <1>29 DEF SettleResult
<1>30. CASE FinishValidation
  BY <1>30 DEF FinishValidation, Report, ResultSettles, ResultWellFormed, CanTransition, ExecutorStatuses, Allowed
<1>31. CASE ValidationRaises
  BY <1>31 DEF ValidationRaises
<1>32. CASE Audit
  BY <1>32 DEF Audit, AfterAudit
<1>33. CASE AuditFails
  BY <1>33 DEF AuditFails, AfterAudit
<1>34. CASE StopWatchdog
  BY <1>34 DEF StopWatchdog
<1>35. CASE JoinWatchdog
  BY <1>35 DEF JoinWatchdog
<1>36. CASE Fail
  BY <1>36 DEF Fail, Report
<1>37. CASE AuditFailure
  BY <1>37 DEF AuditFailure
<1>38. CASE AuditFailureFails
  BY <1>38 DEF AuditFailureFails
<1>39. CASE WatchdogElapses
  BY <1>39 DEF WatchdogElapses, WatchdogMoves
<1>40. CASE WatchdogStopped
  BY <1>40 DEF WatchdogStopped, WatchdogMoves
<1>41. CASE WatchdogChecks
  BY <1>41 DEF WatchdogChecks, WatchdogMoves
<1>42. CASE WatchdogMarks
  BY <1>42 DEF WatchdogMarks, WatchdogMoves
<1>43. CASE WatchdogRequests
  BY <1>43 DEF WatchdogRequests, WatchdogMoves
<1>44. CASE UserCancels
  BY <1>44 DEF UserCancels
<1>45. CASE DeadlinePasses
  BY <1>45 DEF DeadlinePasses
<1>46. ASSUME NEW r \in Requests, Authorize(r) PROVE LogOfPlace'
  BY <1>46 DEF Authorize
<1>47. ASSUME NEW r \in Requests, Confirm(r) PROVE LogOfPlace'
  BY <1>47 DEF Confirm
<1>48. ASSUME NEW r \in Requests, ExecutorDenies(r) PROVE LogOfPlace'
  BY <1>48, RecordKeeps DEF ExecutorDenies, ReturnResult, Events
<1>49. ASSUME NEW r \in Requests, ApprovalRequired(r) PROVE LogOfPlace'
  BY <1>49, RecordKeeps DEF ApprovalRequired, Events
<1>50. ASSUME NEW a \in Attempts, NEW end \in HandlerEnds, HandlerEndsWith(a, end) PROVE LogOfPlace'
  BY <1>50 DEF HandlerEndsWith
<1>51. ASSUME NEW i \in Expiring, RuleExpires(i) PROVE LogOfPlace'
  BY <1>51 DEF RuleExpires
<1>52. CASE UNCHANGED vars
  BY <1>52 DEF vars, allButPc
<1>53. QED
  BY <1>1, <1>2, <1>3, <1>4, <1>5, <1>6, <1>7, <1>8, <1>9, <1>10, <1>11, <1>12, <1>13,
     <1>14, <1>15, <1>16, <1>17, <1>18, <1>19, <1>20, <1>21, <1>22, <1>23, <1>24, <1>25,
     <1>26, <1>27, <1>28, <1>29, <1>30, <1>31, <1>32, <1>33, <1>34, <1>35, <1>36, <1>37,
     <1>38, <1>39, <1>40, <1>41, <1>42, <1>43, <1>44, <1>45, <1>46, <1>47, <1>48, <1>49,
     <1>50, <1>51, <1>52
  DEF Next, Run, Execute, Watchdog, Environment

\* The cause a task is settled with is the one its thread has seen.
LEMMA CauseAgreesStep == ASSUME IInv, [Next]_vars PROVE CauseAgrees'
<1> USE DEF IInv, TypeOK, StateOfPlace, TokenOfThreads, ResultOfPlace, CauseAgrees, ExecutorStatuses, Terminal, Gate, Waiting, Executing, Before, world, permissionVars, work, orchestratorVars, cancelVars,
      handlerVars, logVars, allButPc, Goto
<1>1. CASE Reject
  BY <1>1 DEF Reject
<1>2. CASE Plan
  BY <1>2 DEF Plan
<1>3. CASE ValidateCall
  BY <1>3 DEF ValidateCall
<1>4. CASE PreflightCancelled
  BY <1>4 DEF PreflightCancelled, Report
<1>5. CASE Preflight
  BY <1>5 DEF Preflight
<1>6. CASE Deny
  BY <1>6 DEF Deny, Report
<1>7. CASE StartRunning
  BY <1>7 DEF StartRunning
<1>8. CASE ExecuteCancelled
  BY <1>8 DEF ExecuteCancelled, RaiseCancelled
<1>9. CASE RejectInvocation
  BY <1>9 DEF RejectInvocation, ReturnResult
<1>10. CASE EnterExecutor
  BY <1>10 DEF EnterExecutor
<1>11. CASE AttemptCancelled
  BY <1>11 DEF AttemptCancelled, RaiseCancelled
<1>12. CASE BeginAttempt
  BY <1>12 DEF BeginAttempt
<1>13. CASE LaunchCancelled
  BY <1>13 DEF LaunchCancelled, RaiseCancelled, RecordCancellation
<1>14. CASE Launch
  BY <1>14 DEF Launch
<1>15. CASE PollCancelled
  BY <1>15 DEF PollCancelled, RaiseCancelled, RecordCancellation, Signal
<1>16. CASE Poll
  BY <1>16 DEF Poll
<1>17. CASE DeadlineExceeded
  BY <1>17 DEF DeadlineExceeded, ReturnResult, Signal
<1>18. CASE WithinDeadline
  BY <1>18 DEF WithinDeadline
<1>19. CASE KeepWaiting
  BY <1>19 DEF KeepWaiting
<1>20. CASE GotResult
  BY <1>20 DEF GotResult
<1>21. CASE HandlerRaised
  BY <1>21 DEF HandlerRaised, RetryOrFail, RetryAllowed, ReturnResult, Signal
<1>22. CASE CollectCancelled
  BY <1>22 DEF CollectCancelled, RaiseCancelled, RecordCancellation
<1>23. CASE ValidatorRaised
  BY <1>23 DEF ValidatorRaised, RetryOrFail, RetryAllowed, ReturnResult
<1>24. CASE ResultInvalid
  BY <1>24 DEF ResultInvalid, ReturnResult
<1>25. CASE ResultAccepted
  BY <1>25 DEF ResultAccepted, ReturnResult
<1>26. CASE ReturnCancelled
  BY <1>26 DEF ReturnCancelled, RaiseCancelled
<1>27. CASE Return
  BY <1>27 DEF Return
<1>28. CASE SettleCancelled
  BY <1>28 DEF SettleCancelled, Report
<1>29. CASE SettleResult
  BY <1>29 DEF SettleResult
<1>30. CASE FinishValidation
  BY <1>30 DEF FinishValidation, Report, ResultSettles, ResultWellFormed, CanTransition, ExecutorStatuses, Allowed
<1>31. CASE ValidationRaises
  BY <1>31 DEF ValidationRaises
<1>32. CASE Audit
  BY <1>32 DEF Audit, AfterAudit
<1>33. CASE AuditFails
  BY <1>33 DEF AuditFails, AfterAudit
<1>34. CASE StopWatchdog
  BY <1>34 DEF StopWatchdog
<1>35. CASE JoinWatchdog
  BY <1>35 DEF JoinWatchdog
<1>36. CASE Fail
  BY <1>36 DEF Fail, Report
<1>37. CASE AuditFailure
  BY <1>37 DEF AuditFailure
<1>38. CASE AuditFailureFails
  BY <1>38 DEF AuditFailureFails
<1>39. CASE WatchdogElapses
  BY <1>39 DEF WatchdogElapses, WatchdogMoves
<1>40. CASE WatchdogStopped
  BY <1>40 DEF WatchdogStopped, WatchdogMoves
<1>41. CASE WatchdogChecks
  BY <1>41 DEF WatchdogChecks, WatchdogMoves
<1>42. CASE WatchdogMarks
  BY <1>42 DEF WatchdogMarks, WatchdogMoves
<1>43. CASE WatchdogRequests
  BY <1>43 DEF WatchdogRequests, WatchdogMoves
<1>44. CASE UserCancels
  BY <1>44 DEF UserCancels
<1>45. CASE DeadlinePasses
  BY <1>45 DEF DeadlinePasses
<1>46. ASSUME NEW r \in Requests, Authorize(r) PROVE CauseAgrees'
  BY <1>46 DEF Authorize
<1>47. ASSUME NEW r \in Requests, Confirm(r) PROVE CauseAgrees'
  BY <1>47 DEF Confirm
<1>48. ASSUME NEW r \in Requests, ExecutorDenies(r) PROVE CauseAgrees'
  BY <1>48 DEF ExecutorDenies, ReturnResult
<1>49. ASSUME NEW r \in Requests, ApprovalRequired(r) PROVE CauseAgrees'
  BY <1>49 DEF ApprovalRequired
<1>50. ASSUME NEW a \in Attempts, NEW end \in HandlerEnds, HandlerEndsWith(a, end) PROVE CauseAgrees'
  BY <1>50 DEF HandlerEndsWith
<1>51. ASSUME NEW i \in Expiring, RuleExpires(i) PROVE CauseAgrees'
  BY <1>51 DEF RuleExpires
<1>52. CASE UNCHANGED vars
  BY <1>52 DEF vars, allButPc
<1>53. QED
  BY <1>1, <1>2, <1>3, <1>4, <1>5, <1>6, <1>7, <1>8, <1>9, <1>10, <1>11, <1>12, <1>13,
     <1>14, <1>15, <1>16, <1>17, <1>18, <1>19, <1>20, <1>21, <1>22, <1>23, <1>24, <1>25,
     <1>26, <1>27, <1>28, <1>29, <1>30, <1>31, <1>32, <1>33, <1>34, <1>35, <1>36, <1>37,
     <1>38, <1>39, <1>40, <1>41, <1>42, <1>43, <1>44, <1>45, <1>46, <1>47, <1>48, <1>49,
     <1>50, <1>51, <1>52
  DEF Next, Run, Execute, Watchdog, Environment

\* The conjuncts of IInv hold initially and every step keeps each of them.
LEMMA Invariance == Spec => []IInv
<1>1. Init => IInv
  <2> SUFFICES ASSUME Init PROVE IInv
    OBVIOUS
  <2>1. TypeOK
    BY TypeInit
  <2>2. StateOfPlace /\ TokenOfThreads /\ ResultOfPlace /\ CauseAgrees
    BY DEF Init, StateOfPlace, TokenOfThreads, ResultOfPlace, CauseAgrees, Gate, Waiting,
       Executing, Terminal
  <2>3. HandlerOfPlace /\ LogOfPlace
    BY DEF Init, HandlerOfPlace, LogOfPlace, Attempts, Waiting
  <2>4. QED
    BY <2>1, <2>2, <2>3 DEF IInv
<1>2. IInv /\ [Next]_vars => IInv'
  BY TypeStep, StateOfPlaceStep, TokenOfThreadsStep, ResultOfPlaceStep, HandlerOfPlaceStep,
     LogOfPlaceStep, CauseAgreesStep DEF IInv
<1>3. QED
  BY <1>1, <1>2, PTL DEF Spec

\* A task is CANCELLED, TIMED_OUT or DENIED only for a cause of that kind.
THEOREM CauseIsTrue == Spec => []CauseAgrees
<1>1. IInv => CauseAgrees
  BY DEF IInv
<1>2. QED
  BY <1>1, Invariance, PTL

\* No handler runs for a call that the policy refused, wherever it was refused.
THEOREM RefusalIsObeyed == Spec => []RefusedNeverRuns
<1>1. IInv => RefusedNeverRuns
  <2> SUFFICES ASSUME IInv,
                      refused \/ result = "DENIED"
                        \/ (toolLog # <<>> /\ toolLog[1] = "APPROVAL_REQUIRED")
               PROVE  \A a \in Attempts : handler[a] = "idle"
    BY DEF RefusedNeverRuns
  <2>1. CASE refused \/ result = "DENIED"
    BY <2>1 DEF IInv, HandlerOfPlace
  <2>2. CASE toolLog # <<>> /\ toolLog[1] = "APPROVAL_REQUIRED"
    <3>1. handler[1] = "idle"
      BY <2>2 DEF IInv, LogOfPlace
    <3>2. attempt = 1
      BY <3>1 DEF IInv, HandlerOfPlace, TypeOK, Attempts
    <3>3. QED
      BY <3>1, <3>2 DEF IInv, HandlerOfPlace, Attempts
  <2>3. QED
    BY <2>1, <2>2
<1>2. QED
  BY <1>1, Invariance, PTL

\* The handler is repeated only after a failed run, and only where both sides allowed it.
THEOREM RepetitionIsSafe == Spec => []SecondRunIsSafe
<1>1. IInv => SecondRunIsSafe
  BY DEF IInv, HandlerOfPlace, SecondRunIsSafe, TypeOK, Attempts
<1>2. QED
  BY <1>1, Invariance, PTL

\* A handler thread that is still alive when run has returned was told to stop.
THEOREM NothingAbandonedSilently == Spec => []AbandonedIsSignalled
<1>1. IInv => AbandonedIsSignalled
  BY DEF IInv, HandlerOfPlace, AbandonedIsSignalled, Finished, Waiting
<1>2. QED
  BY <1>1, Invariance, PTL

\* After run has returned the watchdog is over, or never was: it cannot set the flag or
\* request the cancellation any more.
THEOREM WatchdogIsQuiet == Spec => QuietAfterReturn
<1>1. ASSUME IInv, [Next]_vars, pc \in Finished
      PROVE  fired' = fired /\ (token = "none" => token' # "timeout")
  <2>0. watchdog \in {"off", "over"}
    BY <1>1 DEF IInv, TokenOfThreads, Finished, Before
  <2> USE <1>1, <2>0 DEF Finished, world, permissionVars, work, orchestratorVars, cancelVars, handlerVars, logVars, allButPc, Goto
  <2>1. CASE Reject
    BY <2>1 DEF Reject
  <2>2. CASE Plan
    BY <2>2 DEF Plan
  <2>3. CASE ValidateCall
    BY <2>3 DEF ValidateCall
  <2>4. CASE PreflightCancelled
    BY <2>4 DEF PreflightCancelled, Report
  <2>5. CASE Preflight
    BY <2>5 DEF Preflight
  <2>6. CASE Deny
    BY <2>6 DEF Deny, Report
  <2>7. CASE StartRunning
    BY <2>7 DEF StartRunning
  <2>8. CASE ExecuteCancelled
    BY <2>8 DEF ExecuteCancelled, RaiseCancelled
  <2>9. CASE RejectInvocation
    BY <2>9 DEF RejectInvocation, ReturnResult
  <2>10. CASE EnterExecutor
    BY <2>10 DEF EnterExecutor
  <2>11. CASE AttemptCancelled
    BY <2>11 DEF AttemptCancelled, RaiseCancelled
  <2>12. CASE BeginAttempt
    BY <2>12 DEF BeginAttempt
  <2>13. CASE LaunchCancelled
    BY <2>13 DEF LaunchCancelled, RaiseCancelled, RecordCancellation
  <2>14. CASE Launch
    BY <2>14 DEF Launch
  <2>15. CASE PollCancelled
    BY <2>15 DEF PollCancelled, RaiseCancelled, RecordCancellation, Signal
  <2>16. CASE Poll
    BY <2>16 DEF Poll
  <2>17. CASE DeadlineExceeded
    BY <2>17 DEF DeadlineExceeded, ReturnResult, Signal
  <2>18. CASE WithinDeadline
    BY <2>18 DEF WithinDeadline
  <2>19. CASE KeepWaiting
    BY <2>19 DEF KeepWaiting
  <2>20. CASE GotResult
    BY <2>20 DEF GotResult
  <2>21. CASE HandlerRaised
    BY <2>21 DEF HandlerRaised, RetryOrFail, RetryAllowed, ReturnResult, Signal
  <2>22. CASE CollectCancelled
    BY <2>22 DEF CollectCancelled, RaiseCancelled, RecordCancellation
  <2>23. CASE ValidatorRaised
    BY <2>23 DEF ValidatorRaised, RetryOrFail, RetryAllowed, ReturnResult
  <2>24. CASE ResultInvalid
    BY <2>24 DEF ResultInvalid, ReturnResult
  <2>25. CASE ResultAccepted
    BY <2>25 DEF ResultAccepted, ReturnResult
  <2>26. CASE ReturnCancelled
    BY <2>26 DEF ReturnCancelled, RaiseCancelled
  <2>27. CASE Return
    BY <2>27 DEF Return
  <2>28. CASE SettleCancelled
    BY <2>28 DEF SettleCancelled, Report
  <2>29. CASE SettleResult
    BY <2>29 DEF SettleResult
  <2>30. CASE FinishValidation
    BY <2>30 DEF FinishValidation, Report, ResultSettles, ResultWellFormed, CanTransition, ExecutorStatuses, Allowed
  <2>31. CASE ValidationRaises
    BY <2>31 DEF ValidationRaises
  <2>32. CASE Audit
    BY <2>32 DEF Audit, AfterAudit
  <2>33. CASE AuditFails
    BY <2>33 DEF AuditFails, AfterAudit
  <2>34. CASE StopWatchdog
    BY <2>34 DEF StopWatchdog
  <2>35. CASE JoinWatchdog
    BY <2>35 DEF JoinWatchdog
  <2>36. CASE Fail
    BY <2>36 DEF Fail, Report
  <2>37. CASE AuditFailure
    BY <2>37 DEF AuditFailure
  <2>38. CASE AuditFailureFails
    BY <2>38 DEF AuditFailureFails
  <2>39. CASE WatchdogElapses
    BY <2>39 DEF WatchdogElapses, WatchdogMoves
  <2>40. CASE WatchdogStopped
    BY <2>40 DEF WatchdogStopped, WatchdogMoves
  <2>41. CASE WatchdogChecks
    BY <2>41 DEF WatchdogChecks, WatchdogMoves
  <2>42. CASE WatchdogMarks
    BY <2>42 DEF WatchdogMarks, WatchdogMoves
  <2>43. CASE WatchdogRequests
    BY <2>43 DEF WatchdogRequests, WatchdogMoves
  <2>44. CASE UserCancels
    BY <2>44 DEF UserCancels
  <2>45. CASE DeadlinePasses
    BY <2>45 DEF DeadlinePasses
  <2>46. ASSUME NEW r \in Requests, Authorize(r) PROVE fired' = fired /\ (token = "none" => token' # "timeout")
    BY <2>46 DEF Authorize
  <2>47. ASSUME NEW r \in Requests, Confirm(r) PROVE fired' = fired /\ (token = "none" => token' # "timeout")
    BY <2>47 DEF Confirm
  <2>48. ASSUME NEW r \in Requests, ExecutorDenies(r) PROVE fired' = fired /\ (token = "none" => token' # "timeout")
    BY <2>48 DEF ExecutorDenies, ReturnResult
  <2>49. ASSUME NEW r \in Requests, ApprovalRequired(r) PROVE fired' = fired /\ (token = "none" => token' # "timeout")
    BY <2>49 DEF ApprovalRequired
  <2>50. ASSUME NEW a \in Attempts, NEW end \in HandlerEnds, HandlerEndsWith(a, end) PROVE fired' = fired /\ (token = "none" => token' # "timeout")
    BY <2>50 DEF HandlerEndsWith
  <2>51. ASSUME NEW i \in Expiring, RuleExpires(i) PROVE fired' = fired /\ (token = "none" => token' # "timeout")
    BY <2>51 DEF RuleExpires
  <2>52. CASE UNCHANGED vars
    BY <2>52 DEF vars, allButPc
  <2>53. QED
    BY <2>1, <2>2, <2>3, <2>4, <2>5, <2>6, <2>7, <2>8, <2>9, <2>10, <2>11, <2>12, <2>13,
       <2>14, <2>15, <2>16, <2>17, <2>18, <2>19, <2>20, <2>21, <2>22, <2>23, <2>24, <2>25,
       <2>26, <2>27, <2>28, <2>29, <2>30, <2>31, <2>32, <2>33, <2>34, <2>35, <2>36, <2>37,
       <2>38, <2>39, <2>40, <2>41, <2>42, <2>43, <2>44, <2>45, <2>46, <2>47, <2>48, <2>49,
       <2>50, <2>51, <2>52
    DEF Next, Run, Execute, Watchdog, Environment
<1>2. IInv /\ [Next]_vars =>
        [(pc \in Finished) => fired' = fired /\ (token = "none" => token' # "timeout")]_vars
  BY <1>1
<1>3. QED
  BY <1>2, Invariance, PTL DEF Spec, QuietAfterReturn

\* The safety part of the refinement: the task moves along the state machine only, a
\* terminal state is final, and run answers its caller once.
THEOREM RefinesLifecycle == Spec => Lifecycle!Init /\ [][Lifecycle!Next]_(Lifecycle!vars)
<1>1. Init => Lifecycle!Init
  BY DEF Init, Lifecycle!Init, Finished
<1>2. ASSUME IInv, [Next]_vars PROVE [Lifecycle!Next]_(Lifecycle!vars)
  <2> USE <1>2 DEF IInv, TypeOK, StateOfPlace, Lifecycle!Next, Lifecycle!Advance, Lifecycle!Release,
        Lifecycle!vars, Lifecycle!Allowed, Lifecycle!Terminal, Finished, Terminal, CanTransition, ExecutorStatuses, Gate,
        Executing, Waiting, world, permissionVars, work, orchestratorVars, cancelVars, handlerVars, logVars, allButPc, Goto
  <2>1. CASE Reject
    BY <2>1 DEF Reject
  <2>2. CASE Plan
    BY <2>2 DEF Plan
  <2>3. CASE ValidateCall
    BY <2>3 DEF ValidateCall
  <2>4. CASE PreflightCancelled
    BY <2>4 DEF PreflightCancelled, Report
  <2>5. CASE Preflight
    BY <2>5 DEF Preflight
  <2>6. CASE Deny
    BY <2>6 DEF Deny, Report
  <2>7. CASE StartRunning
    BY <2>7 DEF StartRunning
  <2>8. CASE ExecuteCancelled
    BY <2>8 DEF ExecuteCancelled, RaiseCancelled
  <2>9. CASE RejectInvocation
    BY <2>9 DEF RejectInvocation, ReturnResult
  <2>10. CASE EnterExecutor
    BY <2>10 DEF EnterExecutor
  <2>11. CASE AttemptCancelled
    BY <2>11 DEF AttemptCancelled, RaiseCancelled
  <2>12. CASE BeginAttempt
    BY <2>12 DEF BeginAttempt
  <2>13. CASE LaunchCancelled
    BY <2>13 DEF LaunchCancelled, RaiseCancelled, RecordCancellation
  <2>14. CASE Launch
    BY <2>14 DEF Launch
  <2>15. CASE PollCancelled
    BY <2>15 DEF PollCancelled, RaiseCancelled, RecordCancellation, Signal
  <2>16. CASE Poll
    BY <2>16 DEF Poll
  <2>17. CASE DeadlineExceeded
    BY <2>17 DEF DeadlineExceeded, ReturnResult, Signal
  <2>18. CASE WithinDeadline
    BY <2>18 DEF WithinDeadline
  <2>19. CASE KeepWaiting
    BY <2>19 DEF KeepWaiting
  <2>20. CASE GotResult
    BY <2>20 DEF GotResult
  <2>21. CASE HandlerRaised
    BY <2>21 DEF HandlerRaised, RetryOrFail, RetryAllowed, ReturnResult, Signal
  <2>22. CASE CollectCancelled
    BY <2>22 DEF CollectCancelled, RaiseCancelled, RecordCancellation
  <2>23. CASE ValidatorRaised
    BY <2>23 DEF ValidatorRaised, RetryOrFail, RetryAllowed, ReturnResult
  <2>24. CASE ResultInvalid
    BY <2>24 DEF ResultInvalid, ReturnResult
  <2>25. CASE ResultAccepted
    BY <2>25 DEF ResultAccepted, ReturnResult
  <2>26. CASE ReturnCancelled
    BY <2>26 DEF ReturnCancelled, RaiseCancelled
  <2>27. CASE Return
    BY <2>27 DEF Return
  <2>28. CASE SettleCancelled
    BY <2>28 DEF SettleCancelled, Report
  <2>29. CASE SettleResult
    BY <2>29 DEF SettleResult
  <2>30. CASE FinishValidation
    BY <2>30 DEF FinishValidation, Report, ResultSettles, ResultWellFormed, CanTransition, ExecutorStatuses, Allowed
  <2>31. CASE ValidationRaises
    BY <2>31 DEF ValidationRaises
  <2>32. CASE Audit
    BY <2>32 DEF Audit, AfterAudit
  <2>33. CASE AuditFails
    BY <2>33 DEF AuditFails, AfterAudit
  <2>34. CASE StopWatchdog
    BY <2>34 DEF StopWatchdog
  <2>35. CASE JoinWatchdog
    BY <2>35 DEF JoinWatchdog
  <2>36. CASE Fail
    BY <2>36 DEF Fail, Report
  <2>37. CASE AuditFailure
    BY <2>37 DEF AuditFailure
  <2>38. CASE AuditFailureFails
    BY <2>38 DEF AuditFailureFails
  <2>39. CASE WatchdogElapses
    BY <2>39 DEF WatchdogElapses, WatchdogMoves
  <2>40. CASE WatchdogStopped
    BY <2>40 DEF WatchdogStopped, WatchdogMoves
  <2>41. CASE WatchdogChecks
    BY <2>41 DEF WatchdogChecks, WatchdogMoves
  <2>42. CASE WatchdogMarks
    BY <2>42 DEF WatchdogMarks, WatchdogMoves
  <2>43. CASE WatchdogRequests
    BY <2>43 DEF WatchdogRequests, WatchdogMoves
  <2>44. CASE UserCancels
    BY <2>44 DEF UserCancels
  <2>45. CASE DeadlinePasses
    BY <2>45 DEF DeadlinePasses
  <2>46. ASSUME NEW r \in Requests, Authorize(r) PROVE [Lifecycle!Next]_(Lifecycle!vars)
    BY <2>46 DEF Authorize
  <2>47. ASSUME NEW r \in Requests, Confirm(r) PROVE [Lifecycle!Next]_(Lifecycle!vars)
    BY <2>47 DEF Confirm
  <2>48. ASSUME NEW r \in Requests, ExecutorDenies(r) PROVE [Lifecycle!Next]_(Lifecycle!vars)
    BY <2>48 DEF ExecutorDenies, ReturnResult
  <2>49. ASSUME NEW r \in Requests, ApprovalRequired(r) PROVE [Lifecycle!Next]_(Lifecycle!vars)
    BY <2>49 DEF ApprovalRequired
  <2>50. ASSUME NEW a \in Attempts, NEW end \in HandlerEnds, HandlerEndsWith(a, end) PROVE [Lifecycle!Next]_(Lifecycle!vars)
    BY <2>50 DEF HandlerEndsWith
  <2>51. ASSUME NEW i \in Expiring, RuleExpires(i) PROVE [Lifecycle!Next]_(Lifecycle!vars)
    BY <2>51 DEF RuleExpires
  <2>52. CASE UNCHANGED vars
    BY <2>52 DEF vars, allButPc
  <2>53. QED
    BY <2>1, <2>2, <2>3, <2>4, <2>5, <2>6, <2>7, <2>8, <2>9, <2>10, <2>11, <2>12, <2>13,
       <2>14, <2>15, <2>16, <2>17, <2>18, <2>19, <2>20, <2>21, <2>22, <2>23, <2>24, <2>25,
       <2>26, <2>27, <2>28, <2>29, <2>30, <2>31, <2>32, <2>33, <2>34, <2>35, <2>36, <2>37,
       <2>38, <2>39, <2>40, <2>41, <2>42, <2>43, <2>44, <2>45, <2>46, <2>47, <2>48, <2>49,
       <2>50, <2>51, <2>52
    DEF Next, Run, Execute, Watchdog, Environment
<1>3. QED
  BY <1>1, <1>2, Invariance, PTL DEF Spec
-----------------------------------------------------------------------------
(* What a task leaves behind: the outcome its caller gets, the audit log and the
   executor's own log. *)

\* Places between the AUTHORIZED_EXECUTION of an attempt and the event that closes it.
Open == {"launch", "collected"} \cup Waiting

\* Places before the task has settled.
Unsettled == Before \cup Executing \cup {"returned", "cancelled", "settle", "validating_result"}

\* The pairs of error and state an outcome that is no runtime failure may report.
Agreed ==
  {<<"none", "SUCCEEDED">>, <<"none", "FAILED">>, <<"TASK_CANCELLED", "CANCELLED">>,
   <<"PERMISSION_DENIED", "DENIED">>, <<"TASK_TIMED_OUT", "TIMED_OUT">>}

\* A terminal state meets the outer handler only after an append has failed.
FailureIsExcused == state \in Terminal => state = "FAILED" \/ faults < MaxAuditFaults

\* Outcome and audit log at each place.
OutcomeOfPlace ==
  /\ pc \in Unsettled => audit = <<>> /\ exc # "error"
  /\ pc = "auditing" => audit = <<>> /\ exc # "error" /\ <<report.error, state>> \in Agreed
  /\ pc \in {"stopping", "joining"} =>
       \/ exc = "error" /\ audit = <<>> /\ FailureIsExcused
       \/ exc # "error" /\ audit = <<state>> /\ <<report.error, state>> \in Agreed
  /\ pc = "failing" => audit = <<>> /\ FailureIsExcused
  /\ pc = "auditing_failure" =>
       audit = <<>> /\ report.error = "RUNTIME_FAILURE" /\ state \in Terminal /\ FailureIsExcused
  /\ pc = "done" => OutcomeAgrees

\* The executor's log is a list of attempts, each opened and closed, but for the last one
\* while it is under way; every handler that was started is in it.
LogIsClosed ==
  /\ \A i \in 1..Len(toolLog) : toolLog[i] = "AUTHORIZED_EXECUTION" =>
       IF i = Len(toolLog) THEN pc \in Open ELSE toolLog[i + 1] # "AUTHORIZED_EXECUTION"
  /\ pc \in Open => toolLog[Len(toolLog)] = "AUTHORIZED_EXECUTION" /\ Len(toolLog) = 2 * attempt - 1
  /\ pc = "attempt" => Len(toolLog) = 2 * (attempt - 1)
  /\ pc \in Before \cup {"execute", "evaluating"} => Len(toolLog) = 0
  /\ \A a \in Attempts : handler[a] # "idle" =>
       2 * a - 1 <= Len(toolLog) /\ toolLog[2 * a - 1] = "AUTHORIZED_EXECUTION"
  /\ result = "SUCCEEDED" => toolLog[Len(toolLog)] = "SUCCEEDED"
  /\ state = "SUCCEEDED" => result = "SUCCEEDED"

\* What the executor does to the rest of the task: its place, and an exception.
OnlyThePlace ==
  /\ UNCHANGED <<state, report, audit, faults, token>>
  /\ pc' = "settle" => token = "none"
  /\ pc \in Executing \cup {"returned"}
  /\ \/ pc' \in Executing \cup {"returned", "cancelled", "settle"} /\ exc' \in {exc, "cancel"}
     \/ pc' = "stopping" /\ exc' = "error"

\* No step of the executor does more to the rest of the task than that.
LEMMA ExecutorMoves == ASSUME Execute PROVE OnlyThePlace
<1> USE DEF OnlyThePlace, Executing, Waiting, world, permissionVars, work, orchestratorVars, cancelVars,
      handlerVars, logVars, allButPc, Goto
<1>1. CASE ExecuteCancelled
  BY <1>1 DEF ExecuteCancelled, RaiseCancelled
<1>2. CASE RejectInvocation
  BY <1>2 DEF RejectInvocation, ReturnResult
<1>3. CASE EnterExecutor
  BY <1>3 DEF EnterExecutor
<1>4. CASE AttemptCancelled
  BY <1>4 DEF AttemptCancelled, RaiseCancelled
<1>5. CASE BeginAttempt
  BY <1>5 DEF BeginAttempt
<1>6. CASE LaunchCancelled
  BY <1>6 DEF LaunchCancelled, RaiseCancelled, RecordCancellation
<1>7. CASE Launch
  BY <1>7 DEF Launch
<1>8. CASE PollCancelled
  BY <1>8 DEF PollCancelled, RaiseCancelled, RecordCancellation, Signal
<1>9. CASE Poll
  BY <1>9 DEF Poll
<1>10. CASE DeadlineExceeded
  BY <1>10 DEF DeadlineExceeded, ReturnResult, Signal
<1>11. CASE WithinDeadline
  BY <1>11 DEF WithinDeadline
<1>12. CASE KeepWaiting
  BY <1>12 DEF KeepWaiting
<1>13. CASE GotResult
  BY <1>13 DEF GotResult
<1>14. CASE HandlerRaised
  BY <1>14 DEF HandlerRaised, RetryOrFail, RetryAllowed, ReturnResult, Signal
<1>15. CASE CollectCancelled
  BY <1>15 DEF CollectCancelled, RaiseCancelled, RecordCancellation
<1>16. CASE ValidatorRaised
  BY <1>16 DEF ValidatorRaised, RetryOrFail, RetryAllowed, ReturnResult
<1>17. CASE ResultInvalid
  BY <1>17 DEF ResultInvalid, ReturnResult
<1>18. CASE ResultAccepted
  BY <1>18 DEF ResultAccepted, ReturnResult
<1>19. CASE ReturnCancelled
  BY <1>19 DEF ReturnCancelled, RaiseCancelled
<1>20. CASE Return
  BY <1>20 DEF Return
<1>21. ASSUME NEW r \in Requests, Confirm(r) PROVE OnlyThePlace
  BY <1>21 DEF Confirm
<1>22. ASSUME NEW r \in Requests, ExecutorDenies(r) PROVE OnlyThePlace
  BY <1>22 DEF ExecutorDenies, ReturnResult
<1>23. ASSUME NEW r \in Requests, ApprovalRequired(r) PROVE OnlyThePlace
  BY <1>23 DEF ApprovalRequired
<1> QED
  BY <1>1, <1>2, <1>3, <1>4, <1>5, <1>6, <1>7, <1>8, <1>9, <1>10, <1>11, <1>12, <1>13, <1>14,
     <1>15, <1>16, <1>17, <1>18, <1>19, <1>20, <1>21, <1>22, <1>23
  DEF Execute

\* The audit log of a task with one record.
LEMMA OneOutcome == ASSUME NEW s PROVE Append(<<>>, s) = <<s>> /\ <<s>> # <<>>
OBVIOUS

\* Every step keeps outcome and audit log in agreement.
LEMMA OutcomeStep == ASSUME IInv, OutcomeOfPlace, [Next]_vars PROVE OutcomeOfPlace'
<1>a. faults \in 0..MaxAuditFaults /\ MaxAuditFaults \in Nat /\ exc \in {"none", "cancel", "error"}
  BY AuditFaultsAssumption DEF IInv, TypeOK
<1>b. StateOfPlace /\ result \in {"none"} \cup ExecutorStatuses
  BY DEF IInv, TypeOK
<1> USE OneOutcome DEF OutcomeOfPlace, Unsettled, Agreed, FailureIsExcused, OutcomeAgrees, Terminal,
      Before, Gate, Executing, Waiting, Open,
      ExecutorStatuses, StateOfPlace, world, permissionVars, work, orchestratorVars, cancelVars,
      handlerVars, logVars, allButPc, Goto
<1> USE <1>a, <1>b
<1>c. CASE Execute
  BY <1>c, ExecutorMoves DEF OnlyThePlace
<1>1. CASE Reject
  BY <1>1 DEF Reject
<1>2. CASE Plan
  BY <1>2 DEF Plan
<1>3. CASE ValidateCall
  BY <1>3 DEF ValidateCall
<1>4. CASE PreflightCancelled
  BY <1>4 DEF PreflightCancelled, Report
<1>5. CASE Preflight
  BY <1>5 DEF Preflight
<1>6. CASE Deny
  BY <1>6 DEF Deny, Report
<1>7. CASE StartRunning
  BY <1>7 DEF StartRunning
<1>8. CASE SettleCancelled
  BY <1>8 DEF SettleCancelled, Report
<1>9. CASE SettleResult
  BY <1>9 DEF SettleResult
<1>10. CASE FinishValidation
  BY <1>10 DEF FinishValidation, Report, ResultSettles, ResultWellFormed, CanTransition, Allowed
<1>11. CASE ValidationRaises
  BY <1>11 DEF ValidationRaises
<1>12. CASE Audit
  BY <1>12 DEF Audit, AfterAudit
<1>13. CASE AuditFails
  BY <1>13 DEF AuditFails, AfterAudit
<1>14. CASE StopWatchdog
  BY <1>14 DEF StopWatchdog
<1>15. CASE JoinWatchdog
  BY <1>15 DEF JoinWatchdog
<1>16. CASE Fail
  BY <1>16 DEF Fail, Report
<1>17. CASE AuditFailure
  BY <1>17 DEF AuditFailure
<1>18. CASE AuditFailureFails
  BY <1>18 DEF AuditFailureFails
<1>19. CASE WatchdogElapses
  BY <1>19 DEF WatchdogElapses, WatchdogMoves
<1>20. CASE WatchdogStopped
  BY <1>20 DEF WatchdogStopped, WatchdogMoves
<1>21. CASE WatchdogChecks
  BY <1>21 DEF WatchdogChecks, WatchdogMoves
<1>22. CASE WatchdogMarks
  BY <1>22 DEF WatchdogMarks, WatchdogMoves
<1>23. CASE WatchdogRequests
  BY <1>23 DEF WatchdogRequests, WatchdogMoves
<1>24. CASE UserCancels
  BY <1>24 DEF UserCancels
<1>25. CASE DeadlinePasses
  BY <1>25 DEF DeadlinePasses
<1>26. ASSUME NEW r \in Requests, Authorize(r) PROVE OutcomeOfPlace'
  BY <1>26 DEF Authorize
<1>27. ASSUME NEW a \in Attempts, NEW end \in HandlerEnds, HandlerEndsWith(a, end) PROVE OutcomeOfPlace'
  BY <1>27 DEF HandlerEndsWith
<1>28. ASSUME NEW i \in Expiring, RuleExpires(i) PROVE OutcomeOfPlace'
  BY <1>28 DEF RuleExpires
<1>29. CASE UNCHANGED vars
  BY <1>29 DEF vars
<1> QED
  BY <1>c, <1>1, <1>2, <1>3, <1>4, <1>5, <1>6, <1>7, <1>8, <1>9, <1>10, <1>11, <1>12, <1>13,
     <1>14, <1>15, <1>16, <1>17, <1>18, <1>19, <1>20, <1>21, <1>22, <1>23, <1>24, <1>25, <1>26,
     <1>27, <1>28, <1>29
  DEF Next, Run, Watchdog, Environment

\* The other steps write nothing into the executor's log, start no handler and do not enter the
\* attempts.
Silent ==
  /\ UNCHANGED <<toolLog, attempt, result>>
  /\ \A a \in Attempts : handler'[a] # "idle" => handler[a] # "idle"
  /\ \/ pc' = pc
     \/ pc \notin Open /\ pc' \notin Open \cup {"attempt", "evaluating"}
  /\ pc' \in Before \cup {"execute"} => pc \in Before \cup {"execute"}
  /\ state' = "SUCCEEDED" =>
       state = "SUCCEEDED" \/ (pc = "validating_result" /\ result = "SUCCEEDED")
  /\ pc' \in {"settle", "validating_result"} => pc \in {"settle", "validating_result"}
  /\ token # "none" => token' # "none"

\* Every step is one of the executor, or silent.
LEMMA OthersAreSilent ==
  ASSUME IInv, [Next]_vars PROVE Execute \/ Silent
<1>a. StateOfPlace /\ handler \in [Attempts -> {"idle", "running"} \cup HandlerEnds]
  BY DEF IInv, TypeOK
<1> USE <1>a DEF Silent, Before, Gate, Executing, Waiting, Open, HandlerEnds, Terminal, StateOfPlace,
      world, permissionVars, work, orchestratorVars, cancelVars,
      handlerVars, logVars, allButPc, Goto
<1>1. CASE Reject
  BY <1>1 DEF Reject
<1>2. CASE Plan
  BY <1>2 DEF Plan
<1>3. CASE ValidateCall
  BY <1>3 DEF ValidateCall
<1>4. CASE PreflightCancelled
  BY <1>4 DEF PreflightCancelled, Report
<1>5. CASE Preflight
  BY <1>5 DEF Preflight
<1>6. CASE Deny
  BY <1>6 DEF Deny, Report
<1>7. CASE StartRunning
  BY <1>7 DEF StartRunning
<1>8. CASE SettleCancelled
  BY <1>8 DEF SettleCancelled, Report
<1>9. CASE SettleResult
  BY <1>9 DEF SettleResult
<1>10. CASE FinishValidation
  BY <1>10 DEF FinishValidation, Report, ResultSettles, ResultWellFormed, CanTransition, Allowed
<1>11. CASE ValidationRaises
  BY <1>11 DEF ValidationRaises
<1>12. CASE Audit
  BY <1>12 DEF Audit, AfterAudit
<1>13. CASE AuditFails
  BY <1>13 DEF AuditFails, AfterAudit
<1>14. CASE StopWatchdog
  BY <1>14 DEF StopWatchdog
<1>15. CASE JoinWatchdog
  BY <1>15 DEF JoinWatchdog
<1>16. CASE Fail
  BY <1>16 DEF Fail, Report
<1>17. CASE AuditFailure
  BY <1>17 DEF AuditFailure
<1>18. CASE AuditFailureFails
  BY <1>18 DEF AuditFailureFails
<1>19. CASE WatchdogElapses
  BY <1>19 DEF WatchdogElapses, WatchdogMoves
<1>20. CASE WatchdogStopped
  BY <1>20 DEF WatchdogStopped, WatchdogMoves
<1>21. CASE WatchdogChecks
  BY <1>21 DEF WatchdogChecks, WatchdogMoves
<1>22. CASE WatchdogMarks
  BY <1>22 DEF WatchdogMarks, WatchdogMoves
<1>23. CASE WatchdogRequests
  BY <1>23 DEF WatchdogRequests, WatchdogMoves
<1>24. CASE UserCancels
  BY <1>24 DEF UserCancels
<1>25. CASE DeadlinePasses
  BY <1>25 DEF DeadlinePasses
<1>26. ASSUME NEW r \in Requests, Authorize(r) PROVE Silent
  BY <1>26 DEF Authorize
<1>27. ASSUME NEW a \in Attempts, NEW end \in HandlerEnds, HandlerEndsWith(a, end) PROVE Silent
  BY <1>27 DEF HandlerEndsWith
<1>28. ASSUME NEW i \in Expiring, RuleExpires(i) PROVE Silent
  BY <1>28 DEF RuleExpires
<1>29. CASE UNCHANGED vars
  BY <1>29 DEF vars
<1> QED
  BY <1>1, <1>2, <1>3, <1>4, <1>5, <1>6, <1>7, <1>8, <1>9, <1>10, <1>11, <1>12, <1>13, <1>14,
     <1>15, <1>16, <1>17, <1>18, <1>19, <1>20, <1>21, <1>22, <1>23, <1>24, <1>25, <1>26, <1>27,
     <1>28, <1>29
  DEF Next, Run, Watchdog, Environment

\* A step that writes nothing into the log.
LEMMA Keeping ==
  ASSUME IInv, LogIsClosed, UNCHANGED <<toolLog, attempt, result>>,
         \A a \in Attempts : handler'[a] # "idle" => handler[a] # "idle" \/ (a = attempt /\ pc \in Open),
         pc \in Open <=> pc' \in Open,
         pc' = "attempt" => pc \in {"attempt", "evaluating"},
         pc' \in Before \cup {"execute", "evaluating"} => pc \in Before \cup {"execute", "evaluating"},
         state' = "SUCCEEDED" => state = "SUCCEEDED" \/ result = "SUCCEEDED"
  PROVE  LogIsClosed'
<1>1. attempt \in Attempts /\ toolLog \in Seq(Events) /\ Len(toolLog) \in Nat
  BY LenProperties DEF IInv, TypeOK
<1>2. pc = "evaluating" => attempt = 1
  BY DEF IInv, HandlerOfPlace
<1> QED
  BY <1>1, <1>2 DEF LogIsClosed, Attempts

\* An attempt begins.
LEMMA Opening ==
  ASSUME IInv, LogIsClosed, BeginAttempt PROVE LogIsClosed'
<1>1. /\ toolLog \in Seq(Events) /\ Len(toolLog) \in Nat /\ attempt \in {1, 2}
      /\ pc = "attempt" /\ pc' = "launch" /\ toolLog' = Append(toolLog, "AUTHORIZED_EXECUTION")
      /\ UNCHANGED <<attempt, handler, result, state>>
  BY LenProperties DEF IInv, TypeOK, Attempts, BeginAttempt, Goto, Record, work, world,
     permissionVars, orchestratorVars, cancelVars,
      handlerVars, logVars, allButPc
<1>2. /\ Len(toolLog') = Len(toolLog) + 1 /\ toolLog'[Len(toolLog')] = "AUTHORIZED_EXECUTION"
      /\ \A i \in 1..Len(toolLog) : toolLog'[i] = toolLog[i]
  BY <1>1, AppendProperties DEF Events
<1>3. result = "none" /\ state = "RUNNING"
  BY <1>1 DEF IInv, ResultOfPlace, StateOfPlace, Executing
<1>4. \A i \in 1..Len(toolLog') : i \in 1..Len(toolLog) \/ i = Len(toolLog')
  BY <1>1, <1>2
<1>5. \A i \in 1..Len(toolLog') : toolLog'[i] = "AUTHORIZED_EXECUTION" =>
        IF i = Len(toolLog') THEN pc' \in Open ELSE toolLog'[i + 1] # "AUTHORIZED_EXECUTION"
  <2> SUFFICES ASSUME NEW i \in 1..Len(toolLog), toolLog[i] = "AUTHORIZED_EXECUTION"
               PROVE  i # Len(toolLog) /\ toolLog'[i + 1] # "AUTHORIZED_EXECUTION"
    BY <1>1, <1>2, <1>4 DEF Open
  <2>1. i # Len(toolLog) /\ toolLog[i + 1] # "AUTHORIZED_EXECUTION"
    BY <1>1 DEF LogIsClosed, Open, Waiting
  <2>2. i + 1 \in 1..Len(toolLog)
    BY <1>1, <2>1
  <2> QED
    BY <1>2, <2>1, <2>2
<1>6. \A a \in Attempts : handler'[a] # "idle" =>
        2 * a - 1 <= Len(toolLog') /\ toolLog'[2 * a - 1] = "AUTHORIZED_EXECUTION"
  BY <1>1, <1>2 DEF LogIsClosed, Attempts
<1>7. pc' \in Open /\ pc' \notin Before \cup {"execute", "evaluating", "attempt"}
  BY <1>1 DEF Open, Before, Gate
<1>8. Len(toolLog') = 2 * attempt' - 1
  BY <1>1, <1>2 DEF LogIsClosed
<1> QED
  BY <1>1, <1>2, <1>3, <1>5, <1>6, <1>7, <1>8 DEF LogIsClosed

\* An attempt, or the whole call, is closed.
LEMMA Closing ==
  ASSUME IInv, LogIsClosed, NEW e \in Events \ {"AUTHORIZED_EXECUTION"},
         toolLog' = Append(toolLog, e), UNCHANGED <<handler, state>>,
         pc \in Open \cup {"execute", "evaluating"},
         result' = "SUCCEEDED" => e = "SUCCEEDED" \/ result' = result,
         \/ pc' \in {"returned", "cancelled", "stopping"}
         \/ pc \in Open /\ pc' = "attempt" /\ attempt = 1 /\ attempt' = 2
  PROVE  LogIsClosed'
<1>1. toolLog \in Seq(Events) /\ Len(toolLog) \in Nat /\ attempt \in {1, 2}
  BY LenProperties DEF IInv, TypeOK, Attempts
<1>2. /\ Len(toolLog') = Len(toolLog) + 1 /\ toolLog'[Len(toolLog')] = e
      /\ \A i \in 1..Len(toolLog) : toolLog'[i] = toolLog[i]
  BY <1>1, AppendProperties
<1>3. result = "none" /\ state = "RUNNING"
  BY DEF IInv, ResultOfPlace, StateOfPlace, Executing, Open
<1>4. \A i \in 1..Len(toolLog') : i \in 1..Len(toolLog) \/ i = Len(toolLog')
  BY <1>1, <1>2
<1>5. \A i \in 1..Len(toolLog') : toolLog'[i] = "AUTHORIZED_EXECUTION" =>
        IF i = Len(toolLog') THEN pc' \in Open ELSE toolLog'[i + 1] # "AUTHORIZED_EXECUTION"
  <2> SUFFICES ASSUME NEW i \in 1..Len(toolLog), toolLog[i] = "AUTHORIZED_EXECUTION"
               PROVE  toolLog'[i + 1] # "AUTHORIZED_EXECUTION"
    BY <1>1, <1>2, <1>4
  <2>1. CASE i = Len(toolLog)
    BY <1>2, <2>1
  <2>2. CASE i # Len(toolLog)
    <3>1. i + 1 \in 1..Len(toolLog) /\ toolLog[i + 1] # "AUTHORIZED_EXECUTION"
      BY <1>1, <2>2 DEF LogIsClosed
    <3> QED
      BY <1>2, <3>1
  <2> QED
    BY <2>1, <2>2
<1>6. \A a \in Attempts : handler'[a] # "idle" =>
        2 * a - 1 <= Len(toolLog') /\ toolLog'[2 * a - 1] = "AUTHORIZED_EXECUTION"
  BY <1>1, <1>2 DEF LogIsClosed, Attempts
<1>7. pc' \notin Open \cup Before \cup {"execute", "evaluating"}
  BY DEF Open, Waiting, Before, Gate
<1>8. pc' = "attempt" => Len(toolLog') = 2 * (attempt' - 1)
  BY <1>1, <1>2 DEF LogIsClosed
<1> QED
  BY <1>2, <1>3, <1>5, <1>6, <1>7, <1>8 DEF LogIsClosed

\* Every step of the executor keeps its log in order.
LEMMA ExecutorLogs == ASSUME IInv, LogIsClosed, Execute PROVE LogIsClosed'
<1>a. handler \in [Attempts -> {"idle", "running"} \cup HandlerEnds] /\ attempt \in Attempts
  BY DEF IInv, TypeOK
<1> USE <1>a DEF Before, Gate, Executing, Waiting, Open,
      world, permissionVars, work, orchestratorVars, cancelVars,
      handlerVars, logVars, allButPc, Goto
<1>1. CASE ExecuteCancelled
  BY <1>1, Keeping DEF ExecuteCancelled, RaiseCancelled
<1>2. CASE RejectInvocation
  BY <1>2, Closing DEF RejectInvocation, ReturnResult, Record, Events
<1>3. CASE EnterExecutor
  BY <1>3, Keeping DEF EnterExecutor
<1>4. CASE AttemptCancelled
  BY <1>4, Keeping DEF AttemptCancelled, RaiseCancelled
<1>5. CASE BeginAttempt
  BY <1>5, Opening DEF BeginAttempt
<1>6. CASE LaunchCancelled
  BY <1>6, Closing DEF LaunchCancelled, RaiseCancelled, RecordCancellation, Record, Events
<1>7. CASE Launch
  BY <1>7, Keeping DEF Launch
<1>8. CASE PollCancelled
  BY <1>8, Closing DEF PollCancelled, RaiseCancelled, RecordCancellation, Signal, Record, Events
<1>9. CASE Poll
  BY <1>9, Keeping DEF Poll
<1>10. CASE DeadlineExceeded
  BY <1>10, Closing DEF DeadlineExceeded, ReturnResult, Signal, Record, Events
<1>11. CASE WithinDeadline
  BY <1>11, Keeping DEF WithinDeadline
<1>12. CASE KeepWaiting
  BY <1>12, Keeping DEF KeepWaiting
<1>13. CASE GotResult
  BY <1>13, Keeping DEF GotResult
<1>14. CASE HandlerRaised
  BY <1>14, Closing DEF HandlerRaised, RetryOrFail, RetryAllowed, ReturnResult, Signal, Record, Events
<1>15. CASE CollectCancelled
  BY <1>15, Closing DEF CollectCancelled, RaiseCancelled, RecordCancellation, Record, Events
<1>16. CASE ValidatorRaised
  BY <1>16, Closing DEF ValidatorRaised, RetryOrFail, RetryAllowed, ReturnResult, Record, Events
<1>17. CASE ResultInvalid
  BY <1>17, Closing DEF ResultInvalid, ReturnResult, Record, Events
<1>18. CASE ResultAccepted
  BY <1>18, Closing DEF ResultAccepted, ReturnResult, Record, Events
<1>19. CASE ReturnCancelled
  BY <1>19, Keeping DEF ReturnCancelled, RaiseCancelled
<1>20. CASE Return
  BY <1>20, Keeping DEF Return
<1>21. ASSUME NEW r \in Requests, Confirm(r) PROVE LogIsClosed'
  BY <1>21, Keeping DEF Confirm
<1>22. ASSUME NEW r \in Requests, ExecutorDenies(r) PROVE LogIsClosed'
  BY <1>22, Closing DEF ExecutorDenies, ReturnResult, Record, Events
<1>23. ASSUME NEW r \in Requests, ApprovalRequired(r) PROVE LogIsClosed'
  BY <1>23, Closing DEF ApprovalRequired, Record, Events
<1> QED
  BY <1>1, <1>2, <1>3, <1>4, <1>5, <1>6, <1>7, <1>8, <1>9, <1>10, <1>11, <1>12, <1>13, <1>14,
     <1>15, <1>16, <1>17, <1>18, <1>19, <1>20, <1>21, <1>22, <1>23
  DEF Execute

\* Every step keeps the executor's log in order.
LEMMA LogStep == ASSUME IInv, LogIsClosed, [Next]_vars PROVE LogIsClosed'
<1>1. CASE Execute
  BY <1>1, ExecutorLogs
<1>2. CASE Silent
  BY <1>2, Keeping DEF Silent, Before, Gate, Executing, Waiting, Open
<1> QED
  BY <1>1, <1>2, OthersAreSilent

\* The initial states satisfy both invariants.
LEMMA BothInit == Init => OutcomeOfPlace /\ LogIsClosed
<1> SUFFICES ASSUME Init PROVE OutcomeOfPlace /\ LogIsClosed
  OBVIOUS
<1>1. Len(toolLog) = 0 /\ 1..0 = {}
  BY EmptySeq DEF Init
<1>2. /\ pc = "submitted" /\ audit = <<>> /\ exc = "none" /\ result = "none" /\ state = "QUEUED"
      /\ \A a \in Attempts : handler[a] = "idle"
  BY DEF Init
<1>3. OutcomeOfPlace
  BY <1>2 DEF OutcomeOfPlace
<1> QED
  BY <1>1, <1>2, <1>3 DEF LogIsClosed, Open, Waiting

\* So both hold of every state the task reaches.
THEOREM BothHold == Spec => [](OutcomeOfPlace /\ LogIsClosed)
<1>1. IInv /\ OutcomeOfPlace /\ LogIsClosed /\ [Next]_vars => (OutcomeOfPlace /\ LogIsClosed)'
  BY OutcomeStep, LogStep
<1> QED
  BY BothInit, Invariance, <1>1, PTL DEF Spec

\* The state a task ends in, the error its caller gets and the record in the audit log tell the
\* same story, for any number of audit appends that fail (orchestrator.py).
THEOREM OutcomesAgree == Spec => []OutcomeAgrees
<1>1. OutcomeOfPlace => OutcomeAgrees
  BY DEF OutcomeOfPlace, OutcomeAgrees
<1> QED
  BY BothHold, <1>1, PTL

\* When a task is over each attempt in the executor's log is closed, no handler ran that is not in
\* it, and a SUCCEEDED task has a SUCCEEDED event last (tool_executor.py).
THEOREM ToolLogsAgree == Spec => []ToolLogAgrees
<1>1. TypeOK /\ LogIsClosed => ToolLogAgrees
  <2> SUFFICES ASSUME TypeOK, LogIsClosed, pc \in Finished PROVE ToolLogAgrees
    BY DEF ToolLogAgrees
  <2>1. Len(toolLog) \in Nat /\ DOMAIN toolLog = 1..Len(toolLog)
    BY LenProperties DEF TypeOK
  <2>2. pc \notin Open
    BY DEF Finished, Open, Waiting
  <2>3. \A i \in 1..Len(toolLog) : toolLog[i] = "AUTHORIZED_EXECUTION" =>
          i # Len(toolLog) /\ toolLog[i + 1] # "AUTHORIZED_EXECUTION"
    BY <2>2 DEF LogIsClosed
  <2>4. ASSUME NEW i \in DOMAIN toolLog, toolLog[i] = "AUTHORIZED_EXECUTION"
        PROVE  i < Len(toolLog) /\ toolLog[i + 1] # "AUTHORIZED_EXECUTION"
    <3>1. i \in 1..Len(toolLog)
      BY <2>1, <2>4
    <3>2. i # Len(toolLog) /\ toolLog[i + 1] # "AUTHORIZED_EXECUTION"
      BY <2>3, <2>4, <3>1
    <3> QED
      BY <2>1, <3>1, <3>2
  <2>5. ASSUME NEW a \in Attempts, handler[a] # "idle"
        PROVE  2 * a <= Len(toolLog) /\ toolLog[2 * a - 1] = "AUTHORIZED_EXECUTION"
    <3>1. a \in {1, 2} /\ 2 * a - 1 <= Len(toolLog) /\ toolLog[2 * a - 1] = "AUTHORIZED_EXECUTION"
      BY <2>5 DEF LogIsClosed, Attempts
    <3>2. 2 * a - 1 \in 1..Len(toolLog)
      BY <2>1, <3>1
    <3>3. 2 * a - 1 # Len(toolLog)
      BY <2>3, <3>1, <3>2
    <3> QED
      BY <2>1, <3>1, <3>3
  <2> QED
    BY <2>4, <2>5 DEF ToolLogAgrees, LogIsClosed
<1> QED
  BY BothHold, TypeCorrect, <1>1, PTL

\* What remains true of a task whose token was requested before its result was back.
NoSuccess ==
  token # "none" /\ state # "SUCCEEDED" /\ pc \notin {"settle", "validating_result"}

\* The coordinator does not let a result pass a requested token, and no token is taken back.
LEMMA NoSuccessStep == ASSUME IInv, NoSuccess, [Next]_vars PROVE NoSuccess'
<1>1. CASE Execute
  BY <1>1, ExecutorMoves DEF NoSuccess, OnlyThePlace, Executing, Waiting
<1>2. CASE Silent
  BY <1>2 DEF NoSuccess, Silent
<1>. QED  BY <1>1, <1>2, OthersAreSilent

\* A cancellation requested while the result was not yet back in the orchestrator is never
\* overtaken by it: the task cannot succeed any more.
THEOREM CancellationHolds == Spec => CancellationSticks
<1>1. ASSUME IInv, token # "none", pc \in BeforeReturn PROVE NoSuccess
  BY <1>1 DEF IInv, TypeOK, StateOfPlace, NoSuccess, BeforeReturn, Places, Before, Gate, Executing,
     Waiting, Terminal
<1>2. NoSuccess => state # "SUCCEEDED"
  BY DEF NoSuccess
<1>. QED  BY <1>1, <1>2, NoSuccessStep, Invariance, PTL DEF Spec, CancellationSticks

-----------------------------------------------------------------------------
(* The policy: which rule decides *)

\* A rule before all others of any set of rules exists: by induction over how many of the list
\* are looked at.  The induction is stated of a set.
LEMMA FirstOfPrefix ==
  \A n \in 0..Len(Rules) : \A s \in SUBSET (1..n) :
    s # {} => \E i \in s : \A j \in s : Precedes(i, j)
<1> DEFINE Good(n) == \A s \in SUBSET (1..n) : s # {} => \E i \in s : \A j \in s : Precedes(i, j)
           Bad == {n \in 0..Len(Rules) : ~Good(n)}
           R == OpToRel(<, Nat)
<1>0. Len(Rules) \in Nat /\ \A i \in 1..Len(Rules) : Rules[i].length \in Nat
  <2>1. Rules \in Seq(Rule)
    BY RulesAssumption
  <2>2. Len(Rules) \in Nat /\ \A i \in 1..Len(Rules) : Rules[i] \in Rule
    BY <2>1
  <2>. QED  BY <2>2 DEF Rule
<1>1. SUFFICES ASSUME Bad # {} PROVE FALSE
  OBVIOUS
<1>2. PICK n \in Bad : \A m \in Bad : <<m, n>> \notin R
  <2>1. IsWellFoundedOn(R, Nat)
    BY NatLessThanWellFounded
  <2>2. Bad \subseteq Nat
    BY <1>0
  <2> HIDE DEF R, Bad
  <2>. QED  BY <1>1, <2>1, <2>2, WFMin
<1>3. n \in 0..Len(Rules) /\ ~Good(n)
  OBVIOUS
<1>4. n # 0
  <2>1. SUBSET (1..0) = {{}}
    OBVIOUS
  <2>. QED  BY <1>3, <2>1
<1>5. Good(n - 1)
  <2>1. n - 1 \in 0..Len(Rules) /\ n - 1 < n /\ n \in Nat /\ n - 1 \in Nat
    BY <1>0, <1>3, <1>4
  <2>2. <<n - 1, n>> \in R
    BY <2>1 DEF OpToRel
  <2> HIDE DEF R, Good
  <2>. QED  BY <1>2, <2>1, <2>2
<1> HIDE DEF Bad, R
<1>6. ASSUME NEW s \in SUBSET (1..n), s # {} PROVE \E i \in s : \A j \in s : Precedes(i, j)
  <2> DEFINE older == s \ {n}
  <2>1. n \in 1..Len(Rules) /\ n - 1 \in Nat /\ older \in SUBSET (1..n - 1)
    BY <1>0, <1>3, <1>4
  <2>2. Precedes(n, n)
    BY <1>0, <2>1 DEF Precedes
  <2>3. CASE n \notin s
    BY <1>5, <1>6, <2>1, <2>3
  <2>4. CASE n \in s /\ older = {}
    BY <2>2, <2>4
  <2>5. CASE n \in s /\ older # {}
    <3>1. PICK i \in older : \A j \in older : Precedes(i, j)
      BY <1>5, <2>1, <2>5
    <3>2. i \in 1..Len(Rules) /\ i <= n /\ \A j \in older : j \in 1..Len(Rules)
      BY <1>0, <2>1
    <3>3. CASE Precedes(i, n)
      BY <2>5, <3>1, <3>3
    <3>4. CASE ~Precedes(i, n)
      <4>1. Rules[n].length > Rules[i].length
        BY <1>0, <2>1, <3>2, <3>4 DEF Precedes
      <4>2. ASSUME NEW j \in older PROVE Precedes(n, j)
        <5>1. Rules[i].length >= Rules[j].length
          BY <1>0, <3>1, <3>2 DEF Precedes
        <5>2. /\ Rules[n].length \in Nat /\ Rules[i].length \in Nat
              /\ Rules[j].length \in Nat
          BY <1>0, <2>1, <3>2
        <5>3. Rules[n].length > Rules[j].length
          BY <4>1, <5>1, <5>2
        <5>. QED  BY <5>3 DEF Precedes
      <4>. QED  BY <2>2, <2>5, <4>2
    <3>. QED  BY <3>3, <3>4
  <2>. QED  BY <2>3, <2>4, <2>5
<1>. QED  BY <1>3, <1>6

\* The rule that is applied: one of those that match, before all others, and the only such.
LEMMA MostSpecificIsFirst ==
  ASSUME NEW matching \in SUBSET DOMAIN Rules, matching # {}
  PROVE  /\ MostSpecific(matching) \in matching
         /\ \A j \in matching : Precedes(MostSpecific(matching), j)
         /\ \A i \in matching : (\A j \in matching : Precedes(i, j)) => i = MostSpecific(matching)
<1>1. Len(Rules) \in Nat /\ DOMAIN Rules = 1..Len(Rules)
  BY RulesAssumption
<1>2. \A i \in DOMAIN Rules : i \in Nat /\ Rules[i].length \in Nat
  <2>1. \A i \in DOMAIN Rules : Rules[i] \in Rule
    BY RulesAssumption
  <2>. QED  BY <1>1, <2>1 DEF Rule
<1>3. \E i \in matching : \A j \in matching : Precedes(i, j)
  <2>1. Len(Rules) \in 0..Len(Rules) /\ matching \in SUBSET (1..Len(Rules))
    BY <1>1
  <2>. QED  BY <2>1, FirstOfPrefix
<1>4. /\ MostSpecific(matching) \in matching
      /\ \A j \in matching : Precedes(MostSpecific(matching), j)
  <2> DEFINE First(i) == \A j \in matching : Precedes(i, j)
  <2>1. MostSpecific(matching) = CHOOSE i \in matching : First(i)
    BY DEF MostSpecific
  <2>2. \E i \in matching : First(i)
    BY <1>3
  <2> HIDE DEF First
  <2>3. LET i == CHOOSE i \in matching : First(i) IN i \in matching /\ First(i)
    BY <2>2
  <2>. QED  BY <2>1, <2>3 DEF First
<1>5. ASSUME NEW i \in matching, \A j \in matching : Precedes(i, j)
      PROVE  i = MostSpecific(matching)
  BY <1>2, <1>4, <1>5 DEF Precedes
<1>. QED  BY <1>4, <1>5

\* A rule that has not expired, matches, and stands before every other rule of the kind.
Decides(i, request, gone) ==
  /\ i \in Matching(request, gone)
  /\ \A j \in Matching(request, gone) : Precedes(i, j)

\* Every request is decided by the longest live pattern that matches it, the earliest of equals,
\* and denied if there is none: nothing but an ALLOW rule that asks for no approval allows, and
\* no other rule of the list, whatever it says, can overrule it (policy.py).
THEOREM PolicyIsFailClosed ==
  \A request \in Requests, gone \in SUBSET Expiring :
    /\ \A i \in DOMAIN Rules : Decides(i, request, gone) =>
         /\ Evaluate(request, gone) = "ALLOW" <=>
              Rules[i].decision = "ALLOW" /\ ~Rules[i].requireApproval
         /\ Evaluate(request, gone) = "DENY" <=> Rules[i].decision = "DENY"
    /\ Evaluate(request, gone) # "DENY" => \E i \in DOMAIN Rules : Decides(i, request, gone)
    /\ Evaluate(request, gone) \in Decisions
<1> TAKE request \in Requests, gone \in SUBSET Expiring
<1> DEFINE matching == Matching(request, gone)
           best == MostSpecific(matching)
<1>1. matching \in SUBSET DOMAIN Rules
  BY DEF Matching
<1>2. \A i \in DOMAIN Rules :
        Rules[i].decision \in Decisions /\ Rules[i].requireApproval \in BOOLEAN
  <2>1. \A i \in DOMAIN Rules : Rules[i] \in Rule
    BY RulesAssumption
  <2>. QED  BY <2>1 DEF Rule
<1>3. CASE matching = {}
  BY <1>3 DEF Decides, Evaluate, Decisions
<1>4. CASE matching # {}
  <2>1. best \in DOMAIN Rules /\ Decides(best, request, gone)
    BY <1>1, <1>4, MostSpecificIsFirst DEF Decides
  <2>2. \A i \in DOMAIN Rules : Decides(i, request, gone) => i = best
    BY <1>1, <1>4, MostSpecificIsFirst DEF Decides
  <2>3. Evaluate(request, gone) =
          IF Rules[best].decision = "DENY" THEN "DENY"
          ELSE IF Rules[best].requireApproval \/ Rules[best].decision = "REQUIRE_APPROVAL"
               THEN "REQUIRE_APPROVAL" ELSE "ALLOW"
    BY <1>4 DEF Evaluate
  <2> HIDE DEF best, matching
  <2>. QED  BY <1>2, <2>1, <2>2, <2>3 DEF Decisions
<1>. QED  BY <1>3, <1>4

=============================================================================
