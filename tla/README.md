# Verification of the Ann-E runtime

TLA+ models, TLC runs and TLAPS proofs for Ann-E, a desktop assistant whose language model
may propose tool calls that a policy-guarded runtime executes. The paths below are relative
to the root of the repository; `AR/` stands for `services/runtime/src/anne_runtime/`, and
`src/` in `PROJECT.json` is the root itself. `PROJECT.json` maps every definition that
models code to the lines it models.

## The system

A window (React, `apps/desktop/src/App.tsx`) calls Tauri commands
(`apps/desktop/src-tauri/src/commands.rs`). They start a Python process on demand and talk to
it in lines of JSON through the `RuntimeManager` (`runtime/manager.rs`). The process
(`AR/runtime_host.py`) handles up to eight requests at a time on a thread pool, over one
`RuntimeApplication`. A message of the user goes

    runtime_message -> send_request ~~> host -> handle_message
       -> session append, read -> planning loop -> model -> decision
          -> bridge, tool authority -> TaskOrchestrator.run
             -> policy gate -> watchdog + coordinator -> runner -> ToolExecutor -> handler
             -> audit log
       -> session append -> response ~~> reader thread -> waiting command

| Component | State it keeps | Operations | Talks to |
|---|---|---|---|
| Runtime manager (Rust) | process slot, pending table, reader thread of each host | start, send_request, stop, drop | host over pipes; commands on any number of threads |
| Runtime host, protocol | thread pool, stdout lock, shutdown flag | read a line, dispatch, respond, shut down | manager, application |
| Runtime application | the objects below, tool registry | handle_message, create/clear/delete session, health | everything below |
| Conversation sessions | sessions in memory under an RLock, SQLite rows | create, append, get, clear, delete, hydrate | handle_message on several threads |
| Planning loop, context window | conversation of this message, last outcome | run | model, orchestrator |
| Intelligence orchestrator, bridge, authority | none | process, execute_proposal, resolve | model service, orchestrator |
| Model routing, Gemini and deterministic providers | registry | resolve, generate | HTTP |
| Task orchestrator, life cycle | TaskState, history | run, cancel | gate, executor, watchdog thread, audit |
| Policy broker | rules | evaluate | orchestrator and executor (twice per call) |
| Tool executor | audit events of tools | execute | handler threads |
| Cancellation token | event and reason under a lock | request, throw_if_requested | user, watchdog, executor, loop |
| Audit log | a hash-chained file | append, verify_chain | every finishing task |
| Supervised execution, worker process | supervisor entry, worker handle, pipe, child process | execute, cancel | its child over one pipe |
| Execution supervisor, enforcement | entry, prepared handle, workers | authorize, prepare, start, execute, transition, cleanup | Windows job objects |
| Adapter execution boundary | registry of adapters | execute | supervisor |
| Tools, their registry and catalogue | descriptors, filled once | validate a call, compute | tool authority, executor |
| Desktop window | session id, messages, isSending | initialize, submit, clear, new session | commands |

What is hard in it, and so what the properties are about:

* **Threads that meet without a lock**: the watchdog and the task; `execute()` and `cancel()`
  of one supervised execution on one pipe; two appends to one audit file; two messages of one
  session; the reader of a dead host and commands that already use its successor.
* **Answers and deadlines that race**: the handler's deadline, the watchdog, the user's
  cancellation and the result; a response that arrives as its request times out.
* **Steps that fail half way**: an audit append after the task was settled, a store
  transaction after the append in memory, a release after a failed start, a torn line.
* **Decisions that age**: policy rules that expire between the two evaluations.
* **Limits**: retries, iterations, context budgets, session limits.
* **One output, many writers**: eight workers of the host answer on one stdout, in any order.
* **Numbers**: formulas, eliminations, sweeps and searches whose unit tests compute with the
  same formula; brackets that may lose their root; loops that may not converge, or whose step
  is lost in rounding.
* **Three descriptions of one tool**: what its descriptor offers to the model, what its schema
  admits, what its handler accepts.

Each hazard is listed at its line under "hazards" in `PROJECT.json`, with the
properties that would catch it, or the reason why none does; the list keeps the forty that
matter most.

## Modules

| Module | Models | How state and actions correspond to the code |
|---|---|---|
| `TaskStateMachine` | `AR/state_machine.py`, `TaskState` | the transition table as the function `Allowed` |
| `TaskLifecycle` | the promise of `TaskOrchestrator.run` | abstract specification: a task moves along the table, its caller is released once |
| `PolicyBroker` | `AR/policy.py` | `Evaluate`: matching rules that have not expired, longest pattern first, first rule of several; pattern matching is a set per rule |
| `TaskOrchestrator` | `AR/orchestrator.py`, `lifecycle.py`, `execution.py`, `tooling.py`, `tool_executor.py`, `cancellation.py` | `pc` is the line the thread of `run` has reached; one action per stretch of code that no other thread can observe half done; the watchdog thread, the handler thread of each attempt, the user, the clock and the rules' expiry are actions of their own |
| `TaskOrchestratorProofs` | | theorems about `TaskOrchestrator` and the rules of `PolicyBroker` |
| `ContextWindow` | `AR/context_manager.py` | `BuildContext`: the loop over the messages, newest first, as a recursive function |
| `PlanningLoop` | `AR/intelligence_planning_loop.py`, `intelligence_contracts.py`, and, as the steps that may raise, `intelligence_orchestrator.py`, `intelligence_runtime_bridge.py`, `intelligence_tool_authority.py` | EXTENDS `ContextWindow`; one action per early return, per decision and per outcome of a task |
| `RuntimeManager` | `manager.rs`, `commands.rs` | a critical section under a Mutex is one action; process slot, pending table, channels, a reader per host, hosts that crash or print what they like |
| `ConversationSessions` | `AR/conversation_session_manager.py`, `sqlite_conversation_session_persistence.py`, the session part of `runtime_application.py` | a method under the RLock is one action, `handle_message` is four |
| `AuditLog` | `AR/audit.py` | append is two actions, read and write; a write may be torn anywhere, also just before its newline, so that the next record joins a whole one; restarts |
| `SupervisorStateMachine` | `SupervisorState` and its table in `AR/execution_supervisor.py` | the function `Allowed` |
| `SupervisedExecution` | `AR/supervised_execution.py`, `worker_process.py`, `worker_protocol.py` | two threads, the child and the two directions of the pipe; one action per read and one per store of what the threads share: a transition reads the entry, computes and stores without a lock, and so does the numbering of messages |
| `RuntimeHostContract` | what the host promises | abstract specification: what was read is answered at most once (answers are counted, so a second one is a step, and not one the contract has), nothing else is, and nothing after the end |
| `RuntimeProtocol` | `AR/runtime_protocol.py`, the pure part of `runtime_host.py` | a line is a record of what decoding and dispatch tell apart: its form, its keys, each identifier, the operation; `HandleLine` gives the responses it may get |
| `RuntimeHost` | `AR/runtime_host.py` | the main thread, the workers and a client; a worker takes a line, handles it, writes and flushes under the lock, each an action |
| `Rationals` | Python's floats | exact fractions, with `Undefined` for what raises and `Inexact` for what is no fraction; underflow, overflow and the spacing of large numbers with small constants in place of those of a float (`FloatMin`, `FloatMax`, `Coarse`, `Spacing`), applied where a tool raises or loops because of them |
| `ToolCalculations` | what the tools share | validation of arguments, `Value`, `Refused`, `Crash` |
| `MechanicsTools`, `FluidAndHeatTools` | kinematics, dynamics, statics, strength of materials; fluids, thermodynamics, circuits | a table of what each operation needs, and its formula |
| `AlgebraTools`, `DataTools`, `ArithmeticTools` | vectors, matrices, complex numbers, probability; interpolation, regression, statistics, signals and spectra; calculator and unit conversion | one operator per algorithm of the code, with its order of elimination, sweeps and rounds |
| `NumericalTools` | root finding, quadrature, differences, differential equations | what a call begins with, and one operator per pass of a loop; an expression may have a place below which its evaluation raises or gives a complex number |
| `ToolCatalogue` | `runtime_application.py` (registration, policy), `tool_contracts.py` | the descriptor of every tool; `Validates` |
| `EngineeringTools` | `AR/intelligence_tool_authority.py` and the handlers | one call after another: proposed, resolved or rejected, authorized, handled, an iteration at a time |
| `ToolLaws` | | the properties that tie the operations of the tools together |
| `RuntimeHostProofs` | | theorems about `RuntimeHost`, that it implements `RuntimeHostContract` among them |
| `WindowsEnforcement` | the pure part of `AR/windows_enforcement.py`, `EnforcementPlan` | which limits a policy becomes, and what the plan says of them; `Truthful` is the contract of `platform_enforcement.py` |
| `EnforcedExecution` | the rest of `AR/execution_supervisor.py`, `platform_enforcement.py`, the adapter of `windows_enforcement.py` | the calls of a client in any order; the adapter's jobs, created, in its table, closed, or leaked when `CloseHandle` fails; the worker and the processes it has started; the start in its steps: the process is created, assigned to its job, told to start, heard from; every Win32 call may fail |
| `EnforcementAndAuditProofs` | | theorems about `EnforcedExecution` and, the names of which begin with `Log` where both have one, about `AuditLog` |
| `RuntimeManagerProofs`, `PlanningLoopProofs`, `ConversationSessionsProofs`, `SupervisedExecutionProofs`, `EngineeringToolsProofs` | | theorems about the modules they are named for |

`TaskOrchestrator` EXTENDS `PolicyBroker` and `TaskStateMachine`; `PlanningLoop` uses the
result of `TaskOrchestrator` as its environment: `Possible` allows a task only the ends that
`TaskOrchestrator` shows (`CauseIsTrue`: CANCELLED only with a token requested by the user;
`CancellationSticks`: no success once the token was requested before the run).
`ConversationSessions` in turn sees the planning loop as `Plan` or `PlanFails`.
`RuntimeHost` implements `RuntimeHostContract`, which is all that `RuntimeManager` takes for
granted of a host that does not crash or print noise: its `Respond` answers a request it holds,
once, in any order. `EngineeringTools` EXTENDS the modules of the tools and is what
`TaskOrchestrator` calls a handler: it returns a value or raises.

The `...` variants that stand before a definition (`RetryOrFailUnbounded`, `DeleteFromMemory`,
`BisectWrongHalf` ...) are plausible mistakes in the code it models. They are not part of any
next-state relation; put in the place of the definition each must break the property that
`PROJECT.json` names.

## Runs

| Run | Question |
|---|---|
| `task_orchestrator` | Does what a task returns, audits, logs and signals agree with what happened to it, and does it implement `TaskLifecycle`? |
| `planning` | What does the model see, in which order, and why does the loop stop? |
| `runtime_manager` | Do pending table, process slot and waiters stay consistent through crashes, noise, timeouts and stops, and does every call return? |
| `sessions` | Are memory and store equal, limits kept, deleted sessions gone and answers stored with messages in flight? |
| `audit_log` | Is what was appended kept, and do appends that take turns make a chain, through torn writes (lost newlines among them) and a restart? |
| `supervised` | Do `execute()` and `cancel()` on two threads both end, with a clean answer and the worker gone, although they overwrite each other's transitions? |
| `enforced` | Is there ever a live worker that was told to start, or a process it has started, outside a boundary that is what its plan says, whatever a client calls and whatever fails? (Between `process.start()`, `AR/worker_process.py:279`, and the assignment to the job, `:282`, the process runs outside; it only boots there, and no way out of the failed start may leave it alive.) |
| `runtime_host` | Can the desktop read what eight workers write, does every line settle, and is the exit code true? Does the host keep its contract? |
| `tools` | Do the tools agree with each other and with the definitions of what they compute, do their loops end, and do they fail with their own errors, except where `OnlyOwnErrors` and `Spinning` say that they do not? |
| `session_intent`, `tools_catalogue`, `tools_spline` | one disagreement each between the code and its own text; see below |

Properties, and the code behaviour each is about, are commented where they are defined. Every
module of a component has its type invariant, `TypeOK`. That of the task is part of its run; all
of them but that of the tools are proved, and no run needs to ask for them again.

**The tools against the code.** A law that relates two operators of a model says little if both
are wrong about the code. So every call of the `tools` instance was also put to the Python
handlers themselves, from the states TLC dumped: all outcomes (value, the tool's own error,
another exception) and all values agree, the latter up to rounding. Not among them are the calls
that the model's small floats or a faulty expression decide, of which each kind was tried with numbers
and expressions that do the same to a real float. What the laws then say,
they say of the code. They do not say something of every operation: a formula that no other operation
of its tool undoes or contains (`reynolds_number`, `latent_heat`, `weight` ...) has no law.

**Bounds.** Every bound is a constant whose comment starts with "bound", or a comment of the
configuration's module.

* `task_orchestrator`: two permission requests and three rules, of which two expire at any
  moment before or during the task: r1 goes from DENY to ALLOW to no rule, r2 from ALLOW to an
  approval requirement, so the two evaluations can differ in every direction. Two
  failing audit appends are as many as one `run` makes. The attempts (2) are the code's.
* `planning`: budgets of 3 messages and 4 characters, histories of up to two messages that
  fill or exceed them, three iterations, outcomes shorter than, equal to and longer than the
  budget. The loop's behaviour in an iteration depends on the earlier ones only through the
  conversation, which overflows the budget in the second.
* `runtime_manager`: two commands at a time on two threads, two hosts, one disturbance (a
  stop, a line of noise, an invalid response); crashes are not bounded. A third host would
  repeat what the second one meets. A stop together with noise is left out by this bound.
* `sessions`: two session ids with room for one active session, so that the limit bites; three
  messages whose answers fit, are blank or are too long; one failing transaction and one
  restart. `IntentIsSeparate` needs two messages of one session only.
* `audit_log`: three threads, six appends, two torn writes, one restart.
* `supervised`: no bound but the protocol's own: one execution, one call of each method. At
  most three numbered messages are sent.
* `runtime_host`: two workers stand for eight; a third would be a second "other worker". Six
  kinds of line, each once, of which the client writes at most three: a message, a line that is
  rejected, one whose identifiers are odd, a blank one, one nested too deep for the decoder,
  and one that stdin cannot decode. Three lines are one more than the workers, so that one waits in
  the queue.
* `tools`: for each tool a set of proposals, some ten thousand in all: for each operation all
  combinations of a few numbers (negative, zero, fractions, both sides of each check), missing,
  superfluous and mistyped arguments; vectors and matrices up to 3 by 3, among them the singular
  ones and the ones that need a change of rows; signals up to length five; polynomials up to degree
  three with their roots inside, outside and at the ends of the bracket, some of which cannot be
  evaluated below a place; tolerances and limits that some methods meet in time and some do not. The
  floats are small, so that few digits reach their limits: the least is 1/3, the largest 24, from 8
  on only even numbers are left, 1/8 stands for the least slope and 1/64 for the 1e-14 at which a
  solver has arrived. With them a step is lost, a solver takes another number of steps than it has
  estimated, a step count overflows and a product underflows, as they do with the real ones. The
  bound of `MAX_STEPS` is 20 instead of 100000. A tool keeps nothing from one call to the next, so
  calls need not be combined.
* `enforced`: three job handles: a client that prepares twice, once in vain, uses all of them;
  every policy, that is, every subset of the three limits it may ask for.

TLC does not check for deadlock where the system really comes to rest: tasks return, commands
are used up, executions and hosts end. The run `tools` checks it.

**Fairness.** Threads that can go on do go on (the thread of `run`, the watchdog, callers and
readers of the manager, the two threads of a supervised execution, the loop of the worker, the main
thread and the workers of the host, the thread of a tool call), because the operating system
schedules them, and deadlines that were set pass. Nothing else is fair: no handler owes a result, no
host an answer, nobody has to cancel, crash or stop. `EveryCallReturns` and `EveryCallEnds`
therefore rest on the timeouts in the code alone. `EveryLineSettles` takes from the other modules
that the application answers each line it is given, with a result or an exception; a line that is
written to a client that reads no longer is settled too. `EveryCallSettles` of the tools rests on
the iteration limits of the methods that look for a root. The loops of `_solve_euler` and
`_solve_rk4` have none: they end because `t` moves on, and when the step is smaller than half the
spacing of the floats at `t` it does not. The property says that this (`Spinning`) is the one way
not to settle. Its fairness is `WF_vars(Progress)` with `ENABLED` written out, which is much cheaper
to check. `ImplementsLifecycle` includes that the caller is released, which rests on the deadline
loop of the executor; a `run` waits for its handler's slice, never for the handler.

## What is proved

`TaskOrchestratorProofs` proves, for every set of requests, every list of rules and every
number of failing audit appends:

| Theorem | Statement |
|---|---|
| `TypeCorrect` | `Spec => []TypeOK` |
| `CauseIsTrue` | CANCELLED only by the user, TIMED_OUT only by a timer of the task, DENIED only by the policy |
| `RefusalIsObeyed` | a refused call never reaches a handler |
| `RepetitionIsSafe` | a second run of a handler only after the first one ended, and only if call and descriptor are safe to repeat |
| `NothingAbandonedSilently` | a handler that outlives its task was told to stop |
| `WatchdogIsQuiet` | after `run` has returned the watchdog changes nothing |
| `RefinesLifecycle` | initial states map to initial states, every step is a step of `TaskLifecycle` or a stutter |

The argument is one inductive invariant, `IInv`: the type invariant and, for each group of
variables, what it must be at each place of the thread. None of the theorems is inductive
alone. That a cancelled task was cancelled by its user needs that the watchdog sets
`timeout_fired` *before* it requests the token (`TokenOfThreads`), so that a token requested
by the timer is always seen with the mark. That a refused call never runs needs that handlers
are idle until the executor's own evaluation has been passed (`HandlerOfPlace`). That the life
cycle follows the table needs the state at every place (`StateOfPlace`): the outer handler may
move a task to FAILED only because a task that is not terminal there is PLANNING, RUNNING or
VALIDATING. That the watchdog is quiet needs that `run` joins it on every path. `IInv` was
checked by TLC on the instance above before it was proved.

The same module proves what a task leaves behind:

| Theorem | Statement |
|---|---|
| `CancellationHolds` | `CancellationSticks`: a task whose token was requested before its result was back never succeeds |
| `OutcomesAgree` | `OutcomeAgrees`: state, error and audit record tell the same story |
| `ToolLogsAgree` | `ToolLogAgrees`: every attempt in the executor's log is closed, and no handler ran that is not in it |

Two invariants on top of `IInv`. `OutcomeOfPlace` says at each place whether the state is already
in the audit log; it needs that the outer handler meets a terminal state only after an append
has failed (`FailureIsExcused`). `LogIsClosed` says that the log has two events for each attempt that
is over and one for the one under way; that the executor can close an attempt once only comes from
`Open`, the places between the two events. `NoSuccess` is what stays true once the token was
requested in time: the token stays requested, and no place from which a success is settled is
reached.

And what the policy decides, for every list of rules and whatever has expired:

| Theorem | Statement |
|---|---|
| `PolicyIsFailClosed` | the live rule with the longest pattern that matches decides, the first of equals; nothing else allows or denies, and without such a rule the answer is DENY |

That there is one such rule and only one (`MostSpecificIsFirst`) is shown by induction over the
list, so `MostSpecific` means what the stable sort of the code does.

The assumptions are those of the modules: there is at least one request (`RequestsAssumption`;
the contract demands one), the rules are a sequence of rules (`RulesAssumption`), the bound on
faults is a natural number. TLC evaluates them in every run.

`EnforcementAndAuditProofs` proves, for every set of jobs, policies included:

| Theorem | Statement |
|---|---|
| `Confinement` | `NoUnconfinedWork`: a worker that was told to start is in an open job the adapter knows, with the limits its plan claims, and its descendants are in that job too; outside one there is only a process that boots, between its creation and its assignment |
| `CleanEnds` | `EndsHoldNothing`: a complete execution holds nothing and has no live worker, and only a job that could not be closed still has processes in it |

Neither is inductive. The invariant adds what every way out of an execution relies on: a live
worker is registered, and its job is the one in `prepared_enforcement` (`WorkerIsKnown`); that
job is in the adapter's table (`BoundaryIsKnown`); before the start there is no worker, so that
a second `prepare_enforcement()` takes no boundary away from anybody (`NotYetStarted`); and each step
of the start knows what the one before has done (`StartIsKnown`): a process that has only been created
has started nothing, and START is sent to one that is in its job.
`PlansAreTruthful` shows for every policy that what is set on a job is what the plan says.

`RuntimeHostProofs` proves, for every set of lines whatever is on them, any number of workers
and any bound on what the client writes:

| Theorem | Statement |
|---|---|
| `Understanding` | `ReaderUnderstands`: lines on stdout are whole and carry their own identifiers |
| `Truthfulness` | `ExitIsTruthful`: code 0 only if every line read was settled and none raised |
| `Refinement` | `Spec => KeepsContract`: the host implements `RuntimeHostContract`, which counts the answers to each line and is a safety specification, so this is the whole of it |

The invariant follows one line on its way: what is on stdin is new (`StdinIsFresh`); a line that
was read is at one place at most, in the queue, at one worker, or answered (`LinesAreApart`),
and at one place at least unless its worker raised (`LinesAreSomewhere`); whoever has begun a
line on stdout holds the lock, and the last piece is his (`WriterHoldsLock`); a response on its
way is one `HandleLine` gives for that line (`ResponsesAreHandled`). That a line is answered
once needs all of the first two; that lines are whole, the fourth. The assumptions are
`LinesAssumption` and `WorkersAssumption`. Both invariants were checked by TLC before.

`RuntimeManagerProofs` proves, for any number of callers, requests, hosts and disturbances:

| Theorem | Statement |
|---|---|
| `NothingLeaks` | `NoPendingLeak`: no entry of the pending table outlives its command |
| `NoOrphans` | `NoOrphanHost`: a live host is the manager's or about to be killed |
| `NobodyIsForgotten` | `WaitersAreReachable`: whoever waits on an empty channel is in the table, and its host is not past its drain |
| `ResponsesFindTheirRequests` | `AnsweredByItsHost`: a waiter is given a response only by the host its request was written to, and no second one is on its way anywhere |

The invariant has a part for each request: it belongs to one command (`RequestsAreApart`), is not in
the table before it is registered, and afterwards is there exactly until something is sent into
its channel (`PendingIsOpen`, `RegisteredIsAnswerable`). A part for each host: hosts are numbered as
they are launched, and whoever stops one has taken it from the manager for good
(`StoppedIsTaken`). The two meet in `KilledIsForgotten`: once the table was drained for a host
nothing that was written to it comes back, because a request is written only to the host that the
manager holds. Requests and hosts are bounded by constants of any value.

`AnsweredByItsHost` rests on a second invariant, `Correlated`, about what is in the pipes: it is of
their own host, no two responses of a pipe are for one request, and what is answered was written.
Its source is that a request is written once (`NotYetWritten`): a command that finds the next host
never sends the old request again. No run asks for it; TLC checked it on the
instance of `runtime_manager` before it was proved.

`PlanningLoopProofs` proves, for any number of iterations, any conversation, both budgets and any
length of an outcome:

| Theorem | Statement |
|---|---|
| `Failures` | `FailureEnds`: after an outcome other than SUCCEEDED nothing is run or asked again |
| `TruthfulStops` | `StopAgrees`: the reason a message ends with is what happened |
| `TheViewIsFull` | `NothingMoreFits`: the model sees the newest messages that fit, in order, and a message is missing only if those kept after it left no room |
| `PromptsAreOrdered` | `PromptIsInOrder`: the intent is in the prompt once and after no outcome, and outcomes follow their proposals |
| `NothingExceedsBudgets` | what is seen of the conversation keeps both budgets |
| `BoundedOnce` | in its first question the model sees the conversation exactly as `handle_message` has bounded it |

The first two need that an iteration executes one task (`OneTaskEach`) and that all tasks of a loop
that is under way succeeded (`OnlySuccesses`).

The others are about what `BuildContext` computes. Its loop is a recursive function over the
messages; `SelectionIsBuilt` shows that the function exists and is what the loop has selected after
each message, and `ContextIsView`, by induction over the messages, that the result is a view: a
place in the conversation for each message seen, and for each message of the conversation whether it
was kept. The library's induction theorem takes an operator that the provers cannot instantiate, so
induction is stated of a set (`SetInduction`): a number outside it would have a least one, by
well-foundedness, and that one a predecessor inside. `InBudgetIsWhole` says that a view is not cut
again.

On the way through the loop a second invariant, `TextInv`, keeps what makes a prompt readable however
it is cut: the loop adds proposals and outcomes only, each dated with its turn (`Dated`); an outcome
ends its turn (`OutcomesAreLast`); the prompt is made of the conversation as it is
(`AskedWithView`). The assumptions are `BudgetAssumption` and `LoopAssumption`.

`ConversationSessionsProofs` proves, for all sessions, messages, lengths and limits:

| Theorem | Statement |
|---|---|
| `Durability` | `MemoryIsDurable`: memory is what the store holds |
| `Deletion` | `DeletedStaysDeleted`: no message on its way brings a deleted session back |
| `Answers` | `AnswersAreStored`: question before answer, each once, unless the session was wiped |
| `Limits` | `LimitsHold`: no session exceeds a limit of the manager, and none is stored that could not be hydrated again |

The key is that memory, store and the deleted sessions are all among the sessions that were created,
memory within the store and the store apart from the deleted (`StoreIsKept`): an id is never given
out twice, and hydration takes only what the store has. `StoredOfPlace` follows a message:
nothing of it is stored before it begins, its question once until it is answered, and then both.
`LimitsHold` is about sums of lengths: `TotalOfAppended`, by the same induction, says what an entry
adds to the total of a conversation, and `Limited` bounds the total and every entry of all that is
stored, and the number of active sessions; a session takes a place only if there is one
(`RoomForOne`). `LengthAssumption` says that entries have lengths, `LimitAssumption` that the limits
are positive numbers.

The second part of `EnforcementAndAuditProofs` proves, for any threads and any number of appends,
torn writes and restarts:

| Theorem | Statement |
|---|---|
| `NothingIsLost` | `ReturnedIsKept`: a record whose append returned stays, once, unless a torn line has swallowed it |
| `TurnsChain` | `TurnsMakeAChain`: appends that take turns make a chain that `verify_chain` accepts |

`HashesAreNew` keeps the records in the file and those about to be written apart; as long as no
append has overlapped another, one thread at most is about to write, and what it read is still the
last line (`WriterIsAlone`).

`SupervisedExecutionProofs` proves, through every interleaving of `execute()`, `cancel()` and the
worker:

| Theorem | Statement |
|---|---|
| `ReturnIsClean` | `ReturnedIsClean`: whoever gets an answer, the worker is forgotten by then, its pipe closed and its handler not running, whatever the other thread has stored over the entry |
| `CancellationHolds` | `CancellationSticks`: once `cancel()` has stored CANCELLING while the request is out, `execute()` reports no result |

This component has no parameters, so TLC covers it completely; the proof says why it holds. A
transition takes two steps here: the entry is read and the new state computed, then stored, and the
other thread may store in between. So the entry says little of where a thread is, and the invariant
does not rest on it: `At` is the place a thread is at once the store it is about to make is done,
and `PlaceAgrees` says of each such place what the thread has registered, connected and been told.
`RequestIsOnce` follows the request: not sent, in the pipe, with the handler, answered, or lost with
the worker, in terms of who is sending (`Sending`), who waits (`Waiting`) and whether the worker has
been asked (`Asked`); `AsksAgrees` and `StartIsAlone` keep the message that starts the worker apart
from it. Together with `CloseIsLast` they say that at the end of a call no handler runs, because the
request was answered or the worker is gone. `NoResult` is what stays true once CANCELLING is stored:
every store under way is of a state from which no success is reached. A mark that is stored after
`execute()` has computed COMPLETED and before it stores it is overwritten, and both calls may then
report a result; the property does not claim otherwise.

`EngineeringToolsProofs` proves, for every set of proposals and every limit on the steps:

| Theorem | Statement |
|---|---|
| `WorkStaysSound` | `WorkIsSound`: between two iterations a bracketing method has a bracket in which the function changes its sign, and Newton's and the secant method have iterations left |
| `ErrorsStayOwn` | `OnlyOwnErrors`: no tool raises an error that is not its own, but in the cases that the property names one by one |
| `TypesStay` | `TypeOK`: what a call is, where it is and how it ended fit together |
| `IterationStaysSound` | `IterationIsSound`: and when they answer, the root lies in the last bracket, where the function or the bracket is within the tolerance, or at an end of the interval that is a zero |

The run asks it of a few polynomials and arguments; the theorems are about every polynomial with
rational coefficients, every interval, tolerance, step size and limit, and every call that the
validation lets pass. They are proved from the arithmetic
up, since neither fractions nor their common divisors are known to the provers:

* Euclid's algorithm is a recursive function; `GcdExists` and `GcdIsGcd` show, by the same
  induction over sets as elsewhere, that it ends in a common divisor that is a combination of
  both numbers (Bezout), and `GcdIsUnique` that there is one such number only.
* `Fraction` therefore yields lowest terms (`FractionReduces`). `Is(q, n, d)` says that q is n over
  d in whatever terms; with a common denominator sums, differences, quotients and the order of
  fractions are those of their numerators (`SumIs`, `QuotientIs`, `OrderIs` ...), which is
  arithmetic of integers and so within reach of the SMT solver.
* The rule of Horner keeps a polynomial within the fractions (`EvaluateIsTyped`).
* The middle of a bracket and the secant's place that Brent's method accepts, a hundredth of
  the tolerance away from the ends, lie strictly inside (`MiddleIsInside`, `CandidateIsInside`); the
  end they replace has the same sign (`BisectNarrows`, `BrentNarrows`), and so the
  denominator of the secant is never zero.

Of the solvers nothing is claimed but their errors: where they stop, and after how many steps, depends
on the rounding of `t`.

That an error is a tool's own is a fact about every operation of the 21 tools: no
pivot, no spread, no length and no divisor may be zero where the handler has not asked before.

* `Quantities` is what a computation may yield: a fraction, or a number that is none. `SumIsQuantity`,
  `QuotientIsQuantity` and the others say what an operation needs to stay there, a quotient
  a divisor that is not zero. Each formula has its lemma (`FluidsInMotionIsQuantity`, `HeatIsQuantity`,
  `NetworkAnswers` ...), in which the conditions that the code checks are what the quotients need.
* What the model computes by recursion is a function only if there is one that solves its equations.
  `RecursionExists` constructs it from a function for every prefix; elimination (`EliminatedIsMatrix`,
  `DeterminantIsQuantity`), divided differences (`RoundsAreTyped`), both sweeps of the spline
  (`SweptIs`, `CurvaturesAreTyped`) and the tree of an expression (`NodeResultsExist`) rest on it.
* A sort puts each element in the place that counts what comes before it (`PlaceOf`). The places are
  those of the sequence, each taken once (`PlacesAreOrdered`, `PlacesAreInside`, `SortingIsComplete`), so
  what is sorted has the elements it had; the widths of a spline are positive because the
  abscissae differ (`SortedPointsAre`), and every place has a neighbour (`NeighboursExist`).
* A node of an expression raises something foreign only if one below it is a remainder and another
  a power (`NodeResultIs`, `EvaluatedIs`).

`IInv` ties this to the life of a call: its tool is registered, its arguments are those that the
schema declares and have the types it gives them (`AdmittedFits`; the lemmas `...Schema`, one for
each tool, read the descriptors, the lemmas `...Arguments` say what a handler then gets), so the
handler begins with such arguments and with the defaults of the code, and the work in progress is
that of the call's own operation and arguments (`NumericalWork`, `SolverWork`).
`ProposalsAssumption` asks of the proposals that their arguments have the types they give
(`HasType`): a number is a fraction, an integer a whole one, an array a sequence of numbers or, for
matrices, of rows, an object a complex number, and an expression a polynomial or a right-hand side,
each with a place below which it raises or gives a complex number, or a tree. `FloatAssumption` and
`ThresholdAssumption` ask of the limits of a float and of the two thresholds only that they are
positive. What this leaves out: NaN and the infinities, which the decoder lets pass, elements of
arrays and of objects that are no numbers, and integers beyond the range of a float.

The attempt was a finding about the property: an earlier form asked that a change of sign lie
within the tolerance around an answer in the interval of the call. That is wrong of both methods as
soon as the tolerance is as wide as the interval: 1000x² − 1000 on [1/2, 8/5] with tolerance 3
is bisected once, to a place from which both steps of the tolerance lead beyond the second
root. What the methods promise is said of the last bracket, and the run has this call now.

Each of the other modules also has `TypeCorrect`, `Spec => []TypeOK`, that of the audit log as
`LogTypeCorrect`. All these invariants were checked by TLC on the instances above, that of the tools
on a part of its calls only, since it is slow to evaluate. The lemmas on induction and on sums stand
in each module that needs them, as the variables of two components do not go into one module.

Only model-checked:

* `ExecutionIsFinished` of the supervised execution. The component has no constants, so that TLC sees
  all of it.
* Liveness: `EveryCallReturns`, `EveryCallEnds`, `EveryLineSettles`, `EveryCallSettles`,
  `WorkerIsReaped` and the fairness part of `ImplementsLifecycle`. It is out of the reach of TLAPS
  here, as `ENABLED` is.
* The tools: `FormulasAgree` and `AlgorithmsAgree`. They compare what a tool
  answers with a definition: sums of products, eliminations, sweeps and sorted points of any
  length, and formulas of degrees that the SMT solver does not decide. That the tools answer
  at all is proved (`ErrorsStayOwn`).

## Where the code and its text disagree

1. `session_intent`: with two messages of a session in flight, the one that reads late finds
   its own text among its "prior conversation", and the other message's missing
   (`AR/runtime_application.py:821`).
2. `tools_catalogue`: operations that the description of `anne.thermodynamics` offers to the
   model and that its handler refuses (`AR/runtime_application.py:2115`): `refrigeration_cop`,
   `heat_pump_cop`, `first_law` and `entropy` have other names there, and
   `specific_gas_constant` needs `universal_gas_constant`, which the schema does not admit. (The
   same schema lacks `specific_heat_capacity`, `work_output`, `heat_input` and others, so
   several more operations cannot be used.) `anne.signal_processing` likewise describes the three
   operations of its sibling `frequency_domain`.
3. `tools_spline`: the forward sweep of `_cubic_spline` (`AR/interpolation_tool.py:258`) uses
   the diagonal and the upper element of the row itself instead of the row above. The
   curvatures are wrong, and the pieces of the "natural cubic spline" meet with kinks.

Also seen while modelling, without a run of its own:

* The reader of a host that has died fails the requests already sent to the next host, with a
  message about the old one (`manager.rs:476`).
* Two appends to the audit log read the same last hash and the chain forks; every later
  verification of the file fails (`AR/audit.py:36`; PHASE-0.4.1 line 121: "Audit records are
  hash-chained."). `TurnsMakeAChain` is what is left of the promise.
* Arguments that `json` cannot encode leave a supervised execution RUNNING with a live worker,
  because the failure path asks for RUNNING -> CLEANUP (`AR/supervised_execution.py:105`).
  `ExecutionIsFinished` excepts them.
* An outcome longer than the context budget is not fed back to the model
  (`AR/context_manager.py:159`); the tool ran, and the next question shows the proposal only.
* A worker of the host whose response stdout cannot encode, or whose line is nested too deep to
  decode, raises into a future that nobody asks before stdin ends; the desktop waits for its
  timeout (`AR/runtime_host.py:81`). `EveryLineSettles` counts such a line as settled.
* The tools raise errors that are not their own; `OnlyOwnErrors` names each of these, and the
  executor turns them into failures. `probability` reads arguments its schema leaves optional (`n`,
  `k` and `p` for `binomial`, `x` for the others), `signal_processing` is handed a `sample_rate` its
  function does not take, and the calculator takes the remainder of a complex number,
  `(0 - 1) ** 0.5 % 2`. An expression with a complex value, `x**0.5` at a negative place, is a TypeError in
  `float()` (`AR/numerical_methods_tool.py:166`) or `isfinite()`
  (`AR/differential_equations_tool.py:153`). The number of steps of 1e100 in steps of 1e-300 is an
  infinity that `ceil()` raises on (`:263`). A few operations divide by a product of two positive
  arguments that underflows to zero (`AR/thermodynamics_tool.py:177`, `209`, `236`, `elongation` and
  `beam_shear_stress` of `strength_of_materials`, `correlation`).
* Not in the model: an integer of the request or of an expression that is too large for a float is an
  OverflowError in nearly every tool (`AR/numerical_methods_tool.py:86`,
  `AR/differential_equations_tool.py:72`). The powers in an expression of `numerical_methods` have no
  bound, and one of large integers need not return in any useful time.
* A solver of differential equations adds its steps up in floats, and `MAX_STEPS` bounds the
  estimate only (`AR/differential_equations_tool.py:317`): from 0 to 100 in steps of 0.1 it takes 1001
  where it has estimated 1000, and from 1e16 to 1e16 + 4 in steps of 0.5 `t` never moves. The loop then
  ends only if y comes to exceed 1e100, which the model does not follow; a `y' = 2` goes on for
  ever, on a thread that nothing but the end of the process stops.
* A transition of the supervisor reads its entry and stores another one without a lock
  (`AR/execution_supervisor.py:299`; PHASE-0.4.7C-SUPERVISOR-WORKER-INTEGRATION line 42: "Every
  execution returned by `SupervisedExecution.execute()` is in `TERMINAL` state."). With `execute()`
  and `cancel()` on two threads a stale store may overwrite CANCELLING, or the TERMINAL entry:
  `cancel()` then raises, or both calls report a result. What no such store undoes is in
  `ReturnedIsClean`, `ExecutionIsFinished` and `CancellationSticks`.
* The process of a worker runs outside its job between its creation and the callback that
  assigns it (`AR/worker_process.py:279`, `282`), as it is not created suspended. It takes no request
  before (`NoUnconfinedWork`).
* A proposal may name one operation and carry another in its arguments; the second is executed
  and the first is what the call is called (`AR/intelligence_tool_authority.py:80`).
* Units are compared in lower case, so a milliwatt, "mW", is a megawatt
  (`AR/unit_conversion_tool.py:197`).
* Linear interpolation searches neighbours in the order given, and so depends on the order of
  its points when they are not sorted (`AR/interpolation_tool.py:92`).
* The commands that clear and delete a session ignore the status of the response
  (`commands.rs:71`), and a message whose planning fails stays in its session without an answer
  (`AR/runtime_application.py:872`).

* A call that the executor's own evaluation denies ends FAILED, not DENIED: VALIDATING ->
  DENIED is not in the table (`AR/tool_executor.py:191`; PHASE-0.4.2 line 54 draws it as
  DENIED). The model does what the code does.
* The retry of the orchestrator (`AR/retry.py`) never fires, since the executor turns every
  exception of a handler into a result.
* A second `prepare_enforcement()` replaces the handle of the first, which is never released
  (`AR/execution_supervisor.py:124`); `cleanup()` of a READY execution destroys its worker
  before it notices that the state does not allow it (`:305`).
* Once a tool outcome is in the prompt the intent stands before the whole conversation, older
  turns included (`AR/intelligence_contracts.py:101`).
* The watchdog of a task that just succeeded may request a token the caller shares with the
  loop; the loop then stops as cancelled though nobody cancelled
  (`AR/intelligence_planning_loop.py:215`). `handle_message` passes no token.

## What is not modelled

The table of components in `PROJECT.json` gives the reason for each. In short: the HTTP client of
Gemini and the JSON of prompts and decisions (I/O, formatting); configuration, health, redaction,
schema interpretation; conversation summaries (written by nothing yet); the window. Wording, error
details and log lines are left out everywhere. Of the tools: rounding but for the three effects of
`Rationals`, the underflow of a product of function values (with tiny ones a bracketing method no
longer sees their signs), the limits on magnitudes (1e100) and lengths, `entropy_change`, whose
arguments the schema does not let pass, the tolerance of the equilibrium check, the parsers of
expressions (an expression is its tree or one of a few polynomials), blanks and case of names,
phases and polar forms of complex numbers and the values of the normal distributions. An answer that
is no fraction is only known to be one. Two more abstractions to know: a pipe in `RuntimeManager`
takes every line, so a write that blocks while it holds the process lock is not in the model; a hash
in `AuditLog` is its record's identity.

## Plan

Done: the core (task, policy, planning), the manager, the host and its protocol, sessions, the audit
log, the supervised worker and its enforcement by Windows jobs, the tools with their catalogue, and
the theorems about the safety of every component, of the tools about the methods that look for a
root and about the errors of all of them. The order follows what a wrong step would cost: a refused
call that runs, a task reported as something it was not.

Next, in this order:

1. `AdapterExecution`: `AR/adapter_execution.py`, which nothing in the runtime calls yet, once
   it is wired to the supervisor.
2. Model routing and the engineering router's ranking as operators against a reference
   definition.
3. `DesktopSession`: the window's session, submit and clear, composed with the manager.

The project keeps to one run per question, at most a dozen: a question that a later module
answers more sharply replaces the run that asked it before.
