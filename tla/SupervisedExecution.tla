------------------------- MODULE SupervisedExecution -------------------------
(***************************************************************************)
(* One execution of SupervisedExecution: a thread in execute(), a thread   *)
(* in cancel() for the same execution, and the worker process they talk to *)
(* over one pipe (worker_process.py).  Nothing locks the supervisor's      *)
(* entry, the WorkerProcess or the pipe: the threads meet at every read    *)
(* and at every store.                                                     *)
(***************************************************************************)
EXTENDS Naturals, Sequences, SupervisorStateMachine

Threads == {"execute", "cancel"}

VARIABLES
  sup,         \* SupervisorExecution.state
  registered,  \* whether SupervisedExecution._workers holds the process
  proc,        \* WorkerProcess._state
  connected,   \* whether WorkerProcess._parent is open
  sequence,    \* WorkerProcess._next_sequence
  toWorker, toParent,  \* the two directions of the pipe
  worker,      \* what the child process does; "crashed" if its exit code is not 0
  expected,    \* expected_sequence of _worker_main
  pc,          \* where each thread is
  update,      \* the state a thread has computed and is about to store, and where it goes then
  asks,        \* the message a thread is sending, or waits to be answered
  number,      \* the sequence number it took for the message
  outcome,     \* what the call answers, once it knows
  arguments    \* of the tool call: json can encode them, or cannot, or they exceed the limit

entry == <<sup, registered>>
pipe == <<toWorker, toParent>>
handle == <<proc, connected, sequence>>
child == <<worker, expected>>
locals == <<update, asks, number, outcome>>
vars == <<entry, pipe, handle, child, locals, pc, arguments>>

ProcStates ==
  {"NEW", "STARTING", "READY", "RUNNING", "CANCELLING", "TERMINATING", "STOPPED", "CRASHED"}
Alive == {"booting", "idle", "handling"}
Outcomes == {"none", "result", "failure", "raised"}
MessageTypes == {"START", "READY", "EXECUTE", "RESULT", "CANCEL", "SHUTDOWN", "ERROR"}
WorkerMessages == [type : MessageTypes, sequence : Nat]

Shared ==  \* places of either thread
  {"idle", "store", "request", "number", "increment", "send", "await", "polled", "reading",
   "accepted", "rejected", "terminate", "join", "finishResult", "resulting", "finish",
   "retrying", "finishing", "close", "closing", "cleanup", "completing", "pop", "done"}
Places ==
  Shared \cup {"authorized", "ready", "setRunning", "complete", "failed", "crashing", "quitting",
               "timedOut", "timing", "timingOut", "stopping"}
         \cup {"cancelling", "setCancelling", "cancelled", "notCancelled"}

NoUpdate == [state |-> "none", next |-> "idle"]

TypeOK ==
  /\ sup \in SupervisorStates
  /\ registered \in BOOLEAN
  /\ proc \in ProcStates
  /\ connected \in BOOLEAN
  /\ sequence \in Nat
  /\ toWorker \in Seq(WorkerMessages) /\ toParent \in Seq(WorkerMessages)
  /\ worker \in {"none", "exited", "crashed"} \cup Alive
  /\ expected \in Nat
  /\ pc \in [Threads -> Places]
  /\ update \in [Threads -> [state : SupervisorStates, next : Places]]
  /\ asks \in [Threads -> {"none", "START", "EXECUTE", "CANCEL", "SHUTDOWN"}]
  /\ number \in [Threads -> Nat]
  /\ outcome \in [Threads -> Outcomes]
  /\ arguments \in {"plain", "unencodable", "tooLong"}

Init ==
  /\ sup = "none" /\ registered = FALSE
  /\ proc = "NEW" /\ connected = FALSE /\ sequence = 1
  /\ toWorker = <<>> /\ toParent = <<>>
  /\ worker = "none" /\ expected = 1
  /\ pc = [t \in Threads |-> "idle"]
  /\ update = [t \in Threads |-> NoUpdate]
  /\ asks = [t \in Threads |-> "none"]
  /\ number = [t \in Threads |-> 0]
  /\ outcome = [t \in Threads |-> "none"]
  /\ arguments \in {"plain", "unencodable", "tooLong"}

Message(type, s) == [type |-> type, sequence |-> s]
Goto(t, place) == pc' = [pc EXCEPT ![t] = place]
Answers(t, result) == outcome' = [outcome EXCEPT ![t] = result]
Asks(t, type) == asks' = [asks EXCEPT ![t] = type]
Ends(t, result) == Goto(t, "done") /\ Answers(t, result)

\* transition() reads the entry and computes the new one: the thread goes on to store it, or
\* SupervisorInvariantError takes it elsewhere.
Transition(t, state, next, invalid) ==
  \/ /\ state \in Allowed[sup]
     /\ update' = [update EXCEPT ![t] = [state |-> state, next |-> next]] /\ Goto(t, "store")
  \/ state \notin Allowed[sup] /\ Goto(t, invalid) /\ UNCHANGED update

\* The same, where the error leaves the call.
TransitionOrRaise(t, state, next, answer) ==
  /\ Transition(t, state, next, "done")
  /\ Answers(t, IF state \in Allowed[sup] THEN answer ELSE "raised")

\* What it stores takes the place of whatever the other thread has stored meanwhile.
Store(t) ==
  /\ pc[t] = "store"
  /\ sup' = update[t].state /\ Goto(t, update[t].next)
  /\ update' = [update EXCEPT ![t] = NoUpdate]
  /\ UNCHANGED <<registered, pipe, handle, child, asks, number, outcome, arguments>>

\* A step that reads the entry and changes none of what the threads share.
Reads == UNCHANGED <<entry, pipe, handle, child, asks, number, arguments>>
-----------------------------------------------------------------------------
(* execute(): authorization, start and run.  Until the worker is READY the other thread does *)
(* not get past its check, so this one is alone.                                             *)

Authorize ==
  /\ pc["execute"] = "idle"
  /\ sup' = "AUTHORIZED" /\ registered' = TRUE
  /\ Goto("execute", "authorized")
  /\ UNCHANGED <<pipe, handle, child, locals, arguments>>

\* WorkerProcess.start() up to _send(START).
Start ==
  /\ pc["execute"] = "authorized"
  /\ sup' = "STARTING" /\ proc' = "STARTING" /\ connected' = TRUE
  /\ worker' = "booting" /\ toWorker' = <<Message("START", 0)>>
  /\ Goto("execute", "await") /\ Asks("execute", "START")
  /\ UNCHANGED <<registered, sequence, toParent, expected, update, number, outcome, arguments>>

\* START does not pass its validation, and no process is created.
StartRefused ==
  /\ pc["execute"] = "authorized"
  /\ sup' = "STARTING" /\ Goto("execute", "failed")
  /\ UNCHANGED <<registered, handle, pipe, child, locals, arguments>>

\* process.start() raises: execute() is left through `except BaseException`.
SpawnFails ==
  /\ pc["execute"] = "authorized"
  /\ sup' = "STARTING" /\ proc' = "CRASHED" /\ connected' = TRUE
  /\ Goto("execute", "finish") /\ Answers("execute", "failure")
  /\ UNCHANGED <<registered, sequence, pipe, child, update, asks, number, arguments>>

Run ==
  /\ pc["execute"] = "ready"
  /\ Transition("execute", "RUNNING", "request", "failed")
  /\ Reads /\ UNCHANGED outcome

\* Mutant: COMPLETED is stored without asking the table.
CompleteUnchecked ==
  /\ pc["execute"] = "complete"
  /\ update' = [update EXCEPT !["execute"] = [state |-> "COMPLETED", next |-> "finishResult"]]
  /\ Goto("execute", "store")
  /\ Reads /\ UNCHANGED outcome

Complete ==
  /\ pc["execute"] = "complete"
  /\ Transition("execute", "COMPLETED", "finishResult", "failed")
  /\ Reads /\ UNCHANGED outcome
-----------------------------------------------------------------------------
(* The messages: the state of the WorkerProcess is checked and set, the message gets its *)
(* number, and is sent.                                                                   *)

Request ==
  /\ pc["execute"] = "request"
  /\ IF proc = "READY" THEN Goto("execute", "number") /\ Asks("execute", "EXECUTE")
     ELSE Goto("execute", "failed") /\ UNCHANGED asks
  /\ UNCHANGED <<entry, handle, pipe, child, update, number, outcome, arguments>>

RequestCancel ==
  /\ pc["cancel"] = "request"
  /\ IF proc \in {"READY", "RUNNING"} THEN Goto("cancel", "setCancelling") /\ Asks("cancel", "CANCEL")
     ELSE Goto("cancel", "notCancelled") /\ UNCHANGED asks
  /\ UNCHANGED <<entry, handle, pipe, child, update, number, outcome, arguments>>

\* cancel() sets the state before it takes a number, execute() after.
SetState(t, place, state, next) ==
  /\ pc[t] = place
  /\ proc' = state /\ Goto(t, next)
  /\ UNCHANGED <<entry, connected, sequence, pipe, child, locals, arguments>>

SetRunning == SetState("execute", "setRunning", "RUNNING", "send")
SetCancelling == SetState("cancel", "setCancelling", "CANCELLING", "number")

TakeNumber(t) ==
  /\ pc[t] = "number"
  /\ number' = [number EXCEPT ![t] = sequence] /\ Goto(t, "increment")
  /\ UNCHANGED <<entry, handle, pipe, child, update, asks, outcome, arguments>>

\* `+= 1` reads the counter once more, and may store over an increment of the other thread.
Increment(t) ==
  /\ pc[t] = "increment"
  /\ sequence' \in number[t] + 1 .. sequence + 1
  /\ Goto(t, IF asks[t] = "EXECUTE" THEN "setRunning" ELSE "send")
  /\ UNCHANGED <<entry, proc, connected, pipe, child, locals, arguments>>
-----------------------------------------------------------------------------
(* The pipe, seen from the parent *)

\* WorkerProcessError: terminate() passes over it.
OnError(t) ==
  Goto(t, IF asks[t] = "SHUTDOWN" THEN "join" ELSE IF t = "execute" THEN "failed" ELSE "notCancelled")

\* Any other exception: terminate() and cancel() are left with it, execute() has a clause for it.
Escapes(t) ==
  IF t = "execute" /\ asks[t] # "SHUTDOWN" THEN Goto(t, "finish") /\ Answers(t, "failure")
  ELSE Ends(t, "raised")

\* The other thread has closed the pipe.  What this one meets is the check of `_parent`, an
\* OSError of the closed connection, which may be caught or not, or an AttributeError because
\* `_parent` is None after the check.
LostPipe(t) ==
  \/ OnError(t) /\ UNCHANGED outcome /\ proc' \in {proc, "CRASHED"}
  \/ Escapes(t) /\ UNCHANGED proc

Send(t) ==
  /\ pc[t] = "send"
  /\ \/ /\ ~connected /\ LostPipe(t) /\ UNCHANGED toWorker
     \/ /\ connected /\ asks[t] = "EXECUTE" /\ arguments = "unencodable"  \* TypeError of json.dumps
        /\ Escapes(t) /\ UNCHANGED <<toWorker, proc>>
     \/ /\ connected /\ asks[t] = "EXECUTE" /\ arguments = "tooLong"
        /\ OnError(t) /\ UNCHANGED <<toWorker, proc, outcome>>
     \/ /\ connected /\ (asks[t] = "EXECUTE" => arguments = "plain")
        /\ IF worker \in Alive
           THEN /\ toWorker' = Append(toWorker, Message(asks[t], number[t]))
                /\ Goto(t, IF asks[t] = "SHUTDOWN" THEN "join" ELSE "await") /\ UNCHANGED proc
           ELSE proc' = "CRASHED" /\ OnError(t) /\ UNCHANGED toWorker
        /\ UNCHANGED outcome
  /\ UNCHANGED <<entry, connected, sequence, toParent, child, update, asks, number, arguments>>

\* _parent.poll(): a message or the end of the stream is there.
Poll(t) ==
  /\ pc[t] = "await"
  /\ connected /\ (toParent # <<>> \/ worker \notin Alive)
  /\ Goto(t, "polled")
  /\ UNCHANGED <<entry, pipe, handle, child, locals, arguments>>

\* The deadline passes without either, and the worker is alive, or just not any more.
Timeout(t) ==
  /\ pc[t] = "await" /\ connected
  /\ \/ /\ toParent = <<>> /\ worker \in Alive
        /\ Goto(t, IF t = "execute" THEN "timedOut" ELSE "notCancelled") /\ UNCHANGED proc
     \/ worker \notin Alive /\ proc' = "CRASHED" /\ OnError(t)
  /\ UNCHANGED <<entry, connected, sequence, pipe, child, locals, arguments>>

Disconnected(t) ==
  /\ pc[t] \in {"await", "polled"} /\ ~connected
  /\ LostPipe(t)
  /\ UNCHANGED <<entry, connected, sequence, pipe, child, update, asks, number, arguments>>

\* recv_bytes() has no deadline: it blocks if the other thread took the message.
BeginRead(t) ==
  /\ pc[t] = "polled" /\ connected
  /\ Goto(t, "reading")
  /\ UNCHANGED <<entry, pipe, handle, child, locals, arguments>>

ReadEof(t) ==
  /\ pc[t] = "reading" /\ toParent = <<>> /\ worker \notin Alive
  /\ proc' = "CRASHED"
  /\ OnError(t)
  /\ UNCHANGED <<entry, connected, sequence, pipe, child, locals, arguments>>

\* The answer to each message; cancel() accepts only an ERROR with sequence 2.
Answer(type) ==
  CASE type = "START" -> Message("READY", 0)
    [] type = "EXECUTE" -> Message("RESULT", 1)
    [] OTHER -> Message("ERROR", 2)

\* A result may be too long for the parent.
Read(t) ==
  /\ pc[t] = "reading" /\ toParent # <<>>
  /\ toParent' = Tail(toParent)
  /\ \/ Head(toParent) = Answer(asks[t]) /\ Goto(t, "accepted")
     \/ (Head(toParent) # Answer(asks[t]) \/ asks[t] = "EXECUTE") /\ Goto(t, "rejected")
  /\ UNCHANGED <<entry, handle, toWorker, child, locals, arguments>>

ReceiveReady ==
  /\ pc["execute"] = "accepted" /\ asks["execute"] = "START"
  /\ proc' = "READY" /\ sup' = "READY" /\ Goto("execute", "ready")
  /\ UNCHANGED <<registered, connected, sequence, pipe, child, locals, arguments>>

ReceiveResult == asks["execute"] = "EXECUTE" /\ SetState("execute", "accepted", "READY", "complete")
ReceiveCancelled == SetState("cancel", "accepted", "STOPPED", "cancelled")

ReceiveUnexpected(t) ==
  /\ pc[t] = "rejected"
  /\ proc' = "CRASHED" /\ OnError(t)
  /\ UNCHANGED <<entry, connected, sequence, pipe, child, locals, arguments>>
-----------------------------------------------------------------------------
(* execute(): failure and timeout *)

Failed ==
  /\ pc["execute"] = "failed"
  /\ Goto("execute", IF sup \in {"CLEANUP", "TERMINAL"} THEN "finish"
                     ELSE IF proc = "CRASHED" \/ worker = "none" THEN "crashing" ELSE "quitting")
  /\ Answers("execute", "failure")
  /\ Reads /\ UNCHANGED update

\* An invalid transition is passed over.
MarkFailed ==
  /\ \/ pc["execute"] = "crashing" /\ Transition("execute", "CRASHED", "finish", "finish")
     \/ pc["execute"] = "quitting" /\ Transition("execute", "TERMINATING", "finish", "finish")
  /\ Reads /\ UNCHANGED outcome

TimedOut ==
  /\ pc["execute"] = "timedOut"
  /\ Goto("execute", IF sup \in {"TIMING_OUT", "TERMINATING"} THEN "timingOut" ELSE "timing")
  /\ Answers("execute", "failure")
  /\ Reads /\ UNCHANGED update

MarkTimingOut ==
  /\ pc["execute"] = "timing"
  /\ TransitionOrRaise("execute", "TIMING_OUT", "timingOut", "failure")
  /\ Reads

TimingOut ==
  /\ pc["execute"] = "timingOut"
  /\ Goto("execute", IF sup = "TERMINATING" THEN "terminate" ELSE "stopping")
  /\ Reads /\ UNCHANGED <<update, outcome>>

\* Mutant: the timeout is recorded, and the worker left alone.
StopGently ==
  /\ pc["execute"] = "stopping"
  /\ TransitionOrRaise("execute", "TERMINATING", "finish", "failure")
  /\ Reads

StopTimedOut ==
  /\ pc["execute"] = "stopping"
  /\ TransitionOrRaise("execute", "TERMINATING", "terminate", "failure")
  /\ Reads
-----------------------------------------------------------------------------
(* cancel() *)

Cancel ==
  /\ pc["cancel"] = "idle"
  /\ sup \in {"READY", "RUNNING"} /\ registered
  /\ Goto("cancel", "cancelling")
  /\ Reads /\ UNCHANGED <<update, outcome>>

MarkCancelling ==
  /\ pc["cancel"] = "cancelling"
  /\ TransitionOrRaise("cancel", "CANCELLING", "request", "none")
  /\ Reads

Cancelled ==
  /\ pc["cancel"] = "cancelled"
  /\ TransitionOrRaise("cancel", "TERMINATING", "terminate", "result")
  /\ Reads

NotCancelled ==
  /\ pc["cancel"] = "notCancelled"
  /\ TransitionOrRaise("cancel", "TERMINATING", "terminate", "failure")
  /\ Reads
-----------------------------------------------------------------------------
(* terminate() of the worker, and the end of either call *)

Terminated(t) == Goto(t, IF outcome[t] = "result" THEN "finishResult" ELSE "finish")

Terminate(t) ==
  /\ pc[t] = "terminate"
  /\ \/ /\ worker \in Alive
        /\ proc' = "TERMINATING"
        /\ IF connected THEN Goto(t, "number") /\ Asks(t, "SHUTDOWN")
           ELSE Goto(t, "join") /\ UNCHANGED asks
     \/ /\ worker \notin Alive
        /\ proc' = IF worker = "crashed" THEN "CRASHED" ELSE "STOPPED"
        /\ Terminated(t) /\ UNCHANGED asks
  /\ UNCHANGED <<entry, connected, sequence, pipe, child, update, number, outcome, arguments>>

\* Mutant: join() without a timeout.
JoinForever(t) ==
  /\ pc[t] = "join" /\ worker \notin Alive
  /\ proc' = "STOPPED" /\ Terminated(t)
  /\ UNCHANGED <<entry, connected, sequence, pipe, child, locals, arguments>>

\* After the grace period the worker is killed if it is still there.
Join(t) ==
  /\ pc[t] = "join"
  /\ worker' = IF worker \in Alive THEN "crashed" ELSE worker
  /\ proc' = "STOPPED" /\ Terminated(t)
  /\ UNCHANGED <<entry, connected, sequence, pipe, expected, locals, arguments>>

\* SupervisorInvariantError in _finish() or _finish_failure(), and anything else there: it leaves
\* the call, unless execute() has a result.
Invalid(t) == IF t = "execute" /\ outcome[t] = "result" THEN "failed" ELSE "done"
Raises(t) == Answers(t, IF t = "execute" /\ outcome[t] = "result" THEN "failure" ELSE "raised")
Misses(t) ==
  /\ Goto(t, IF t = "execute" /\ outcome[t] = "result" THEN "finish" ELSE "done")
  /\ Raises(t)

\* _finish(): KeyError if the other thread has forgotten the worker.
FinishResult(t) ==
  /\ pc[t] = "finishResult"
  /\ IF registered THEN Goto(t, "resulting") /\ Answers(t, "result")
     ELSE IF t = "execute" THEN Goto(t, "finish") /\ Answers(t, "failure")
     ELSE Ends(t, "raised")
  /\ Reads /\ UNCHANGED update

ReadState(t) ==
  /\ \/ /\ pc[t] = "resulting" /\ Goto(t, IF sup = "CLEANUP" THEN "close" ELSE "finishing")
     \/ /\ pc[t] = "finish"  \* _finish_failure()
        /\ Goto(t, CASE sup \in {"CLEANUP", "TERMINAL"} -> "close"
                     [] sup = "TERMINATING" -> "retrying"
                     [] OTHER -> "finishing")
  /\ Reads /\ UNCHANGED <<update, outcome>>

\* An execution that was TERMINATING gets a second chance.
Retrying(t) ==
  /\ pc[t] = "retrying"
  /\ Transition(t, "CLEANUP", "close", "finishing")
  /\ Reads /\ UNCHANGED outcome

Finishing(t) ==
  /\ pc[t] = "finishing"
  /\ Transition(t, "CLEANUP", "close", Invalid(t))
  /\ IF "CLEANUP" \in Allowed[sup] THEN UNCHANGED outcome ELSE Raises(t)
  /\ Reads

\* Mutant: the parent's end of the pipe is kept.
CloseNothing(t) ==
  /\ pc[t] = "closing"
  /\ Goto(t, "cleanup")
  /\ UNCHANGED <<entry, handle, pipe, child, locals, arguments>>

BeginClose(t) ==
  /\ pc[t] = "close"
  /\ Goto(t, IF connected THEN "closing" ELSE "cleanup")
  /\ UNCHANGED <<entry, handle, pipe, child, locals, arguments>>

\* `_parent` may be None by now: AttributeError.
Close(t) ==
  /\ pc[t] = "closing"
  /\ IF connected THEN Goto(t, "cleanup") /\ UNCHANGED outcome ELSE Misses(t)
  /\ connected' = FALSE
  /\ UNCHANGED <<entry, proc, sequence, pipe, child, update, asks, number, arguments>>

\* ExecutionSupervisor.cleanup(), which knows nothing of this worker.
Cleanup(t) ==
  /\ pc[t] = "cleanup"
  /\ Goto(t, IF sup = "TERMINAL" THEN "pop" ELSE "completing")
  /\ Reads /\ UNCHANGED <<update, outcome>>

MarkCleanupComplete(t) ==
  /\ pc[t] = "completing"
  /\ \/ /\ sup = "CLEANUP" \/ "CLEANUP" \in Allowed[sup]
        /\ update' = [update EXCEPT ![t] = [state |-> "TERMINAL", next |-> "pop"]] /\ Goto(t, "store")
        /\ UNCHANGED outcome
     \/ /\ sup # "CLEANUP" /\ "CLEANUP" \notin Allowed[sup]
        /\ Goto(t, Invalid(t)) /\ Raises(t) /\ UNCHANGED update
  /\ Reads

\* Mutant: the process stays registered.
PopNothing(t) ==
  /\ pc[t] = "pop" /\ Goto(t, "done")
  /\ UNCHANGED <<entry, pipe, handle, child, locals, arguments>>

Pop(t) ==
  /\ pc[t] = "pop"
  /\ registered' = FALSE /\ Goto(t, "done")
  /\ UNCHANGED <<sup, pipe, handle, child, locals, arguments>>
-----------------------------------------------------------------------------
(* _worker_main, in the child *)

\* A thread that is inside recv_bytes() keeps the socket open after close().
Linked == connected \/ \E t \in Threads : pc[t] = "reading"

ChildStep == UNCHANGED <<entry, handle, pc, locals, arguments>>

\* What the worker sends is lost, and ends it, when nobody holds the other end.
Reply(type, s, next) ==
  /\ toParent' = IF Linked THEN Append(toParent, Message(type, s)) ELSE toParent
  /\ worker' = IF Linked THEN next ELSE "exited"

WorkerBoots ==
  /\ worker = "booting" /\ toWorker # <<>>
  /\ Reply("READY", 0, "idle") /\ toWorker' = Tail(toWorker)
  /\ UNCHANGED expected /\ ChildStep

WorkerTakes ==
  LET m == Head(toWorker) IN
  /\ worker = "idle" /\ toWorker # <<>>
  /\ toWorker' = Tail(toWorker)
  /\ \/ m.sequence # expected /\ Reply("ERROR", 0, "crashed")
     \/ /\ m.sequence = expected /\ m.type = "EXECUTE"
        /\ worker' = "handling" /\ UNCHANGED toParent
     \/ m.sequence = expected /\ m.type = "CANCEL" /\ Reply("ERROR", expected, "exited")
     \/ /\ m.sequence = expected /\ m.type = "SHUTDOWN"
        /\ worker' = "exited" /\ UNCHANGED toParent
  /\ UNCHANGED expected /\ ChildStep

WorkerReturns ==
  /\ worker = "handling"
  /\ Reply("RESULT", expected, "idle") /\ expected' = IF Linked THEN expected + 1 ELSE expected
  /\ UNCHANGED toWorker /\ ChildStep

\* The handler raises, or returns something that is not an object.
WorkerRaises ==
  /\ worker = "handling"
  /\ Reply("ERROR", 0, "crashed")
  /\ UNCHANGED <<toWorker, expected>> /\ ChildStep

WorkerDies ==
  /\ worker \in Alive
  /\ worker' = "crashed"
  /\ UNCHANGED <<pipe, expected>> /\ ChildStep

WorkerReadsEof ==
  /\ worker = "idle" /\ toWorker = <<>> /\ ~Linked
  /\ worker' = "exited"
  /\ UNCHANGED <<pipe, expected>> /\ ChildStep
-----------------------------------------------------------------------------

Executes ==
  \/ Authorize \/ Start \/ StartRefused \/ SpawnFails \/ ReceiveReady \/ Run \/ Request \/ SetRunning
  \/ ReceiveResult \/ Complete \/ Failed \/ MarkFailed
  \/ TimedOut \/ MarkTimingOut \/ TimingOut \/ StopTimedOut

Cancels ==
  MarkCancelling \/ RequestCancel \/ SetCancelling \/ ReceiveCancelled \/ Cancelled \/ NotCancelled

Proceeds(t) ==
  \/ t = "execute" /\ Executes
  \/ t = "cancel" /\ Cancels
  \/ Store(t) \/ TakeNumber(t) \/ Increment(t)
  \/ Send(t) \/ Poll(t) \/ Timeout(t) \/ Disconnected(t) \/ BeginRead(t) \/ ReadEof(t) \/ Read(t)
  \/ ReceiveUnexpected(t)
  \/ Terminate(t) \/ Join(t) \/ FinishResult(t) \/ ReadState(t) \/ Retrying(t) \/ Finishing(t)
  \/ BeginClose(t) \/ Close(t) \/ Cleanup(t) \/ MarkCleanupComplete(t) \/ Pop(t)

\* What the worker does without help of its handler.
WorkerLoop == WorkerBoots \/ WorkerTakes \/ WorkerReadsEof

Next ==
  \/ \E t \in Threads : Proceeds(t)
  \/ Cancel
  \/ WorkerLoop \/ WorkerReturns \/ WorkerRaises \/ WorkerDies

\* The threads run and deadlines pass; the worker's own loop runs; a handler owes nothing.
Fairness == (\A t \in Threads : WF_vars(Proceeds(t))) /\ WF_vars(WorkerLoop)

Spec == Init /\ [][Next]_vars /\ Fairness
-----------------------------------------------------------------------------
(* Properties *)

Returned(t) == pc[t] = "done" /\ outcome[t] \in {"result", "failure"}

\* The cleanup of PHASE-0.4.7C, for both calls: whoever gets an answer, and whatever the other
\* thread has stored over the entry meanwhile, the worker is forgotten, its pipe is closed,
\* and its handler does not run.
ReturnedIsClean ==
  \A t \in Threads : Returned(t) => ~registered /\ ~connected /\ worker # "handling"

\* The states no lost update undoes.  When both calls have ended with an answer, or execute()
\* ended alone and its request could be encoded, the entry is TERMINAL; and no handler runs for
\* a TERMINAL one: every path on which it may has terminated the worker.
ExecutionIsFinished ==
  /\ (\A t \in Threads : Returned(t)) => sup = "TERMINAL"
  /\ pc["execute"] = "done" /\ pc["cancel"] = "idle" /\ arguments # "unencodable" => sup = "TERMINAL"
  /\ sup = "TERMINAL" => worker # "handling"

\* execute() between its check of RUNNING and its check of COMPLETED.
InRequest ==
  pc["execute"] \in {"request", "number", "increment", "setRunning", "send", "await", "polled", "reading",
                     "accepted", "rejected", "complete"}

\* Once cancel() has stored CANCELLING while the request is out, execute() never reports a
\* result, whatever the worker answers.  A mark stored after execute() has computed COMPLETED,
\* and before it stores it, is overwritten: both calls may then succeed.
CancellationSticks ==
  [](sup = "CANCELLING" /\ InRequest => [](Returned("execute") => outcome["execute"] = "failure"))

\* Both calls come to an end: a thread that blocks in recv_bytes() because the other one
\* took its message is always released.
EveryCallEnds == \A t \in Threads : pc[t] # "idle" ~> pc[t] = "done"

\* The worker of a finished execution goes away.
WorkerIsReaped == sup = "TERMINAL" ~> worker \notin Alive

=============================================================================
