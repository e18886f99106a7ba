---------------------- MODULE SupervisedExecutionProofs ----------------------
(***************************************************************************)
(* Proofs about SupervisedExecution.  The invariant follows execute() and  *)
(* its request: while a handler runs, or will, execute() is between        *)
(* sending the request and the end of terminate(), or has left with an     *)
(* exception, and the pipe is open; nobody closes it before.               *)
(***************************************************************************)
EXTENDS SupervisedExecution, TLAPS

\* Where a thread is, or will be when it has stored what it computed.
At(t) == IF pc[t] = "store" THEN update[t].next ELSE pc[t]

Exchanging == {"await", "polled", "reading", "accepted", "rejected"}
Closed == {"cleanup", "completing", "pop"}
Ending == {"finishResult", "resulting", "finish", "retrying", "finishing", "close", "closing"} \cup Closed
\* What a thread may store once CANCELLING has been stored.
Late == {"CANCELLING", "TIMING_OUT", "CRASHED", "TERMINATING", "CLEANUP", "TERMINAL"}

\* cancel() does not get past its check before execute() has the worker READY.
StartIsAlone ==
  /\ pc["execute"] \in {"idle", "authorized"} =>
       /\ worker = "none" /\ pipe = <<<<>>, <<>>>> /\ ~connected
       /\ pc["cancel"] = "idle" /\ sup \in {"none", "AUTHORIZED"}
  /\ pc["execute"] \in Exchanging /\ asks["execute"] = "START" => sup = "STARTING" /\ pc["cancel"] = "idle"

\* Which message a thread is about.
AsksAgrees ==
  /\ asks["cancel"] \in {"none", "CANCEL", "SHUTDOWN"}
  /\ \A t \in Threads : pc[t] \in {"number", "increment", "send"} => asks[t] # "none"
  /\ pc["cancel"] = "setCancelling" => asks["cancel"] # "none"
  /\ pc["execute"] \in {"number", "increment", "send"} => asks["execute"] \in {"EXECUTE", "SHUTDOWN"}
  /\ pc["execute"] = "setRunning" => asks["execute"] = "EXECUTE"
  /\ pc["execute"] \in Exchanging => asks["execute"] \in {"START", "EXECUTE"}

\* What the threads have computed and learned where they are.
PlaceAgrees ==
  /\ \A t \in Threads : pc[t] = "store" =>
       update[t].next \in {"request", "finishResult", "finish", "timingOut", "terminate", "close", "pop"}
  /\ pc["cancel"] = "store" => update["cancel"].state \in Late /\ update["cancel"].next # "finishResult"
  /\ outcome["execute"] = "result" =>
       At("execute") \in {"resulting", "finishing", "close", "closing", "done"} \cup Closed

InPipe(pipe_, type) == \E i \in DOMAIN pipe_ : pipe_[i].type = type
AtMostOnce(pipe_, type) ==
  \A i, j \in DOMAIN pipe_ : pipe_[i].type = type /\ pipe_[j].type = type => i = j

\* A handler runs, or will for what is in the pipe.
Asked == worker = "handling" \/ (worker \in Alive /\ InPipe(toWorker, "EXECUTE"))

\* execute() has READY and has not sent the request.
Sending ==
  \/ At("execute") \in {"ready", "request", "setRunning"}
  \/ pc["execute"] \in {"number", "increment", "send"} /\ asks["execute"] = "EXECUTE"
  \/ pc["execute"] = "accepted" /\ asks["execute"] = "START"

\* Where execute() is while a handler runs, or will.
Waiting ==
  \/ pc["execute"] \in {"await", "polled", "reading"} /\ asks["execute"] = "EXECUTE"
  \/ /\ At("execute") \in {"timedOut", "timing", "timingOut", "stopping", "terminate"}
     /\ asks["execute"] = "EXECUTE"
  \/ pc["execute"] \in {"number", "increment", "send", "join"} /\ asks["execute"] = "SHUTDOWN"
  \/ pc["execute"] = "done" /\ outcome["execute"] = "raised" /\ asks["execute"] # "START"

\* The request is made once, to a worker that has nothing else to answer.
RequestIsOnce ==
  /\ worker = "booting" => toParent = <<>> /\ ~InPipe(toWorker, "EXECUTE") /\ ~Sending
  /\ Sending /\ worker \in Alive => worker = "idle" /\ toParent = <<>> /\ ~InPipe(toWorker, "EXECUTE")
  /\ pc["execute"] \in Exchanging /\ asks["execute"] = "START" /\ toParent # <<>> /\ worker \in Alive =>
       worker = "idle" /\ Len(toParent) = 1 /\ ~InPipe(toWorker, "EXECUTE")
  /\ AtMostOnce(toWorker, "EXECUTE")
  /\ worker = "handling" => ~InPipe(toWorker, "EXECUTE")
  /\ Asked => Waiting /\ connected /\ toParent = <<>>

\* Who closes the pipe has nothing to wait for, and forgets the worker after it.
CloseIsLast ==
  /\ At("cancel") \in Ending \/ Returned("cancel") => worker \notin Alive
  /\ \A t \in Threads : At(t) \in Closed \/ Returned(t) => ~connected
  /\ \A t \in Threads : Returned(t) => ~registered

IInv == TypeOK /\ AsksAgrees /\ StartIsAlone /\ PlaceAgrees /\ RequestIsOnce /\ CloseIsLast

\* execute() will not report a result.
NoResult ==
  /\ sup \in Late
  /\ \A t \in Threads : pc[t] = "store" => update[t].state \in Late
  /\ At("execute") \notin {"idle", "authorized", "ready", "finishResult", "resulting"}
  /\ pc["execute"] \in Exchanging => asks["execute"] # "START"
  /\ outcome["execute"] # "result"

\* The states of the entry: none yet, and those of the table.
LEMMA States ==
  SupervisorStates =
    {"none", "AUTHORIZED", "STARTING", "READY", "RUNNING", "CANCELLING", "TIMING_OUT", "CRASHED",
     "COMPLETED", "TERMINATING", "CLEANUP", "TERMINAL"}
BY DEF SupervisorStates, Allowed

\* What the table says of RUNNING and COMPLETED, and of what follows CANCELLING.
LEMMA Table ==
  /\ "RUNNING" \in Allowed["READY"] /\ \A s \in Late : Allowed[s] \subseteq Late
  /\ \A s \in Late : "RUNNING" \notin Allowed[s] /\ "COMPLETED" \notin Allowed[s]
BY DEF Late, Allowed

\* What a thread or the worker sends is a message of the protocol, and a pipe remains a
\* sequence of messages.
LEMMA AppendTyped ==
  ASSUME NEW q \in Seq(WorkerMessages), NEW type \in MessageTypes, NEW s \in Nat
  PROVE Message(type, s) \in WorkerMessages /\ Append(q, Message(type, s)) \in Seq(WorkerMessages)
<1>1. Message(type, s) \in WorkerMessages
  BY DEF Message, WorkerMessages
<1>. QED  BY <1>1

\* The variables keep their types.
LEMMA TypesStep == ASSUME TypeOK, AsksAgrees, [Next]_vars PROVE TypeOK'
<1> USE DEF TypeOK, Threads, Shared, Places, Outcomes, Alive, MessageTypes, ProcStates, Goto, Answers, Asks,
      entry, pipe, handle, child, locals
<1>1. CASE Authorize
  BY <1>1, States DEF Authorize
<1>2. CASE Start
  BY <1>2, States, AppendTyped DEF Start
<1>3. CASE StartRefused
  BY <1>3, States DEF StartRefused
<1>4. CASE SpawnFails
  BY <1>4, States DEF SpawnFails
<1>5. CASE ReceiveReady
  BY <1>5, States DEF ReceiveReady
<1>6. CASE Run
  BY <1>6, States DEF Run, Transition, Reads
<1>7. CASE Request
  BY <1>7 DEF Request
<1>8. CASE SetRunning
  BY <1>8 DEF SetRunning, SetState
<1>9. CASE ReceiveResult
  BY <1>9 DEF ReceiveResult, SetState
<1>10. CASE Complete
  BY <1>10, States DEF Complete, Transition, Reads
<1>11. CASE Failed
  BY <1>11, States DEF Failed, Reads
<1>12. CASE MarkFailed
  BY <1>12, States DEF MarkFailed, Transition, Reads
<1>13. CASE TimedOut
  BY <1>13 DEF TimedOut, Reads
<1>14. CASE MarkTimingOut
  BY <1>14, States DEF MarkTimingOut, Transition, TransitionOrRaise, Reads
<1>15. CASE TimingOut
  BY <1>15, States DEF TimingOut, Reads
<1>16. CASE StopTimedOut
  BY <1>16, States DEF StopTimedOut, Transition, TransitionOrRaise, Reads
<1>17. CASE MarkCancelling
  BY <1>17, States DEF MarkCancelling, Transition, TransitionOrRaise, Reads
<1>18. CASE RequestCancel
  BY <1>18 DEF RequestCancel
<1>19. CASE SetCancelling
  BY <1>19 DEF SetCancelling, SetState
<1>20. CASE ReceiveCancelled
  BY <1>20 DEF ReceiveCancelled, SetState
<1>21. CASE Cancelled
  BY <1>21, States DEF Cancelled, Transition, TransitionOrRaise, Reads
<1>22. CASE NotCancelled
  BY <1>22, States DEF NotCancelled, Transition, TransitionOrRaise, Reads
<1>23. ASSUME NEW t \in Threads, Store(t) PROVE TypeOK'
  BY <1>23, States DEF Store, NoUpdate
<1>24. ASSUME NEW t \in Threads, TakeNumber(t) PROVE TypeOK'
  BY <1>24 DEF TakeNumber
<1>25. ASSUME NEW t \in Threads, Increment(t) PROVE TypeOK'
  BY <1>25 DEF Increment
<1>26. ASSUME NEW t \in Threads, Send(t) PROVE TypeOK'
  <2> DEFINE sent == Append(toWorker, Message(asks[t], number[t]))
  <2>1. pc' \in [Threads -> Places] /\ outcome' \in [Threads -> Outcomes] /\ proc' \in ProcStates
    BY <1>26 DEF Send, LostPipe, Escapes, Ends, OnError
  <2>2. asks[t] \in MessageTypes
    BY <1>26 DEF AsksAgrees, Send
  <2>3. sent \in Seq(WorkerMessages)
    BY <2>2, AppendTyped
  <2>4. toWorker' \in {toWorker, sent}
    BY <1>26 DEF Send
  <2>5. toWorker' \in Seq(WorkerMessages)
    BY <2>3, <2>4
  <2>. QED  BY <1>26, <2>1, <2>5 DEF Send
<1>27. ASSUME NEW t \in Threads, Poll(t) PROVE TypeOK'
  BY <1>27 DEF Poll
<1>28. ASSUME NEW t \in Threads, Timeout(t) PROVE TypeOK'
  BY <1>28 DEF Timeout, OnError
<1>29. ASSUME NEW t \in Threads, Disconnected(t) PROVE TypeOK'
  BY <1>29 DEF Disconnected, LostPipe, Escapes, Ends, OnError
<1>30. ASSUME NEW t \in Threads, BeginRead(t) PROVE TypeOK'
  BY <1>30 DEF BeginRead
<1>31. ASSUME NEW t \in Threads, ReadEof(t) PROVE TypeOK'
  BY <1>31 DEF ReadEof, OnError
<1>32. ASSUME NEW t \in Threads, Read(t) PROVE TypeOK'
  BY <1>32 DEF Read, Answer
<1>33. ASSUME NEW t \in Threads, ReceiveUnexpected(t) PROVE TypeOK'
  BY <1>33 DEF ReceiveUnexpected, OnError
<1>34. ASSUME NEW t \in Threads, Terminate(t) PROVE TypeOK'
  BY <1>34 DEF Terminate, Terminated
<1>35. ASSUME NEW t \in Threads, Join(t) PROVE TypeOK'
  BY <1>35 DEF Join, Terminated
<1>36. ASSUME NEW t \in Threads, FinishResult(t) PROVE TypeOK'
  BY <1>36 DEF FinishResult, Ends, Reads
<1>37. ASSUME NEW t \in Threads, ReadState(t) PROVE TypeOK'
  BY <1>37 DEF ReadState, Reads
<1>38. ASSUME NEW t \in Threads, Retrying(t) PROVE TypeOK'
  BY <1>38, States DEF Retrying, Transition, Reads
<1>39. ASSUME NEW t \in Threads, Finishing(t) PROVE TypeOK'
  BY <1>39, States DEF Finishing, Transition, Invalid, Raises, Reads
<1>40. ASSUME NEW t \in Threads, BeginClose(t) PROVE TypeOK'
  BY <1>40 DEF BeginClose
<1>41. ASSUME NEW t \in Threads, Close(t) PROVE TypeOK'
  <2>1. outcome' \in [Threads -> Outcomes] /\ pc' \in [Threads -> Places]
    BY <1>41 DEF Close, Misses, Raises
  <2>. QED  BY <1>41, <2>1 DEF Close
<1>42. ASSUME NEW t \in Threads, Cleanup(t) PROVE TypeOK'
  BY <1>42 DEF Cleanup, Reads
<1>43. ASSUME NEW t \in Threads, MarkCleanupComplete(t) PROVE TypeOK'
  BY <1>43, States DEF MarkCleanupComplete, Invalid, Raises, Reads
<1>44. ASSUME NEW t \in Threads, Pop(t) PROVE TypeOK'
  BY <1>44 DEF Pop
<1>45. CASE Cancel
  BY <1>45 DEF Cancel, Reads
<1>46. CASE WorkerBoots
  BY <1>46, AppendTyped DEF WorkerBoots, Reply, Linked, ChildStep
<1>47. CASE WorkerTakes
  <2> DEFINE refusal == Append(toParent, Message("ERROR", 0))
             answer == Append(toParent, Message("ERROR", expected))
  <2>1. refusal \in Seq(WorkerMessages) /\ answer \in Seq(WorkerMessages)
    BY AppendTyped
  <2>2. toParent' \in {toParent, refusal, answer}
    BY <1>47 DEF WorkerTakes, Reply
  <2>3. toParent' \in Seq(WorkerMessages)
    BY <2>1, <2>2
  <2>4. toWorker' \in Seq(WorkerMessages)
    BY <1>47 DEF WorkerTakes
  <2>. QED  BY <1>47, <2>3, <2>4 DEF WorkerTakes, Reply, ChildStep
<1>48. CASE WorkerReadsEof
  BY <1>48 DEF WorkerReadsEof, ChildStep
<1>49. CASE WorkerReturns
  BY <1>49, AppendTyped DEF WorkerReturns, Reply, Linked, ChildStep
<1>50. CASE WorkerRaises
  BY <1>50, AppendTyped DEF WorkerRaises, Reply, Linked, ChildStep
<1>51. CASE WorkerDies
  BY <1>51 DEF WorkerDies, ChildStep
<1>52. CASE UNCHANGED vars
  BY <1>52 DEF vars
<1>. QED
  BY <1>1, <1>2, <1>3, <1>4, <1>5, <1>6, <1>7, <1>8, <1>9, <1>10, <1>11, <1>12, <1>13, <1>14, <1>15, <1>16,
     <1>17, <1>18, <1>19, <1>20, <1>21, <1>22, <1>23, <1>24, <1>25, <1>26, <1>27, <1>28, <1>29, <1>30, <1>31,
     <1>32, <1>33, <1>34, <1>35, <1>36, <1>37, <1>38, <1>39, <1>40, <1>41, <1>42, <1>43, <1>44, <1>45, <1>46,
     <1>47, <1>48, <1>49, <1>50, <1>51, <1>52
  DEF Next, Proceeds, Executes, Cancels, WorkerLoop

\* A thread asks what its place says.
LEMMA AsksStep == ASSUME TypeOK, AsksAgrees, PlaceAgrees, [Next]_vars PROVE AsksAgrees'
<1> USE DEF TypeOK, AsksAgrees, PlaceAgrees, Threads, Exchanging, Goto, Answers, Asks, entry, pipe, handle, child, locals
<1>1. CASE Authorize
  BY <1>1 DEF Authorize
<1>2. CASE Start
  BY <1>2 DEF Start
<1>3. CASE StartRefused
  BY <1>3 DEF StartRefused
<1>4. CASE SpawnFails
  BY <1>4 DEF SpawnFails
<1>5. CASE ReceiveReady
  BY <1>5 DEF ReceiveReady
<1>6. CASE Run
  BY <1>6 DEF Run, Transition, Reads
<1>7. CASE Request
  BY <1>7 DEF Request
<1>8. CASE SetRunning
  BY <1>8 DEF SetRunning, SetState
<1>9. CASE ReceiveResult
  BY <1>9 DEF ReceiveResult, SetState
<1>10. CASE Complete
  BY <1>10 DEF Complete, Transition, Reads
<1>11. CASE Failed
  BY <1>11 DEF Failed, Reads
<1>12. CASE MarkFailed
  BY <1>12 DEF MarkFailed, Transition, Reads
<1>13. CASE TimedOut
  BY <1>13 DEF TimedOut, Reads
<1>14. CASE MarkTimingOut
  BY <1>14 DEF MarkTimingOut, Transition, TransitionOrRaise, Reads
<1>15. CASE TimingOut
  BY <1>15 DEF TimingOut, Reads
<1>16. CASE StopTimedOut
  BY <1>16 DEF StopTimedOut, Transition, TransitionOrRaise, Reads
<1>17. CASE MarkCancelling
  BY <1>17 DEF MarkCancelling, Transition, TransitionOrRaise, Reads
<1>18. CASE RequestCancel
  BY <1>18 DEF RequestCancel
<1>19. CASE SetCancelling
  BY <1>19 DEF SetCancelling, SetState
<1>20. CASE ReceiveCancelled
  BY <1>20 DEF ReceiveCancelled, SetState
<1>21. CASE Cancelled
  BY <1>21 DEF Cancelled, Transition, TransitionOrRaise, Reads
<1>22. CASE NotCancelled
  BY <1>22 DEF NotCancelled, Transition, TransitionOrRaise, Reads
<1>23. ASSUME NEW t \in Threads, Store(t) PROVE AsksAgrees'
  BY <1>23 DEF Store
<1>24. ASSUME NEW t \in Threads, TakeNumber(t) PROVE AsksAgrees'
  BY <1>24 DEF TakeNumber
<1>25. ASSUME NEW t \in Threads, Increment(t) PROVE AsksAgrees'
  BY <1>25 DEF Increment
<1>26. ASSUME NEW t \in Threads, Send(t) PROVE AsksAgrees'
  BY <1>26 DEF Send, LostPipe, Escapes, Ends, OnError
<1>27. ASSUME NEW t \in Threads, Poll(t) PROVE AsksAgrees'
  BY <1>27 DEF Poll
<1>28. ASSUME NEW t \in Threads, Timeout(t) PROVE AsksAgrees'
  BY <1>28 DEF Timeout, OnError
<1>29. ASSUME NEW t \in Threads, Disconnected(t) PROVE AsksAgrees'
  BY <1>29 DEF Disconnected, LostPipe, Escapes, Ends, OnError
<1>30. ASSUME NEW t \in Threads, BeginRead(t) PROVE AsksAgrees'
  BY <1>30 DEF BeginRead
<1>31. ASSUME NEW t \in Threads, ReadEof(t) PROVE AsksAgrees'
  BY <1>31 DEF ReadEof, OnError
<1>32. ASSUME NEW t \in Threads, Read(t) PROVE AsksAgrees'
  BY <1>32 DEF Read, Answer
<1>33. ASSUME NEW t \in Threads, ReceiveUnexpected(t) PROVE AsksAgrees'
  BY <1>33 DEF ReceiveUnexpected, OnError
<1>34. ASSUME NEW t \in Threads, Terminate(t) PROVE AsksAgrees'
  BY <1>34 DEF Terminate, Terminated
<1>35. ASSUME NEW t \in Threads, Join(t) PROVE AsksAgrees'
  BY <1>35 DEF Join, Terminated
<1>36. ASSUME NEW t \in Threads, FinishResult(t) PROVE AsksAgrees'
  BY <1>36 DEF FinishResult, Ends, Reads
<1>37. ASSUME NEW t \in Threads, ReadState(t) PROVE AsksAgrees'
  BY <1>37 DEF ReadState, Reads
<1>38. ASSUME NEW t \in Threads, Retrying(t) PROVE AsksAgrees'
  BY <1>38 DEF Retrying, Transition, Reads
<1>39. ASSUME NEW t \in Threads, Finishing(t) PROVE AsksAgrees'
  BY <1>39 DEF Finishing, Transition, Invalid, Raises, Reads
<1>40. ASSUME NEW t \in Threads, BeginClose(t) PROVE AsksAgrees'
  BY <1>40 DEF BeginClose
<1>41. ASSUME NEW t \in Threads, Close(t) PROVE AsksAgrees'
  BY <1>41 DEF Close, Misses, Raises
<1>42. ASSUME NEW t \in Threads, Cleanup(t) PROVE AsksAgrees'
  BY <1>42 DEF Cleanup, Reads
<1>43. ASSUME NEW t \in Threads, MarkCleanupComplete(t) PROVE AsksAgrees'
  BY <1>43 DEF MarkCleanupComplete, Invalid, Raises, Reads
<1>44. ASSUME NEW t \in Threads, Pop(t) PROVE AsksAgrees'
  BY <1>44 DEF Pop
<1>45. CASE Cancel
  BY <1>45 DEF Cancel, Reads
<1>46. CASE WorkerBoots
  BY <1>46 DEF WorkerBoots, Reply, Linked, ChildStep
<1>47. CASE WorkerTakes
  BY <1>47 DEF WorkerTakes, Reply, Linked, ChildStep
<1>48. CASE WorkerReadsEof
  BY <1>48 DEF WorkerReadsEof, ChildStep
<1>49. CASE WorkerReturns
  BY <1>49 DEF WorkerReturns, Reply, Linked, ChildStep
<1>50. CASE WorkerRaises
  BY <1>50 DEF WorkerRaises, Reply, Linked, ChildStep
<1>51. CASE WorkerDies
  BY <1>51 DEF WorkerDies, ChildStep
<1>52. CASE UNCHANGED vars
  BY <1>52 DEF vars
<1>. QED
  BY <1>1, <1>2, <1>3, <1>4, <1>5, <1>6, <1>7, <1>8, <1>9, <1>10, <1>11, <1>12, <1>13, <1>14, <1>15, <1>16,
     <1>17, <1>18, <1>19, <1>20, <1>21, <1>22, <1>23, <1>24, <1>25, <1>26, <1>27, <1>28, <1>29, <1>30, <1>31,
     <1>32, <1>33, <1>34, <1>35, <1>36, <1>37, <1>38, <1>39, <1>40, <1>41, <1>42, <1>43, <1>44, <1>45, <1>46,
     <1>47, <1>48, <1>49, <1>50, <1>51, <1>52
  DEF Next, Proceeds, Executes, Cancels, WorkerLoop

\* cancel() has to wait for READY.
LEMMA AloneStep == ASSUME TypeOK, AsksAgrees, StartIsAlone, PlaceAgrees, [Next]_vars PROVE StartIsAlone'
<1> USE DEF TypeOK, AsksAgrees, StartIsAlone, PlaceAgrees, Threads, Exchanging, Alive, Goto, Answers, Asks,
      entry, pipe, handle, child, locals
<1>1. CASE Authorize
  BY <1>1 DEF Authorize
<1>2. CASE Start
  BY <1>2 DEF Start
<1>3. CASE StartRefused
  BY <1>3 DEF StartRefused
<1>4. CASE SpawnFails
  BY <1>4 DEF SpawnFails
<1>5. CASE ReceiveReady
  BY <1>5 DEF ReceiveReady
<1>6. CASE Run
  BY <1>6 DEF Run, Transition, Reads
<1>7. CASE Request
  BY <1>7 DEF Request
<1>8. CASE SetRunning
  BY <1>8 DEF SetRunning, SetState
<1>9. CASE ReceiveResult
  BY <1>9 DEF ReceiveResult, SetState
<1>10. CASE Complete
  BY <1>10 DEF Complete, Transition, Reads
<1>11. CASE Failed
  BY <1>11 DEF Failed, Reads
<1>12. CASE MarkFailed
  BY <1>12 DEF MarkFailed, Transition, Reads
<1>13. CASE TimedOut
  BY <1>13 DEF TimedOut, Reads
<1>14. CASE MarkTimingOut
  BY <1>14 DEF MarkTimingOut, Transition, TransitionOrRaise, Reads
<1>15. CASE TimingOut
  BY <1>15 DEF TimingOut, Reads
<1>16. CASE StopTimedOut
  BY <1>16 DEF StopTimedOut, Transition, TransitionOrRaise, Reads
<1>17. CASE MarkCancelling
  BY <1>17 DEF MarkCancelling, Transition, TransitionOrRaise, Reads
<1>18. CASE RequestCancel
  BY <1>18 DEF RequestCancel
<1>19. CASE SetCancelling
  BY <1>19 DEF SetCancelling, SetState
<1>20. CASE ReceiveCancelled
  BY <1>20 DEF ReceiveCancelled, SetState
<1>21. CASE Cancelled
  BY <1>21 DEF Cancelled, Transition, TransitionOrRaise, Reads
<1>22. CASE NotCancelled
  BY <1>22 DEF NotCancelled, Transition, TransitionOrRaise, Reads
<1>23. ASSUME NEW t \in Threads, Store(t) PROVE StartIsAlone'
  BY <1>23 DEF Store
<1>24. ASSUME NEW t \in Threads, TakeNumber(t) PROVE StartIsAlone'
  BY <1>24 DEF TakeNumber
<1>25. ASSUME NEW t \in Threads, Increment(t) PROVE StartIsAlone'
  BY <1>25 DEF Increment
<1>26. ASSUME NEW t \in Threads, Send(t) PROVE StartIsAlone'
  BY <1>26 DEF Send, LostPipe, Escapes, Ends, OnError
<1>27. ASSUME NEW t \in Threads, Poll(t) PROVE StartIsAlone'
  BY <1>27 DEF Poll
<1>28. ASSUME NEW t \in Threads, Timeout(t) PROVE StartIsAlone'
  BY <1>28 DEF Timeout, OnError
<1>29. ASSUME NEW t \in Threads, Disconnected(t) PROVE StartIsAlone'
  BY <1>29 DEF Disconnected, LostPipe, Escapes, Ends, OnError
<1>30. ASSUME NEW t \in Threads, BeginRead(t) PROVE StartIsAlone'
  BY <1>30 DEF BeginRead
<1>31. ASSUME NEW t \in Threads, ReadEof(t) PROVE StartIsAlone'
  BY <1>31 DEF ReadEof, OnError
<1>32. ASSUME NEW t \in Threads, Read(t) PROVE StartIsAlone'
  BY <1>32 DEF Read, Answer
<1>33. ASSUME NEW t \in Threads, ReceiveUnexpected(t) PROVE StartIsAlone'
  BY <1>33 DEF ReceiveUnexpected, OnError
<1>34. ASSUME NEW t \in Threads, Terminate(t) PROVE StartIsAlone'
  BY <1>34 DEF Terminate, Terminated
<1>35. ASSUME NEW t \in Threads, Join(t) PROVE StartIsAlone'
  BY <1>35 DEF Join, Terminated
<1>36. ASSUME NEW t \in Threads, FinishResult(t) PROVE StartIsAlone'
  BY <1>36 DEF FinishResult, Ends, Reads
<1>37. ASSUME NEW t \in Threads, ReadState(t) PROVE StartIsAlone'
  BY <1>37 DEF ReadState, Reads
<1>38. ASSUME NEW t \in Threads, Retrying(t) PROVE StartIsAlone'
  BY <1>38 DEF Retrying, Transition, Reads
<1>39. ASSUME NEW t \in Threads, Finishing(t) PROVE StartIsAlone'
  BY <1>39 DEF Finishing, Transition, Invalid, Raises, Reads
<1>40. ASSUME NEW t \in Threads, BeginClose(t) PROVE StartIsAlone'
  BY <1>40 DEF BeginClose
<1>41. ASSUME NEW t \in Threads, Close(t) PROVE StartIsAlone'
  BY <1>41 DEF Close, Misses, Raises
<1>42. ASSUME NEW t \in Threads, Cleanup(t) PROVE StartIsAlone'
  BY <1>42 DEF Cleanup, Reads
<1>43. ASSUME NEW t \in Threads, MarkCleanupComplete(t) PROVE StartIsAlone'
  BY <1>43 DEF MarkCleanupComplete, Invalid, Raises, Reads
<1>44. ASSUME NEW t \in Threads, Pop(t) PROVE StartIsAlone'
  BY <1>44 DEF Pop
<1>45. CASE Cancel
  BY <1>45 DEF Cancel, Reads
<1>46. CASE WorkerBoots
  BY <1>46 DEF WorkerBoots, Reply, Linked, ChildStep
<1>47. CASE WorkerTakes
  BY <1>47 DEF WorkerTakes, Reply, Linked, ChildStep
<1>48. CASE WorkerReadsEof
  BY <1>48 DEF WorkerReadsEof, ChildStep
<1>49. CASE WorkerReturns
  BY <1>49 DEF WorkerReturns, Reply, Linked, ChildStep
<1>50. CASE WorkerRaises
  BY <1>50 DEF WorkerRaises, Reply, Linked, ChildStep
<1>51. CASE WorkerDies
  BY <1>51 DEF WorkerDies, ChildStep
<1>52. CASE UNCHANGED vars
  BY <1>52 DEF vars
<1>. QED
  BY <1>1, <1>2, <1>3, <1>4, <1>5, <1>6, <1>7, <1>8, <1>9, <1>10, <1>11, <1>12, <1>13, <1>14, <1>15, <1>16,
     <1>17, <1>18, <1>19, <1>20, <1>21, <1>22, <1>23, <1>24, <1>25, <1>26, <1>27, <1>28, <1>29, <1>30, <1>31,
     <1>32, <1>33, <1>34, <1>35, <1>36, <1>37, <1>38, <1>39, <1>40, <1>41, <1>42, <1>43, <1>44, <1>45, <1>46,
     <1>47, <1>48, <1>49, <1>50, <1>51, <1>52
  DEF Next, Proceeds, Executes, Cancels, WorkerLoop

\* What a thread has computed fits its place.
LEMMA PlaceStep == ASSUME TypeOK, AsksAgrees, PlaceAgrees, [Next]_vars PROVE PlaceAgrees'
<1> USE DEF TypeOK, AsksAgrees, PlaceAgrees, Threads, Outcomes, Closed, At, Late, Goto, Answers, Asks,
      entry, pipe, handle, child, locals
<1>1. CASE Authorize
  BY <1>1 DEF Authorize
<1>2. CASE Start
  BY <1>2 DEF Start
<1>3. CASE StartRefused
  BY <1>3 DEF StartRefused
<1>4. CASE SpawnFails
  BY <1>4 DEF SpawnFails
<1>5. CASE ReceiveReady
  BY <1>5 DEF ReceiveReady
<1>6. CASE Run
  BY <1>6 DEF Run, Transition, Reads
<1>7. CASE Request
  BY <1>7 DEF Request
<1>8. CASE SetRunning
  BY <1>8 DEF SetRunning, SetState
<1>9. CASE ReceiveResult
  BY <1>9 DEF ReceiveResult, SetState
<1>10. CASE Complete
  BY <1>10 DEF Complete, Transition, Reads
<1>11. CASE Failed
  BY <1>11 DEF Failed, Reads
<1>12. CASE MarkFailed
  BY <1>12 DEF MarkFailed, Transition, Reads
<1>13. CASE TimedOut
  BY <1>13 DEF TimedOut, Reads
<1>14. CASE MarkTimingOut
  BY <1>14 DEF MarkTimingOut, Transition, TransitionOrRaise, Reads
<1>15. CASE TimingOut
  BY <1>15 DEF TimingOut, Reads
<1>16. CASE StopTimedOut
  BY <1>16 DEF StopTimedOut, Transition, TransitionOrRaise, Reads
<1>17. CASE MarkCancelling
  BY <1>17 DEF MarkCancelling, Transition, TransitionOrRaise, Reads
<1>18. CASE RequestCancel
  BY <1>18 DEF RequestCancel
<1>19. CASE SetCancelling
  BY <1>19 DEF SetCancelling, SetState
<1>20. CASE ReceiveCancelled
  BY <1>20 DEF ReceiveCancelled, SetState
<1>21. CASE Cancelled
  BY <1>21 DEF Cancelled, Transition, TransitionOrRaise, Reads
<1>22. CASE NotCancelled
  BY <1>22 DEF NotCancelled, Transition, TransitionOrRaise, Reads
<1>23. ASSUME NEW t \in Threads, Store(t) PROVE PlaceAgrees'
  BY <1>23 DEF Store
<1>24. ASSUME NEW t \in Threads, TakeNumber(t) PROVE PlaceAgrees'
  BY <1>24 DEF TakeNumber
<1>25. ASSUME NEW t \in Threads, Increment(t) PROVE PlaceAgrees'
  BY <1>25 DEF Increment
<1>26. ASSUME NEW t \in Threads, Send(t) PROVE PlaceAgrees'
  BY <1>26 DEF Send, LostPipe, Escapes, Ends, OnError
<1>27. ASSUME NEW t \in Threads, Poll(t) PROVE PlaceAgrees'
  BY <1>27 DEF Poll
<1>28. ASSUME NEW t \in Threads, Timeout(t) PROVE PlaceAgrees'
  BY <1>28 DEF Timeout, OnError
<1>29. ASSUME NEW t \in Threads, Disconnected(t) PROVE PlaceAgrees'
  BY <1>29 DEF Disconnected, LostPipe, Escapes, Ends, OnError
<1>30. ASSUME NEW t \in Threads, BeginRead(t) PROVE PlaceAgrees'
  BY <1>30 DEF BeginRead
<1>31. ASSUME NEW t \in Threads, ReadEof(t) PROVE PlaceAgrees'
  BY <1>31 DEF ReadEof, OnError
<1>32. ASSUME NEW t \in Threads, Read(t) PROVE PlaceAgrees'
  BY <1>32 DEF Read, Answer
<1>33. ASSUME NEW t \in Threads, ReceiveUnexpected(t) PROVE PlaceAgrees'
  BY <1>33 DEF ReceiveUnexpected, OnError
<1>34. ASSUME NEW t \in Threads, Terminate(t) PROVE PlaceAgrees'
  BY <1>34 DEF Terminate, Terminated
<1>35. ASSUME NEW t \in Threads, Join(t) PROVE PlaceAgrees'
  BY <1>35 DEF Join, Terminated
<1>36. ASSUME NEW t \in Threads, FinishResult(t) PROVE PlaceAgrees'
  BY <1>36 DEF FinishResult, Ends, Reads
<1>37. ASSUME NEW t \in Threads, ReadState(t) PROVE PlaceAgrees'
  BY <1>37 DEF ReadState, Reads
<1>38. ASSUME NEW t \in Threads, Retrying(t) PROVE PlaceAgrees'
  BY <1>38 DEF Retrying, Transition, Reads
<1>39. ASSUME NEW t \in Threads, Finishing(t) PROVE PlaceAgrees'
  BY <1>39 DEF Finishing, Transition, Invalid, Raises, Reads
<1>40. ASSUME NEW t \in Threads, BeginClose(t) PROVE PlaceAgrees'
  BY <1>40 DEF BeginClose
<1>41. ASSUME NEW t \in Threads, Close(t) PROVE PlaceAgrees'
  BY <1>41 DEF Close, Misses, Raises
<1>42. ASSUME NEW t \in Threads, Cleanup(t) PROVE PlaceAgrees'
  BY <1>42 DEF Cleanup, Reads
<1>43. ASSUME NEW t \in Threads, MarkCleanupComplete(t) PROVE PlaceAgrees'
  BY <1>43 DEF MarkCleanupComplete, Invalid, Raises, Reads
<1>44. ASSUME NEW t \in Threads, Pop(t) PROVE PlaceAgrees'
  BY <1>44 DEF Pop
<1>45. CASE Cancel
  BY <1>45 DEF Cancel, Reads
<1>46. CASE WorkerBoots
  BY <1>46 DEF WorkerBoots, Reply, Linked, ChildStep
<1>47. CASE WorkerTakes
  BY <1>47 DEF WorkerTakes, Reply, Linked, ChildStep
<1>48. CASE WorkerReadsEof
  BY <1>48 DEF WorkerReadsEof, ChildStep
<1>49. CASE WorkerReturns
  BY <1>49 DEF WorkerReturns, Reply, Linked, ChildStep
<1>50. CASE WorkerRaises
  BY <1>50 DEF WorkerRaises, Reply, Linked, ChildStep
<1>51. CASE WorkerDies
  BY <1>51 DEF WorkerDies, ChildStep
<1>52. CASE UNCHANGED vars
  BY <1>52 DEF vars
<1>. QED
  BY <1>1, <1>2, <1>3, <1>4, <1>5, <1>6, <1>7, <1>8, <1>9, <1>10, <1>11, <1>12, <1>13, <1>14, <1>15, <1>16,
     <1>17, <1>18, <1>19, <1>20, <1>21, <1>22, <1>23, <1>24, <1>25, <1>26, <1>27, <1>28, <1>29, <1>30, <1>31,
     <1>32, <1>33, <1>34, <1>35, <1>36, <1>37, <1>38, <1>39, <1>40, <1>41, <1>42, <1>43, <1>44, <1>45, <1>46,
     <1>47, <1>48, <1>49, <1>50, <1>51, <1>52
  DEF Next, Proceeds, Executes, Cancels, WorkerLoop


\* What a message added to, or taken from, a pipe changes.
LEMMA Added ==
  ASSUME NEW q \in Seq(WorkerMessages), NEW m \in WorkerMessages, NEW type
  PROVE
    /\ InPipe(Append(q, m), type) <=> InPipe(q, type) \/ m.type = type
    /\ AtMostOnce(q, type) /\ ~(InPipe(q, type) /\ m.type = type) => AtMostOnce(Append(q, m), type)
<1> DEFINE r == Append(q, m)
<1>1. Len(q) \in Nat /\ Len(r) = Len(q) + 1 /\ DOMAIN r = 1..Len(q) + 1 /\ DOMAIN q = 1..Len(q)
  OBVIOUS
<1>2. r[Len(q) + 1] = m /\ \A i \in 1..Len(q) : r[i] = q[i]
  OBVIOUS
<1> HIDE DEF r
<1>3. InPipe(r, type) <=> InPipe(q, type) \/ m.type = type
  BY <1>1, <1>2 DEF InPipe
<1>4. ASSUME AtMostOnce(q, type), ~(InPipe(q, type) /\ m.type = type) PROVE AtMostOnce(r, type)
  BY <1>1, <1>2, <1>4 DEF InPipe, AtMostOnce
<1>. QED  BY <1>3, <1>4 DEF r

\* The rest of a pipe holds what the whole of it did, but for the message at its head.
LEMMA Taken ==
  ASSUME NEW q \in Seq(WorkerMessages), q # <<>>, NEW type
  PROVE
    /\ InPipe(q, type) <=> Head(q).type = type \/ InPipe(Tail(q), type)
    /\ AtMostOnce(q, type) => AtMostOnce(Tail(q), type)
    /\ AtMostOnce(q, type) /\ Head(q).type = type => ~InPipe(Tail(q), type)
<1> DEFINE r == Tail(q)
<1>1. Len(q) \in Nat \ {0} /\ DOMAIN q = 1..Len(q) /\ DOMAIN r = 1..Len(q) - 1 /\ Head(q) = q[1]
  OBVIOUS
<1>2. \A i \in 1..Len(q) - 1 : r[i] = q[i + 1]
  OBVIOUS
<1>3. \A i \in 1..Len(q) : i = 1 \/ (i - 1 \in 1..Len(q) - 1 /\ q[i] = r[i - 1])
  BY <1>1, <1>2
<1>4. \A i \in 1..Len(q) - 1 : i + 1 \in 1..Len(q) /\ i + 1 # 1
  BY <1>1
<1> HIDE DEF r
<1>5. InPipe(q, type) <=> Head(q).type = type \/ InPipe(r, type)
  <2>1. ASSUME InPipe(q, type) PROVE q[1].type = type \/ InPipe(r, type)
    BY <1>1, <1>3, <2>1 DEF InPipe
  <2>2. ASSUME InPipe(r, type) PROVE InPipe(q, type)
    BY <1>1, <1>2, <1>4, <2>2 DEF InPipe
  <2>3. ASSUME q[1].type = type PROVE InPipe(q, type)
    BY <1>1, <2>3 DEF InPipe
  <2>. QED  BY <1>1, <2>1, <2>2, <2>3
<1>6. ASSUME AtMostOnce(q, type) PROVE AtMostOnce(r, type)
  BY <1>1, <1>2, <1>4, <1>6 DEF AtMostOnce
<1>7. ASSUME AtMostOnce(q, type), Head(q).type = type PROVE ~InPipe(r, type)
  BY <1>1, <1>2, <1>4, <1>7 DEF AtMostOnce, InPipe
<1>. QED  BY <1>5, <1>6, <1>7 DEF r

\* A message that is appended or taken, said for each of the types the invariant speaks of.

\* What that means for the request.
LEMMA WorkerPipe ==
  ASSUME TypeOK
  PROVE
    /\ \A type \in MessageTypes, s \in Nat : LET sent == Append(toWorker, Message(type, s)) IN
         /\ InPipe(sent, "EXECUTE") <=> InPipe(toWorker, "EXECUTE") \/ type = "EXECUTE"
         /\ AtMostOnce(toWorker, "EXECUTE") /\ (type # "EXECUTE" \/ ~InPipe(toWorker, "EXECUTE"))
              => AtMostOnce(sent, "EXECUTE")
    /\ toWorker # <<>> =>
         /\ InPipe(toWorker, "EXECUTE") <=>
              Head(toWorker).type = "EXECUTE" \/ InPipe(Tail(toWorker), "EXECUTE")
         /\ AtMostOnce(toWorker, "EXECUTE") => AtMostOnce(Tail(toWorker), "EXECUTE")
         /\ AtMostOnce(toWorker, "EXECUTE") /\ Head(toWorker).type = "EXECUTE"
              => ~InPipe(Tail(toWorker), "EXECUTE")
<1>1. \A type, s : Message(type, s).type = type
  BY DEF Message
<1>2. ASSUME NEW type \in MessageTypes, NEW s \in Nat
      PROVE  LET sent == Append(toWorker, Message(type, s)) IN
         /\ InPipe(sent, "EXECUTE") <=> InPipe(toWorker, "EXECUTE") \/ type = "EXECUTE"
         /\ AtMostOnce(toWorker, "EXECUTE") /\ (type # "EXECUTE" \/ ~InPipe(toWorker, "EXECUTE"))
              => AtMostOnce(sent, "EXECUTE")
  BY <1>1, Added, AppendTyped DEF TypeOK
<1>3. ASSUME toWorker # <<>>
      PROVE  /\ InPipe(toWorker, "EXECUTE") <=>
                  Head(toWorker).type = "EXECUTE" \/ InPipe(Tail(toWorker), "EXECUTE")
             /\ AtMostOnce(toWorker, "EXECUTE") => AtMostOnce(Tail(toWorker), "EXECUTE")
             /\ AtMostOnce(toWorker, "EXECUTE") /\ Head(toWorker).type = "EXECUTE"
                  => ~InPipe(Tail(toWorker), "EXECUTE")
  BY <1>3, Taken DEF TypeOK
<1>. QED  BY <1>2, <1>3

\* The request is sent once, and its answer is the only thing the worker has to say.
LEMMA RequestStep ==
  ASSUME TypeOK, AsksAgrees, StartIsAlone, PlaceAgrees, RequestIsOnce, CloseIsLast, [Next]_vars
  PROVE  RequestIsOnce'
<1> USE DEF TypeOK, AsksAgrees, StartIsAlone, PlaceAgrees, RequestIsOnce, CloseIsLast, Threads, Exchanging,
      Ending, Closed, Alive, At, Asked, Sending, Waiting, Goto, Answers, Asks, entry, pipe, handle, child, locals
<1>1. CASE Authorize
  BY <1>1 DEF Authorize
<1>2. CASE Start
  <2>1. toWorker' = <<[type |-> "START", sequence |-> 0]>>
    BY <1>2 DEF Start, Message
  <2>2. ~InPipe(toWorker', "EXECUTE") /\ AtMostOnce(toWorker', "EXECUTE")
    BY <2>1 DEF InPipe, AtMostOnce
  <2>. QED  BY <1>2, <2>2 DEF Start
<1>3. CASE StartRefused
  BY <1>3 DEF StartRefused
<1>4. CASE SpawnFails
  BY <1>4 DEF SpawnFails
<1>5. CASE ReceiveReady
  BY <1>5 DEF ReceiveReady
<1>6. CASE Run
  BY <1>6 DEF Run, Transition, Reads
<1>7. CASE Request
  BY <1>7 DEF Request
<1>8. CASE SetRunning
  BY <1>8 DEF SetRunning, SetState
<1>9. CASE ReceiveResult
  BY <1>9 DEF ReceiveResult, SetState
<1>10. CASE Complete
  BY <1>10 DEF Complete, Transition, Reads
<1>11. CASE Failed
  BY <1>11 DEF Failed, Reads
<1>12. CASE MarkFailed
  BY <1>12 DEF MarkFailed, Transition, Reads
<1>13. CASE TimedOut
  BY <1>13 DEF TimedOut, Reads
<1>14. CASE MarkTimingOut
  BY <1>14 DEF MarkTimingOut, Transition, TransitionOrRaise, Reads
<1>15. CASE TimingOut
  BY <1>15 DEF TimingOut, Reads
<1>16. CASE StopTimedOut
  BY <1>16 DEF StopTimedOut, Transition, TransitionOrRaise, Reads
<1>17. CASE MarkCancelling
  BY <1>17 DEF MarkCancelling, Transition, TransitionOrRaise, Reads
<1>18. CASE RequestCancel
  BY <1>18 DEF RequestCancel
<1>19. CASE SetCancelling
  BY <1>19 DEF SetCancelling, SetState
<1>20. CASE ReceiveCancelled
  BY <1>20 DEF ReceiveCancelled, SetState
<1>21. CASE Cancelled
  BY <1>21 DEF Cancelled, Transition, TransitionOrRaise, Reads
<1>22. CASE NotCancelled
  BY <1>22 DEF NotCancelled, Transition, TransitionOrRaise, Reads
<1>23. ASSUME NEW t \in Threads, Store(t) PROVE RequestIsOnce'
  BY <1>23 DEF Store
<1>24. ASSUME NEW t \in Threads, TakeNumber(t) PROVE RequestIsOnce'
  BY <1>24 DEF TakeNumber
<1>25. ASSUME NEW t \in Threads, Increment(t) PROVE RequestIsOnce'
  BY <1>25 DEF Increment
<1>26. ASSUME NEW t \in Threads, Send(t) PROVE RequestIsOnce'
  <2> DEFINE sent == Append(toWorker, Message(asks[t], number[t]))
  <2>1. asks[t] \in MessageTypes /\ number[t] \in Nat
    BY <1>26 DEF Send, MessageTypes
  <2>2. /\ InPipe(sent, "EXECUTE") <=> InPipe(toWorker, "EXECUTE") \/ asks[t] = "EXECUTE"
        /\ AtMostOnce(toWorker, "EXECUTE") /\ (asks[t] # "EXECUTE" \/ ~InPipe(toWorker, "EXECUTE"))
              => AtMostOnce(sent, "EXECUTE")
    BY <2>1, WorkerPipe
  <2>3. t = "execute" \/ (t = "cancel" /\ (asks[t] = "CANCEL" \/ asks[t] = "SHUTDOWN"))
    BY <1>26 DEF Send, AsksAgrees
  <2>4. toWorker' = toWorker \/ (toWorker' = sent /\ connected /\ worker \in Alive
           /\ pc'[t] = IF asks[t] = "SHUTDOWN" THEN "join" ELSE "await")
    BY <1>26 DEF Send
  <2> HIDE DEF sent
  <2>. QED  BY <1>26, <2>2, <2>3, <2>4 DEF Send, LostPipe, Escapes, Ends, OnError
<1>27. ASSUME NEW t \in Threads, Poll(t) PROVE RequestIsOnce'
  BY <1>27 DEF Poll
<1>28. ASSUME NEW t \in Threads, Timeout(t) PROVE RequestIsOnce'
  BY <1>28 DEF Timeout, OnError
<1>29. ASSUME NEW t \in Threads, Disconnected(t) PROVE RequestIsOnce'
  BY <1>29 DEF Disconnected, LostPipe, Escapes, Ends, OnError
<1>30. ASSUME NEW t \in Threads, BeginRead(t) PROVE RequestIsOnce'
  BY <1>30 DEF BeginRead
<1>31. ASSUME NEW t \in Threads, ReadEof(t) PROVE RequestIsOnce'
  BY <1>31 DEF ReadEof, OnError
<1>32. ASSUME NEW t \in Threads, Read(t) PROVE RequestIsOnce'
  <2>1. Len(Tail(toParent)) = Len(toParent) - 1 /\ Len(toParent) \in Nat
    BY <1>32 DEF Read
  <2>2. Tail(toParent) # <<>> => Len(Tail(toParent)) # 0
    BY <1>32 DEF Read
  <2>3. toParent' = Tail(toParent) /\ pc[t] = "reading" /\ toParent # <<>>
        /\ pc' \in {[pc EXCEPT ![t] = "accepted"], [pc EXCEPT ![t] = "rejected"]}
    BY <1>32 DEF Read
  <2>. QED  BY <1>32, <2>1, <2>2, <2>3 DEF Read
<1>33. ASSUME NEW t \in Threads, ReceiveUnexpected(t) PROVE RequestIsOnce'
  BY <1>33 DEF ReceiveUnexpected, OnError
<1>34. ASSUME NEW t \in Threads, Terminate(t) PROVE RequestIsOnce'
  BY <1>34 DEF Terminate, Terminated
<1>35. ASSUME NEW t \in Threads, Join(t) PROVE RequestIsOnce'
  BY <1>35 DEF Join, Terminated
<1>36. ASSUME NEW t \in Threads, FinishResult(t) PROVE RequestIsOnce'
  BY <1>36 DEF FinishResult, Ends, Reads
<1>37. ASSUME NEW t \in Threads, ReadState(t) PROVE RequestIsOnce'
  BY <1>37 DEF ReadState, Reads
<1>38. ASSUME NEW t \in Threads, Retrying(t) PROVE RequestIsOnce'
  BY <1>38 DEF Retrying, Transition, Reads
<1>39. ASSUME NEW t \in Threads, Finishing(t) PROVE RequestIsOnce'
  BY <1>39 DEF Finishing, Transition, Invalid, Raises, Reads
<1>40. ASSUME NEW t \in Threads, BeginClose(t) PROVE RequestIsOnce'
  BY <1>40 DEF BeginClose
<1>41. ASSUME NEW t \in Threads, Close(t) PROVE RequestIsOnce'
  BY <1>41 DEF Close, Misses, Raises
<1>42. ASSUME NEW t \in Threads, Cleanup(t) PROVE RequestIsOnce'
  BY <1>42 DEF Cleanup, Reads
<1>43. ASSUME NEW t \in Threads, MarkCleanupComplete(t) PROVE RequestIsOnce'
  BY <1>43 DEF MarkCleanupComplete, Invalid, Raises, Reads
<1>44. ASSUME NEW t \in Threads, Pop(t) PROVE RequestIsOnce'
  BY <1>44 DEF Pop
<1>45. CASE Cancel
  BY <1>45 DEF Cancel, Reads
<1>46. CASE WorkerBoots
  <2>1. Len(Append(toParent, Message("READY", 0))) = Len(toParent) + 1
    OBVIOUS
  <2>. QED  BY <1>46, <2>1, WorkerPipe DEF WorkerBoots, Reply, Linked, ChildStep
<1>47. CASE WorkerTakes
  <2>1. toWorker # <<>> /\ toWorker' = Tail(toWorker) /\ worker = "idle"
    BY <1>47 DEF WorkerTakes
  <2>2. worker' = "handling" => Head(toWorker).type = "EXECUTE" /\ toParent' = toParent
    BY <1>47 DEF WorkerTakes, Reply
  <2>3. worker' \in {"handling", "crashed", "exited"}
    BY <1>47 DEF WorkerTakes, Reply
  <2>. QED  BY <1>47, <2>1, <2>2, <2>3, WorkerPipe DEF ChildStep, WorkerTakes
<1>48. CASE WorkerReadsEof
  BY <1>48 DEF WorkerReadsEof, ChildStep
<1>49. CASE WorkerReturns
  BY <1>49 DEF WorkerReturns, Reply, Linked, ChildStep
<1>50. CASE WorkerRaises
  BY <1>50 DEF WorkerRaises, Reply, Linked, ChildStep
<1>51. CASE WorkerDies
  BY <1>51 DEF WorkerDies, ChildStep
<1>52. CASE UNCHANGED vars
  BY <1>52 DEF vars
<1>. QED
  BY <1>1, <1>2, <1>3, <1>4, <1>5, <1>6, <1>7, <1>8, <1>9, <1>10, <1>11, <1>12, <1>13, <1>14, <1>15, <1>16,
     <1>17, <1>18, <1>19, <1>20, <1>21, <1>22, <1>23, <1>24, <1>25, <1>26, <1>27, <1>28, <1>29, <1>30, <1>31,
     <1>32, <1>33, <1>34, <1>35, <1>36, <1>37, <1>38, <1>39, <1>40, <1>41, <1>42, <1>43, <1>44, <1>45, <1>46,
     <1>47, <1>48, <1>49, <1>50, <1>51, <1>52
  DEF Next, Proceeds, Executes, Cancels, WorkerLoop

\* Nobody closes the pipe, or forgets the worker, before its handler has ended.
LEMMA CloseStep ==
  ASSUME TypeOK, AsksAgrees, StartIsAlone, PlaceAgrees, CloseIsLast, [Next]_vars
  PROVE  CloseIsLast'
<1> USE DEF TypeOK, AsksAgrees, StartIsAlone, PlaceAgrees, CloseIsLast, Threads, Exchanging,
      Ending, Closed, Alive, At, Returned, Goto, Answers, Asks, entry, pipe, handle, child, locals
<1>1. CASE Authorize
  BY <1>1 DEF Authorize
<1>2. CASE Start
  BY <1>2 DEF Start
<1>3. CASE StartRefused
  BY <1>3 DEF StartRefused
<1>4. CASE SpawnFails
  BY <1>4 DEF SpawnFails
<1>5. CASE ReceiveReady
  BY <1>5 DEF ReceiveReady
<1>6. CASE Run
  BY <1>6 DEF Run, Transition, Reads
<1>7. CASE Request
  BY <1>7 DEF Request
<1>8. CASE SetRunning
  BY <1>8 DEF SetRunning, SetState
<1>9. CASE ReceiveResult
  BY <1>9 DEF ReceiveResult, SetState
<1>10. CASE Complete
  BY <1>10 DEF Complete, Transition, Reads
<1>11. CASE Failed
  BY <1>11 DEF Failed, Reads
<1>12. CASE MarkFailed
  BY <1>12 DEF MarkFailed, Transition, Reads
<1>13. CASE TimedOut
  BY <1>13 DEF TimedOut, Reads
<1>14. CASE MarkTimingOut
  BY <1>14 DEF MarkTimingOut, Transition, TransitionOrRaise, Reads
<1>15. CASE TimingOut
  BY <1>15 DEF TimingOut, Reads
<1>16. CASE StopTimedOut
  BY <1>16 DEF StopTimedOut, Transition, TransitionOrRaise, Reads
<1>17. CASE MarkCancelling
  BY <1>17 DEF MarkCancelling, Transition, TransitionOrRaise, Reads
<1>18. CASE RequestCancel
  BY <1>18 DEF RequestCancel
<1>19. CASE SetCancelling
  BY <1>19 DEF SetCancelling, SetState
<1>20. CASE ReceiveCancelled
  BY <1>20 DEF ReceiveCancelled, SetState
<1>21. CASE Cancelled
  BY <1>21 DEF Cancelled, Transition, TransitionOrRaise, Reads
<1>22. CASE NotCancelled
  BY <1>22 DEF NotCancelled, Transition, TransitionOrRaise, Reads
<1>23. ASSUME NEW t \in Threads, Store(t) PROVE CloseIsLast'
  BY <1>23 DEF Store
<1>24. ASSUME NEW t \in Threads, TakeNumber(t) PROVE CloseIsLast'
  BY <1>24 DEF TakeNumber
<1>25. ASSUME NEW t \in Threads, Increment(t) PROVE CloseIsLast'
  BY <1>25 DEF Increment
<1>26. ASSUME NEW t \in Threads, Send(t) PROVE CloseIsLast'
  BY <1>26 DEF Send, LostPipe, Escapes, Ends, OnError
<1>27. ASSUME NEW t \in Threads, Poll(t) PROVE CloseIsLast'
  BY <1>27 DEF Poll
<1>28. ASSUME NEW t \in Threads, Timeout(t) PROVE CloseIsLast'
  BY <1>28 DEF Timeout, OnError
<1>29. ASSUME NEW t \in Threads, Disconnected(t) PROVE CloseIsLast'
  BY <1>29 DEF Disconnected, LostPipe, Escapes, Ends, OnError
<1>30. ASSUME NEW t \in Threads, BeginRead(t) PROVE CloseIsLast'
  BY <1>30 DEF BeginRead
<1>31. ASSUME NEW t \in Threads, ReadEof(t) PROVE CloseIsLast'
  BY <1>31 DEF ReadEof, OnError
<1>32. ASSUME NEW t \in Threads, Read(t) PROVE CloseIsLast'
  BY <1>32 DEF Read, Answer
<1>33. ASSUME NEW t \in Threads, ReceiveUnexpected(t) PROVE CloseIsLast'
  BY <1>33 DEF ReceiveUnexpected, OnError
<1>34. ASSUME NEW t \in Threads, Terminate(t) PROVE CloseIsLast'
  BY <1>34 DEF Terminate, Terminated
<1>35. ASSUME NEW t \in Threads, Join(t) PROVE CloseIsLast'
  BY <1>35 DEF Join, Terminated
<1>36. ASSUME NEW t \in Threads, FinishResult(t) PROVE CloseIsLast'
  BY <1>36 DEF FinishResult, Ends, Reads
<1>37. ASSUME NEW t \in Threads, ReadState(t) PROVE CloseIsLast'
  BY <1>37 DEF ReadState, Reads
<1>38. ASSUME NEW t \in Threads, Retrying(t) PROVE CloseIsLast'
  BY <1>38 DEF Retrying, Transition, Reads
<1>39. ASSUME NEW t \in Threads, Finishing(t) PROVE CloseIsLast'
  BY <1>39 DEF Finishing, Transition, Invalid, Raises, Reads
<1>40. ASSUME NEW t \in Threads, BeginClose(t) PROVE CloseIsLast'
  BY <1>40 DEF BeginClose
<1>41. ASSUME NEW t \in Threads, Close(t) PROVE CloseIsLast'
  BY <1>41 DEF Close, Misses, Raises
<1>42. ASSUME NEW t \in Threads, Cleanup(t) PROVE CloseIsLast'
  BY <1>42 DEF Cleanup, Reads
<1>43. ASSUME NEW t \in Threads, MarkCleanupComplete(t) PROVE CloseIsLast'
  BY <1>43 DEF MarkCleanupComplete, Invalid, Raises, Reads
<1>44. ASSUME NEW t \in Threads, Pop(t) PROVE CloseIsLast'
  BY <1>44 DEF Pop
<1>45. CASE Cancel
  BY <1>45 DEF Cancel, Reads
<1>46. CASE WorkerBoots
  BY <1>46 DEF WorkerBoots, Reply, Linked, ChildStep
<1>47. CASE WorkerTakes
  BY <1>47 DEF WorkerTakes, Reply, Linked, ChildStep
<1>48. CASE WorkerReadsEof
  BY <1>48 DEF WorkerReadsEof, ChildStep
<1>49. CASE WorkerReturns
  BY <1>49 DEF WorkerReturns, Reply, Linked, ChildStep
<1>50. CASE WorkerRaises
  BY <1>50 DEF WorkerRaises, Reply, Linked, ChildStep
<1>51. CASE WorkerDies
  BY <1>51 DEF WorkerDies, ChildStep
<1>52. CASE UNCHANGED vars
  BY <1>52 DEF vars
<1>. QED
  BY <1>1, <1>2, <1>3, <1>4, <1>5, <1>6, <1>7, <1>8, <1>9, <1>10, <1>11, <1>12, <1>13, <1>14, <1>15, <1>16,
     <1>17, <1>18, <1>19, <1>20, <1>21, <1>22, <1>23, <1>24, <1>25, <1>26, <1>27, <1>28, <1>29, <1>30, <1>31,
     <1>32, <1>33, <1>34, <1>35, <1>36, <1>37, <1>38, <1>39, <1>40, <1>41, <1>42, <1>43, <1>44, <1>45, <1>46,
     <1>47, <1>48, <1>49, <1>50, <1>51, <1>52
  DEF Next, Proceeds, Executes, Cancels, WorkerLoop

\* The invariant holds in every state.
LEMMA Invariance == Spec => []IInv
<1>1. Init => IInv
  <2> SUFFICES ASSUME Init PROVE IInv
    OBVIOUS
  <2> USE DEF Init, Threads
  <2>1. TypeOK
    <3>1. update \in [Threads -> [state : SupervisorStates, next : Places]]
      BY States DEF NoUpdate, Places, Shared
    <3>2. pc \in [Threads -> Places] /\ outcome \in [Threads -> Outcomes] /\ number \in [Threads -> Nat]
      BY DEF Places, Shared, Outcomes
    <3>3. toWorker \in Seq(WorkerMessages) /\ toParent \in Seq(WorkerMessages)
      OBVIOUS
    <3>4. asks \in [Threads -> {"none", "START", "EXECUTE", "CANCEL", "SHUTDOWN"}]
      OBVIOUS
    <3>. QED  BY <3>1, <3>2, <3>3, <3>4, States DEF TypeOK, ProcStates
  <2>2. AsksAgrees /\ StartIsAlone /\ PlaceAgrees
    BY DEF AsksAgrees, StartIsAlone, PlaceAgrees, Exchanging, pipe
  <2>3. RequestIsOnce
    BY DEF RequestIsOnce, Sending, Asked, InPipe, AtMostOnce, At, Exchanging, Alive
  <2>4. CloseIsLast
    BY DEF CloseIsLast, At, Ending, Closed, Returned
  <2>. QED  BY <2>1, <2>2, <2>3, <2>4 DEF IInv
<1>2. IInv /\ [Next]_vars => IInv'
  BY TypesStep, AsksStep, AloneStep, PlaceStep, RequestStep, CloseStep DEF IInv
<1>. QED  BY <1>1, <1>2, PTL DEF Spec

\* Every variable keeps its type.
THEOREM TypeCorrect == Spec => []TypeOK
<1>1. IInv => TypeOK
  BY DEF IInv
<1>. QED  BY <1>1, Invariance, PTL

\* Whoever gets an answer, the worker is forgotten, the pipe closed, and no handler runs: nobody
\* closes the pipe before the handler has ended or the worker is gone.
THEOREM ReturnIsClean == Spec => []ReturnedIsClean
<1>1. IInv => ReturnedIsClean
  BY DEF IInv, CloseIsLast, RequestIsOnce, ReturnedIsClean, Returned, Asked, At
<1>. QED  BY <1>1, Invariance, PTL

\* Nothing that may be stored after CANCELLING leads to a result.
LEMMA NoResultStep ==
  ASSUME TypeOK, AsksAgrees, StartIsAlone, PlaceAgrees, NoResult, [Next]_vars
  PROVE  NoResult'
<1> USE Table DEF TypeOK, AsksAgrees, StartIsAlone, PlaceAgrees, NoResult, Threads, Exchanging, Closed, At,
      Goto, Answers, Asks, entry, pipe, handle, child, locals
<1>1. CASE Authorize
  BY <1>1, States DEF Authorize
<1>2. CASE Start
  BY <1>2, States DEF Start
<1>3. CASE StartRefused
  BY <1>3, States DEF StartRefused
<1>4. CASE SpawnFails
  BY <1>4, States DEF SpawnFails
<1>5. CASE ReceiveReady
  BY <1>5, States DEF ReceiveReady
<1>6. CASE Run
  BY <1>6, States DEF Run, Transition, Reads
<1>7. CASE Request
  BY <1>7, States DEF Request
<1>8. CASE SetRunning
  BY <1>8, States DEF SetRunning, SetState
<1>9. CASE ReceiveResult
  BY <1>9, States DEF ReceiveResult, SetState
<1>10. CASE Complete
  BY <1>10, States DEF Complete, Transition, Reads
<1>11. CASE Failed
  BY <1>11, States DEF Failed, Reads
<1>12. CASE MarkFailed
  BY <1>12, States DEF MarkFailed, Transition, Reads
<1>13. CASE TimedOut
  BY <1>13, States DEF TimedOut, Reads
<1>14. CASE MarkTimingOut
  BY <1>14, States DEF MarkTimingOut, Transition, TransitionOrRaise, Reads
<1>15. CASE TimingOut
  BY <1>15, States DEF TimingOut, Reads
<1>16. CASE StopTimedOut
  BY <1>16, States DEF StopTimedOut, Transition, TransitionOrRaise, Reads
<1>17. CASE MarkCancelling
  BY <1>17 DEF MarkCancelling, Transition, TransitionOrRaise, Reads
<1>18. CASE RequestCancel
  BY <1>18 DEF RequestCancel
<1>19. CASE SetCancelling
  BY <1>19 DEF SetCancelling, SetState
<1>20. CASE ReceiveCancelled
  BY <1>20 DEF ReceiveCancelled, SetState
<1>21. CASE Cancelled
  BY <1>21 DEF Cancelled, Transition, TransitionOrRaise, Reads
<1>22. CASE NotCancelled
  BY <1>22 DEF NotCancelled, Transition, TransitionOrRaise, Reads
<1>23. ASSUME NEW t \in Threads, Store(t) PROVE NoResult'
  BY <1>23 DEF Store
<1>24. ASSUME NEW t \in Threads, TakeNumber(t) PROVE NoResult'
  BY <1>24 DEF TakeNumber
<1>25. ASSUME NEW t \in Threads, Increment(t) PROVE NoResult'
  BY <1>25 DEF Increment
<1>26. ASSUME NEW t \in Threads, Send(t) PROVE NoResult'
  BY <1>26 DEF Send, LostPipe, Escapes, Ends, OnError
<1>27. ASSUME NEW t \in Threads, Poll(t) PROVE NoResult'
  BY <1>27 DEF Poll
<1>28. ASSUME NEW t \in Threads, Timeout(t) PROVE NoResult'
  BY <1>28 DEF Timeout, OnError
<1>29. ASSUME NEW t \in Threads, Disconnected(t) PROVE NoResult'
  BY <1>29 DEF Disconnected, LostPipe, Escapes, Ends, OnError
<1>30. ASSUME NEW t \in Threads, BeginRead(t) PROVE NoResult'
  BY <1>30 DEF BeginRead
<1>31. ASSUME NEW t \in Threads, ReadEof(t) PROVE NoResult'
  BY <1>31 DEF ReadEof, OnError
<1>32. ASSUME NEW t \in Threads, Read(t) PROVE NoResult'
  BY <1>32 DEF Read, Answer
<1>33. ASSUME NEW t \in Threads, ReceiveUnexpected(t) PROVE NoResult'
  BY <1>33 DEF ReceiveUnexpected, OnError
<1>34. ASSUME NEW t \in Threads, Terminate(t) PROVE NoResult'
  BY <1>34 DEF Terminate, Terminated
<1>35. ASSUME NEW t \in Threads, Join(t) PROVE NoResult'
  BY <1>35 DEF Join, Terminated
<1>36. ASSUME NEW t \in Threads, FinishResult(t) PROVE NoResult'
  BY <1>36 DEF FinishResult, Ends, Reads
<1>37. ASSUME NEW t \in Threads, ReadState(t) PROVE NoResult'
  BY <1>37 DEF ReadState, Reads
<1>38. ASSUME NEW t \in Threads, Retrying(t) PROVE NoResult'
  BY <1>38 DEF Retrying, Transition, Reads
<1>39. ASSUME NEW t \in Threads, Finishing(t) PROVE NoResult'
  BY <1>39 DEF Finishing, Transition, Invalid, Raises, Reads
<1>40. ASSUME NEW t \in Threads, BeginClose(t) PROVE NoResult'
  BY <1>40 DEF BeginClose
<1>41. ASSUME NEW t \in Threads, Close(t) PROVE NoResult'
  BY <1>41 DEF Close, Misses, Raises
<1>42. ASSUME NEW t \in Threads, Cleanup(t) PROVE NoResult'
  BY <1>42 DEF Cleanup, Reads
<1>43. ASSUME NEW t \in Threads, MarkCleanupComplete(t) PROVE NoResult'
  BY <1>43 DEF Late, MarkCleanupComplete, Invalid, Raises, Reads
<1>44. ASSUME NEW t \in Threads, Pop(t) PROVE NoResult'
  BY <1>44 DEF Pop
<1>45. CASE Cancel
  BY <1>45 DEF Cancel, Reads
<1>46. CASE WorkerBoots
  BY <1>46 DEF WorkerBoots, Reply, Linked, ChildStep
<1>47. CASE WorkerTakes
  BY <1>47 DEF WorkerTakes, Reply, Linked, ChildStep
<1>48. CASE WorkerReadsEof
  BY <1>48 DEF WorkerReadsEof, ChildStep
<1>49. CASE WorkerReturns
  BY <1>49 DEF WorkerReturns, Reply, Linked, ChildStep
<1>50. CASE WorkerRaises
  BY <1>50 DEF WorkerRaises, Reply, Linked, ChildStep
<1>51. CASE WorkerDies
  BY <1>51 DEF WorkerDies, ChildStep
<1>52. CASE UNCHANGED vars
  BY <1>52 DEF vars
<1>. QED
  BY <1>1, <1>2, <1>3, <1>4, <1>5, <1>6, <1>7, <1>8, <1>9, <1>10, <1>11, <1>12, <1>13, <1>14, <1>15, <1>16,
     <1>17, <1>18, <1>19, <1>20, <1>21, <1>22, <1>23, <1>24, <1>25, <1>26, <1>27, <1>28, <1>29, <1>30, <1>31,
     <1>32, <1>33, <1>34, <1>35, <1>36, <1>37, <1>38, <1>39, <1>40, <1>41, <1>42, <1>43, <1>44, <1>45, <1>46,
     <1>47, <1>48, <1>49, <1>50, <1>51, <1>52
  DEF Next, Proceeds, Executes, Cancels, WorkerLoop

\* Once CANCELLING is stored while the request is out, execute() never reports a result,
\* whatever the worker had sent by then and whatever either thread stores later.
THEOREM CancellationHolds == Spec => CancellationSticks
<1>1. ASSUME IInv, sup = "CANCELLING", InRequest PROVE NoResult
  BY <1>1 DEF IInv, TypeOK, StartIsAlone, PlaceAgrees, NoResult, InRequest, Late, Exchanging, Closed, At, Threads
<1>2. ASSUME NoResult, Returned("execute") PROVE outcome["execute"] = "failure"
  BY <1>2 DEF NoResult, Returned
<1>3. IInv /\ NoResult /\ [Next]_vars => NoResult'
  BY NoResultStep DEF IInv
<1>. QED  BY <1>1, <1>2, <1>3, Invariance, PTL DEF Spec, CancellationSticks

=============================================================================
