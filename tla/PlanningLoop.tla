----------------------------- MODULE PlanningLoop -----------------------------
(***************************************************************************)
(* One message on its way through IntelligencePlanningLoop.run: the model  *)
(* is asked with a bounded view of the conversation, proposes a tool call  *)
(* or answers, the call goes through the bridge to TaskOrchestrator.run,   *)
(* and its outcome joins the conversation for the next question.  The      *)
(* model may answer anything, the orchestrator ends a task in any state    *)
(* that TaskOrchestrator allows, and the holder of the token may cancel.   *)
(***************************************************************************)
EXTENDS ContextWindow, TaskStateMachine

CONSTANTS
  MaxIterations,  \* max_iterations, 8 in the program
  Histories,      \* bound: conversations that a message may come with
  ResultSizes     \* bound: lengths of the message that reports an outcome

ASSUME LoopAssumption ==
  /\ MaxIterations \in Nat \ {0}
  /\ Histories \subseteq Seq([role : Roles, size : Nat \ {0}, turn : {0}])
  /\ ResultSizes \subseteq Nat \ {0}

VARIABLES
  pc,            \* "top" of the loop, model "asked", task "executing" or "returned", "done"
  token,         \* the caller's CancellationToken: "absent", "clear", or who requested it
  explicit,      \* _requires_explicit_tool_execution(user_intent)
  index,         \* the iteration the loop is in
  conversation,  \* current_request.conversation
  prompt,        \* the messages of the last ModelRequest
  outcomes,      \* the states of the tasks executed so far
  size,          \* length of the tool message of the last outcome
  stop           \* stop_reason, or the exception that left run

vars == <<pc, token, explicit, index, conversation, prompt, outcomes, size, stop>>

Cancelled == token \in {"user", "timeout"}

StopReasons ==
  {"none", "model_error", "escaped", "CANCELLED", "FINAL_RESPONSE", "TOOL_EXECUTION_REQUIRED",
   "MAX_ITERATIONS", "TOOL_FAILED", "TOOL_DENIED", "TOOL_CANCELLED", "TOOL_TIMED_OUT"}

TypeOK ==
  /\ pc \in {"top", "asked", "executing", "returned", "done"}
  /\ token \in {"absent", "clear", "user", "timeout"}
  /\ explicit \in BOOLEAN
  /\ index \in 0..MaxIterations
  /\ conversation \in Seq(Messages)
  /\ prompt \in Seq(Messages)
  /\ outcomes \in Seq(Terminal)
  /\ size \in ResultSizes \cup {0}
  /\ stop \in StopReasons

\* handle_message bounds the stored conversation before it enters the loop.  It passes no
\* token; other callers of run may.
Init ==
  /\ pc = "top"
  /\ token \in {"absent", "clear"}
  /\ explicit \in BOOLEAN
  /\ index = 0
  /\ \E history \in Histories : conversation = BuildContext(history)
  /\ prompt = <<>> /\ outcomes = <<>> /\ size = 0 /\ stop = "none"

Stop(reason) == pc' = "done" /\ stop' = reason

\* The user's intent is the only user message of turn 1.
Intent == [role |-> "user", size |-> 1, turn |-> 1]

HasToolResult(messages) == \E i \in DOMAIN messages : messages[i].role = "tool"

\* A variant that always asks with the intent last.
ToModelRequestIntentLast(messages) == Append(messages, Intent)

\* The intent comes last, or first once there is a tool result among the messages.
ToModelRequest(messages) ==
  IF HasToolResult(messages) THEN <<Intent>> \o messages ELSE Append(messages, Intent)

-----------------------------------------------------------------------------
(* The head of the loop and the model *)

Exhausted ==
  /\ pc = "top" /\ index = MaxIterations
  /\ Stop("MAX_ITERATIONS")
  /\ UNCHANGED <<token, explicit, index, conversation, prompt, outcomes, size>>

Iterate ==
  /\ pc = "top" /\ index < MaxIterations
  /\ index' = index + 1
  /\ UNCHANGED <<token, explicit, conversation, outcomes, size>>

StopBeforeAsking ==
  /\ Iterate /\ Cancelled
  /\ Stop("CANCELLED")
  /\ UNCHANGED prompt

Refusable(messages) == \E i \in DOMAIN messages : messages[i].role = "other"

Ask ==
  /\ Iterate /\ ~Cancelled
  /\ LET context == BuildContext(conversation)
     IN  /\ ~Refusable(context)
         /\ prompt' = ToModelRequest(context)
  /\ pc' = "asked" /\ UNCHANGED stop

\* A role that the model contract does not know.
PromptRefused ==
  /\ Iterate /\ ~Cancelled
  /\ Refusable(BuildContext(conversation))
  /\ Stop("escaped")
  /\ UNCHANGED prompt

\* An exception leaves run: handle_message reports a "model_error" with its code, whatever
\* else "escaped" is a failure of the request without one.
Raise(from, what) ==
  /\ pc = from
  /\ Stop(what)
  /\ UNCHANGED <<token, explicit, index, conversation, prompt, outcomes, size>>

\* Routing, the provider, a limit, the correlation or the finish reason.
ModelFails == Raise("asked", "model_error")

\* The response is no valid decision, or its proposal claims authority or another task.
DecisionRefused == Raise("asked", "model_error")

LastSucceeded == outcomes # <<>> /\ outcomes[Len(outcomes)] = "SUCCEEDED"

\* A variant that believes an answer to an intent that asked for a tool.
AnswerUnchecked ==
  /\ pc = "asked"
  /\ Stop("FINAL_RESPONSE")
  /\ UNCHANGED <<token, explicit, index, conversation, prompt, outcomes, size>>

Answer ==
  /\ pc = "asked"
  /\ Stop(IF explicit /\ ~LastSucceeded THEN "TOOL_EXECUTION_REQUIRED" ELSE "FINAL_RESPONSE")
  /\ UNCHANGED <<token, explicit, index, conversation, prompt, outcomes, size>>

Propose ==
  /\ pc = "asked" /\ pc' = "executing"
  /\ UNCHANGED <<token, explicit, index, conversation, prompt, outcomes, size, stop>>

-----------------------------------------------------------------------------
(* The task *)

\* What TaskOrchestrator.run may return: a task whose token was requested before it started
\* does not succeed, and only a requested token cancels it.
Possible(state) ==
  /\ state = "SUCCEEDED" => ~Cancelled
  /\ state = "CANCELLED" => token = "user"

\* The watchdog of the task may request the shared token, also as the task settles.
WatchdogMayRequest == token' \in {token} \cup (IF token = "clear" THEN {"timeout"} ELSE {})

TaskSucceeds ==
  /\ pc = "executing" /\ Possible("SUCCEEDED")
  /\ outcomes' = Append(outcomes, "SUCCEEDED")
  /\ size' \in ResultSizes
  /\ WatchdogMayRequest
  /\ pc' = "returned"
  /\ UNCHANGED <<explicit, index, conversation, prompt, stop>>

\* The reason a message stops with when its task ends in another state than SUCCEEDED.
TaskStop ==
  [FAILED |-> "TOOL_FAILED", DENIED |-> "TOOL_DENIED", CANCELLED |-> "TOOL_CANCELLED",
   TIMED_OUT |-> "TOOL_TIMED_OUT"]

\* A variant that asks the model again when a task has failed.
TaskFailsRetried(state) ==
  /\ pc = "executing" /\ Possible(state)
  /\ outcomes' = Append(outcomes, state)
  /\ WatchdogMayRequest
  /\ pc' = "top"
  /\ UNCHANGED <<explicit, index, conversation, prompt, size, stop>>

TaskFails(state) ==
  /\ pc = "executing" /\ Possible(state)
  /\ outcomes' = Append(outcomes, state)
  /\ WatchdogMayRequest
  /\ Stop(TaskStop[state])
  /\ UNCHANGED <<explicit, index, conversation, prompt, size>>

\* The bridge does not know the tool, or its arguments do not satisfy the descriptor.
ProposalRefused == Raise("executing", "escaped")

\* run raises when it cannot record the outcome.
TaskRaises ==
  /\ pc = "executing"
  /\ WatchdogMayRequest
  /\ Stop("escaped")
  /\ UNCHANGED <<explicit, index, conversation, prompt, outcomes, size>>

StopAfterTask ==
  /\ pc = "returned" /\ Cancelled
  /\ Stop("CANCELLED")
  /\ UNCHANGED <<token, explicit, index, conversation, prompt, outcomes, size>>

\* The proposal is a short message; the outcome may be of any length.
Proposal == [role |-> "assistant", size |-> 1, turn |-> index]
ToolMessage == [role |-> "tool", size |-> size, turn |-> index]

RequestAfterTool ==
  /\ pc = "returned" /\ ~Cancelled
  /\ conversation' = conversation \o <<Proposal, ToolMessage>>
  /\ pc' = "top"
  /\ UNCHANGED <<token, explicit, index, prompt, outcomes, size, stop>>

UserCancels ==
  /\ pc # "done" /\ token = "clear" /\ token' = "user"
  /\ UNCHANGED <<pc, explicit, index, conversation, prompt, outcomes, size, stop>>

-----------------------------------------------------------------------------

Next ==
  \/ Exhausted \/ StopBeforeAsking \/ Ask \/ PromptRefused
  \/ ModelFails \/ DecisionRefused \/ Answer \/ Propose \/ ProposalRefused
  \/ TaskSucceeds \/ (\E s \in Terminal \ {"SUCCEEDED"} : TaskFails(s)) \/ TaskRaises
  \/ StopAfterTask \/ RequestAfterTool
  \/ UserCancels

Spec == Init /\ [][Next]_vars

-----------------------------------------------------------------------------
(* Properties *)

\* What the model sees of the conversation: the messages before or after the intent.
Seen == IF prompt[1] = Intent THEN Tail(prompt) ELSE SubSeq(prompt, 1, Len(prompt) - 1)

\* The view the model is given is the newest that fits: messages of the conversation in their
\* order, and a message is among them exactly if those after it that were kept left room for
\* it within both budgets.
NothingMoreFits ==
  pc = "asked" =>
    \E place \in [DOMAIN Seen -> DOMAIN conversation] :
      /\ \A k, l \in DOMAIN Seen : k < l => place[k] < place[l]
      /\ \A k \in DOMAIN Seen : Seen[k] = conversation[place[k]]
      /\ \A i \in DOMAIN conversation : \E older \in 0..Len(Seen) :
           LET newer == SubSeq(Seen, older + 1, Len(Seen)) IN
           /\ \A k \in DOMAIN Seen : place[k] > i <=> k > older
           /\ (\E k \in DOMAIN Seen : place[k] = i) <=>
                /\ Len(newer) < MaxMessages
                /\ Characters(newer) + conversation[i].size <= MaxCharacters

\* However the view is cut, the model is asked with the user's intent exactly once, never
\* after the outcome of a tool, and no outcome comes before the proposal it answers.
PromptIsInOrder ==
  pc = "asked" =>
    /\ Cardinality({i \in DOMAIN prompt : prompt[i] = Intent}) = 1
    /\ \A i, j \in DOMAIN prompt : i < j =>
         /\ prompt[j] = Intent => prompt[i].role # "tool"
         /\ prompt[i].role = "tool" /\ prompt[i].turn > 0 => prompt[j].turn > prompt[i].turn

\* After an outcome other than SUCCEEDED the model is not asked and no tool is run again.
FailureEnds ==
  \A i \in DOMAIN outcomes : outcomes[i] # "SUCCEEDED" => i = Len(outcomes) /\ pc = "done"

\* The reason a message ends with is what happened: an answer comes after successes only,
\* and after at least one when the user asked for a tool; a task that is reported as the
\* cause was the last and ended that way; a cancellation needs a requested token, and
\* exhaustion as many executed tools as there are iterations.
StopAgrees ==
  /\ stop = "FINAL_RESPONSE" => ~explicit \/ LastSucceeded
  /\ stop = "TOOL_EXECUTION_REQUIRED" => outcomes = <<>>
  /\ \A s \in DOMAIN TaskStop : stop = TaskStop[s] => outcomes[Len(outcomes)] = s
  /\ stop = "CANCELLED" => Cancelled
  /\ stop = "MAX_ITERATIONS" => Len(outcomes) = MaxIterations

=============================================================================
