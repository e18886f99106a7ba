------------------------- MODULE ConversationSessions -------------------------
(***************************************************************************)
(* The conversation sessions of the runtime: ConversationSessionManager     *)
(* over its SQLite store, and RuntimeApplication's operations on it, which  *)
(* the host runs on a pool of threads: create, clear and delete a session,  *)
(* and handle_message, which touches its session three times, with the      *)
(* whole planning in between.  A method of the manager holds the RLock to   *)
(* its end and is one action; a store operation is one transaction, which   *)
(* may fail.                                                                *)
(***************************************************************************)
EXTENDS Naturals, Sequences, FiniteSets

CONSTANTS
  Sessions,          \* session ids (UUIDs: each is created once)
  Messages,          \* the messages the user sends, each at most once
  UserLength,        \* length of the content of each message
  ReplyLength,       \* length of the answer to it; 0 is a blank one
  MaxSessions, MaxMessages, MaxMessageLength, MaxTotalLength,  \* limits of the manager
  MaxFaults,         \* bound: store operations that fail
  MaxRestarts        \* bound: restarts of the host

ASSUME LengthAssumption ==
  UserLength \in [Messages -> Nat] /\ ReplyLength \in [Messages -> Nat]
ASSUME LimitAssumption ==
  /\ {MaxSessions, MaxMessages, MaxMessageLength, MaxTotalLength} \subseteq Nat \ {0}
  /\ MaxFaults \in Nat /\ MaxRestarts \in Nat

Entries == [role : {"user", "assistant"}, message : Messages]

VARIABLES
  active,     \* ids of ConversationSessionManager._sessions
  messages,   \* the messages of each active session
  persisted,  \* rows of the table sessions
  disk,       \* rows of the table messages, by session
  created,    \* ids that have been given out
  deleted,    \* ids that delete_session has deleted
  pc,         \* where the handling of each message is
  session,    \* the session a message is for
  prior,      \* prior_conversation
  wiped,      \* messages whose session was cleared or deleted after they began
  faults, restarts

memory == <<active, messages>>
store == <<persisted, disk>>
handlers == <<pc, session, prior>>
ghosts == <<created, deleted, wiped>>
vars == <<memory, store, handlers, ghosts, faults, restarts>>

Conversations == {c \in Seq(Entries) : Len(c) <= MaxMessages}

Idle == {"new", "done", "failed"}

TypeOK ==
  /\ active \subseteq Sessions
  /\ messages \in [Sessions -> Conversations]
  /\ persisted \subseteq Sessions
  /\ disk \in [Sessions -> Conversations]
  /\ created \subseteq Sessions /\ deleted \subseteq Sessions
  /\ pc \in [Messages -> Idle \cup {"read", "plan", "reply"}]
  /\ session \in [Messages -> Sessions]
  /\ prior \in [Messages -> Conversations]
  /\ wiped \subseteq Messages
  /\ faults \in 0..MaxFaults /\ restarts \in 0..MaxRestarts

Init ==
  /\ active = {} /\ messages = [s \in Sessions |-> <<>>]
  /\ persisted = {} /\ disk = [s \in Sessions |-> <<>>]
  /\ created = {} /\ deleted = {}
  /\ pc = [m \in Messages |-> "new"]
  /\ session \in [Messages -> Sessions]
  /\ prior = [m \in Messages |-> <<>>]
  /\ wiped = {}
  /\ faults = MaxFaults /\ restarts = MaxRestarts

Length(entry) ==
  IF entry.role = "user" THEN UserLength[entry.message] ELSE ReplyLength[entry.message]

TotalLength(conversation) ==
  LET sum[k \in 0..Len(conversation)] ==
        IF k = 0 THEN 0 ELSE sum[k - 1] + Length(conversation[k])
  IN  sum[Len(conversation)]

\* _normalize_message accepts the content.
Normal(entry) == Length(entry) \in 1..MaxMessageLength

\* A variant that lets the length limit be reached before it looks at it.
FitsLate(conversation, entry) ==
  Len(conversation) <= MaxMessages /\ TotalLength(conversation) <= MaxTotalLength

\* The conversation may grow by the entry.
Fits(conversation, entry) ==
  /\ Len(conversation) < MaxMessages
  /\ TotalLength(conversation) + Length(entry) <= MaxTotalLength

-----------------------------------------------------------------------------
(* ConversationSessionManager *)

\* get_session can answer: the session is in memory, or can be hydrated from the store.
CanGet(s) == s \in active \/ (s \in persisted /\ Cardinality(active) < MaxSessions)

Conversation(s) == IF s \in active THEN messages[s] ELSE disk[s]

Hydrated(s) == active \cup {s}

CreateSession(s) ==
  /\ s \notin created /\ Cardinality(active) < MaxSessions
  /\ created' = created \cup {s}
  /\ active' = active \cup {s} /\ messages' = [messages EXCEPT ![s] = <<>>]
  /\ persisted' = persisted \cup {s} /\ disk' = [disk EXCEPT ![s] = <<>>]
  /\ UNCHANGED <<handlers, deleted, wiped, faults, restarts>>

\* A store operation fails: the transaction is rolled back and the manager undoes what it
\* had done in memory, so that nothing but a hydration is left.
StoreFails(s) ==
  /\ faults > 0 /\ faults' = faults - 1
  /\ \/ UNCHANGED memory
     \/ /\ s \in persisted /\ CanGet(s)
        /\ active' = Hydrated(s)
        /\ messages' = [messages EXCEPT ![s] = Conversation(s)]
  /\ UNCHANGED <<store, ghosts, restarts>>

CreateFails(s) ==
  /\ s \notin created
  /\ faults > 0 /\ faults' = faults - 1
  /\ created' = created \cup {s}
  /\ UNCHANGED <<memory, store, handlers, deleted, wiped, restarts>>

\* A variant that keeps the entry in memory when it could not be saved.
AppendUnsaved(s, entry) ==
  /\ Normal(entry) /\ CanGet(s) /\ Fits(Conversation(s), entry)
  /\ active' = Hydrated(s)
  /\ messages' = [messages EXCEPT ![s] = Append(Conversation(s), entry)]
  /\ UNCHANGED <<persisted, created, deleted, wiped, restarts>>
  /\ \/ disk' = [disk EXCEPT ![s] = messages'[s]] /\ UNCHANGED faults
     \/ UNCHANGED disk /\ faults > 0 /\ faults' = faults - 1

AppendMessage(s, entry) ==
  /\ Normal(entry) /\ CanGet(s) /\ Fits(Conversation(s), entry)
  /\ active' = Hydrated(s)
  /\ messages' = [messages EXCEPT ![s] = Append(Conversation(s), entry)]
  /\ disk' = [disk EXCEPT ![s] = messages'[s]]
  /\ UNCHANGED <<persisted, ghosts, faults, restarts>>

\* append_message raises: the entry is refused before the session is looked up, there is
\* no such session, the session (by then hydrated) is full, or the store fails.
AppendRaises(s, entry) ==
  \/ ~Normal(entry) /\ UNCHANGED <<memory, store, ghosts, faults, restarts>>
  \/ Normal(entry) /\ ~CanGet(s) /\ UNCHANGED <<memory, store, ghosts, faults, restarts>>
  \/ /\ Normal(entry) /\ CanGet(s) /\ ~Fits(Conversation(s), entry)
     /\ active' = Hydrated(s)
     /\ messages' = [messages EXCEPT ![s] = Conversation(s)]
     /\ UNCHANGED <<store, ghosts, faults, restarts>>
  \/ Normal(entry) /\ StoreFails(s)

\* Messages of the session that are being handled or have been.
Begun(s) == {m \in Messages : session[m] = s /\ pc[m] # "new"}

ClearSession(s) ==
  /\ CanGet(s)
  /\ active' = Hydrated(s)
  /\ messages' = [messages EXCEPT ![s] = <<>>]
  /\ disk' = [disk EXCEPT ![s] = <<>>]
  /\ wiped' = wiped \cup Begun(s)
  /\ UNCHANGED <<persisted, handlers, created, deleted, faults, restarts>>

\* A variant that deletes an active session from memory only.
DeleteFromMemory(s) ==
  /\ s \in active \cup persisted
  /\ active' = active \ {s} /\ messages' = [messages EXCEPT ![s] = <<>>]
  /\ persisted' = IF s \in active THEN persisted ELSE persisted \ {s}
  /\ deleted' = deleted \cup {s}
  /\ wiped' = wiped \cup Begun(s)
  /\ UNCHANGED <<disk, handlers, created, faults, restarts>>

\* The messages go with the row of their session (ON DELETE CASCADE).
DeleteSession(s) ==
  /\ s \in active \cup persisted
  /\ active' = active \ {s} /\ messages' = [messages EXCEPT ![s] = <<>>]
  /\ persisted' = persisted \ {s} /\ disk' = [disk EXCEPT ![s] = <<>>]
  /\ deleted' = deleted \cup {s}
  /\ wiped' = wiped \cup Begun(s)
  /\ UNCHANGED <<handlers, created, faults, restarts>>

\* The store fails under clear_session or delete_session.
ChangeFails(s) == s \in created /\ StoreFails(s) /\ UNCHANGED handlers
-----------------------------------------------------------------------------
(* RuntimeApplication.handle_message *)

HandlerMoves(m, from, to) ==
  /\ pc[m] = from /\ pc' = [pc EXCEPT ![m] = to]
  /\ UNCHANGED session

User(m) == [role |-> "user", message |-> m]
Reply(m) == [role |-> "assistant", message |-> m]

ReceiveMessage(m) ==
  /\ session[m] \in created
  /\ HandlerMoves(m, "new", "read")
  /\ AppendMessage(session[m], User(m))
  /\ UNCHANGED prior

RefuseMessage(m) ==
  /\ session[m] \in created
  /\ HandlerMoves(m, "new", "failed")
  /\ AppendRaises(session[m], User(m))
  /\ UNCHANGED prior

\* get_conversation, and the last entry, taken for the user's own, is left out.
ReadConversation(m) ==
  LET s == session[m]
      conversation == Conversation(s)
  IN  /\ CanGet(s)
      /\ HandlerMoves(m, "read", "plan")
      /\ active' = Hydrated(s)
      /\ messages' = [messages EXCEPT ![s] = conversation]
      /\ prior' = [prior EXCEPT ![m] =
                     IF conversation = <<>> THEN <<>>
                     ELSE SubSeq(conversation, 1, Len(conversation) - 1)]
      /\ UNCHANGED <<store, ghosts, faults, restarts>>

ReadRaises(m) ==
  /\ HandlerMoves(m, "read", "failed")
  /\ \/ ~CanGet(session[m]) /\ UNCHANGED faults
     \/ session[m] \notin active /\ faults > 0 /\ faults' = faults - 1
  /\ UNCHANGED <<memory, store, prior, ghosts, restarts>>

\* The planning loop ends with a final response.
Plan(m) ==
  /\ HandlerMoves(m, "plan", "reply")
  /\ UNCHANGED <<memory, store, prior, ghosts, faults, restarts>>

\* It raises or stops without one: the user's entry stays where it is.
PlanFails(m) ==
  /\ HandlerMoves(m, "plan", "failed")
  /\ UNCHANGED <<memory, store, prior, ghosts, faults, restarts>>

Answer(m) ==
  /\ HandlerMoves(m, "reply", "done")
  /\ AppendMessage(session[m], Reply(m))
  /\ UNCHANGED prior

AnswerLost(m) ==
  /\ HandlerMoves(m, "reply", "failed")
  /\ AppendRaises(session[m], Reply(m))
  /\ UNCHANGED prior

\* The host goes down with everything in memory and comes up again over the same store.
Restart ==
  /\ restarts > 0 /\ restarts' = restarts - 1
  /\ active' = {} /\ messages' = [s \in Sessions |-> <<>>]
  /\ pc' = [m \in Messages |-> IF pc[m] \in Idle THEN pc[m] ELSE "failed"]
  /\ UNCHANGED <<store, session, prior, ghosts, faults>>
-----------------------------------------------------------------------------

Manage(s) ==
  \/ CreateSession(s) \/ CreateFails(s) \/ ClearSession(s) \/ DeleteSession(s) \/ ChangeFails(s)

Handle(m) ==
  \/ ReceiveMessage(m) \/ RefuseMessage(m) \/ ReadConversation(m) \/ ReadRaises(m)
  \/ Plan(m) \/ PlanFails(m) \/ Answer(m) \/ AnswerLost(m)

Next == (\E s \in Sessions : Manage(s)) \/ (\E m \in Messages : Handle(m)) \/ Restart

Spec == Init /\ [][Next]_vars

-----------------------------------------------------------------------------
(* Properties *)

\* What a session shows from memory is what a restart would find, through failing
\* transactions, hydrations and every interleaving of the operations.
MemoryIsDurable ==
  \A s \in active : s \in persisted /\ messages[s] = disk[s]

\* No session ever exceeds the manager's limits, and none is stored that could not be
\* hydrated again.
LimitsHold ==
  /\ Cardinality(active) <= MaxSessions
  /\ \A s \in persisted :
       /\ Len(disk[s]) <= MaxMessages
       /\ TotalLength(disk[s]) <= MaxTotalLength
       /\ \A i \in DOMAIN disk[s] : Normal(disk[s][i])

\* A deleted session is not brought back by a message that was on its way.
DeletedStaysDeleted == deleted \cap (active \cup persisted) = {}

Position(entry, conversation) == {i \in DOMAIN conversation : conversation[i] = entry}

\* An answered message is in the store, question before answer and each once, unless its
\* session was cleared or deleted since it began.
AnswersAreStored ==
  \A m \in Messages : pc[m] = "done" /\ m \notin wiped =>
    \E i, j \in 1..MaxMessages :
      /\ i < j
      /\ Position(User(m), disk[session[m]]) = {i}
      /\ Position(Reply(m), disk[session[m]]) = {j}

\* runtime_application.py:819: "The current user intent is represented separately by
\* IntelligenceRequest.user_intent", which is why the last entry is left out of the prior
\* conversation.  Another message of the session may have become the last one.
IntentIsSeparate ==
  \A m \in Messages : \A i \in DOMAIN prior[m] : prior[m][i] # User(m)

=============================================================================
