---------------------- MODULE ConversationSessionsProofs ----------------------
(***************************************************************************)
(* Proofs about ConversationSessions, for every set of sessions and         *)
(* messages, whatever their lengths and the limits of the manager.          *)
(***************************************************************************)
EXTENDS ConversationSessions, SequenceTheorems, FiniteSetTheorems, WellFoundedInduction, TLAPS

\* What the manager holds is a part of what is in the store, word for word; both are of
\* sessions that were created and not deleted.
StoreIsKept ==
  /\ active \subseteq persisted /\ persisted \subseteq created /\ deleted \subseteq created
  /\ created \subseteq Sessions
  /\ messages \in [Sessions -> Conversations] /\ disk \in [Sessions -> Conversations]
  /\ \A s \in active : messages[s] = disk[s]
  /\ deleted \cap persisted = {}

\* A message that has begun is for a session that was created.
HandlersAreKnown ==
  /\ pc \in [Messages -> Idle \cup {"read", "plan", "reply"}]
  /\ session \in [Messages -> Sessions]
  /\ prior \in [Messages -> Conversations]
  /\ wiped \subseteq Messages
  /\ faults \in 0..MaxFaults /\ restarts \in 0..MaxRestarts
  /\ \A m \in Messages : pc[m] # "new" => session[m] \in created

Absent(m, c) == \A i \in 1..Len(c) : c[i].message # m

Asked(m, c) ==
  \E i \in 1..Len(c) : c[i] = User(m) /\ \A k \in 1..Len(c) : k # i => c[k].message # m

Answered(m, c) ==
  \E i, j \in 1..Len(c) :
    /\ i < j /\ c[i] = User(m) /\ c[j] = Reply(m)
    /\ \A k \in 1..Len(c) : k # i /\ k # j => c[k].message # m

\* What the store holds of a message, as its place tells.
StoredOfPlace ==
  \A m \in Messages :
    /\ pc[m] = "new" => Absent(m, disk[session[m]])
    /\ pc[m] \in {"read", "plan", "reply"} /\ m \notin wiped => Asked(m, disk[session[m]])
    /\ pc[m] = "done" /\ m \notin wiped => Answered(m, disk[session[m]])

IInv == StoreIsKept /\ HandlersAreKnown /\ StoredOfPlace

\* A conversation that got one more entry.
LEMMA Appending ==
  ASSUME NEW c \in Seq(Entries), NEW entry \in Entries
  PROVE  LET d == Append(c, entry) IN
         /\ d \in Seq(Entries) /\ Len(c) \in Nat /\ Len(d) = Len(c) + 1
         /\ \A i \in 1..Len(c) : d[i] = c[i]
         /\ d[Len(d)] = entry
BY AppendProperties, LenProperties

\* It says of the other messages what it said before.
LEMMA OthersStay ==
  ASSUME NEW c \in Seq(Entries), NEW entry \in Entries, NEW m \in Messages, entry.message # m
  PROVE  /\ Absent(m, c) => Absent(m, Append(c, entry))
         /\ Asked(m, c) => Asked(m, Append(c, entry))
         /\ Answered(m, c) => Answered(m, Append(c, entry))
<1> DEFINE d == Append(c, entry)
<1>1. /\ Len(c) \in Nat /\ Len(d) = Len(c) + 1
      /\ \A i \in 1..Len(c) : d[i] = c[i]
      /\ d[Len(d)] = entry
  BY Appending
<1>2. \A i \in 1..Len(d) : i \in 1..Len(c) \/ i = Len(d)
  BY <1>1
<1>3. \A i \in 1..Len(c) : i \in 1..Len(d)
  BY <1>1
<1> HIDE DEF d
<1>4. Absent(m, c) => Absent(m, d)
  BY <1>1, <1>2 DEF Absent
<1>5. Asked(m, c) => Asked(m, d)
  BY <1>1, <1>2, <1>3 DEF Asked
<1>6. Answered(m, c) => Answered(m, d)
  BY <1>1, <1>2, <1>3 DEF Answered
<1> QED
  BY <1>4, <1>5, <1>6 DEF d

\* The question is there once it has been appended, and the answer after it.
LEMMA OwnArrives ==
  ASSUME NEW c \in Seq(Entries), NEW m \in Messages
  PROVE  /\ Absent(m, c) => Asked(m, Append(c, User(m)))
         /\ Asked(m, c) => Answered(m, Append(c, Reply(m)))
<1>1. User(m) \in Entries /\ Reply(m) \in Entries
  BY DEF User, Reply, Entries
<1>2. ASSUME NEW entry \in Entries, NEW d, d = Append(c, entry)
      PROVE  /\ Len(c) \in Nat /\ Len(d) = Len(c) + 1 /\ d[Len(d)] = entry
             /\ \A i \in 1..Len(c) : d[i] = c[i] /\ i \in 1..Len(d) /\ i < Len(d)
             /\ \A i \in 1..Len(d) : i \in 1..Len(c) \/ i = Len(d)
             /\ Len(d) \in 1..Len(d)
  <2>1. /\ Len(c) \in Nat /\ Len(d) = Len(c) + 1
        /\ \A i \in 1..Len(c) : d[i] = c[i]
        /\ d[Len(d)] = entry
    BY <1>2, Appending
  <2> QED
    BY <2>1
<1>3. ASSUME Absent(m, c), NEW d, d = Append(c, User(m)) PROVE Asked(m, d)
  <2>1. /\ Len(d) \in 1..Len(d) /\ d[Len(d)] = User(m)
        /\ \A k \in 1..Len(d) : k # Len(d) => d[k].message # m
    BY <1>1, <1>2, <1>3 DEF Absent
  <2> QED
    BY <2>1 DEF Asked
<1>4. ASSUME Asked(m, c), NEW d, d = Append(c, Reply(m)) PROVE Answered(m, d)
  <2>1. PICK i \in 1..Len(c) : c[i] = User(m) /\ \A k \in 1..Len(c) : k # i => c[k].message # m
    BY <1>4 DEF Asked
  <2>2. /\ i \in 1..Len(d) /\ Len(d) \in 1..Len(d) /\ i < Len(d)
        /\ d[i] = User(m) /\ d[Len(d)] = Reply(m)
        /\ \A k \in 1..Len(d) : k # i /\ k # Len(d) => d[k].message # m
    BY <1>1, <1>2, <1>4, <2>1
  <2> QED
    BY <2>2 DEF Answered
<1> QED
  BY <1>3, <1>4

\* A session that is looked up, and hydrated if need be, is what the store says.
LEMMA Looking ==
  ASSUME StoreIsKept, NEW s \in Sessions,
         UNCHANGED <<persisted, disk, created, deleted>>,
         \/ UNCHANGED memory
         \/ /\ CanGet(s) /\ active' = Hydrated(s)
            /\ messages' = [messages EXCEPT ![s] = Conversation(s)]
  PROVE  StoreIsKept'
BY DEF StoreIsKept, memory, CanGet, Hydrated, Conversation

\* A store operation that fails leaves the store as it is, and so does an entry refused.
LEMMA Failing ==
  ASSUME StoreIsKept, HandlersAreKnown, NEW s \in Sessions, NEW entry,
         StoreFails(s) \/ AppendRaises(s, entry)
  PROVE  /\ StoreIsKept' /\ UNCHANGED <<disk, created, wiped, restarts>>
         /\ faults' \in 0..MaxFaults
<1>1. /\ UNCHANGED <<disk, created, wiped, restarts, persisted, deleted>>
      /\ \/ UNCHANGED memory
         \/ /\ CanGet(s) /\ active' = Hydrated(s)
            /\ messages' = [messages EXCEPT ![s] = Conversation(s)]
  BY DEF StoreFails, AppendRaises, store, ghosts
<1>2. faults' \in 0..MaxFaults
  BY LimitAssumption DEF StoreFails, AppendRaises, HandlersAreKnown
<1> QED
  BY <1>1, <1>2, Looking

\* An entry that is appended is appended to what the store holds.
LEMMA Storing ==
  ASSUME StoreIsKept, NEW s \in Sessions, NEW entry \in Entries, AppendMessage(s, entry)
  PROVE  /\ StoreIsKept'
         /\ disk' = [disk EXCEPT ![s] = Append(disk[s], entry)]
<1>1. s \in persisted /\ Conversation(s) = disk[s] /\ disk[s] \in Seq(Entries)
  BY DEF StoreIsKept, AppendMessage, CanGet, Conversation, Conversations
<1>2. messages'[s] = Append(disk[s], entry)
  BY <1>1 DEF StoreIsKept, AppendMessage
<1>3. disk' = [disk EXCEPT ![s] = Append(disk[s], entry)]
  BY <1>2 DEF AppendMessage
<1>4. Append(disk[s], entry) \in Conversations
  <2>1. Len(disk[s]) < MaxMessages
    BY <1>1 DEF AppendMessage, Fits
  <2> QED
    BY <1>1, <2>1, Appending, LimitAssumption DEF Conversations
<1>5. active' = active \cup {s} /\ UNCHANGED <<persisted, created, deleted>>
      /\ messages' = [messages EXCEPT ![s] = Append(disk[s], entry)]
  BY <1>1 DEF AppendMessage, Hydrated, ghosts
<1> QED
  BY <1>1, <1>3, <1>4, <1>5 DEF StoreIsKept

\* The initial states satisfy the invariant.
THEOREM InitIInv == Init => IInv
<1> SUFFICES ASSUME Init PROVE IInv
  OBVIOUS
<1>1. <<>> \in Conversations /\ Len(<<>>) = 0
  BY LimitAssumption, EmptySeq DEF Conversations
<1>2. StoreIsKept
  BY <1>1 DEF Init, StoreIsKept
<1>3. HandlersAreKnown
  BY <1>1, LimitAssumption DEF Init, HandlersAreKnown, Idle
<1>4. StoredOfPlace
  BY <1>1 DEF Init, StoredOfPlace, Absent
<1> QED
  BY <1>2, <1>3, <1>4 DEF IInv

\* Every operation on a session keeps it.
LEMMA ManageStep ==
  ASSUME IInv, NEW s \in Sessions, Manage(s) PROVE IInv'
<1>0. <<>> \in Conversations /\ Len(<<>>) = 0
  BY LimitAssumption, EmptySeq DEF Conversations
<1> USE DEF IInv
<1>1. CASE CreateSession(s)
  <2>1. StoreIsKept'
    BY <1>0, <1>1 DEF StoreIsKept, CreateSession
  <2>2. HandlersAreKnown'
    BY <1>1 DEF HandlersAreKnown, CreateSession, handlers
  <2>3. \A m \in Messages : session[m] = s => pc[m] = "new"
    BY <1>1 DEF HandlersAreKnown, CreateSession
  <2>4. disk' = [disk EXCEPT ![s] = <<>>] /\ UNCHANGED <<pc, session, wiped>>
    BY <1>1 DEF CreateSession, handlers
  <2>5. StoredOfPlace'
    BY <1>0, <2>3, <2>4 DEF StoreIsKept, HandlersAreKnown, StoredOfPlace, Absent
  <2> QED
    BY <2>1, <2>2, <2>5
<1>2. CASE CreateFails(s)
  <2>1. StoreIsKept'
    BY <1>2 DEF StoreIsKept, CreateFails, memory, store
  <2>2. HandlersAreKnown'
    BY <1>2, LimitAssumption DEF HandlersAreKnown, CreateFails, handlers
  <2>3. StoredOfPlace'
    BY <1>2 DEF StoredOfPlace, CreateFails, store, handlers
  <2> QED
    BY <2>1, <2>2, <2>3
<1>3. CASE ClearSession(s) \/ DeleteSession(s)
  <2>1. StoreIsKept'
    <3>1. CASE ClearSession(s)
      BY <1>0, <3>1 DEF StoreIsKept, ClearSession, CanGet, Hydrated
    <3>2. CASE DeleteSession(s)
      BY <1>0, <3>2 DEF StoreIsKept, DeleteSession
    <3> QED
      BY <1>3, <3>1, <3>2
  <2>2. /\ disk' = [disk EXCEPT ![s] = <<>>] /\ wiped' = wiped \cup Begun(s)
        /\ UNCHANGED <<pc, session, prior, created, faults, restarts>>
    BY <1>3 DEF ClearSession, DeleteSession, handlers
  <2>3. HandlersAreKnown'
    BY <2>2 DEF HandlersAreKnown, Begun
  <2>4. ASSUME NEW m \in Messages, session[m] = s
        PROVE  Absent(m, disk'[session[m]]) /\ (pc[m] # "new" => m \in wiped')
    BY <1>0, <2>2, <2>4 DEF StoreIsKept, Absent, Begun
  <2>5. ASSUME NEW m \in Messages, session[m] # s
        PROVE  disk'[session[m]] = disk[session[m]] /\ (m \in wiped => m \in wiped')
    BY <2>2, <2>5 DEF StoreIsKept, HandlersAreKnown
  <2>6. StoredOfPlace'
    BY <2>2, <2>4, <2>5 DEF StoredOfPlace
  <2> QED
    BY <2>1, <2>3, <2>6
<1>4. CASE ChangeFails(s)
  <2>1. StoreFails(s) /\ UNCHANGED handlers
    BY <1>4 DEF ChangeFails
  <2>2. StoreIsKept' /\ UNCHANGED <<disk, created, wiped, restarts>> /\ faults' \in 0..MaxFaults
    BY <2>1, Failing
  <2> QED
    BY <2>1, <2>2 DEF handlers, HandlersAreKnown, StoredOfPlace
<1> QED
  BY <1>1, <1>2, <1>3, <1>4 DEF Manage

\* Every step of handle_message keeps it.
LEMMA HandleStep ==
  ASSUME IInv, NEW m \in Messages, Handle(m) PROVE IInv'
<1> USE DEF IInv
<1>0. session[m] \in Sessions
  BY DEF HandlersAreKnown
<1>1. ASSUME NEW to \in Idle \cup {"read", "plan", "reply"}, to # "new",
             pc[m] # "new" \/ session[m] \in created,
             pc' = [pc EXCEPT ![m] = to], UNCHANGED <<session, created, wiped, restarts>>,
             prior' \in [Messages -> Conversations], faults' \in 0..MaxFaults
      PROVE  HandlersAreKnown'
  BY <1>1 DEF HandlersAreKnown
<1>2. ASSUME NEW from, NEW to, HandlerMoves(m, from, to), UNCHANGED <<disk, wiped>>,
             to = "failed" \/ (from \in {"read", "plan"} /\ to \in {"plan", "reply"})
      PROVE  StoredOfPlace'
  BY <1>2 DEF HandlerMoves, HandlersAreKnown, StoredOfPlace
<1>3. ASSUME NEW from, NEW to, NEW entry \in {User(m), Reply(m)},
             HandlerMoves(m, from, to), AppendMessage(session[m], entry),
             \/ from = "new" /\ to = "read" /\ entry = User(m)
             \/ from = "reply" /\ to = "done" /\ entry = Reply(m)
      PROVE  StoreIsKept' /\ StoredOfPlace'
  <2> DEFINE s == session[m]
  <2>1. entry \in Entries /\ entry.message = m
    BY DEF User, Reply, Entries
  <2>2. StoreIsKept' /\ disk' = [disk EXCEPT ![s] = Append(disk[s], entry)]
    BY <1>0, <1>3, <2>1, Storing
  <2>3. \A t \in Sessions : disk[t] \in Seq(Entries)
    BY DEF StoreIsKept, Conversations
  <2>4. /\ pc[m] = from /\ pc' = [pc EXCEPT ![m] = to] /\ UNCHANGED <<session, wiped>>
    BY <1>3 DEF HandlerMoves, AppendMessage, ghosts
  <2>5. disk'[s] = Append(disk[s], entry) /\ \A t \in Sessions : t # s => disk'[t] = disk[t]
    BY <1>0, <2>2 DEF StoreIsKept
  <2>6. ASSUME NEW n \in Messages, n # m
        PROVE  /\ pc'[n] = pc[n] /\ session'[n] = session[n] /\ session[n] \in Sessions
               /\ Absent(n, disk[session[n]]) => Absent(n, disk'[session[n]])
               /\ Asked(n, disk[session[n]]) => Asked(n, disk'[session[n]])
               /\ Answered(n, disk[session[n]]) => Answered(n, disk'[session[n]])
    <3>1. pc'[n] = pc[n] /\ session'[n] = session[n] /\ session[n] \in Sessions
      BY <2>4, <2>6 DEF HandlersAreKnown
    <3>2. CASE session[n] = s
      BY <1>0, <2>1, <2>3, <2>5, <2>6, <3>1, <3>2, OthersStay
    <3>3. CASE session[n] # s
      BY <2>5, <3>1, <3>3
    <3> QED
      BY <3>1, <3>2, <3>3
  <2>7. /\ Absent(m, disk[s]) /\ from = "new" => Asked(m, disk'[s])
        /\ Asked(m, disk[s]) /\ from = "reply" => Answered(m, disk'[s])
    BY <1>0, <1>3, <2>3, <2>5, OwnArrives
  <2>8. pc'[m] = to /\ session'[m] = s
    BY <2>4 DEF HandlersAreKnown
  <2>9. StoredOfPlace'
    <3> SUFFICES ASSUME NEW n \in Messages
                 PROVE  /\ pc'[n] = "new" => Absent(n, disk'[session'[n]])
                        /\ pc'[n] \in {"read", "plan", "reply"} /\ n \notin wiped' => Asked(n, disk'[session'[n]])
                        /\ pc'[n] = "done" /\ n \notin wiped' => Answered(n, disk'[session'[n]])
      BY DEF StoredOfPlace
    <3>1. CASE n = m
      BY <1>3, <2>4, <2>7, <2>8, <3>1 DEF StoredOfPlace
    <3>2. CASE n # m
      BY <2>4, <2>6, <3>2 DEF StoredOfPlace
    <3> QED
      BY <3>1, <3>2
  <2> QED
    BY <2>2, <2>9
<1>4. CASE ReceiveMessage(m)
  <2>1. StoreIsKept' /\ StoredOfPlace'
    BY <1>3, <1>4 DEF ReceiveMessage
  <2>2. HandlersAreKnown'
    BY <1>1, <1>4 DEF ReceiveMessage, HandlerMoves, AppendMessage, ghosts, HandlersAreKnown
  <2> QED
    BY <2>1, <2>2
<1>5. CASE RefuseMessage(m) \/ AnswerLost(m)
  <2>1. PICK entry \in {User(m), Reply(m)}, from \in {"new", "reply"} :
          /\ AppendRaises(session[m], entry) /\ HandlerMoves(m, from, "failed") /\ UNCHANGED prior
          /\ from = "new" => session[m] \in created
    BY <1>5 DEF RefuseMessage, AnswerLost
  <2>2. StoreIsKept' /\ UNCHANGED <<disk, created, wiped, restarts>> /\ faults' \in 0..MaxFaults
    BY <1>0, <2>1, Failing
  <2>3. HandlersAreKnown'
    BY <1>1, <2>1, <2>2 DEF HandlerMoves, HandlersAreKnown, Idle
  <2>4. StoredOfPlace'
    BY <2>1, <2>2 DEF HandlerMoves, HandlersAreKnown, StoredOfPlace
  <2> QED
    BY <2>2, <2>3, <2>4
<1>6. CASE ReadConversation(m)
  <2> DEFINE c == Conversation(session[m])
  <2>1. c \in Conversations
    BY <1>0 DEF StoreIsKept, Conversation
  <2>2. c # <<>> => SubSeq(c, 1, Len(c) - 1) \in Conversations
    <3> SUFFICES ASSUME c # <<>> PROVE SubSeq(c, 1, Len(c) - 1) \in Conversations
      OBVIOUS
    <3>1. c \in Seq(Entries) /\ Len(c) \in Nat /\ 1 <= Len(c) /\ Len(c) <= MaxMessages /\ MaxMessages \in Nat
      BY <2>1, EmptySeq, LenProperties, LimitAssumption DEF Conversations
    <3> HIDE DEF c
    <3> DEFINE n == Len(c) - 1
    <3>2. n \in Nat /\ Len(c) = n + 1
      BY <3>1
    <3>3. \A i \in 1..n : c[i] \in Entries
      BY <3>1, <3>2, ElementOfSeq
    <3> HIDE DEF n
    <3>4. SubSeq(c, 1, n) \in Seq(Entries) /\ Len(SubSeq(c, 1, n)) = n
      <4>1. SubSeq(c, 1, n) \in Seq(Entries) /\ Len(SubSeq(c, 1, n)) = IF 1 <= n THEN n - 1 + 1 ELSE 0
        BY <3>2, <3>3, SubSeqProperties
      <4> QED
        BY <3>2, <4>1
    <3> QED
      BY <3>1, <3>4 DEF n, Conversations
  <2>3. prior' \in [Messages -> Conversations]
    <3>1. <<>> \in Conversations
      BY EmptySeq, LimitAssumption DEF Conversations
    <3>2. prior' = [prior EXCEPT ![m] = IF c = <<>> THEN <<>> ELSE SubSeq(c, 1, Len(c) - 1)]
      BY <1>6 DEF ReadConversation
    <3> HIDE DEF c
    <3> QED
      BY <2>2, <3>1, <3>2 DEF HandlersAreKnown
  <2>4. /\ HandlerMoves(m, "read", "plan") /\ UNCHANGED <<persisted, disk, created, deleted, wiped, faults, restarts>>
        /\ CanGet(session[m]) /\ active' = Hydrated(session[m])
        /\ messages' = [messages EXCEPT ![session[m]] = Conversation(session[m])]
    BY <1>6 DEF ReadConversation, store, ghosts
  <2>5. StoreIsKept'
    BY <1>0, <2>4, Looking
  <2>6. StoredOfPlace'
    BY <1>2, <2>4
  <2>7. HandlersAreKnown'
    BY <1>1, <2>3, <2>4 DEF HandlerMoves, HandlersAreKnown, Idle
  <2> QED
    BY <2>5, <2>6, <2>7
<1>7. CASE ReadRaises(m) \/ Plan(m) \/ PlanFails(m)
  <2>1. PICK from \in {"read", "plan"}, to \in {"reply", "failed"} : HandlerMoves(m, from, to)
    BY <1>7 DEF ReadRaises, Plan, PlanFails
  <2>2. UNCHANGED <<memory, store, prior, ghosts, restarts>> /\ faults' \in 0..MaxFaults
    BY <1>7, LimitAssumption DEF ReadRaises, Plan, PlanFails, HandlersAreKnown
  <2>3. StoreIsKept'
    BY <2>2 DEF StoreIsKept, memory, store, ghosts
  <2>4. StoredOfPlace'
    BY <2>1, <2>2 DEF HandlerMoves, HandlersAreKnown, StoredOfPlace, store, ghosts
  <2>5. HandlersAreKnown'
    BY <1>1, <2>1, <2>2 DEF HandlerMoves, HandlersAreKnown, Idle, ghosts
  <2> QED
    BY <2>3, <2>4, <2>5
<1>8. CASE Answer(m)
  <2>1. StoreIsKept' /\ StoredOfPlace'
    BY <1>3, <1>8 DEF Answer
  <2>2. HandlersAreKnown'
    BY <1>1, <1>8 DEF Answer, HandlerMoves, AppendMessage, ghosts, HandlersAreKnown, Idle
  <2> QED
    BY <2>1, <2>2
<1> QED
  BY <1>4, <1>5, <1>6, <1>7, <1>8 DEF Handle

\* Every step keeps the invariant.
THEOREM StepIInv == IInv /\ [Next]_vars => IInv'
<1> SUFFICES ASSUME IInv, [Next]_vars PROVE IInv'
  OBVIOUS
<1>1. CASE Restart
  <2>1. <<>> \in Conversations
    BY LimitAssumption, EmptySeq DEF Conversations
  <2>2. StoreIsKept'
    BY <1>1, <2>1 DEF IInv, StoreIsKept, Restart, store, ghosts
  <2>3. HandlersAreKnown'
    BY <1>1, LimitAssumption DEF IInv, HandlersAreKnown, Restart, Idle, ghosts
  <2>4. StoredOfPlace'
    BY <1>1 DEF IInv, HandlersAreKnown, StoredOfPlace, Restart, Idle, store, ghosts
  <2> QED
    BY <2>2, <2>3, <2>4 DEF IInv
<1>2. CASE UNCHANGED vars
  BY <1>2 DEF IInv, StoreIsKept, HandlersAreKnown, StoredOfPlace, vars, memory, store, handlers, ghosts
<1> QED
  BY <1>1, <1>2, ManageStep, HandleStep DEF Next

\* So it holds of every state the sessions reach.
THEOREM Invariance == Spec => []IInv
BY InitIInv, StepIInv, PTL DEF Spec

\* What a session shows from memory is what the store holds
\* (conversation_session_manager.py), through every failing transaction and hydration.
THEOREM Durability == Spec => []MemoryIsDurable
<1>1. IInv => MemoryIsDurable
  BY DEF IInv, StoreIsKept, MemoryIsDurable
<1> QED
  BY Invariance, <1>1, PTL

\* A deleted session stays deleted, whatever messages for it were on their way
\* (runtime_application.py).
THEOREM Deletion == Spec => []DeletedStaysDeleted
<1>1. IInv => DeletedStaysDeleted
  BY DEF IInv, StoreIsKept, DeletedStaysDeleted
<1> QED
  BY Invariance, <1>1, PTL

\* An answered message is in the store, question before answer and each once, unless its
\* session was cleared or deleted since.
THEOREM Answers == Spec => []AnswersAreStored
<1>1. IInv => AnswersAreStored
  <2> SUFFICES ASSUME IInv, NEW m \in Messages, pc[m] = "done", m \notin wiped
               PROVE  \E i, j \in 1..MaxMessages :
                        /\ i < j
                        /\ Position(User(m), disk[session[m]]) = {i}
                        /\ Position(Reply(m), disk[session[m]]) = {j}
    BY DEF AnswersAreStored
  <2> DEFINE c == disk[session[m]]
  <2>1. c \in Conversations
    BY DEF IInv, StoreIsKept, HandlersAreKnown
  <2>2. c \in Seq(Entries) /\ Len(c) \in Nat /\ Len(c) <= MaxMessages /\ DOMAIN c = 1..Len(c) /\ MaxMessages \in Nat
    BY <2>1, LenProperties, LimitAssumption DEF Conversations
  <2>3. Answered(m, c)
    BY DEF IInv, StoredOfPlace
  <2> HIDE DEF c
  <2>4. PICK i, j \in 1..Len(c) :
          /\ i < j /\ c[i] = User(m) /\ c[j] = Reply(m)
          /\ \A k \in 1..Len(c) : k # i /\ k # j => c[k].message # m
    BY <2>3 DEF Answered
  <2>5. User(m).message = m /\ Reply(m).message = m /\ User(m) # Reply(m)
    BY DEF User, Reply
  <2>6. Position(User(m), c) = {i} /\ Position(Reply(m), c) = {j}
    BY <2>2, <2>4, <2>5 DEF Position
  <2>7. i \in 1..MaxMessages /\ j \in 1..MaxMessages
    BY <2>2
  <2> QED
    BY <2>4, <2>6, <2>7 DEF c
<1> QED
  BY Invariance, <1>1, PTL

-----------------------------------------------------------------------------
(* The limits: the total length of a conversation, by induction over its entries *)

\* Induction over the natural numbers, stated of a set: the least number outside it would have
\* a predecessor inside it.
LEMMA SetInduction ==
  ASSUME NEW T, 0 \in T, \A n \in Nat : n \in T => n + 1 \in T
  PROVE  \A n \in Nat : n \in T
<1> DEFINE U == Nat \ T
           R == OpToRel(<, Nat)
<1> SUFFICES ASSUME U # {} PROVE FALSE
  OBVIOUS
<1>1. IsWellFoundedOn(R, Nat)
  BY NatLessThanWellFounded
<1>2. U \subseteq Nat
  OBVIOUS
<1> HIDE DEF R
<1>3. PICK x \in U : \A y \in U : <<y, x>> \notin R
  BY <1>1, <1>2, WFMin
<1>4. x # 0 /\ x \in Nat /\ x - 1 \in Nat /\ x - 1 < x
  OBVIOUS
<1>5. <<x - 1, x>> \in R
  BY <1>4 DEF R, OpToRel
<1>6. x - 1 \notin U
  BY <1>3, <1>5
<1>7. x - 1 \in T
  BY <1>4, <1>6
<1>. QED  BY <1>4, <1>7

\* The same up to a bound.
LEMMA BoundedInduction ==
  ASSUME NEW n \in Nat, NEW T, 0 \in T, \A k \in 0..n - 1 : k \in T => k + 1 \in T
  PROVE  \A k \in 0..n : k \in T
<1> DEFINE V == T \cup {k \in Nat : k > n}
<1>1. 0 \in V
  OBVIOUS
<1>2. \A k \in Nat : k \in V => k + 1 \in V
  OBVIOUS
<1>3. \A k \in Nat : k \in V
  <2> HIDE DEF V
  <2>. QED  BY <1>1, <1>2, SetInduction
<1>. QED  BY <1>3

\* f adds up w.
IsSum(f, n, w) == f[0] = 0 /\ \A k \in 1..n : f[k] = f[k - 1] + w[k]

\* Two functions that add up w agree, on natural numbers.
LEMMA SumUnique ==
  ASSUME NEW n \in Nat, NEW w, NEW f, NEW g, IsSum(f, n, w), IsSum(g, n, w),
         \A k \in 1..n : w[k] \in Nat
  PROVE  \A k \in 0..n : f[k] = g[k] /\ f[k] \in Nat
<1> DEFINE T == {k \in 0..n : f[k] = g[k] /\ f[k] \in Nat}
<1>1. 0 \in T
  BY DEF IsSum
<1>2. ASSUME NEW k \in 0..n - 1, k \in T PROVE k + 1 \in T
  <2>1. k + 1 \in 1..n /\ (k + 1) - 1 = k
    OBVIOUS
  <2>. QED  BY <1>2, <2>1 DEF IsSum
<1> HIDE DEF T
<1>3. \A k \in 0..n : k \in T
  BY <1>1, <1>2, BoundedInduction
<1>. QED  BY <1>3 DEF T

\* There is one.
LEMMA SumExists ==
  ASSUME NEW n \in Nat, NEW w, \A k \in 1..n : w[k] \in Nat
  PROVE  \E f \in [0..n -> Nat] : IsSum(f, n, w)
<1> DEFINE T == {k \in 0..n : \E f \in [0..k -> Nat] : IsSum(f, k, w)}
<1>1. 0 \in T
  <2> DEFINE f == [k \in 0..0 |-> 0]
  <2>1. f \in [0..0 -> Nat] /\ IsSum(f, 0, w)
    BY DEF IsSum
  <2>. QED  BY <2>1
<1>2. ASSUME NEW k \in 0..n - 1, k \in T PROVE k + 1 \in T
  <2>1. PICK f \in [0..k -> Nat] : IsSum(f, k, w)
    BY <1>2
  <2> DEFINE g == [i \in 0..k + 1 |-> IF i = k + 1 THEN f[k] + w[k + 1] ELSE f[i]]
  <2>2. k + 1 \in 1..n /\ k \in 0..k
    OBVIOUS
  <2>3. g \in [0..k + 1 -> Nat]
    BY <2>2
  <2>4. g[0] = 0
    BY <2>1 DEF IsSum
  <2>5. ASSUME NEW i \in 1..k + 1 PROVE g[i] = g[i - 1] + w[i]
    <3>1. CASE i = k + 1
      BY <3>1
    <3>2. CASE i \in 1..k
      <4>1. i \in 0..k + 1 /\ i - 1 \in 0..k + 1 /\ i # k + 1 /\ i - 1 # k + 1
        BY <3>2
      <4>. QED  BY <2>1, <3>2, <4>1 DEF IsSum
    <3>. QED  BY <3>1, <3>2
  <2>6. IsSum(g, k + 1, w)
    BY <2>4, <2>5 DEF IsSum
  <2>. QED  BY <2>2, <2>3, <2>6
<1> HIDE DEF T
<1>3. \A k \in 0..n : k \in T
  BY <1>1, <1>2, BoundedInduction
<1>. QED  BY <1>3 DEF T

\* The length of an entry, whoever wrote it.
LEMMA LengthIsNatural == \A entry \in Entries : Length(entry) \in Nat
BY LengthAssumption DEF Entries, Length

\* TotalLength adds up the lengths.
LEMMA TotalIsSum ==
  ASSUME NEW c \in Seq(Entries),
         NEW f, IsSum(f, Len(c), [k \in 1..Len(c) |-> Length(c[k])])
  PROVE  TotalLength(c) = f[Len(c)] /\ TotalLength(c) \in Nat
<1> DEFINE n == Len(c)
           w == [k \in 1..n |-> Length(c[k])]
           Body(sum) == [k \in 0..n |-> IF k = 0 THEN 0 ELSE sum[k - 1] + Length(c[k])]
           total == CHOOSE sum : sum = Body(sum)
<1>1. n \in Nat /\ \A k \in 1..n : w[k] \in Nat /\ w[k] = Length(c[k])
  <2>1. n \in Nat /\ \A k \in 1..n : c[k] \in Entries
    BY ElementOfSeq, LenProperties
  <2>. QED  BY <2>1, LengthIsNatural
<1>2. PICK g \in [0..n -> Nat] : IsSum(g, n, w)
  BY <1>1, SumExists
<1>3. g = Body(g)
  <2>1. \A k \in 0..n : g[k] = Body(g)[k]
    BY <1>1, <1>2 DEF IsSum
  <2>. QED  BY <2>1
<1>4. total = Body(total)
  BY <1>3
<1>5. IsSum(total, n, w)
  <2> HIDE DEF total
  <2>. QED  BY <1>1, <1>4 DEF IsSum
<1>6. TotalLength(c) = total[n]
  BY DEF TotalLength
<1> HIDE DEF total, w
<1>7. IsSum(f, n, w)
  BY DEF w
<1>8. total[n] = f[n] /\ total[n] \in Nat
  BY <1>1, <1>5, <1>7, SumUnique
<1>. QED  BY <1>6, <1>8

\* Nothing has no length.
LEMMA TotalOfNone == TotalLength(<<>>) = 0
<1> DEFINE f == [k \in 0..0 |-> 0]
<1>1. <<>> \in Seq(Entries) /\ Len(<<>>) = 0
  OBVIOUS
<1>2. IsSum(f, 0, [k \in 1..0 |-> Length(<<>>[k])])
  BY DEF IsSum
<1>. QED  BY <1>1, <1>2, TotalIsSum

\* An entry that is appended adds its own length.
LEMMA TotalOfAppended ==
  ASSUME NEW c \in Seq(Entries), NEW entry \in Entries
  PROVE  TotalLength(Append(c, entry)) = TotalLength(c) + Length(entry)
<1> DEFINE n == Len(c)
           d == Append(c, entry)
           w == [k \in 1..n |-> Length(c[k])]
           v == [k \in 1..n + 1 |-> Length(d[k])]
<1>1. /\ d \in Seq(Entries) /\ n \in Nat /\ Len(d) = n + 1 /\ d[n + 1] = entry
      /\ \A k \in 1..n : d[k] = c[k]
  BY Appending
<1>2. \A k \in 1..n : w[k] \in Nat
  BY ElementOfSeq, LengthIsNatural
<1>3. \A k \in 1..n + 1 : v[k] \in Nat
  BY <1>1, ElementOfSeq, LengthIsNatural
<1>4. PICK g \in [0..n + 1 -> Nat] : IsSum(g, n + 1, v)
  <2>1. n + 1 \in Nat
    BY <1>1
  <2> HIDE DEF v
  <2>. QED  BY <1>3, <2>1, SumExists
<1>5. IsSum(g, n, w)
  <2>1. \A k \in 1..n : k \in 1..n + 1 /\ v[k] = w[k]
    BY <1>1
  <2> HIDE DEF v, w
  <2>. QED  BY <1>4, <2>1 DEF IsSum
<1>6. g[n + 1] = g[n] + Length(entry)
  <2>1. n + 1 \in 1..n + 1 /\ (n + 1) - 1 = n /\ v[n + 1] = Length(entry)
    BY <1>1
  <2> HIDE DEF v
  <2>. QED  BY <1>4, <2>1 DEF IsSum
<1>7. TotalLength(c) = g[n]
  BY <1>5, TotalIsSum
<1> HIDE DEF d
<1>8. TotalLength(d) = g[n + 1]
  BY <1>1, <1>4, TotalIsSum
<1>. QED  BY <1>6, <1>7, <1>8 DEF d

\* What the limits say, of every row there may be.
Limited ==
  /\ IsFiniteSet(active) /\ Cardinality(active) <= MaxSessions
  /\ \A s \in Sessions :
       /\ TotalLength(disk[s]) <= MaxTotalLength
       /\ \A i \in 1..Len(disk[s]) : Normal(disk[s][i])

\* A session that is looked up takes a place only if there is one.
LEMMA RoomForOne ==
  ASSUME IsFiniteSet(active), Cardinality(active) <= MaxSessions, NEW s,
         s \in active \/ Cardinality(active) < MaxSessions,
         active' \in {active, active \cup {s}, active \ {s}, {}}
  PROVE  IsFiniteSet(active') /\ Cardinality(active') <= MaxSessions
<1>0. MaxSessions \in Nat
  BY LimitAssumption
<1>1. Cardinality(active) \in Nat
  BY FS_CardinalityType
<1>2. CASE active' \in {active, active \ {s}, {}}
  <2>1. active' \subseteq active
    BY <1>2
  <2>2. IsFiniteSet(active') /\ Cardinality(active') <= Cardinality(active) /\ Cardinality(active') \in Nat
    BY <2>1, FS_Subset, FS_CardinalityType
  <2>. QED  BY <1>0, <1>1, <2>2
<1>3. CASE active' = active \cup {s} /\ s \notin active
  <2>1. IsFiniteSet(active') /\ Cardinality(active') = Cardinality(active) + 1
    BY <1>3, FS_AddElement
  <2>. QED  BY <1>0, <1>1, <1>3, <2>1
<1>4. CASE active' = active \cup {s} /\ s \in active
  BY <1>4
<1>. QED  BY <1>2, <1>3, <1>4

\* A row that is emptied, or that an entry is appended to which fits, is within the limits.
LEMMA RowsStayLimited ==
  ASSUME StoreIsKept, Limited, NEW s \in Sessions, NEW c, disk' = [disk EXCEPT ![s] = c],
         \/ c = <<>>
         \/ \E entry \in Entries :
              c = Append(disk[s], entry) /\ Normal(entry) /\ Fits(disk[s], entry)
  PROVE  \A t \in Sessions :
           /\ TotalLength(disk'[t]) <= MaxTotalLength
           /\ \A i \in 1..Len(disk'[t]) : Normal(disk'[t][i])
<1>1. disk'[s] = c /\ \A t \in Sessions : t # s => disk'[t] = disk[t]
  BY DEF StoreIsKept
<1>2. TotalLength(c) <= MaxTotalLength /\ \A i \in 1..Len(c) : Normal(c[i])
  <2>1. CASE c = <<>>
    BY <2>1, TotalOfNone, EmptySeq, LimitAssumption
  <2>2. ASSUME NEW entry \in Entries, c = Append(disk[s], entry), Normal(entry), Fits(disk[s], entry)
        PROVE  TotalLength(c) <= MaxTotalLength /\ \A i \in 1..Len(c) : Normal(c[i])
    <3>1. disk[s] \in Seq(Entries)
      BY DEF StoreIsKept, Conversations
    <3>2. TotalLength(c) <= MaxTotalLength
      BY <2>2, <3>1, TotalOfAppended DEF Fits
    <3>3. /\ Len(disk[s]) \in Nat /\ Len(c) = Len(disk[s]) + 1 /\ c[Len(c)] = entry
          /\ \A i \in 1..Len(disk[s]) : c[i] = disk[s][i]
      BY <2>2, <3>1, Appending
    <3>4. \A i \in 1..Len(disk[s]) : Normal(disk[s][i])
      BY DEF Limited
    <3>5. \A i \in 1..Len(c) : i \in 1..Len(disk[s]) \/ i = Len(c)
      BY <3>3
    <3>6. \A i \in 1..Len(c) : Normal(c[i])
      BY <2>2, <3>3, <3>4, <3>5
    <3>. QED  BY <3>2, <3>6
  <2>. QED  BY <2>1, <2>2
<1>. QED  BY <1>1, <1>2 DEF Limited

\* An empty store is within the limits.
THEOREM InitLimited == Init => Limited
<1> SUFFICES ASSUME Init PROVE Limited
  OBVIOUS
<1>1. IsFiniteSet({}) /\ Cardinality({}) = 0
  BY FS_EmptySet
<1>2. \A s \in Sessions : disk[s] = <<>>
  BY DEF Init
<1>3. active = {}
  BY DEF Init
<1>. QED  BY <1>1, <1>2, <1>3, TotalOfNone, EmptySeq, LimitAssumption DEF Limited

\* Every step keeps it so.
THEOREM StepLimited == IInv /\ Limited /\ [Next]_vars => Limited'
<1> SUFFICES ASSUME IInv, Limited, [Next]_vars PROVE Limited'
  OBVIOUS
<1>0. StoreIsKept /\ HandlersAreKnown
  BY DEF IInv
\* Steps that change no row.
<1>a. ASSUME NEW s, s \in active \/ Cardinality(active) < MaxSessions,
             active' \in {active, active \cup {s}, active \ {s}, {}}, UNCHANGED disk
      PROVE  Limited'
  BY <1>a, RoomForOne DEF Limited
<1>b. ASSUME NEW s, UNCHANGED <<active, disk>> PROVE Limited'
  BY <1>b DEF Limited
<1>c. ASSUME NEW s, NEW entry, StoreFails(s) \/ AppendRaises(s, entry) PROVE Limited'
  <2>1. /\ UNCHANGED disk
        /\ UNCHANGED active \/ (CanGet(s) /\ active' = active \cup {s})
    BY <1>c DEF StoreFails, AppendRaises, memory, store, Hydrated
  <2>. QED  BY <1>a, <1>b, <2>1 DEF CanGet
\* Steps that change one.
<1>d. ASSUME NEW s \in Sessions, NEW c, disk' = [disk EXCEPT ![s] = c],
             \/ c = <<>>
             \/ \E entry \in Entries :
                  c = Append(disk[s], entry) /\ Normal(entry) /\ Fits(disk[s], entry),
             \/ s \in active \/ Cardinality(active) < MaxSessions
             \/ active' # active \cup {s},
             active' \in {active, active \cup {s}, active \ {s}}
      PROVE  Limited'
  <2>1. IsFiniteSet(active') /\ Cardinality(active') <= MaxSessions
    <3>1. CASE s \in active \/ Cardinality(active) < MaxSessions
      BY <1>d, <3>1, RoomForOne DEF Limited
    <3>2. CASE s \notin active /\ active' # active \cup {s}
      BY <1>d, <3>2 DEF Limited
    <3>. QED  BY <1>d, <3>1, <3>2
  <2>2. \A t \in Sessions :
          /\ TotalLength(disk'[t]) <= MaxTotalLength
          /\ \A i \in 1..Len(disk'[t]) : Normal(disk'[t][i])
    BY <1>0, <1>d, RowsStayLimited
  <2>. QED  BY <2>1, <2>2 DEF Limited
<1>e. ASSUME NEW s \in Sessions, NEW entry \in Entries, AppendMessage(s, entry) PROVE Limited'
  <2>1. s \in persisted /\ Conversation(s) = disk[s]
    BY <1>0, <1>e DEF StoreIsKept, AppendMessage, CanGet, Conversation
  <2>2. disk' = [disk EXCEPT ![s] = Append(disk[s], entry)]
    BY <1>0, <1>e, Storing
  <2>3. Normal(entry) /\ Fits(disk[s], entry) /\ active' = active \cup {s}
        /\ (s \in active \/ Cardinality(active) < MaxSessions)
    BY <1>e, <2>1 DEF AppendMessage, CanGet, Hydrated
  <2>. QED  BY <1>d, <2>2, <2>3
<1>1. ASSUME NEW s \in Sessions, Manage(s) PROVE Limited'
  <2>1. CASE CreateSession(s)
    BY <1>d, <2>1 DEF CreateSession
  <2>2. CASE CreateFails(s)
    BY <1>b, <2>2 DEF CreateFails, memory, store
  <2>3. CASE ClearSession(s)
    BY <1>d, <2>3 DEF ClearSession, CanGet, Hydrated
  <2>4. CASE DeleteSession(s)
    <3>1. /\ disk' = [disk EXCEPT ![s] = <<>>] /\ active' = active \ {s}
          /\ active' # active \cup {s}
      BY <2>4 DEF DeleteSession
    <3>. QED  BY <1>d, <3>1
  <2>5. CASE ChangeFails(s)
    BY <1>c, <2>5 DEF ChangeFails
  <2>. QED  BY <1>1, <2>1, <2>2, <2>3, <2>4, <2>5 DEF Manage
<1>2. ASSUME NEW m \in Messages, Handle(m) PROVE Limited'
  <2>0. session[m] \in Sessions /\ User(m) \in Entries /\ Reply(m) \in Entries
    BY <1>0 DEF HandlersAreKnown, User, Reply, Entries
  <2>1. CASE ReceiveMessage(m) \/ Answer(m)
    BY <1>e, <2>0, <2>1 DEF ReceiveMessage, Answer
  <2>2. CASE RefuseMessage(m) \/ AnswerLost(m)
    BY <1>c, <2>2 DEF RefuseMessage, AnswerLost
  <2>3. CASE ReadConversation(m)
    BY <1>a, <2>3 DEF ReadConversation, CanGet, Hydrated, store
  <2>4. CASE ReadRaises(m) \/ Plan(m) \/ PlanFails(m)
    BY <1>b, <2>4 DEF ReadRaises, Plan, PlanFails, memory, store
  <2>. QED  BY <1>2, <2>1, <2>2, <2>3, <2>4 DEF Handle
<1>3. CASE Restart
  <2>1. active' = {} /\ UNCHANGED disk
    BY <1>3 DEF Restart, store
  <2>2. IsFiniteSet({}) /\ Cardinality({}) = 0
    BY FS_EmptySet
  <2>. QED  BY <2>1, <2>2, LimitAssumption DEF Limited
<1>4. CASE UNCHANGED vars
  BY <1>4, <1>b DEF vars, memory, store
<1>. QED  BY <1>1, <1>2, <1>3, <1>4 DEF Next

\* No session exceeds the limits of the manager, and none is stored that could not be hydrated
\* again (conversation_session_manager.py), for any limits and lengths.
THEOREM Limits == Spec => []LimitsHold
<1>1. IInv /\ Limited => LimitsHold
  BY LenProperties DEF IInv, StoreIsKept, Conversations, Limited, LimitsHold
<1>2. Init => IInv /\ Limited
  BY InitIInv, InitLimited
<1>3. IInv /\ Limited /\ [Next]_vars => (IInv /\ Limited)'
  BY StepIInv, StepLimited
<1>. QED  BY <1>1, <1>2, <1>3, PTL DEF Spec

\* Every variable keeps its type.
THEOREM TypeCorrect == Spec => []TypeOK
<1>1. IInv => TypeOK
  BY DEF IInv, StoreIsKept, HandlersAreKnown, TypeOK
<1>. QED  BY Invariance, <1>1, PTL

=============================================================================
