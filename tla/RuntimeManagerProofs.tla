------------------------ MODULE RuntimeManagerProofs ------------------------
(***************************************************************************)
(* Proofs about RuntimeManager, for every set of callers and every bound    *)
(* on requests, hosts and disturbances.                                     *)
(***************************************************************************)
EXTENDS RuntimeManager, SequenceTheorems, TLAPS

\* Before a request is registered there is nothing of it but its id, with its caller.
NotRegistered == {"check", "clear", "start", "start_reader", "register"}

RequestOfPlace ==
  \A c \in Callers : IF pc[c] \in NotRegistered \cup InFlight THEN request[c] \in Requests
                     ELSE request[c] = NoRequest

RequestsAreApart ==
  \A c, d \in Callers : request[c] = request[d] /\ request[c] # NoRequest => c = d

NothingBeforeRegistration ==
  \A c \in Callers : pc[c] \in NotRegistered =>
    request[c] \notin pending /\ channel[request[c]] = "empty" /\ sentTo[request[c]] = 0

\* An entry is in the table until something is sent into its channel, and no longer.
PendingIsOpen == \A r \in pending : channel[r] = "empty"

RegisteredIsAnswerable ==
  \A c \in Callers : pc[c] \in {"write", "wait"} =>
    request[c] \in pending \/ channel[request[c]] # "empty"

\* NoPendingLeak, from the side of the entry.
PendingIsOwned == \A r \in pending : \E c \in Callers : pc[c] \in InFlight /\ request[c] = r

\* Hosts are numbered as they are launched.
LaunchedInOrder ==
  /\ process <= launched
  /\ \A c \in Callers : stopping[c] <= launched
  /\ \A p \in Hosts : alive[p] => p <= launched

\* A caller that stops a host has taken it out of the manager, for good.
StoppedIsTaken ==
  \A c \in Callers :
    /\ pc[c] \in {"start_reader", "mark", "kill"} => stopping[c] # 0
    /\ pc[c] \in {"mark", "drain", "kill"} => stopping[c] = 0 \/ stopping[c] # process

\* Past the drain, no entry is left of a request that was written to the host.
KilledIsForgotten ==
  \A c \in Callers : pc[c] = "kill" => \A r \in pending : sentTo[r] # stopping[c]

IInv ==
  /\ TypeOK
  /\ RequestOfPlace /\ RequestsAreApart /\ NothingBeforeRegistration
  /\ PendingIsOpen /\ RegisteredIsAnswerable /\ PendingIsOwned
  /\ LaunchedInOrder /\ StoppedIsTaken /\ NoOrphanHost /\ KilledIsForgotten

\* No request is without a command, and no host is 0.
LEMMA Zero == NoRequest \notin Requests /\ 0 \notin Hosts
BY BoundsAssumption DEF NoRequest, Requests, Hosts

\* The types, of which the steps of the hosts and readers need what a pipe holds.
LEMMA TypeStep ==
  ASSUME TypeOK, RequestOfPlace, StoppedIsTaken, [Next]_vars PROVE TypeOK'
<1> USE BoundsAssumption DEF TypeOK, InFlight, Hosts, Requests, NoRequest, hostVars, table, callerVars
<1>1. ASSUME NEW c \in Callers, Command(c) PROVE TypeOK'
  BY <1>1 DEF Command, NextId, Used, Goto
<1>2. ASSUME NEW c \in Callers, IsRunning(c) \/ Clear(c) \/ StartResponseReader(c) PROVE TypeOK'
  <2>1. CASE IsRunning(c)
    BY <2>1 DEF IsRunning, Goto
  <2>2. CASE Clear(c)
    BY <2>2 DEF Clear, ClearProcessIfExited, Exited, Goto
  <2>3. CASE StartResponseReader(c)
    <3>1. stopping[c] \in Hosts
      BY <2>3 DEF StartResponseReader, Goto, StoppedIsTaken
    <3> QED
      BY <2>3, <3>1 DEF StartResponseReader, Goto
  <2> QED
    BY <1>2, <2>1, <2>2, <2>3
<1>3. ASSUME NEW c \in Callers, Start(c) PROVE TypeOK'
  BY <1>3 DEF Start, Goto
<1>4. ASSUME NEW c \in Callers, StartFails(c) \/ RefuseArgument(c) \/ ReceiveResponse(c) PROVE TypeOK'
  BY <1>4 DEF StartFails, RefuseArgument, ReceiveResponse, Finish, Goto
<1>5. ASSUME NEW c \in Callers, Register(c) PROVE TypeOK'
  <2>1. request[c] \in Requests
    BY <1>5 DEF Register, Goto, RequestOfPlace, NotRegistered
  <2> QED
    BY <1>5, <2>1 DEF Register, Goto
<1>6. ASSUME NEW c \in Callers, WriteRequest(c) PROVE TypeOK'
  <2>1. request[c] \in Requests /\ process \in Hosts
    BY <1>6 DEF WriteRequest, Running, Goto, RequestOfPlace
  <2>2. inbox' \in [Hosts -> SUBSET Requests] /\ sentTo' \in [Requests -> 0..MaxHosts]
    BY <1>6, <2>1 DEF WriteRequest
  <2> QED
    BY <1>6, <2>2 DEF WriteRequest, Goto
<1>7. ASSUME NEW c \in Callers, WriteBreaks(c) \/ NotRunning(c) \/ ClearAfterWrite(c) \/ RequestTimeout(c) PROVE TypeOK'
  <2>1. CASE WriteBreaks(c)
    BY <2>1 DEF WriteBreaks, Running, Goto
  <2>2. CASE NotRunning(c)
    BY <2>2 DEF NotRunning, Running, Goto
  <2>3. CASE ClearAfterWrite(c)
    BY SMTT(30), <2>3 DEF ClearAfterWrite, ClearProcessIfExited, Exited, Goto
  <2>4. CASE RequestTimeout(c)
    BY <2>4 DEF RequestTimeout, Goto
  <2> QED
    BY <1>7, <2>1, <2>2, <2>3, <2>4
<1>8. ASSUME NEW c \in Callers, GiveUp(c) \/ ReceiveError(c) \/ Forget(c) PROVE TypeOK'
  BY <1>8 DEF GiveUp, ReceiveError, Forget, RemovePendingRequest, Finish, Goto
<1>9. ASSUME NEW c \in Callers, Stop(c) \/ Take(c) \/ MarkShutdown(c) PROVE TypeOK'
  <2>1. CASE Stop(c)
    BY <2>1 DEF Stop, Goto
  <2>2. CASE Take(c)
    BY <2>2 DEF Take, Goto
  <2>3. CASE MarkShutdown(c)
    BY <2>3 DEF MarkShutdown, Goto
  <2> QED
    BY <1>9, <2>1, <2>2, <2>3
<1>10. ASSUME NEW c \in Callers, Drain(c) PROVE TypeOK'
  BY <1>10 DEF Drain, FailAllPending, Goto
<1>11. ASSUME NEW c \in Callers, Kill(c) PROVE TypeOK'
  <2>1. stopping[c] \in Hosts
    BY <1>11 DEF Kill, Goto, StoppedIsTaken
  <2>2. inbox' \in [Hosts -> SUBSET Requests] /\ alive' \in [Hosts -> BOOLEAN]
    BY <1>11, <2>1 DEF Kill
  <2> QED
    BY <1>11, <2>2 DEF Kill, Goto
<1>12. ASSUME NEW p \in Hosts, CheckShutdown(p) \/ EndOfStream(p) \/ Malformed(p) PROVE TypeOK'
  <2>1. outbox[p] # <<>> => Tail(outbox[p]) \in Seq(Noise \cup Responses)
    BY HeadTailProperties
  <2>2. CASE CheckShutdown(p)
    BY <2>1, <2>2 DEF CheckShutdown, ReaderStep
  <2>3. CASE EndOfStream(p)
    BY <2>1, <2>3 DEF EndOfStream, ReaderStep, FailAllPending
  <2>4. CASE Malformed(p)
    BY <2>1, <2>4 DEF Malformed, ReaderStep, FailAllPending
  <2> QED
    BY <1>12, <2>2, <2>3, <2>4
<1>13. ASSUME NEW p \in Hosts, Deliver(p) PROVE TypeOK'
  <2>1. outbox[p] # <<>> /\ Tail(outbox[p]) \in Seq(Noise \cup Responses)
    BY <1>13, HeadTailProperties DEF Deliver
  <2> QED
    BY <1>13, <2>1 DEF Deliver, ReaderStep
<1>14. ASSUME NEW p \in Hosts, HostActs(p) PROVE TypeOK'
  <2>1. ASSUME NEW line \in Noise \cup Responses PROVE Append(outbox[p], line) \in Seq(Noise \cup Responses)
    BY AppendProperties
  <2>2. CASE PrintNoise(p)
    BY <2>1, <2>2 DEF PrintNoise, HostStep, Noise
  <2>3. CASE Crash(p)
    BY <2>3 DEF Crash, HostStep
  <2>4. ASSUME NEW r \in Requests, Respond(p, r) \/ RespondInvalid(p, r) PROVE TypeOK'
    <3>1. [kind |-> "valid", request |-> r] \in Responses /\ [kind |-> "invalid", request |-> r] \in Responses
      BY DEF Responses
    <3>2. inbox' \in [Hosts -> SUBSET Requests]
      <4>1. inbox' = [inbox EXCEPT ![p] = inbox[p] \ {r}]
        BY <2>4 DEF Respond, RespondInvalid
      <4>2. inbox[p] \ {r} \in SUBSET Requests
        OBVIOUS
      <4> QED
        BY <4>1, <4>2
    <3> DEFINE valid == [kind |-> "valid", request |-> r]
               invalid == [kind |-> "invalid", request |-> r]
    <3>4. PICK line \in {valid, invalid} : outbox' = [outbox EXCEPT ![p] = Append(outbox[p], line)]
      BY <2>4 DEF Respond, RespondInvalid
    <3>5. line \in Noise \cup Responses
      BY <3>1
    <3>6. outbox' \in [Hosts -> Seq(Noise \cup Responses)]
      <4> HIDE DEF valid, invalid
      <4>1. Append(outbox[p], line) \in Seq(Noise \cup Responses)
        BY <2>1, <3>5
      <4> QED
        BY <3>4, <4>1
    <3>7. disturbances' \in 0..MaxDisturbances /\ alive' = alive
      BY <2>4 DEF Respond, RespondInvalid
    <3> QED
      BY <2>4, <3>2, <3>7, <3>6 DEF Respond, RespondInvalid, HostStep
  <2> QED
    BY <1>14, <2>2, <2>3, <2>4 DEF HostActs
<1>15. CASE UNCHANGED vars
  BY <1>15 DEF vars
<1> QED
  BY <1>1, <1>2, <1>3, <1>4, <1>5, <1>6, <1>7, <1>8, <1>9, <1>10, <1>11, <1>12, <1>13, <1>14, <1>15 DEF Next, Proceed, Read

\* The requests, with their entries in the table and their channels.
Table ==
  /\ RequestOfPlace /\ RequestsAreApart /\ NothingBeforeRegistration
  /\ PendingIsOpen /\ RegisteredIsAnswerable /\ PendingIsOwned

\* No step of a caller or a reader confuses two requests, or lets one go without an answer.
LEMMA TableStep ==
  ASSUME TypeOK, Table, [Next]_vars PROVE Table'
<1>a. /\ pc \in [Callers -> {"idle", "take", "mark", "drain", "kill"} \cup NotRegistered \cup InFlight]
      /\ request \in [Callers -> Requests \cup {NoRequest}]
      /\ channel \in [Requests -> {"empty", "response", "error"}]
      /\ sentTo \in [Requests -> 0..MaxHosts] /\ pending \subseteq Requests
  BY DEF TypeOK, NotRegistered
<1> USE Zero, <1>a
<1> USE DEF Table, RequestOfPlace, RequestsAreApart, NothingBeforeRegistration, PendingIsOpen,
            RegisteredIsAnswerable, PendingIsOwned, NotRegistered, InFlight, hostVars, table, callerVars
<1>1. ASSUME NEW c \in Callers, Command(c) PROVE Table'
  BY <1>1 DEF Command, NextId, Used, Goto
<1>2. ASSUME NEW c \in Callers, IsRunning(c) \/ Clear(c) \/ StartResponseReader(c) PROVE Table'
  BY <1>2 DEF IsRunning, Clear, ClearProcessIfExited, Exited, StartResponseReader, Goto
<1>3. ASSUME NEW c \in Callers, Start(c) PROVE Table'
  BY <1>3 DEF Start, Goto
<1>4. ASSUME NEW c \in Callers, StartFails(c) \/ RefuseArgument(c) \/ ReceiveResponse(c) PROVE Table'
  BY <1>4 DEF StartFails, RefuseArgument, ReceiveResponse, Finish, Goto
<1>5. ASSUME NEW c \in Callers, Register(c) PROVE Table'
  BY <1>5 DEF Register, Goto
<1>6. ASSUME NEW c \in Callers, WriteRequest(c) PROVE Table'
  BY <1>6 DEF WriteRequest, Running, Goto
<1>7. ASSUME NEW c \in Callers, WriteBreaks(c) \/ NotRunning(c) \/ ClearAfterWrite(c) \/ RequestTimeout(c) PROVE Table'
  BY <1>7 DEF WriteBreaks, NotRunning, Running, ClearAfterWrite, ClearProcessIfExited, Exited, RequestTimeout, Goto
<1>8. ASSUME NEW c \in Callers, GiveUp(c) \/ ReceiveError(c) \/ Forget(c) PROVE Table'
  BY <1>8 DEF GiveUp, ReceiveError, Forget, RemovePendingRequest, Finish, Goto
<1>9. ASSUME NEW c \in Callers, Stop(c) \/ Take(c) \/ MarkShutdown(c) PROVE Table'
  BY <1>9 DEF Stop, Take, MarkShutdown, Goto
<1>10. ASSUME NEW c \in Callers, Drain(c) PROVE Table'
  BY <1>10 DEF Drain, FailAllPending, Goto
<1>11. ASSUME NEW c \in Callers, Kill(c) PROVE Table'
  BY <1>11 DEF Kill, Goto
<1>12. ASSUME NEW p \in Hosts, CheckShutdown(p) \/ EndOfStream(p) \/ Malformed(p) PROVE Table'
  BY <1>12 DEF CheckShutdown, EndOfStream, Malformed, ReaderStep, FailAllPending
<1>13. ASSUME NEW p \in Hosts, Deliver(p) PROVE Table'
  BY <1>13 DEF Deliver, ReaderStep
<1>14. ASSUME NEW p \in Hosts, HostActs(p) PROVE Table'
  <2>1. UNCHANGED <<pc, request, pending, channel, sentTo>>
    BY <1>14 DEF HostActs, Respond, RespondInvalid, PrintNoise, Crash, HostStep
  <2> QED
    BY <2>1
<1>15. CASE UNCHANGED vars
  BY <1>15 DEF vars
<1> QED
  BY <1>1, <1>2, <1>3, <1>4, <1>5, <1>6, <1>7, <1>8, <1>9, <1>10, <1>11, <1>12, <1>13, <1>14, <1>15 DEF Next, Proceed, Read

\* The hosts, and who holds them.
HostsAreHeld == LaunchedInOrder /\ StoppedIsTaken /\ NoOrphanHost

\* No step loses a live host, and none gives a host that was taken back to the manager.
LEMMA HostsStep ==
  ASSUME TypeOK, HostsAreHeld, [Next]_vars PROVE HostsAreHeld'
<1>a. /\ pc \in [Callers -> {"idle", "take", "mark", "drain", "kill"} \cup NotRegistered \cup InFlight]
      /\ stopping \in [Callers -> 0..MaxHosts] /\ alive \in [Hosts -> BOOLEAN]
      /\ process \in 0..MaxHosts /\ launched \in 0..MaxHosts
  BY DEF TypeOK, NotRegistered
<1> USE BoundsAssumption, <1>a
<1> USE DEF HostsAreHeld, LaunchedInOrder, StoppedIsTaken, NoOrphanHost, NotRegistered, InFlight, Hosts,
            hostVars, table, callerVars
<1>1. ASSUME NEW c \in Callers, Command(c) PROVE HostsAreHeld'
  BY <1>1 DEF Command, NextId, Used, Goto
<1>2. ASSUME NEW c \in Callers, IsRunning(c) \/ Clear(c) \/ StartResponseReader(c) PROVE HostsAreHeld'
  BY SMTT(30), <1>2 DEF IsRunning, Clear, ClearProcessIfExited, Exited, StartResponseReader, Goto
<1>3. ASSUME NEW c \in Callers, Start(c) PROVE HostsAreHeld'
  BY <1>3 DEF Start, Goto
<1>4. ASSUME NEW c \in Callers, StartFails(c) \/ RefuseArgument(c) \/ ReceiveResponse(c) PROVE HostsAreHeld'
  <2>1. CASE StartFails(c)
    BY <2>1 DEF StartFails, Finish, Goto
  <2>2. CASE RefuseArgument(c)
    BY <2>2 DEF RefuseArgument, Finish, Goto
  <2>3. CASE ReceiveResponse(c)
    BY <2>3 DEF ReceiveResponse, Finish, Goto
  <2> QED
    BY <1>4, <2>1, <2>2, <2>3
<1>5. ASSUME NEW c \in Callers, Register(c) PROVE HostsAreHeld'
  BY <1>5 DEF Register, Goto
<1>6. ASSUME NEW c \in Callers, WriteRequest(c) PROVE HostsAreHeld'
  BY <1>6 DEF WriteRequest, Running, Goto
<1>7. ASSUME NEW c \in Callers, WriteBreaks(c) \/ NotRunning(c) \/ ClearAfterWrite(c) \/ RequestTimeout(c) PROVE HostsAreHeld'
  BY SMTT(30), <1>7 DEF WriteBreaks, NotRunning, Running, ClearAfterWrite, ClearProcessIfExited, Exited, RequestTimeout, Goto
<1>8. ASSUME NEW c \in Callers, GiveUp(c) \/ ReceiveError(c) \/ Forget(c) PROVE HostsAreHeld'
  <2>1. CASE GiveUp(c)
    BY <2>1 DEF GiveUp, RemovePendingRequest, Finish, Goto
  <2>2. CASE ReceiveError(c)
    BY <2>2 DEF ReceiveError, RemovePendingRequest, Finish, Goto
  <2>3. CASE Forget(c)
    BY <2>3 DEF Forget, RemovePendingRequest, Finish, Goto
  <2> QED
    BY <1>8, <2>1, <2>2, <2>3
<1>9. ASSUME NEW c \in Callers, Stop(c) \/ Take(c) \/ MarkShutdown(c) PROVE HostsAreHeld'
  <2>1. CASE Stop(c)
    BY <2>1 DEF Stop, Goto
  <2>2. CASE Take(c)
    BY <2>2 DEF Take, Goto
  <2>3. CASE MarkShutdown(c)
    BY <2>3 DEF MarkShutdown, Goto
  <2> QED
    BY <1>9, <2>1, <2>2, <2>3
<1>10. ASSUME NEW c \in Callers, Drain(c) PROVE HostsAreHeld'
  BY <1>10 DEF Drain, FailAllPending, Goto
<1>11. ASSUME NEW c \in Callers, Kill(c) PROVE HostsAreHeld'
  BY <1>11 DEF Kill, Goto
<1>12. ASSUME NEW p \in Hosts, CheckShutdown(p) \/ EndOfStream(p) \/ Malformed(p) PROVE HostsAreHeld'
  BY <1>12 DEF CheckShutdown, EndOfStream, Malformed, ReaderStep, FailAllPending
<1>13. ASSUME NEW p \in Hosts, Deliver(p) PROVE HostsAreHeld'
  BY <1>13 DEF Deliver, ReaderStep
<1>14. ASSUME NEW p \in Hosts, HostActs(p) PROVE HostsAreHeld'
  <2>1. UNCHANGED <<process, launched, pc, stopping>> /\ alive' \in {alive, [alive EXCEPT ![p] = FALSE]}
    BY <1>14 DEF HostActs, Respond, RespondInvalid, PrintNoise, Crash, HostStep
  <2> QED
    BY <2>1
<1>15. CASE UNCHANGED vars
  BY <1>15 DEF vars
<1> QED
  BY <1>1, <1>2, <1>3, <1>4, <1>5, <1>6, <1>7, <1>8, <1>9, <1>10, <1>11, <1>12, <1>13, <1>14, <1>15 DEF Next, Proceed, Read

\* A request is written to the host the manager holds, which nobody is about to kill; so no
\* entry comes back for a host that is past the drain.
LEMMA KilledStep ==
  ASSUME IInv, [Next]_vars PROVE KilledIsForgotten'
<1> USE Zero, BoundsAssumption
<1> USE DEF IInv, TypeOK, RequestOfPlace, NothingBeforeRegistration, StoppedIsTaken, KilledIsForgotten,
            NotRegistered, InFlight, hostVars, table, callerVars
<1>1. ASSUME NEW c \in Callers, Command(c) PROVE KilledIsForgotten'
  BY <1>1 DEF Command, NextId, Used, Goto
<1>2. ASSUME NEW c \in Callers, IsRunning(c) \/ Clear(c) \/ StartResponseReader(c) PROVE KilledIsForgotten'
  BY <1>2 DEF IsRunning, Clear, ClearProcessIfExited, Exited, StartResponseReader, Goto
<1>3. ASSUME NEW c \in Callers, Start(c) PROVE KilledIsForgotten'
  BY <1>3 DEF Start, Goto
<1>4. ASSUME NEW c \in Callers, StartFails(c) \/ RefuseArgument(c) \/ ReceiveResponse(c) PROVE KilledIsForgotten'
  <2>1. CASE StartFails(c)
    BY <2>1 DEF StartFails, Finish, Goto
  <2>2. CASE RefuseArgument(c)
    BY <2>2 DEF RefuseArgument, Finish, Goto
  <2>3. CASE ReceiveResponse(c)
    BY <2>3 DEF ReceiveResponse, Finish, Goto
  <2> QED
    BY <1>4, <2>1, <2>2, <2>3
<1>5. ASSUME NEW c \in Callers, Register(c) PROVE KilledIsForgotten'
  BY <1>5 DEF Register, Goto
<1>6. ASSUME NEW c \in Callers, WriteRequest(c) PROVE KilledIsForgotten'
  BY <1>6 DEF WriteRequest, Running, Goto
<1>7. ASSUME NEW c \in Callers, WriteBreaks(c) \/ NotRunning(c) \/ ClearAfterWrite(c) \/ RequestTimeout(c) PROVE KilledIsForgotten'
  <2>1. CASE WriteBreaks(c)
    BY <2>1 DEF WriteBreaks, Running, Goto
  <2>2. CASE NotRunning(c)
    BY <2>2 DEF NotRunning, Running, Goto
  <2>3. CASE ClearAfterWrite(c)
    BY <2>3 DEF ClearAfterWrite, ClearProcessIfExited, Exited, Goto
  <2>4. CASE RequestTimeout(c)
    BY <2>4 DEF RequestTimeout, Goto
  <2> QED
    BY <1>7, <2>1, <2>2, <2>3, <2>4
<1>8. ASSUME NEW c \in Callers, GiveUp(c) \/ ReceiveError(c) \/ Forget(c) PROVE KilledIsForgotten'
  <2>1. CASE GiveUp(c)
    BY <2>1 DEF GiveUp, RemovePendingRequest, Finish, Goto
  <2>2. CASE ReceiveError(c)
    BY <2>2 DEF ReceiveError, RemovePendingRequest, Finish, Goto
  <2>3. CASE Forget(c)
    BY <2>3 DEF Forget, RemovePendingRequest, Finish, Goto
  <2> QED
    BY <1>8, <2>1, <2>2, <2>3
<1>9. ASSUME NEW c \in Callers, Stop(c) \/ Take(c) \/ MarkShutdown(c) PROVE KilledIsForgotten'
  <2>1. CASE Stop(c)
    BY <2>1 DEF Stop, Goto
  <2>2. CASE Take(c)
    BY <2>2 DEF Take, Goto
  <2>3. CASE MarkShutdown(c)
    BY <2>3 DEF MarkShutdown, Goto
  <2> QED
    BY <1>9, <2>1, <2>2, <2>3
<1>10. ASSUME NEW c \in Callers, Drain(c) PROVE KilledIsForgotten'
  BY <1>10 DEF Drain, FailAllPending, Goto
<1>11. ASSUME NEW c \in Callers, Kill(c) PROVE KilledIsForgotten'
  BY <1>11 DEF Kill, Goto
<1>12. ASSUME NEW p \in Hosts, CheckShutdown(p) \/ EndOfStream(p) \/ Malformed(p) PROVE KilledIsForgotten'
  BY <1>12 DEF CheckShutdown, EndOfStream, Malformed, ReaderStep, FailAllPending
<1>13. ASSUME NEW p \in Hosts, Deliver(p) PROVE KilledIsForgotten'
  BY <1>13 DEF Deliver, ReaderStep
<1>14. ASSUME NEW p \in Hosts, HostActs(p) PROVE KilledIsForgotten'
  <2>1. CASE Crash(p)
    BY <2>1 DEF Crash, HostStep
  <2>2. CASE PrintNoise(p)
    BY <2>2 DEF PrintNoise, HostStep
  <2>3. ASSUME NEW r \in Requests, Respond(p, r) PROVE KilledIsForgotten'
    BY <2>3 DEF Respond, HostStep
  <2>4. ASSUME NEW r \in Requests, RespondInvalid(p, r) PROVE KilledIsForgotten'
    BY <2>4 DEF RespondInvalid, HostStep
  <2> QED
    BY <1>14, <2>1, <2>2, <2>3, <2>4 DEF HostActs
<1>15. CASE UNCHANGED vars
  BY <1>15 DEF vars
<1> QED
  BY <1>1, <1>2, <1>3, <1>4, <1>5, <1>6, <1>7, <1>8, <1>9, <1>10, <1>11, <1>12, <1>13, <1>14, <1>15 DEF Next, Proceed, Read

\* The initial states satisfy the invariant.
THEOREM InitIInv == Init => IInv
<1>1. Init => TypeOK
  BY BoundsAssumption, EmptySeq DEF Init, TypeOK, InFlight, NoRequest, Hosts
<1> QED
  BY <1>1, BoundsAssumption
  DEF Init, IInv, RequestOfPlace, RequestsAreApart, NothingBeforeRegistration, PendingIsOpen,
      RegisteredIsAnswerable, PendingIsOwned, LaunchedInOrder, StoppedIsTaken, NoOrphanHost,
      KilledIsForgotten, NotRegistered, InFlight, Hosts

\* Every step of callers, readers and hosts keeps it.
THEOREM StepIInv == IInv /\ [Next]_vars => IInv'
<1> SUFFICES ASSUME IInv, [Next]_vars PROVE IInv'
  OBVIOUS
<1>1. TypeOK'
  BY TypeStep DEF IInv
<1>2. Table'
  BY TableStep DEF IInv, Table
<1>3. HostsAreHeld'
  BY HostsStep DEF IInv, HostsAreHeld
<1>4. KilledIsForgotten'
  BY KilledStep
<1> QED
  BY <1>1, <1>2, <1>3, <1>4 DEF IInv, Table, HostsAreHeld

\* So it holds of every state the manager reaches.
THEOREM Invariance == Spec => []IInv
BY InitIInv, StepIInv, PTL DEF Spec

\* No entry of the pending table outlives its command (manager.rs): every way out of
\* send_request, and every reader, takes it along.
THEOREM NothingLeaks == Spec => []NoPendingLeak
<1>1. IInv => NoPendingLeak
  BY DEF IInv, PendingIsOwned, NoPendingLeak
<1> QED
  BY Invariance, <1>1, PTL

\* A live host is the manager's or in the hands of a caller about to kill it, however many
\* callers start and stop it at once.
THEOREM NoOrphans == Spec => []NoOrphanHost
<1>1. IInv => NoOrphanHost
  BY DEF IInv
<1> QED
  BY Invariance, <1>1, PTL

\* Whoever waits on an empty channel has its entry in the table, from where a reader or a stop
\* will answer it; and nobody waits for a host that is past its drain.
THEOREM NobodyIsForgotten == Spec => []WaitersAreReachable
<1>1. IInv => WaitersAreReachable
  BY DEF IInv, RegisteredIsAnswerable, KilledIsForgotten, WaitersAreReachable
<1> QED
  BY Invariance, <1>1, PTL

\* Every variable keeps its type.
THEOREM TypeCorrect == Spec => []TypeOK
<1>1. IInv => TypeOK
  BY DEF IInv
<1> QED
  BY Invariance, <1>1, PTL

-----------------------------------------------------------------------------
(* Which answer belongs to which request *)

IsResponse(line) == line.kind # "garbage"

\* A request is written once at most: nothing is written of it before its turn.
NotYetWritten == \A c \in Callers : pc[c] = "write" => sentTo[request[c]] = 0

\* What a host has still to answer was written to it, and has no response yet.
InboxIsItsOwn == \A p \in Hosts : \A r \in inbox[p] : sentTo[r] = p /\ channel[r] # "response"

\* A response in a pipe answers what was written to its host, and will not be given again.
LineIsItsOwn(p, line) ==
  IsResponse(line) =>
    /\ sentTo[line.request] = p
    /\ line.request \notin inbox[p] /\ channel[line.request] # "response"

LinesAreTheirOwn ==
  \A p \in Hosts : \A i \in 1..Len(outbox[p]) : LineIsItsOwn(p, outbox[p][i])

\* No two responses in a pipe are for the same request.
LinesAreApart(lines) ==
  \A i, j \in 1..Len(lines) :
    IsResponse(lines[i]) /\ IsResponse(lines[j]) /\ lines[i].request = lines[j].request => i = j

AnswersAreApart == \A p \in Hosts : LinesAreApart(outbox[p])

\* Nobody has a response to what was never written.
OnlyWrittenIsAnswered == \A r \in Requests : channel[r] = "response" => sentTo[r] \in Hosts

Correlated ==
  NotYetWritten /\ InboxIsItsOwn /\ LinesAreTheirOwn /\ AnswersAreApart /\ OnlyWrittenIsAnswered

\* A response reaches the waiter of a request only from the host the request was written to,
\* and only once: it was the one response to it anywhere, and no host can give another.
AnsweredByItsHost ==
  [][\A r \in Requests : channel[r] # "response" /\ channel'[r] = "response" =>
       LET p == sentTo[r] IN
       /\ p \in Hosts /\ outbox[p] # <<>>
       /\ Head(outbox[p]) = [kind |-> "valid", request |-> r]
       /\ r \notin UNION {inbox'[q] : q \in Hosts}
       /\ \A q \in Hosts : \A i \in 1..Len(outbox'[q]) :
            IsResponse(outbox'[q][i]) => outbox'[q][i].request # r]_vars

\* The responses in a pipe carry requests.
LEMMA LinesAreTyped ==
  ASSUME TypeOK
  PROVE  \A p \in Hosts :
           /\ Len(outbox[p]) \in Nat
           /\ \A i \in 1..Len(outbox[p]) :
                /\ outbox[p][i] \in Noise \cup Responses
                /\ IsResponse(outbox[p][i]) => outbox[p][i].request \in Requests
<1> TAKE p \in Hosts
<1>1. outbox[p] \in Seq(Noise \cup Responses)
  BY DEF TypeOK
<1>2. \A i \in 1..Len(outbox[p]) : outbox[p][i] \in Noise \cup Responses
  BY <1>1
<1>3. \A line \in Noise \cup Responses : IsResponse(line) => line.request \in Requests
  BY DEF Noise, Responses, IsResponse
<1>. QED  BY <1>1, <1>2, <1>3

\* Steps that leave the pipes as they are and give nobody a response.
Aside ==
  /\ inbox' \in {inbox} \cup {[inbox EXCEPT ![p] = {}] : p \in Hosts}
  /\ outbox' = outbox /\ sentTo' = sentTo
  /\ \A r \in Requests : channel'[r] = "response" => channel[r] = "response"

\* Such a step keeps what is known of the pipes.
LEMMA AsideKeepsPipes ==
  ASSUME TypeOK, Correlated, Aside
  PROVE  (InboxIsItsOwn /\ LinesAreTheirOwn /\ AnswersAreApart /\ OnlyWrittenIsAnswered)'
<1>1. \A p \in Hosts : inbox'[p] \subseteq inbox[p] /\ inbox[p] \subseteq Requests
  BY DEF TypeOK, Aside
<1>2. \A p \in Hosts : \A i \in 1..Len(outbox[p]) :
        IsResponse(outbox[p][i]) => outbox[p][i].request \in Requests
  BY LinesAreTyped
<1>3. /\ outbox' = outbox /\ sentTo' = sentTo
      /\ \A r \in Requests : channel'[r] = "response" => channel[r] = "response"
  BY DEF Aside
<1>4. InboxIsItsOwn'
  BY <1>1, <1>3 DEF Correlated, InboxIsItsOwn
<1>5. LinesAreTheirOwn'
  BY <1>1, <1>2, <1>3 DEF Correlated, LinesAreTheirOwn, LineIsItsOwn
<1>6. AnswersAreApart'
  BY <1>3 DEF Correlated, AnswersAreApart
<1>7. OnlyWrittenIsAnswered'
  BY <1>3 DEF Correlated, OnlyWrittenIsAnswered
<1>. QED  BY <1>4, <1>5, <1>6, <1>7

\* All callers' steps but the write are of this kind.
LEMMA CallersStepAside ==
  ASSUME TypeOK, NEW c \in Callers,
         Command(c) \/ Stop(c) \/ (Proceed(c) /\ ~WriteRequest(c))
  PROVE  Aside
<1>1. CASE Drain(c)
  BY <1>1 DEF Drain, FailAllPending, Aside, hostVars, TypeOK
<1>2. CASE Kill(c)
  <2>1. stopping[c] \in Hosts \/ inbox' = inbox
    BY <1>2 DEF Kill, TypeOK, Hosts
  <2>. QED  BY <1>2, <2>1 DEF Kill, Aside, table
<1>3. CASE WriteBreaks(c)
  <2>1. process \in Hosts
    BY <1>3 DEF WriteBreaks, Running, TypeOK, Hosts
  <2>. QED  BY <1>3, <2>1 DEF WriteBreaks, Aside, table
<1>4. CASE Start(c)
  BY <1>4 DEF Start, Aside, table
<1>5. CASE Command(c) \/ Stop(c) \/ Take(c) \/ MarkShutdown(c)
  BY <1>5 DEF Command, Stop, Take, MarkShutdown, Aside, hostVars, table
<1>6. CASE IsRunning(c) \/ Clear(c) \/ StartFails(c) \/ StartResponseReader(c) \/ RefuseArgument(c)
  BY <1>6 DEF IsRunning, Clear, ClearProcessIfExited, StartFails, StartResponseReader,
     RefuseArgument, Aside, hostVars, table
<1>7. CASE Register(c) \/ NotRunning(c) \/ ClearAfterWrite(c) \/ GiveUp(c) \/ ReceiveResponse(c)
           \/ ReceiveError(c) \/ RequestTimeout(c) \/ Forget(c)
  BY <1>7 DEF Register, NotRunning, ClearAfterWrite, ClearProcessIfExited, GiveUp,
     ReceiveResponse, ReceiveError, RequestTimeout, Forget, RemovePendingRequest, Aside,
     hostVars, table
<1>. QED  BY <1>1, <1>2, <1>3, <1>4, <1>5, <1>6, <1>7 DEF Proceed

\* A request is at the place of the write once, and its caller alone writes it.
LEMMA NotYetWrittenStep ==
  ASSUME IInv, Correlated, [Next]_vars PROVE NotYetWritten'
<1>a. /\ pc \in [Callers -> {"idle", "take", "mark", "drain", "kill"} \cup NotRegistered \cup InFlight]
      /\ request \in [Callers -> Requests \cup {NoRequest}]
      /\ sentTo \in [Requests -> 0..MaxHosts]
  BY DEF IInv, TypeOK, NotRegistered
<1>b. \A c \in Callers :
        /\ pc[c] = "write" => request[c] \in Requests /\ sentTo[request[c]] = 0
        /\ pc[c] = "register" => request[c] \in Requests /\ sentTo[request[c]] = 0
        /\ \A d \in Callers : request[c] = request[d] /\ request[c] # NoRequest => c = d
  BY DEF IInv, Correlated, NotYetWritten, RequestOfPlace, NothingBeforeRegistration,
     RequestsAreApart, NotRegistered, InFlight
<1> USE Zero, <1>a, <1>b DEF NotYetWritten
<1>1. ASSUME NEW c \in Callers, WriteRequest(c) PROVE NotYetWritten'
  <2>1. /\ pc' = [pc EXCEPT ![c] = "wait"] /\ request' = request /\ pc[c] = "write"
        /\ sentTo' = [sentTo EXCEPT ![request[c]] = process]
    BY <1>1 DEF WriteRequest, Goto, callerVars
  <2>. QED  BY <2>1
<1>2. ASSUME NEW c \in Callers, Register(c) PROVE NotYetWritten'
  BY <1>2 DEF Register, Goto
<1>4. ASSUME NEW c \in Callers, Command(c) \/ Stop(c) \/ Take(c) \/ MarkShutdown(c) \/ Drain(c) \/ Kill(c)
      PROVE  NotYetWritten'
  BY <1>4 DEF Command, Stop, Take, MarkShutdown, Drain, Kill, Goto
<1>5. ASSUME NEW c \in Callers,
             IsRunning(c) \/ Clear(c) \/ Start(c) \/ StartFails(c) \/ StartResponseReader(c) \/ RefuseArgument(c)
      PROVE  NotYetWritten'
  BY <1>5 DEF IsRunning, Clear, ClearProcessIfExited, Start, StartFails, StartResponseReader,
     RefuseArgument, Finish, Goto
<1>6. ASSUME NEW c \in Callers, NotRunning(c) \/ ClearAfterWrite(c) \/ RequestTimeout(c) \/ WriteBreaks(c)
      PROVE  NotYetWritten'
  BY <1>6 DEF NotRunning, ClearAfterWrite, ClearProcessIfExited, RequestTimeout, WriteBreaks, Goto
<1>7. ASSUME NEW c \in Callers, GiveUp(c) \/ ReceiveResponse(c) \/ ReceiveError(c) \/ Forget(c)
      PROVE  NotYetWritten'
  BY <1>7 DEF GiveUp, ReceiveResponse, ReceiveError, Forget, RemovePendingRequest, Finish, Goto
<1>8. ASSUME NEW p \in Hosts, Read(p) \/ HostActs(p) PROVE NotYetWritten'
  <2>1. UNCHANGED <<pc, request, sentTo>>
    BY <1>8 DEF Read, CheckShutdown, EndOfStream, Malformed, Deliver, ReaderStep, HostActs, Respond,
       RespondInvalid, PrintNoise, Crash, HostStep, callerVars
  <2>. QED  BY <2>1
<1>9. CASE UNCHANGED vars
  BY <1>9 DEF vars, callerVars
<1>. QED  BY <1>1, <1>2, <1>4, <1>5, <1>6, <1>7, <1>8, <1>9 DEF Next, Proceed

Pipes == InboxIsItsOwn /\ LinesAreTheirOwn /\ AnswersAreApart /\ OnlyWrittenIsAnswered

\* A request is written while nobody has seen it before.
LEMMA WriteKeepsPipes ==
  ASSUME IInv, Correlated, NEW c \in Callers, WriteRequest(c) PROVE Pipes'
<1> DEFINE r == request[c]
           h == process
<1>1. /\ r \in Requests /\ h \in Hosts /\ sentTo[r] = 0 /\ pc[c] = "write"
      /\ sentTo' = [sentTo EXCEPT ![r] = h]
      /\ inbox' = [inbox EXCEPT ![h] = inbox[h] \cup {r}]
      /\ outbox' = outbox /\ channel' = channel
  BY DEF WriteRequest, Running, Goto, IInv, TypeOK, RequestOfPlace, InFlight, Hosts, Correlated,
     NotYetWritten, table
<1>2. sentTo \in [Requests -> 0..MaxHosts] /\ inbox \in [Hosts -> SUBSET Requests] /\ 0 \notin Hosts
  BY Zero DEF IInv, TypeOK
<1>3. channel[r] # "response"
  BY <1>1, <1>2 DEF Correlated, OnlyWrittenIsAnswered
<1>4. \A p \in Hosts : r \notin inbox[p]
  BY <1>1, <1>2 DEF Correlated, InboxIsItsOwn
<1>5. \A p \in Hosts : \A i \in 1..Len(outbox[p]) :
        IsResponse(outbox[p][i]) => outbox[p][i].request \in Requests /\ outbox[p][i].request # r
  BY <1>1, <1>2, LinesAreTyped DEF IInv, Correlated, LinesAreTheirOwn, LineIsItsOwn
<1> HIDE DEF r, h
<1>6. InboxIsItsOwn'
  BY <1>1, <1>2, <1>3 DEF Correlated, InboxIsItsOwn
<1>7. LinesAreTheirOwn'
  <2> SUFFICES ASSUME NEW p \in Hosts, NEW i \in 1..Len(outbox[p]), IsResponse(outbox[p][i])
               PROVE  /\ sentTo'[outbox[p][i].request] = p
                      /\ outbox[p][i].request \notin inbox'[p]
                      /\ channel[outbox[p][i].request] # "response"
    BY <1>1 DEF LinesAreTheirOwn, LineIsItsOwn
  <2>1. /\ sentTo[outbox[p][i].request] = p
        /\ outbox[p][i].request \notin inbox[p]
        /\ channel[outbox[p][i].request] # "response"
    BY DEF Correlated, LinesAreTheirOwn, LineIsItsOwn
  <2>2. outbox[p][i].request \in Requests /\ outbox[p][i].request # r
    BY <1>5
  <2>. QED  BY <1>1, <1>2, <2>1, <2>2
<1>8. AnswersAreApart'
  BY <1>1 DEF Correlated, AnswersAreApart
<1>9. OnlyWrittenIsAnswered'
  BY <1>1, <1>2 DEF Correlated, OnlyWrittenIsAnswered
<1>. QED  BY <1>6, <1>7, <1>8, <1>9 DEF Pipes

\* The lines of a pipe after the first.
LEMMA AfterFirst ==
  ASSUME TypeOK, NEW p \in Hosts, outbox[p] # <<>>
  PROVE  /\ Len(outbox[p]) \in Nat /\ 1 \in 1..Len(outbox[p]) /\ Head(outbox[p]) = outbox[p][1]
         /\ Len(Tail(outbox[p])) = Len(outbox[p]) - 1
         /\ \A i \in 1..Len(Tail(outbox[p])) :
              i + 1 \in 1..Len(outbox[p]) /\ Tail(outbox[p])[i] = outbox[p][i + 1]
<1>1. outbox[p] \in Seq(Noise \cup Responses)
  BY DEF TypeOK
<1>2. Len(outbox[p]) \in Nat /\ Len(outbox[p]) # 0
  BY <1>1, EmptySeq, LenProperties
<1>. QED  BY <1>1, <1>2, HeadTailProperties

\* What is known of a pipe is known of what remains of it.
LEMMA TailKeepsLines ==
  ASSUME TypeOK, Correlated, NEW p \in Hosts, outbox[p] # <<>>
  PROVE  /\ \A i \in 1..Len(Tail(outbox[p])) : LineIsItsOwn(p, Tail(outbox[p])[i])
         /\ LinesAreApart(Tail(outbox[p]))
<1>1. \A i \in 1..Len(Tail(outbox[p])) : LineIsItsOwn(p, Tail(outbox[p])[i])
  BY AfterFirst DEF Correlated, LinesAreTheirOwn
<1>2. LinesAreApart(Tail(outbox[p]))
  <2> DEFINE s == outbox[p]
             t == Tail(outbox[p])
  <2> SUFFICES ASSUME NEW i \in 1..Len(t), NEW j \in 1..Len(t),
                      IsResponse(t[i]), IsResponse(t[j]), t[i].request = t[j].request
               PROVE  i = j
    BY DEF LinesAreApart
  <2>1. i + 1 \in 1..Len(s) /\ j + 1 \in 1..Len(s) /\ t[i] = s[i + 1] /\ t[j] = s[j + 1]
    BY AfterFirst
  <2>2. LinesAreApart(s)
    BY DEF Correlated, AnswersAreApart
  <2> HIDE DEF s, t
  <2>3. i + 1 = j + 1
    BY <2>1, <2>2 DEF LinesAreApart
  <2>. QED  BY <2>3
<1>. QED  BY <1>1, <1>2

\* A line taken from a pipe, and nothing sent as a response: the reader gave up.
LEMMA ReaderEndsKeepsPipes ==
  ASSUME IInv, Correlated, NEW p \in Hosts, CheckShutdown(p) \/ EndOfStream(p) \/ Malformed(p)
  PROVE  Pipes'
<1>1. CASE CheckShutdown(p)
  <2>1. Aside
    BY <1>1 DEF CheckShutdown, ReaderStep, Aside, table
  <2>. QED  BY <2>1, AsideKeepsPipes DEF IInv, Pipes
<1>2. CASE EndOfStream(p)
  <2>1. Aside
    BY <1>2 DEF EndOfStream, ReaderStep, FailAllPending, Aside, IInv, TypeOK
  <2>. QED  BY <2>1, AsideKeepsPipes DEF IInv, Pipes
<1>3. CASE Malformed(p)
  <2> DEFINE rest == Tail(outbox[p])
  <2>1. /\ outbox[p] # <<>> /\ outbox' = [outbox EXCEPT ![p] = rest]
        /\ inbox' = inbox /\ sentTo' = sentTo
    BY <1>3 DEF Malformed, ReaderStep
  <2>2. \A r \in Requests : channel'[r] = "response" => channel[r] = "response"
    BY <1>3 DEF Malformed, FailAllPending, IInv, TypeOK
  <2>3. /\ \A i \in 1..Len(rest) : LineIsItsOwn(p, rest[i])
        /\ LinesAreApart(rest)
        /\ \A i \in 1..Len(rest) : IsResponse(rest[i]) => rest[i].request \in Requests
    <3>1. \A i \in 1..Len(rest) : i + 1 \in 1..Len(outbox[p]) /\ rest[i] = outbox[p][i + 1]
      BY <2>1, AfterFirst DEF IInv
    <3>. QED  BY <2>1, <3>1, TailKeepsLines, LinesAreTyped DEF IInv
  <2> HIDE DEF rest
  <2>4. outbox'[p] = rest /\ \A q \in Hosts : q # p => outbox'[q] = outbox[q]
    BY <2>1 DEF IInv, TypeOK
  <2>5. InboxIsItsOwn' /\ OnlyWrittenIsAnswered'
    BY <2>1, <2>2 DEF Correlated, InboxIsItsOwn, OnlyWrittenIsAnswered, IInv, TypeOK
  <2>6. AnswersAreApart'
    BY <2>3, <2>4 DEF Correlated, AnswersAreApart
  <2>7. LinesAreTheirOwn'
    <3> SUFFICES ASSUME NEW q \in Hosts, NEW i \in 1..Len(outbox'[q]), IsResponse(outbox'[q][i])
                 PROVE  /\ sentTo'[outbox'[q][i].request] = q
                        /\ outbox'[q][i].request \notin inbox'[q]
                        /\ channel'[outbox'[q][i].request] # "response"
      BY DEF LinesAreTheirOwn, LineIsItsOwn
    <3>1. LineIsItsOwn(q, outbox'[q][i]) /\ outbox'[q][i].request \in Requests
      BY <2>3, <2>4, LinesAreTyped DEF Correlated, LinesAreTheirOwn, IInv
    <3>. QED  BY <2>1, <2>2, <3>1 DEF LineIsItsOwn
  <2>. QED  BY <2>5, <2>6, <2>7 DEF Pipes
<1>. QED  BY <1>1, <1>2, <1>3

\* A response that is delivered was the only one on its way.
LEMMA DeliveryKeepsPipes ==
  ASSUME IInv, Correlated, NEW p \in Hosts, Deliver(p)
  PROVE  /\ Pipes'
         /\ LET r == Head(outbox[p]).request IN
            /\ r \in Requests /\ sentTo[r] = p
            /\ \A s \in Requests : channel'[s] # channel[s] => s = r
            /\ channel'[r] = "response" => Head(outbox[p]) = [kind |-> "valid", request |-> r]
            /\ r \notin UNION {inbox'[q] : q \in Hosts}
            /\ \A q \in Hosts : \A i \in 1..Len(outbox'[q]) :
                 IsResponse(outbox'[q][i]) => outbox'[q][i].request # r
<1> DEFINE rest == Tail(outbox[p])
           line == Head(outbox[p])
           r == line.request
<1>1. /\ outbox[p] # <<>> /\ IsResponse(line) /\ outbox' = [outbox EXCEPT ![p] = rest]
      /\ inbox' = inbox /\ sentTo' = sentTo
  BY DEF Deliver, ReaderStep, IsResponse
<1>2. /\ line = outbox[p][1] /\ 1 \in 1..Len(outbox[p])
      /\ \A i \in 1..Len(rest) : i + 1 \in 1..Len(outbox[p]) /\ rest[i] = outbox[p][i + 1]
  BY <1>1, AfterFirst DEF IInv
<1>3. r \in Requests /\ line \in Responses
  BY <1>1, <1>2, LinesAreTyped DEF IInv, Noise, IsResponse
<1>4. sentTo[r] = p /\ r \notin inbox[p] /\ channel[r] # "response"
  BY <1>1, <1>2 DEF Correlated, LinesAreTheirOwn, LineIsItsOwn
<1>5. /\ \A i \in 1..Len(rest) : LineIsItsOwn(p, rest[i])
      /\ LinesAreApart(rest)
  BY <1>1, TailKeepsLines DEF IInv
<1>6. \A i \in 1..Len(rest) : IsResponse(rest[i]) => rest[i].request \in Requests /\ rest[i].request # r
  <2> TAKE i \in 1..Len(rest)
  <2> HAVE IsResponse(rest[i])
  <2>1. rest[i] = outbox[p][i + 1] /\ i + 1 \in 1..Len(outbox[p]) /\ i + 1 # 1
    BY <1>2
  <2>2. rest[i].request \in Requests
    BY <2>1, LinesAreTyped DEF IInv
  <2>3. LinesAreApart(outbox[p])
    BY DEF Correlated, AnswersAreApart
  <2> HIDE DEF rest, line
  <2>4. rest[i].request # r
    BY <1>1, <1>2, <2>1, <2>3 DEF LinesAreApart
  <2>. QED  BY <2>2, <2>4
<1>7. /\ \A s \in Requests : s # r => channel'[s] = channel[s]
      /\ channel'[r] = "response" => line.kind = "valid"
  BY <1>3, <1>4 DEF Deliver, IInv, TypeOK
<1>8. line = [kind |-> line.kind, request |-> r]
  BY <1>3 DEF Responses
<1> HIDE DEF rest, line, r
<1>9. outbox'[p] = rest /\ \A q \in Hosts : q # p => outbox'[q] = outbox[q]
  BY <1>1 DEF IInv, TypeOK
<1>10. \A q \in Hosts : \A i \in 1..Len(outbox'[q]) : IsResponse(outbox'[q][i]) =>
         /\ outbox'[q][i].request \in Requests /\ outbox'[q][i].request # r
         /\ LineIsItsOwn(q, outbox'[q][i])
  <2> SUFFICES ASSUME NEW q \in Hosts, NEW i \in 1..Len(outbox'[q]), IsResponse(outbox'[q][i])
               PROVE  /\ outbox'[q][i].request \in Requests /\ outbox'[q][i].request # r
                      /\ LineIsItsOwn(q, outbox'[q][i])
    OBVIOUS
  <2>1. CASE q = p
    BY <1>5, <1>6, <1>9, <2>1
  <2>2. CASE q # p
    <3>1. outbox'[q] = outbox[q]
      BY <1>9, <2>2
    <3>2. LineIsItsOwn(q, outbox[q][i]) /\ outbox[q][i].request \in Requests
      BY <3>1, LinesAreTyped DEF Correlated, LinesAreTheirOwn, IInv
    <3>. QED  BY <1>4, <2>2, <3>1, <3>2 DEF LineIsItsOwn
  <2>. QED  BY <2>1, <2>2
<1>11. \A q \in Hosts : r \notin inbox[q]
  BY <1>4 DEF Correlated, InboxIsItsOwn
<1>12. InboxIsItsOwn'
  <2> SUFFICES ASSUME NEW q \in Hosts, NEW s \in inbox[q]
               PROVE  sentTo[s] = q /\ channel'[s] # "response"
    BY <1>1 DEF InboxIsItsOwn
  <2>1. s \in Requests /\ s # r
    BY <1>11 DEF IInv, TypeOK
  <2>. QED  BY <1>7, <2>1 DEF Correlated, InboxIsItsOwn
<1>13. LinesAreTheirOwn'
  <2> SUFFICES ASSUME NEW q \in Hosts, NEW i \in 1..Len(outbox'[q]), IsResponse(outbox'[q][i])
               PROVE  /\ sentTo'[outbox'[q][i].request] = q
                      /\ outbox'[q][i].request \notin inbox'[q]
                      /\ channel'[outbox'[q][i].request] # "response"
    BY DEF LinesAreTheirOwn, LineIsItsOwn
  <2>. QED  BY <1>1, <1>7, <1>10 DEF LineIsItsOwn
<1>14. AnswersAreApart'
  BY <1>5, <1>9 DEF Correlated, AnswersAreApart
<1>15. OnlyWrittenIsAnswered'
  BY <1>1, <1>3, <1>4, <1>7 DEF Correlated, OnlyWrittenIsAnswered
<1>16. r \notin UNION {inbox'[q] : q \in Hosts}
  BY <1>1, <1>11
<1>17. channel'[r] = "response" => line = [kind |-> "valid", request |-> r]
  BY <1>7, <1>8
<1>. QED  BY <1>3, <1>4, <1>7, <1>10, <1>12, <1>13, <1>14, <1>15, <1>16, <1>17 DEF Pipes, line, r

\* A host answers what it was given, once.
LEMMA HostKeepsPipes ==
  ASSUME IInv, Correlated, NEW p \in Hosts, HostActs(p) PROVE Pipes' /\ channel' = channel
<1>0. channel' = channel /\ sentTo' = sentTo
  BY DEF HostActs, Respond, RespondInvalid, PrintNoise, Crash, HostStep, table
<1>1. CASE Crash(p)
  <2>1. Aside
    BY <1>1 DEF Crash, HostStep, Aside, table
  <2>. QED  BY <1>0, <2>1, AsideKeepsPipes DEF IInv, Pipes
<1>2. ASSUME NEW line \in Noise \cup Responses, NEW gone \in SUBSET inbox[p],
             inbox' = [inbox EXCEPT ![p] = @ \ gone],
             outbox' = [outbox EXCEPT ![p] = Append(@, line)],
             IsResponse(line) => gone = {line.request}
      PROVE  Pipes'
  <2> DEFINE s == outbox[p]
             t == Append(s, line)
             n == Len(s)
  <2>1. /\ n \in Nat /\ Len(t) = n + 1 /\ t[n + 1] = line /\ \A i \in 1..n : t[i] = s[i]
    <3>1. s \in Seq(Noise \cup Responses)
      BY DEF IInv, TypeOK
    <3>. QED  BY <3>1, AppendProperties, LenProperties
  <2>2. outbox'[p] = t /\ \A q \in Hosts : q # p => outbox'[q] = outbox[q]
    BY <1>2 DEF IInv, TypeOK
  <2>3. inbox'[p] = inbox[p] \ gone /\ \A q \in Hosts : inbox'[q] \subseteq inbox[q]
    BY <1>2 DEF IInv, TypeOK
  <2>4. IsResponse(line) => line.request \in inbox[p] /\ line.request \notin inbox'[p]
                            /\ sentTo[line.request] = p /\ channel[line.request] # "response"
    BY <1>2, <2>3 DEF Correlated, InboxIsItsOwn
  <2>5. \A i \in 1..n : IsResponse(s[i]) => s[i].request \notin inbox[p]
    BY DEF Correlated, LinesAreTheirOwn, LineIsItsOwn
  <2>6. LinesAreApart(s)
    BY DEF Correlated, AnswersAreApart
  <2>7. \A q \in Hosts : \A i \in 1..Len(outbox[q]) : LineIsItsOwn(q, outbox[q][i])
    BY DEF Correlated, LinesAreTheirOwn
  <2> HIDE DEF s, t, n
  <2>8. LinesAreApart(t)
    <3> SUFFICES ASSUME NEW i \in 1..n + 1, NEW j \in 1..n + 1,
                        IsResponse(t[i]), IsResponse(t[j]), t[i].request = t[j].request
                 PROVE  i = j
      BY <2>1 DEF LinesAreApart
    <3>1. CASE i \in 1..n /\ j \in 1..n
      BY <2>1, <2>6, <3>1 DEF LinesAreApart, n
    <3>2. CASE i = n + 1 /\ j \in 1..n
      BY <2>1, <2>4, <2>5, <3>2
    <3>3. CASE i \in 1..n /\ j = n + 1
      BY <2>1, <2>4, <2>5, <3>3
    <3>4. CASE i = n + 1 /\ j = n + 1
      BY <3>4
    <3>. QED  BY <2>1, <3>1, <3>2, <3>3, <3>4
  <2>9. AnswersAreApart'
    BY <2>2, <2>8 DEF Correlated, AnswersAreApart
  <2>10. LinesAreTheirOwn'
    <3> SUFFICES ASSUME NEW q \in Hosts, NEW i \in 1..Len(outbox'[q]), IsResponse(outbox'[q][i])
                 PROVE  /\ sentTo[outbox'[q][i].request] = q
                        /\ outbox'[q][i].request \notin inbox'[q]
                        /\ channel[outbox'[q][i].request] # "response"
      BY <1>0 DEF LinesAreTheirOwn, LineIsItsOwn
    <3>1. CASE q = p /\ i = n + 1
      BY <2>1, <2>2, <2>4, <3>1
    <3>2. CASE q # p \/ i \in 1..n
      <4>1. i \in 1..Len(outbox[q]) /\ outbox'[q][i] = outbox[q][i]
        BY <2>1, <2>2, <3>2 DEF n, s
      <4>. QED  BY <2>3, <2>7, <4>1 DEF LineIsItsOwn
    <3>. QED  BY <2>1, <2>2, <3>1, <3>2
  <2>11. InboxIsItsOwn' /\ OnlyWrittenIsAnswered'
    BY <1>0, <2>3 DEF Correlated, InboxIsItsOwn, OnlyWrittenIsAnswered
  <2>. QED  BY <2>9, <2>10, <2>11 DEF Pipes
<1>3. ASSUME NEW r \in Requests, Respond(p, r) \/ RespondInvalid(p, r) PROVE Pipes'
  <2>1. PICK kind \in {"valid", "invalid"} :
          /\ r \in inbox[p] /\ inbox' = [inbox EXCEPT ![p] = @ \ {r}]
          /\ outbox' = [outbox EXCEPT ![p] = Append(@, [kind |-> kind, request |-> r])]
    BY <1>3 DEF Respond, RespondInvalid
  <2>2. [kind |-> kind, request |-> r] \in Noise \cup Responses
    BY DEF Responses
  <2>. QED  BY <1>2, <2>1, <2>2
<1>4. CASE PrintNoise(p)
  <2> DEFINE line == [kind |-> "garbage"]
  <2>1. line \in Noise \cup Responses /\ ~IsResponse(line)
    BY DEF Noise, IsResponse
  <2>2. inbox' = [inbox EXCEPT ![p] = @ \ {}]
    BY <1>4 DEF PrintNoise, IInv, TypeOK
  <2>3. outbox' = [outbox EXCEPT ![p] = Append(@, line)]
    BY <1>4 DEF PrintNoise
  <2>4. {} \in SUBSET inbox[p] /\ (IsResponse(line) => {} = {line.request})
    BY <2>1
  <2> HIDE DEF line
  <2>. QED  BY <1>0, <1>2, <2>1, <2>2, <2>3, <2>4
<1>. QED  BY <1>0, <1>1, <1>3, <1>4 DEF HostActs

\* So every answer on its way keeps to its own request.
LEMMA CorrelatedStep == ASSUME IInv, Correlated, [Next]_vars PROVE Correlated'
<1>1. NotYetWritten'
  BY NotYetWrittenStep
<1>2. Pipes'
  <2>1. ASSUME NEW c \in Callers, Command(c) \/ Stop(c) \/ (Proceed(c) /\ ~WriteRequest(c)) PROVE Pipes'
    BY <2>1, CallersStepAside, AsideKeepsPipes DEF IInv, Pipes
  <2>2. ASSUME NEW c \in Callers, WriteRequest(c) PROVE Pipes'
    BY <2>2, WriteKeepsPipes
  <2>3. ASSUME NEW p \in Hosts, Read(p) PROVE Pipes'
    BY <2>3, ReaderEndsKeepsPipes, DeliveryKeepsPipes DEF Read
  <2>4. ASSUME NEW p \in Hosts, HostActs(p) PROVE Pipes'
    BY <2>4, HostKeepsPipes
  <2>5. CASE UNCHANGED vars
    <3>1. Aside
      BY <2>5 DEF vars, hostVars, table, Aside
    <3>. QED  BY <3>1, AsideKeepsPipes DEF IInv, Pipes
  <2>. QED  BY <2>1, <2>2, <2>3, <2>4, <2>5 DEF Next
<1>. QED  BY <1>1, <1>2 DEF Correlated, Pipes

\* A waiter is given a response only by the host its request was written to, and only once,
\* through crashes, restarts, stops and timeouts (manager.rs).
THEOREM ResponsesFindTheirRequests == Spec => AnsweredByItsHost
<1>1. Init => Correlated
  BY Zero DEF Init, Correlated, NotYetWritten, InboxIsItsOwn, LinesAreTheirOwn, AnswersAreApart,
     LinesAreApart, OnlyWrittenIsAnswered
<1> DEFINE Step ==
      \A r \in Requests : channel[r] # "response" /\ channel'[r] = "response" =>
        LET p == sentTo[r] IN
        /\ p \in Hosts /\ outbox[p] # <<>>
        /\ Head(outbox[p]) = [kind |-> "valid", request |-> r]
        /\ r \notin UNION {inbox'[q] : q \in Hosts}
        /\ \A q \in Hosts : \A i \in 1..Len(outbox'[q]) :
             IsResponse(outbox'[q][i]) => outbox'[q][i].request # r
<1>2. IInv /\ Correlated /\ [Next]_vars => [Step]_vars
  <2> SUFFICES ASSUME IInv, Correlated, Next, NEW r \in Requests,
                      channel[r] # "response", channel'[r] = "response"
               PROVE  LET p == sentTo[r] IN
                      /\ p \in Hosts /\ outbox[p] # <<>>
                      /\ Head(outbox[p]) = [kind |-> "valid", request |-> r]
                      /\ r \notin UNION {inbox'[q] : q \in Hosts}
                      /\ \A q \in Hosts : \A i \in 1..Len(outbox'[q]) :
                           IsResponse(outbox'[q][i]) => outbox'[q][i].request # r
    OBVIOUS
  <2>1. ASSUME NEW c \in Callers, Command(c) \/ Stop(c) \/ (Proceed(c) /\ ~WriteRequest(c)) PROVE FALSE
    BY <2>1, CallersStepAside DEF IInv, Aside
  <2>2. ASSUME NEW c \in Callers, WriteRequest(c) PROVE FALSE
    BY <2>2 DEF WriteRequest, table
  <2>3. ASSUME NEW h \in Hosts, CheckShutdown(h) \/ EndOfStream(h) \/ Malformed(h) PROVE FALSE
    BY <2>3 DEF CheckShutdown, EndOfStream, Malformed, FailAllPending, table, IInv, TypeOK
  <2>4. ASSUME NEW h \in Hosts, HostActs(h) PROVE FALSE
    BY <2>4, HostKeepsPipes
  <2>5. PICK h \in Hosts : Deliver(h)
    BY <2>1, <2>2, <2>3, <2>4 DEF Next, Read
  <2>6. /\ r = Head(outbox[h]).request /\ sentTo[r] = h
        /\ Head(outbox[h]) = [kind |-> "valid", request |-> r]
        /\ r \notin UNION {inbox'[q] : q \in Hosts}
        /\ \A q \in Hosts : \A i \in 1..Len(outbox'[q]) :
             IsResponse(outbox'[q][i]) => outbox'[q][i].request # r
    <3>1. \A s \in Requests : channel'[s] # channel[s] => s = Head(outbox[h]).request
      BY <2>5, DeliveryKeepsPipes
    <3>2. r = Head(outbox[h]).request
      BY <3>1
    <3>. QED  BY <2>5, <3>2, DeliveryKeepsPipes
  <2>7. outbox[h] # <<>>
    BY <2>5 DEF Deliver
  <2>. QED  BY <2>6, <2>7
<1>3. IInv /\ Correlated /\ [Next]_vars => Correlated'
  BY CorrelatedStep
<1> HIDE DEF Step
<1>4. Spec => [][Step]_vars
  BY Invariance, <1>1, <1>2, <1>3, PTL DEF Spec
<1>. QED  BY <1>4 DEF AnsweredByItsHost, Step

=============================================================================
