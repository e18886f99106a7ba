---------------------------- MODULE RuntimeManager ----------------------------
(***************************************************************************)
(* The desktop's RuntimeManager (manager.rs) and the commands that drive it *)
(* (commands.rs): threads that start the Python runtime host on demand,     *)
(* write requests to its stdin and wait on a channel for the answer, or     *)
(* stop it; one response reader thread per host; hosts that may crash at    *)
(* any moment or print a line that is not a response.  A critical section   *)
(* under a Mutex is one action, and so is a drain of the pending requests   *)
(* with the sends that follow: the drained requests are private by then.    *)
(***************************************************************************)
EXTENDS Naturals, Sequences, FiniteSets

CONSTANTS
  Callers,      \* threads that run commands or hold a clone of the manager
  MaxRequests,  \* bound: commands
  MaxHosts,     \* bound: hosts that are ever launched
  MaxDisturbances  \* bound: lines that are no valid response, and calls of stop (or
                   \* drops of a clone), together

ASSUME BoundsAssumption ==
  MaxHosts \in Nat /\ MaxRequests \in Nat /\ MaxDisturbances \in Nat

Requests == 1..MaxRequests  \* request ids

NoRequest == 0  \* the caller runs no command

Hosts == 1..MaxHosts

VARIABLES
  process,    \* RuntimeManager.process: 0 or the host it holds
  launched,   \* number of hosts launched so far
  alive,      \* the child process of each host runs
  shutdown,   \* RuntimeProcess.shutdown
  reader,     \* where the response reader of each host is
  inbox,      \* requests a host has read or will read from its stdin
  outbox,     \* lines in a host's stdout pipe
  pending,    \* RuntimeManager.pending
  channel,    \* what has been sent into the response channel of a request
  sentTo,     \* the host a request was written to, 0 if none
  pc,         \* where each caller is
  request,    \* the request of the caller's command
  stopping,   \* the host a caller took out of the manager to stop it
  disturbances

hostVars == <<alive, inbox, outbox>>
table == <<pending, channel>>
callerVars == <<pc, request, stopping>>
vars == <<process, launched, hostVars, shutdown, reader, table, sentTo, callerVars, disturbances>>

Noise == [kind : {"garbage"}]
Responses == [kind : {"valid", "invalid"}, request : Requests]

\* Places at which a caller's request may be in the table.
InFlight == {"write", "clear_written", "remove", "wait", "expired"}

TypeOK ==
  /\ process \in 0..MaxHosts /\ launched \in 0..MaxHosts
  /\ alive \in [Hosts -> BOOLEAN]
  /\ shutdown \in [Hosts -> BOOLEAN]
  /\ reader \in [Hosts -> {"none", "checking", "reading", "over"}]
  /\ inbox \in [Hosts -> SUBSET Requests]
  /\ outbox \in [Hosts -> Seq(Noise \cup Responses)]
  /\ pending \subseteq Requests
  /\ channel \in [Requests -> {"empty", "response", "error"}]
  /\ sentTo \in [Requests -> 0..MaxHosts]
  /\ pc \in [Callers -> {"idle", "check", "clear", "start", "start_reader", "register",
                         "take", "mark", "drain", "kill"} \cup InFlight]
  /\ request \in [Callers -> Requests \cup {NoRequest}]
  /\ stopping \in [Callers -> 0..MaxHosts]
  /\ disturbances \in 0..MaxDisturbances

Init ==
  /\ process = 0 /\ launched = 0
  /\ alive = [p \in Hosts |-> FALSE]
  /\ shutdown = [p \in Hosts |-> FALSE]
  /\ reader = [p \in Hosts |-> "none"]
  /\ inbox = [p \in Hosts |-> {}]
  /\ outbox = [p \in Hosts |-> <<>>]
  /\ pending = {}
  /\ channel = [r \in Requests |-> "empty"]
  /\ sentTo = [r \in Requests |-> 0]
  /\ pc = [c \in Callers |-> "idle"]
  /\ request = [c \in Callers |-> NoRequest]
  /\ stopping = [c \in Callers |-> 0]
  /\ disturbances = MaxDisturbances

Goto(c, from, to) == pc[c] = from /\ pc' = [pc EXCEPT ![c] = to]

\* The command is over and its caller may issue another one.
Finish(c, from) == Goto(c, from, "idle") /\ request' = [request EXCEPT ![c] = NoRequest]

Exited(p) == p # 0 /\ ~alive[p]
Running(p) == p # 0 /\ alive[p]

\* fail_all_pending and fail_pending_requests.
FailAllPending ==
  /\ pending' = {}
  /\ channel' = [r \in Requests |-> IF r \in pending THEN "error" ELSE channel[r]]

-----------------------------------------------------------------------------
(* A command: ensure_runtime_started, then send_request *)

Used(r) == sentTo[r] # 0 \/ r \in pending \/ channel[r] # "empty" \/ \E c \in Callers : request[c] = r

\* The ids are UUIDs, so only that they are new matters: they are handed out in order.
NextId(r) == ~Used(r) /\ \A s \in 1..(r - 1) : Used(s)

Command(c) ==
  /\ \E r \in Requests : NextId(r) /\ request' = [request EXCEPT ![c] = r]
  /\ Goto(c, "idle", "check")
  /\ UNCHANGED <<process, launched, hostVars, shutdown, reader, table, sentTo, stopping, disturbances>>

\* is_running.
IsRunning(c) ==
  /\ Goto(c, "check", IF process = 0 THEN "start"
                      ELSE IF alive[process] THEN "register" ELSE "clear")
  /\ UNCHANGED <<process, launched, hostVars, shutdown, reader, table, sentTo, request, stopping, disturbances>>

\* A variant that trusts what is_running saw before it let go of the lock.
ClearUnchecked(c, from, to) ==
  /\ Goto(c, from, to)
  /\ process' = 0
  /\ UNCHANGED <<launched, hostVars, shutdown, reader, table, sentTo, request, stopping, disturbances>>

\* clear_process_if_exited looks again: another host may have been started meanwhile.
ClearProcessIfExited(c, from, to) ==
  /\ Goto(c, from, to)
  /\ process' = IF Exited(process) THEN 0 ELSE process
  /\ UNCHANGED <<launched, hostVars, shutdown, reader, table, sentTo, request, stopping, disturbances>>

Clear(c) == ClearProcessIfExited(c, "clear", "start")

Start(c) ==
  /\ process = 0 /\ launched < MaxHosts
  /\ Goto(c, "start", "start_reader")
  /\ launched' = launched + 1
  /\ process' = launched'
  /\ alive' = [alive EXCEPT ![launched'] = TRUE]
  /\ stopping' = [stopping EXCEPT ![c] = launched']
  /\ UNCHANGED <<inbox, outbox, shutdown, reader, table, sentTo, request, disturbances>>

\* AlreadyRunning, or the host cannot be launched.
StartFails(c) ==
  /\ Finish(c, "start")
  /\ UNCHANGED <<process, launched, hostVars, shutdown, reader, table, sentTo, stopping, disturbances>>

\* The reader thread starts after the lock has been released.
StartResponseReader(c) ==
  /\ Goto(c, "start_reader", "register")
  /\ reader' = [reader EXCEPT ![stopping[c]] = "checking"]
  /\ stopping' = [stopping EXCEPT ![c] = 0]
  /\ UNCHANGED <<process, launched, hostVars, shutdown, table, sentTo, request, disturbances>>

\* A blank argument ends the command, after the host has been started.
RefuseArgument(c) ==
  /\ Finish(c, "register")
  /\ UNCHANGED <<process, launched, hostVars, shutdown, reader, table, sentTo, stopping, disturbances>>

Register(c) ==
  /\ Goto(c, "register", "write")
  /\ pending' = pending \cup {request[c]}
  /\ UNCHANGED <<process, launched, hostVars, shutdown, reader, channel, sentTo, request, stopping, disturbances>>

WriteRequest(c) ==
  /\ Running(process)
  /\ Goto(c, "write", "wait")
  /\ inbox' = [inbox EXCEPT ![process] = @ \cup {request[c]}]
  /\ sentTo' = [sentTo EXCEPT ![request[c]] = process]
  /\ UNCHANGED <<process, launched, alive, outbox, shutdown, reader, table, request, stopping, disturbances>>

\* The host exits between try_wait and the end of the write.
WriteBreaks(c) ==
  /\ Running(process)
  /\ Goto(c, "write", "remove")
  /\ alive' = [alive EXCEPT ![process] = FALSE]
  /\ inbox' = [inbox EXCEPT ![process] = {}]
  /\ UNCHANGED <<process, launched, outbox, shutdown, reader, table, sentTo, request, stopping, disturbances>>

NotRunning(c) ==
  /\ ~Running(process)
  /\ Goto(c, "write", IF process = 0 THEN "remove" ELSE "clear_written")
  /\ UNCHANGED <<process, launched, hostVars, shutdown, reader, table, sentTo, request, stopping, disturbances>>

ClearAfterWrite(c) == ClearProcessIfExited(c, "clear_written", "remove")

RemovePendingRequest(c, from) ==
  /\ Finish(c, from)
  /\ pending' = pending \ {request[c]}
  /\ UNCHANGED <<process, launched, hostVars, shutdown, reader, channel, sentTo, stopping, disturbances>>

GiveUp(c) == RemovePendingRequest(c, "remove")

\* recv_timeout returns an answer: a response, or an error after which the entry, if it
\* were still there, is removed.
ReceiveResponse(c) ==
  /\ pc[c] = "wait" /\ channel[request[c]] = "response"
  /\ Finish(c, "wait")
  /\ UNCHANGED <<process, launched, hostVars, shutdown, reader, table, sentTo, stopping, disturbances>>

ReceiveError(c) ==
  pc[c] = "wait" /\ channel[request[c]] = "error" /\ RemovePendingRequest(c, "wait")

\* A variant that gives up on a host only once the manager has given it up.
RequestTimeoutIfReplaced(c) ==
  /\ pc[c] = "wait" /\ channel[request[c]] = "empty" /\ sentTo[request[c]] # process
  /\ Goto(c, "wait", "expired")
  /\ UNCHANGED <<process, launched, hostVars, shutdown, reader, table, sentTo, request, stopping, disturbances>>

\* 180 seconds have passed; the answer may arrive before the entry has been removed.
RequestTimeout(c) ==
  /\ pc[c] = "wait" /\ channel[request[c]] = "empty"
  /\ Goto(c, "wait", "expired")
  /\ UNCHANGED <<process, launched, hostVars, shutdown, reader, table, sentTo, request, stopping, disturbances>>

\* A variant that forgets the entry of a request that timed out.
ForgetLeaking(c) ==
  /\ Finish(c, "expired")
  /\ UNCHANGED <<process, launched, hostVars, shutdown, reader, table, sentTo, stopping, disturbances>>

Forget(c) == RemovePendingRequest(c, "expired")
-----------------------------------------------------------------------------
(* stop, which is also what the drop of a clone does *)

Stop(c) ==
  /\ disturbances > 0 /\ disturbances' = disturbances - 1
  /\ Goto(c, "idle", "take")
  /\ UNCHANGED <<process, launched, hostVars, shutdown, reader, table, sentTo, request, stopping>>

Take(c) ==
  /\ Goto(c, "take", IF process = 0 THEN "drain" ELSE "mark")
  /\ stopping' = [stopping EXCEPT ![c] = process]
  /\ process' = 0
  /\ UNCHANGED <<launched, hostVars, shutdown, reader, table, sentTo, request, disturbances>>

MarkShutdown(c) ==
  /\ Goto(c, "mark", "drain")
  /\ shutdown' = [shutdown EXCEPT ![stopping[c]] = TRUE]
  /\ UNCHANGED <<process, launched, hostVars, reader, table, sentTo, request, stopping, disturbances>>

Drain(c) ==
  /\ Goto(c, "drain", IF stopping[c] = 0 THEN "idle" ELSE "kill")
  /\ FailAllPending
  /\ UNCHANGED <<process, launched, hostVars, shutdown, reader, sentTo, request, stopping, disturbances>>

Kill(c) ==
  /\ Goto(c, "kill", "idle")
  /\ alive' = [alive EXCEPT ![stopping[c]] = FALSE]
  /\ inbox' = [inbox EXCEPT ![stopping[c]] = {}]
  /\ stopping' = [stopping EXCEPT ![c] = 0]
  /\ UNCHANGED <<process, launched, outbox, shutdown, reader, table, sentTo, request, disturbances>>
-----------------------------------------------------------------------------
(* The response reader thread of host p *)

ReaderStep(p, from, to) ==
  /\ reader[p] = from /\ reader' = [reader EXCEPT ![p] = to]
  /\ UNCHANGED <<process, launched, alive, inbox, shutdown, sentTo, callerVars, disturbances>>

CheckShutdown(p) ==
  /\ ReaderStep(p, "checking", IF shutdown[p] THEN "over" ELSE "reading")
  /\ UNCHANGED <<outbox, table>>

\* The pipe is at its end: whatever is pending fails, whichever host it was written to.
EndOfStream(p) ==
  /\ outbox[p] = <<>> /\ ~alive[p]
  /\ ReaderStep(p, "reading", "over")
  /\ FailAllPending
  /\ UNCHANGED outbox

\* Bytes that are no UTF-8, no JSON, or carry no request id: the reader gives up, while
\* the host goes on.
Malformed(p) ==
  /\ outbox[p] # <<>> /\ Head(outbox[p]).kind = "garbage"
  /\ outbox' = [outbox EXCEPT ![p] = Tail(@)]
  /\ ReaderStep(p, "reading", "over")
  /\ FailAllPending

\* A variant that drops the entry of an answer it cannot validate.
DeliverValidOnly(p) ==
  /\ outbox[p] # <<>> /\ Head(outbox[p]).kind # "garbage"
  /\ outbox' = [outbox EXCEPT ![p] = Tail(@)]
  /\ ReaderStep(p, "reading", "checking")
  /\ LET line == Head(outbox[p])
     IN  /\ pending' = pending \ {line.request}
         /\ channel' = IF line.request \in pending /\ line.kind = "valid"
                       THEN [channel EXCEPT ![line.request] = "response"] ELSE channel

\* Take the entry of the request out of the table and send it the response, or the error
\* of its validation.  A request that is not in the table has expired: ignored.
Deliver(p) ==
  /\ outbox[p] # <<>> /\ Head(outbox[p]).kind # "garbage"
  /\ outbox' = [outbox EXCEPT ![p] = Tail(@)]
  /\ ReaderStep(p, "reading", "checking")
  /\ LET line == Head(outbox[p])
     IN  /\ pending' = pending \ {line.request}
         /\ channel' = IF line.request \notin pending THEN channel
                       ELSE [channel EXCEPT ![line.request] =
                               IF line.kind = "valid" THEN "response" ELSE "error"]
-----------------------------------------------------------------------------
(* The host processes *)

HostStep == UNCHANGED <<process, launched, shutdown, reader, table, sentTo, callerVars>>

Respond(p, r) ==
  /\ alive[p] /\ r \in inbox[p]
  /\ inbox' = [inbox EXCEPT ![p] = @ \ {r}]
  /\ outbox' = [outbox EXCEPT ![p] = Append(@, [kind |-> "valid", request |-> r])]
  /\ HostStep /\ UNCHANGED <<alive, disturbances>>

RespondInvalid(p, r) ==
  /\ disturbances > 0 /\ disturbances' = disturbances - 1
  /\ alive[p] /\ r \in inbox[p]
  /\ inbox' = [inbox EXCEPT ![p] = @ \ {r}]
  /\ outbox' = [outbox EXCEPT ![p] = Append(@, [kind |-> "invalid", request |-> r])]
  /\ HostStep /\ UNCHANGED alive

PrintNoise(p) ==
  /\ disturbances > 0 /\ disturbances' = disturbances - 1
  /\ alive[p]
  /\ outbox' = [outbox EXCEPT ![p] = Append(@, [kind |-> "garbage"])]
  /\ HostStep /\ UNCHANGED <<alive, inbox>>

Crash(p) ==
  /\ alive[p]
  /\ alive' = [alive EXCEPT ![p] = FALSE]
  /\ inbox' = [inbox EXCEPT ![p] = {}]
  /\ HostStep /\ UNCHANGED <<outbox, disturbances>>
-----------------------------------------------------------------------------

Proceed(c) ==
  \/ IsRunning(c) \/ Clear(c) \/ Start(c) \/ StartFails(c) \/ StartResponseReader(c)
  \/ RefuseArgument(c) \/ Register(c) \/ WriteRequest(c) \/ WriteBreaks(c) \/ NotRunning(c)
  \/ ClearAfterWrite(c) \/ GiveUp(c) \/ ReceiveResponse(c) \/ ReceiveError(c)
  \/ RequestTimeout(c) \/ Forget(c)
  \/ Take(c) \/ MarkShutdown(c) \/ Drain(c) \/ Kill(c)

Read(p) == CheckShutdown(p) \/ EndOfStream(p) \/ Malformed(p) \/ Deliver(p)

HostActs(p) ==
  \/ \E r \in Requests : Respond(p, r) \/ RespondInvalid(p, r)
  \/ PrintNoise(p) \/ Crash(p)

Next ==
  \/ \E c \in Callers : Command(c) \/ Stop(c) \/ Proceed(c)
  \/ \E p \in Hosts : Read(p) \/ HostActs(p)

\* Threads are scheduled and time passes; a host owes nobody an answer.
Fairness ==
  /\ \A c \in Callers : WF_vars(Proceed(c))
  /\ \A p \in Hosts : WF_vars(Read(p))

Spec == Init /\ [][Next]_vars /\ Fairness
-----------------------------------------------------------------------------
(* Properties *)

\* No entry outlives its command: whatever ended the command, its request has left the
\* table when the caller is told.
NoPendingLeak ==
  pending \subseteq {request[c] : c \in {d \in Callers : pc[d] \in InFlight}}

\* No host keeps running that nobody can stop any more: a live child is the manager's, or
\* in the hands of a caller that is about to kill it.
NoOrphanHost ==
  \A p \in Hosts : alive[p] =>
    p = process \/ \E c \in Callers : pc[c] \in {"mark", "drain", "kill"} /\ stopping[c] = p

\* A caller that waits with an empty channel can still be answered: every path that takes
\* its request out of the table, through readers and stops, sends something first.
\* And when a stop is past its drain nobody waits in vain for the stopped host.
WaitersAreReachable ==
  \A c \in Callers :
    pc[c] = "wait" /\ channel[request[c]] = "empty" =>
      /\ request[c] \in pending
      /\ \A d \in Callers : pc[d] = "kill" => sentTo[request[c]] # stopping[d]

\* Every command and every stop comes back to its caller, whatever the hosts do.
EveryCallReturns == \A c \in Callers : pc[c] # "idle" ~> pc[c] = "idle"

=============================================================================
