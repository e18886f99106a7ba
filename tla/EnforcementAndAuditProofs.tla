---------------------- MODULE EnforcementAndAuditProofs ----------------------
(***************************************************************************)
(* Proofs about EnforcedExecution, for every set of jobs, and about         *)
(* AuditLog, for every set of threads and every bound on records, torn      *)
(* writes and restarts.  The two share no state; what both of them have,    *)
(* from the initial states to the type, is AuditLog's where it begins with  *)
(* Log.                                                                     *)
(***************************************************************************)
EXTENDS EnforcedExecution, AuditLog, SequenceTheorems, TLAPS

-----------------------------------------------------------------------------
(* The enforced execution *)

\* The job the supervisor keeps is one the adapter knows, and its plan is true of it.
BoundaryIsKnown ==
  prepared \in Jobs => job[prepared] = "open" /\ Truthful(policy, plan[prepared], limits[prepared])

\* A live worker is one the supervisor knows, in the job it keeps, or about to be assigned to it.  This is what every way out
\* of the execution relies on: it finds the worker to terminate it, and the job to release it.
WorkerIsKnown ==
  process = "alive" =>
    registered /\ prepared \in Jobs /\ (confined = prepared \/ (start = "created" /\ ~descendants))

\* start_worker() has an entry, a worker and a job for as long as it runs.
StartIsKnown ==
  /\ start # "none" => state = "STARTING" /\ registered /\ prepared \in Jobs /\ ~descendants
  /\ start \in {"assigned", "told"} => confined = prepared

\* What the worker has started is in the job the supervisor keeps, or in one that could not be
\* closed.
DescendantsAreKnown ==
  descendants =>
    /\ confined \in Jobs /\ Truthful(policy, plan[confined], limits[confined])
    /\ confined = prepared \/ job[confined] = "leaked"

\* Before the start there is no worker, and so none outside the job that a second
\* prepare_enforcement() puts in place of the first.
NotYetStarted ==
  /\ state \in {"none", "AUTHORIZED"} => process = "none" /\ ~registered /\ ~ipc /\ ~descendants
  /\ state = "none" => prepared = NoJob

\* Only a terminal execution is complete.
CompleteIsTerminal == complete => state = "TERMINAL"

\* A pipe that is open is that of the worker the supervisor knows.
PipeIsKnown == ipc => registered

IInv ==
  /\ TypeOK /\ BoundaryIsKnown /\ WorkerIsKnown /\ DescendantsAreKnown /\ NotYetStarted
  /\ StartIsKnown /\ PipeIsKnown /\ CompleteIsTerminal /\ EndsHoldNothing

\* The table of transitions names states of the machine only, and nothing leaves a terminal one
\* or leads back to the first.
LEMMA AllowedTypes ==
  /\ \A s \in DOMAIN Allowed : Allowed[s] \subseteq SupervisorStates \ {"none", "AUTHORIZED"}
  /\ DOMAIN Allowed = SupervisorStates \ {"none"}
  /\ "TERMINAL" \in DOMAIN Allowed /\ Allowed["TERMINAL"] = {}
  /\ {"AUTHORIZED", "READY", "STARTING", "TERMINAL", "COMPLETED", "TIMING_OUT", "CRASHED",
      "TERMINATING", "CANCELLING"} \subseteq SupervisorStates
BY DEF Allowed, SupervisorStates

\* What prepare() puts on a job is what it writes into the plan, for every policy.
LEMMA PlansAreTruthful ==
  ASSUME NEW asked \in SUBSET Fields
  PROVE  /\ Truthful(asked, PlanFor(asked), ExtendedLimits(asked) \cup CpuLimits(asked))
         /\ ExtendedLimits(asked) \cup CpuLimits(asked) \in SUBSET Limits
         /\ ExtendedLimits(asked) \in SUBSET Limits
         /\ PlanFor(asked) \in [enforced : SUBSET Controls, gaps : SUBSET Controls]
<1>1. \A c \in PlanFor(asked).enforced : Backing(c) \subseteq ExtendedLimits(asked) \cup CpuLimits(asked)
  BY DEF PlanFor, Backing, ExtendedLimits, CpuLimits, FlagOf, ControlOf, Fields
<1>2. \A f \in asked : ControlOf[f] \in PlanFor(asked).enforced \cup PlanFor(asked).gaps
  BY DEF PlanFor
<1>3. PlanFor(asked).enforced \cap PlanFor(asked).gaps = {}
  BY DEF PlanFor, ControlOf, Fields
<1>4. ExtendedLimits(asked) \in SUBSET Limits /\ CpuLimits(asked) \in SUBSET Limits
  BY DEF ExtendedLimits, CpuLimits, FlagOf, Fields, Limits
<1>5. PlanFor(asked) \in [enforced : SUBSET Controls, gaps : SUBSET Controls]
  BY DEF PlanFor, ControlOf, Fields, Controls
<1> QED
  BY <1>1, <1>2, <1>3, <1>4, <1>5 DEF Truthful

\* The initial states satisfy the invariant.
THEOREM InitIInv == Init => IInv
<1>1. NoPlan \in [enforced : SUBSET Controls, gaps : SUBSET Controls]
  BY DEF NoPlan
<1>2. Init => TypeOK
  BY <1>1 DEF Init, TypeOK, SupervisorStates
<1> QED
  BY <1>2, NoJobAssumption
  DEF Init, IInv, BoundaryIsKnown, WorkerIsKnown, DescendantsAreKnown, NotYetStarted, StartIsKnown,
      PipeIsKnown,
      CompleteIsTerminal, EndsHoldNothing

\* Every step keeps it.
THEOREM StepIInv == IInv /\ [Next]_vars => IInv'
<1> SUFFICES ASSUME IInv, [Next]_vars PROVE IInv'
  OBVIOUS
<1> USE NoJobAssumption, AllowedTypes
<1> USE DEF IInv, TypeOK, BoundaryIsKnown, WorkerIsKnown, DescendantsAreKnown, NotYetStarted,
            StartIsKnown, PipeIsKnown, CompleteIsTerminal, EndsHoldNothing, boundary, worker
<1>1. CASE Authorize
  BY <1>1 DEF Authorize
<1> DEFINE its == ExtendedLimits(policy) \cup CpuLimits(policy)
<1>a. /\ Truthful(policy, PlanFor(policy), its) /\ its \in SUBSET Limits
      /\ ExtendedLimits(policy) \in SUBSET Limits
      /\ PlanFor(policy) \in [enforced : SUBSET Controls, gaps : SUBSET Controls]
  BY PlansAreTruthful
<1>b. ASSUME NEW j \in Jobs, Described(j)
      PROVE  /\ limits' \in [Jobs -> SUBSET Limits]
             /\ plan' \in [Jobs -> [enforced : SUBSET Controls, gaps : SUBSET Controls]]
             /\ Truthful(policy, plan'[j], limits'[j])
             /\ \A i \in Jobs \ {j} : limits'[i] = limits[i] /\ plan'[i] = plan[i]
  <2> HIDE DEF its
  <2>1. limits' = [limits EXCEPT ![j] = its] /\ plan' = [plan EXCEPT ![j] = PlanFor(policy)]
    BY <1>b DEF Described, its
  <2>2. limits'[j] = its /\ plan'[j] = PlanFor(policy)
    BY <2>1
  <2> QED
    BY <1>a, <2>1, <2>2
<1> HIDE DEF its
<1>2. ASSUME NEW j \in Jobs, Prepare(j) PROVE IInv'
  BY <1>b, <1>2 DEF Prepare
<1>c. ASSUME NEW j \in Jobs, PrepareFails(j) PROVE IInv'
  <2>1. limits' \in [Jobs -> SUBSET Limits] /\ \A i \in Jobs \ {j} : limits'[i] = limits[i]
    BY <1>a, <1>c DEF PrepareFails
  <2>2. prepared # j
    BY <1>c DEF PrepareFails
  <2> QED
    BY <1>c, <2>1, <2>2 DEF PrepareFails, Closed
<1>3. ASSUME NEW j \in Jobs, SpawnWorker(j) PROVE IInv'
  BY <1>3, <1>b DEF SpawnWorker, Preparing
<1>4. ASSUME NEW j \in Jobs, NEW end \in {"closed", "leaked"}, SpawnFails(j, end) PROVE IInv'
  BY <1>4, <1>b DEF SpawnFails, FailStart, Preparing, Closed
<1>5. ASSUME NEW end \in {"closed", "leaked"}, StartFails(end) PROVE IInv'
  BY <1>5 DEF StartFails, FailStart, Closed, Killed
<1>e. CASE AssignProcess
  BY <1>e DEF AssignProcess
<1>f. CASE SendStart \/ ReceiveReady
  BY <1>f DEF SendStart, ReceiveReady
<1>6. CASE ExecuteWorker
  BY <1>6 DEF ExecuteWorker, Executing, Runs
<1>7. CASE ExecuteTimesOut
  BY <1>7 DEF ExecuteTimesOut, Executing, Killed, Runs, Terminate
<1>8. CASE ExecuteFails
  BY <1>8 DEF ExecuteFails, Executing, Runs
<1>9. CASE ProcessDies
  BY <1>9 DEF ProcessDies
<1>d. CASE DescendantsEnd
  BY <1>d DEF DescendantsEnd
<1>10. ASSUME NEW next \in SupervisorStates, Transition(next) PROVE IInv'
  <2>1. state # "TERMINAL" /\ ~complete
    BY <1>10 DEF Transition
  <2>2. next \notin {"none", "AUTHORIZED"}
    BY <1>10 DEF Transition
  <2> QED
    BY <1>10, <2>1, <2>2 DEF Transition
<1>11. ASSUME NEW end \in {"closed", "leaked"}, StopWorker, Release(end), ~complete, start = "none",
              UNCHANGED <<start, policy, confined, limits, plan>>
       PROVE  /\ process' # "alive" /\ process' \in {"none", "dead"} /\ ~ipc' /\ ipc' \in BOOLEAN
              /\ prepared' = NoJob /\ descendants' \in BOOLEAN
              /\ job' \in [Jobs -> {"new", "open", "closed", "leaked"}]
              /\ process' = "none" <=> process = "none"
              /\ descendants' => descendants /\ job'[confined] = "leaked"
  BY <1>11 DEF StopWorker, Release, Killed, Closed
<1>12. CASE Cleanup
  <2> DEFINE over == state = "CLEANUP" \/ "CLEANUP" \in Allowed[state]
  <2>1. /\ process' # "alive" /\ process' \in {"none", "dead"} /\ ~ipc' /\ ipc' \in BOOLEAN
        /\ prepared' = NoJob /\ descendants' \in BOOLEAN
        /\ job' \in [Jobs -> {"new", "open", "closed", "leaked"}]
        /\ process' = "none" <=> process = "none"
        /\ descendants' => descendants /\ job'[confined] = "leaked"
        /\ UNCHANGED <<start, policy, confined, limits, plan>> /\ start = "none"
    BY <1>11, <1>12 DEF Cleanup
  <2>2. CASE over
    <3>1. state' = "TERMINAL" /\ complete' /\ ~registered' /\ complete' \in BOOLEAN /\ registered' \in BOOLEAN
      BY <1>12, <2>2 DEF Cleanup
    <3> QED
      BY <2>1, <3>1
  <2>3. CASE ~over
    <3>1. state' = state /\ ~complete' /\ registered' = registered /\ complete' \in BOOLEAN
      BY <1>12, <2>3 DEF Cleanup
    <3> QED
      BY <2>1, <3>1
  <2> QED
    BY <2>2, <2>3
<1>13. CASE CleanupFails
  <2>1. /\ process' # "alive" /\ process' \in {"none", "dead"} /\ ~ipc' /\ ipc' \in BOOLEAN
        /\ prepared' = NoJob /\ descendants' \in BOOLEAN
        /\ job' \in [Jobs -> {"new", "open", "closed", "leaked"}]
        /\ process' = "none" <=> process = "none"
        /\ descendants' => descendants /\ job'[confined] = "leaked"
        /\ UNCHANGED <<start, policy, confined, limits, plan>> /\ start = "none"
    BY <1>11, <1>13 DEF CleanupFails
  <2>2. UNCHANGED <<state, complete, registered>> /\ ~complete
    BY <1>13 DEF CleanupFails
  <2> QED
    BY <2>1, <2>2
<1>14. CASE UNCHANGED vars
  BY <1>14 DEF vars
<1> QED
  BY <1>1, <1>2, <1>c, <1>3, <1>4, <1>5, <1>e, <1>f, <1>6, <1>7, <1>8, <1>9, <1>d, <1>10, <1>12, <1>13, <1>14 DEF Next

\* So it holds of every state the supervisor reaches.
THEOREM Invariance == Spec => []IInv
BY InitIInv, StepIInv, PTL DEF Spec

\* No worker takes a request outside a boundary (execution_supervisor.py), whatever the client
\* calls in whatever order and wherever the adapter fails, and the boundary is what its plan says
\* (platform_enforcement.py).  What is outside one is a process that start_worker() has created
\* and is about to assign.
THEOREM Confinement == Spec => []NoUnconfinedWork
<1>1. IInv => NoUnconfinedWork
  BY NoJobAssumption DEF IInv, BoundaryIsKnown, WorkerIsKnown, DescendantsAreKnown, NoUnconfinedWork,
     InItsBoundary
<1> QED
  BY Invariance, <1>1, PTL

\* A finished execution has nothing left but what the system itself refused to close.
THEOREM CleanEnds == Spec => []EndsHoldNothing
<1>1. IInv => EndsHoldNothing
  BY DEF IInv
<1> QED
  BY Invariance, <1>1, PTL

\* Every variable keeps its type.
THEOREM TypeCorrect == Spec => []TypeOK
<1>1. IInv => TypeOK
  BY DEF IInv
<1> QED
  BY Invariance, <1>1, PTL

-----------------------------------------------------------------------------
(* The audit log *)

Writing(t) == pc[t] = "write"

\* Each record has a hash of its own: those in the file, and the one each thread is about to
\* write.
HashesAreNew ==
  /\ \A i \in 1..Len(file) : file[i].hash <= issued
  /\ \A t \in Threads : Writing(t) => mine[t] \in 1..issued
  /\ \A t \in Threads, i \in 1..Len(file) : Writing(t) => file[i].hash # mine[t]
  /\ \A t, u \in Threads : Writing(t) /\ Writing(u) /\ mine[t] = mine[u] => t = u
  /\ \A i, j \in 1..Len(file) : file[i] # Torn /\ file[i].hash = file[j].hash => i = j

\* What a record points to is in the file, or its line cannot be read any more.
WrittenIsThere ==
  \A h \in written : (\E i \in 1..Len(file) : file[i].hash = h) \/ \E i \in 1..Len(file) : file[i] = Torn

\* As long as nothing has overlapped one thread at most is about to write, and what it has
\* read is still the end of the file.
WriterIsAlone ==
  ~overlapped =>
    /\ \A t, u \in Threads : Writing(t) /\ Writing(u) => t = u
    /\ \A t \in Threads : Writing(t) => previous[t] = LastHash

LogIInv == LogTypeOK /\ HashesAreNew /\ WrittenIsThere /\ WriterIsAlone /\ TurnsMakeAChain

\* The parts of the invariant that speak of the file, of a file that got one more line.
LEMMA Appending ==
  ASSUME NEW line \in Records \cup {Torn}, file \in Seq(Records \cup {Torn}), file' = Append(file, line)
  PROVE  /\ file' \in Seq(Records \cup {Torn}) /\ file' # <<>>
         /\ Len(file) \in Nat /\ Len(file') = Len(file) + 1
         /\ \A i \in 1..Len(file) : file'[i] = file[i]
         /\ file'[Len(file')] = line
         /\ DOMAIN file' = 1..Len(file') /\ DOMAIN file = 1..Len(file)
BY AppendProperties, LenProperties

\* The initial states satisfy the invariant.
THEOREM LogInitIInv == LogInit => LogIInv
<1> SUFFICES ASSUME LogInit PROVE LogIInv
  OBVIOUS
<1>1. file = <<>> /\ Len(file) = 0 /\ DOMAIN file = 1..0 /\ written = {} /\ \A t \in Threads : ~Writing(t)
  BY EmptySeq, LenProperties DEF LogInit, Idle, Writing
<1>2. LogTypeOK
  <2>1. <<>> \in Seq(Records \cup {Torn})
    OBVIOUS
  <2>2. pc \in [Threads -> {"idle", "write"}]
    BY DEF LogInit, Idle
  <2>3. 0 \in 0..MaxRecords
    BY BoundsAssumption
  <2>4. previous \in [Threads -> 0..MaxRecords] /\ mine \in [Threads -> 0..MaxRecords]
    BY <2>3 DEF LogInit
  <2>5. torn \in 0..MaxTorn /\ restarts \in 0..MaxRestarts
    BY BoundsAssumption DEF LogInit
  <2>6. issued \in 0..MaxRecords /\ overlapped \in BOOLEAN
    BY <2>3 DEF LogInit
  <2> QED
    BY <1>1, <2>1, <2>2, <2>4, <2>5, <2>6 DEF LogTypeOK, LogInit
<1>3. 1..0 = {}
  OBVIOUS
<1>4. HashesAreNew
  BY <1>1, <1>3 DEF HashesAreNew
<1>5. WrittenIsThere /\ WriterIsAlone
  BY <1>1 DEF WrittenIsThere, WriterIsAlone
<1>6. TurnsMakeAChain
  BY <1>1, <1>3 DEF TurnsMakeAChain, VerifyChain, Lines
<1> QED
  BY <1>2, <1>4, <1>5, <1>6 DEF LogIInv

\* Every step keeps it.
THEOREM LogStepIInv == LogIInv /\ [LogNext]_logVars => LogIInv'
<1> SUFFICES ASSUME LogIInv, [LogNext]_logVars PROVE LogIInv'
  OBVIOUS
<1> USE BoundsAssumption
<1>a. Len(file) \in Nat /\ DOMAIN file = 1..Len(file)
  BY LenProperties DEF LogIInv, LogTypeOK
<1>b. \A i \in 1..Len(file) : file[i] \in Records \cup {Torn} /\ file[i].hash \in 0..MaxRecords
                             /\ (file[i] # Torn => file[i].hash \in 1..MaxRecords)
  BY ElementOfSeq DEF LogIInv, LogTypeOK, Records, Torn
<1>1. ASSUME NEW t \in Threads, ReadLastHash(t) PROVE LogIInv'
  <2>1. LastHash \in 0..MaxRecords
    BY <1>a, <1>b, EmptySeq DEF LastHash, Genesis, LogIInv, LogTypeOK
  <2>2. LogTypeOK'
    BY <1>1, <2>1 DEF LogIInv, LogTypeOK, ReadLastHash
  <2>3. HashesAreNew' /\ WrittenIsThere'
    <3>1. /\ pc \in [Threads -> {"idle", "write"}] /\ mine \in [Threads -> 0..MaxRecords] /\ issued \in Nat
          /\ issued' = issued + 1 /\ mine' = [mine EXCEPT ![t] = issued'] /\ pc' = [pc EXCEPT ![t] = "write"]
          /\ UNCHANGED <<file, written>>
      BY <1>1 DEF LogIInv, LogTypeOK, ReadLastHash
    <3> QED
      BY <1>b, <3>1 DEF LogIInv, HashesAreNew, WrittenIsThere, Writing, Records, Torn
  <2>4. WriterIsAlone'
    BY <1>1 DEF LogIInv, LogTypeOK, ReadLastHash, WriterIsAlone, Writing, Idle, LastHash
  <2>5. TurnsMakeAChain'
    BY <1>1 DEF LogIInv, ReadLastHash, TurnsMakeAChain, Readable, VerifyChain, Lines
  <2> QED
    BY <2>2, <2>3, <2>4, <2>5 DEF LogIInv
<1>2. ASSUME NEW t \in Threads, ReadRaises(t) PROVE LogIInv'
  <2>1. /\ UNCHANGED <<file, open, pc, previous, mine, written, overlapped, torn, restarts>>
        /\ issued' = issued + 1 /\ issued < MaxRecords
    BY <1>2 DEF ReadRaises, threadVars
  <2>2. LogTypeOK'
    BY <2>1 DEF LogIInv, LogTypeOK
  <2>3. HashesAreNew'
    <3>1. issued \in Nat /\ \A i \in 1..Len(file) : file[i].hash \in Nat
      BY <1>b DEF LogIInv, LogTypeOK
    <3>2. \A u \in Threads : Writing(u)' <=> Writing(u)
      BY <2>1 DEF Writing
    <3> QED
      BY <2>1, <3>1, <3>2 DEF LogIInv, HashesAreNew
  <2>4. WrittenIsThere' /\ WriterIsAlone'
    BY <2>1 DEF LogIInv, WrittenIsThere, WriterIsAlone, Writing, LastHash
  <2>5. TurnsMakeAChain'
    BY <2>1 DEF LogIInv, TurnsMakeAChain, Readable, VerifyChain, Lines
  <2> QED
    BY <2>2, <2>3, <2>4, <2>5 DEF LogIInv
<1>3. ASSUME NEW t \in Threads, NEW line \in Records \cup {Torn}, Writing(t), file' = Extended(line),
             line # Torn => line.hash = mine[t] /\ line.previous = previous[t],
             pc' = [pc EXCEPT ![t] = "idle"], UNCHANGED <<previous, mine, issued, overlapped, restarts>>,
             written' = written \/ (line # Torn /\ written' = written \cup {mine[t]})
      PROVE  /\ file' \in Seq(Records \cup {Torn}) /\ file' # <<>>
             /\ HashesAreNew' /\ WrittenIsThere' /\ WriterIsAlone' /\ TurnsMakeAChain'
  <2> USE <1>3
  <2>a. /\ \A u \in Threads : Writing(u)' <=> u # t /\ Writing(u)
        /\ mine[t] \in 1..issued /\ issued \in Nat
    BY DEF LogIInv, LogTypeOK, Writing, HashesAreNew
  <2>b. ~overlapped => \A u \in Threads : ~Writing(u)'
    BY <2>a DEF LogIInv, WriterIsAlone
  <2>c. WriterIsAlone'
    BY <2>b DEF WriterIsAlone
  <2>1. CASE open
    <3> DEFINE end == Len(file)
    <3>1. end \in 1..end /\ file' = [file EXCEPT ![end] = Torn]
      BY <1>a, <2>1, EmptySeq DEF Extended, LogIInv, LogTypeOK
    <3>2. /\ file' \in Seq(Records \cup {Torn}) /\ Len(file') = end
          /\ \A i \in 1..end : file'[i] = IF i = end THEN Torn ELSE file[i]
      BY <3>1, ExceptSeq DEF LogIInv, LogTypeOK
    <3>3. DOMAIN file' = 1..end /\ file' # <<>>
      BY <3>1, <3>2, LenProperties, EmptySeq
    <3>4. file'[end] = Torn /\ Torn.hash = 0
      BY <3>1, <3>2 DEF Torn
    <3> HIDE DEF end
    <3>5. HashesAreNew'
      <4>1. UNCHANGED <<mine, issued>>
        OBVIOUS
      <4> HIDE <1>3
      <4>2. \A i \in 1..end : file'[i].hash = IF i = end THEN 0 ELSE file[i].hash
        BY <3>2, <3>4
      <4>3. \A i \in 1..end : file'[i].hash <= issued
        BY <2>a, <4>2 DEF LogIInv, HashesAreNew, end
      <4>4. \A u \in Threads, i \in 1..end : Writing(u)' => file'[i].hash # mine[u]
        BY <2>a, <4>2 DEF LogIInv, HashesAreNew, end
      <4>5. \A i, j \in 1..end : file'[i] # Torn /\ file'[i].hash = file'[j].hash => i = j
        <5> SUFFICES ASSUME NEW i \in 1..end, NEW j \in 1..end, file'[i] # Torn, file'[i].hash = file'[j].hash
                     PROVE  i = j
          OBVIOUS
        <5>1. i # end /\ file'[i] = file[i] /\ file[i] # Torn /\ file[i].hash \in 1..MaxRecords
          BY <1>b, <3>2, <3>4 DEF end
        <5>2. j # end /\ file'[j] = file[j]
          BY <3>2, <4>2, <5>1
        <5> QED
          BY <5>1, <5>2 DEF LogIInv, HashesAreNew, end
      <4>6. Len(file') = end
        BY <3>2
      <4>7. \A u, v \in Threads : Writing(u)' /\ Writing(v)' /\ mine[u] = mine[v] => u = v
        BY <2>a DEF LogIInv, HashesAreNew
      <4> QED
        <5>1. 1..Len(file') = 1..end /\ issued' = issued /\ mine' = mine
          BY <4>1, <4>6
        <5>2. \A u \in Threads : Writing(u)' => mine'[u] \in 1..issued'
          BY <2>a, <5>1 DEF LogIInv, HashesAreNew
        <5>3. \A u \in Threads, i \in 1..Len(file') : Writing(u)' => file'[i].hash # mine'[u]
          BY <4>4, <5>1
        <5> QED
          BY <4>3, <4>5, <4>7, <5>1, <5>2, <5>3 DEF HashesAreNew
    <3>6. WrittenIsThere'
      BY <3>1, <3>2, <3>4 DEF WrittenIsThere
    <3>7. TurnsMakeAChain'
      BY <3>1, <3>3, <3>4 DEF TurnsMakeAChain, Readable, Lines
    <3> QED
      BY <2>c, <3>2, <3>3, <3>5, <3>6, <3>7
  <2>2. CASE file' = Append(file, line)
    <3>1. /\ file' \in Seq(Records \cup {Torn}) /\ file' # <<>> /\ Len(file') = Len(file) + 1
          /\ \A i \in 1..Len(file) : file'[i] = file[i]
          /\ file'[Len(file')] = line /\ DOMAIN file' = 1..Len(file')
      BY <2>2, Appending DEF LogIInv, LogTypeOK
    <3>2. HashesAreNew'
      <4>1. line.hash <= issued /\ (line # Torn => line.hash = mine[t])
        BY <2>a DEF Torn
      <4>2. \A i \in 1..Len(file') : i \in 1..Len(file) \/ i = Len(file')
        BY <1>a, <3>1
      <4> HIDE <1>3
      <4>3. UNCHANGED <<mine, issued>> /\ Writing(t)
        BY <1>3
      <4> DEFINE Old(i) == i \in 1..Len(file)
      <4>4. \A i \in 1..Len(file') : file'[i].hash <= issued
        BY <1>a, <3>1, <4>1, <4>2 DEF LogIInv, HashesAreNew
      <4>5. \A u \in Threads, i \in 1..Len(file') : Writing(u)' => file'[i].hash # mine[u]
        BY <1>a, <1>b, <2>a, <3>1, <4>1, <4>2, <4>3 DEF LogIInv, HashesAreNew, Torn
      <4>6. \A i, j \in 1..Len(file') : file'[i] # Torn /\ file'[i].hash = file'[j].hash => i = j
        <5> SUFFICES ASSUME NEW i \in 1..Len(file'), NEW j \in 1..Len(file'),
                            file'[i] # Torn, file'[i].hash = file'[j].hash
                     PROVE  i = j
          OBVIOUS
        <5>1. CASE Old(i) /\ Old(j)
          BY <3>1, <5>1 DEF LogIInv, HashesAreNew
        <5>2. CASE Old(i) /\ j = Len(file')
          <6>1. file[i].hash # mine[t] /\ file[i].hash \in 1..MaxRecords
            BY <1>b, <3>1, <4>3, <5>2 DEF LogIInv, HashesAreNew
          <6>2. line.hash = mine[t] \/ line.hash = 0
            BY <4>1 DEF Torn
          <6> QED
            BY <3>1, <5>2, <6>1, <6>2
        <5>3. CASE i = Len(file') /\ Old(j)
          BY <3>1, <4>1, <4>3, <5>3 DEF LogIInv, HashesAreNew
        <5> QED
          BY <4>2, <5>1, <5>2, <5>3
      <4> QED
        BY <2>a, <4>3, <4>4, <4>5, <4>6 DEF LogIInv, HashesAreNew
    <3>3. WrittenIsThere'
      <4>1. \A i \in 1..Len(file) : i \in 1..Len(file')
        BY <1>a, <3>1
      <4>2. Len(file') \in 1..Len(file')
        BY <1>a, <3>1
      <4> QED
        BY <3>1, <4>1, <4>2 DEF LogIInv, WrittenIsThere
    <3>4. TurnsMakeAChain'
      <4> SUFFICES ASSUME ~overlapped, Readable' PROVE VerifyChain'
        BY DEF TurnsMakeAChain
      <4>1. line # Torn /\ Readable
        BY <1>a, <3>1 DEF Readable, Lines
      <4>2. VerifyChain /\ previous[t] = LastHash
        BY <4>1 DEF LogIInv, TurnsMakeAChain, WriterIsAlone
      <4>3. ASSUME NEW i \in 1..Len(file)
            PROVE  file'[i].previous = IF i = 1 THEN Genesis ELSE file'[i - 1].hash
        BY <1>a, <3>1, <4>2 DEF VerifyChain, Lines
      <4>4. line.previous = IF Len(file') = 1 THEN Genesis ELSE file'[Len(file') - 1].hash
        BY <1>a, <3>1, <4>1, <4>2, EmptySeq DEF LastHash, LogIInv, LogTypeOK
      <4> QED
        BY <1>a, <3>1, <4>3, <4>4 DEF VerifyChain, Lines
    <3> QED
      BY <2>c, <3>1, <3>2, <3>3, <3>4
  <2> QED
    BY <1>3, <2>1, <2>2 DEF Extended
<1>c. ASSUME NEW t \in Threads, Writing(t)
      PROVE  /\ Record(t) \in Records /\ Record(t) # Torn
             /\ Record(t).hash = mine[t] /\ Record(t).previous = previous[t]
  <2>1. mine[t] \in 1..MaxRecords /\ previous[t] \in 0..MaxRecords
    BY <1>c DEF LogIInv, LogTypeOK, HashesAreNew, Writing
  <2> QED
    BY <2>1 DEF Records, Record, Torn
<1>4. ASSUME NEW t \in Threads, WriteRecord(t) PROVE LogIInv'
  <2> DEFINE line == Record(t)
  <2>1. mine[t] \in 1..MaxRecords
    BY <1>4 DEF WriteRecord, LogIInv, LogTypeOK, HashesAreNew, Writing
  <2>2. line \in Records /\ line # Torn /\ line.hash = mine[t] /\ line.previous = previous[t]
    BY <1>4, <1>c DEF WriteRecord, Writing
  <2>3. file' \in Seq(Records \cup {Torn}) /\ file' # <<>> /\ HashesAreNew' /\ WrittenIsThere' /\ WriterIsAlone' /\ TurnsMakeAChain'
    <3>1. /\ Writing(t) /\ file' = Extended(line) /\ pc' = [pc EXCEPT ![t] = "idle"]
          /\ UNCHANGED <<previous, mine, issued, overlapped, restarts>> /\ written' = written \cup {mine[t]}
      BY <1>4 DEF WriteRecord, Writing
    <3> HIDE DEF line
    <3> QED
      BY <1>3, <2>2, <3>1
  <2>4. LogTypeOK'
    BY <1>4, <2>1, <2>3 DEF LogIInv, LogTypeOK, WriteRecord
  <2> QED
    BY <2>3, <2>4 DEF LogIInv
<1>5. ASSUME NEW t \in Threads, WriteTears(t) PROVE LogIInv'
  <2>3. file' \in Seq(Records \cup {Torn}) /\ file' # <<>> /\ HashesAreNew' /\ WrittenIsThere' /\ WriterIsAlone' /\ TurnsMakeAChain'
    <3>1. PICK line \in {Torn, Record(t)} : file' = Extended(line)
      BY <1>5 DEF WriteTears
    <3>2. /\ Writing(t) /\ pc' = [pc EXCEPT ![t] = "idle"]
          /\ UNCHANGED <<previous, mine, issued, overlapped, restarts>> /\ written' = written
      BY <1>5 DEF WriteTears, Writing
    <3>3. line \in Records \cup {Torn} /\ (line # Torn => line.hash = mine[t] /\ line.previous = previous[t])
      BY <1>c, <3>2
    <3> QED
      BY <1>3, <3>1, <3>2, <3>3
  <2>4. LogTypeOK'
    BY <1>5, <2>3 DEF LogIInv, LogTypeOK, WriteTears
  <2> QED
    BY <2>3, <2>4 DEF LogIInv
<1>d. ASSUME NEW t \in Threads, WriteFails(t) PROVE LogIInv'
  <2>1. /\ UNCHANGED <<file, open, previous, mine, issued, written, overlapped, restarts>>
        /\ \A u \in Threads : Writing(u)' => Writing(u)
    BY <1>d DEF WriteFails, LogIInv, LogTypeOK, Writing
  <2>2. LogTypeOK'
    BY <1>d DEF WriteFails, LogIInv, LogTypeOK
  <2> QED
    BY <2>1, <2>2 DEF LogIInv, HashesAreNew, WrittenIsThere, WriterIsAlone,
       TurnsMakeAChain, Readable, VerifyChain, Lines, LastHash
<1>6. CASE Restart
  <2>1. \A t \in Threads : ~Writing(t)'
    BY <1>6 DEF Restart, Idle, Writing
  <2>2. LogTypeOK'
    BY <1>6 DEF Restart, Idle, LogIInv, LogTypeOK
  <2> QED
    BY <1>6, <2>1, <2>2 DEF LogIInv, Restart, HashesAreNew, WrittenIsThere, WriterIsAlone,
       TurnsMakeAChain, Readable, VerifyChain, Lines
<1>7. CASE UNCHANGED logVars
  BY <1>7 DEF LogIInv, LogTypeOK, logVars, threadVars, HashesAreNew, WrittenIsThere, WriterIsAlone,
     TurnsMakeAChain, Readable, VerifyChain, Lines, Writing, LastHash
<1> QED
  BY <1>1, <1>2, <1>4, <1>5, <1>d, <1>6, <1>7 DEF LogNext

\* So it holds of every state the log reaches.
THEOREM LogInvariance == LogSpec => []LogIInv
BY LogInitIInv, LogStepIInv, PTL DEF LogSpec

\* A record whose append returned stays in the file, once, unless a torn line has swallowed it
\* (audit.py), whatever threads append at the same time.
THEOREM NothingIsLost == LogSpec => []ReturnedIsKept
<1>1. LogIInv => ReturnedIsKept
  <2> SUFFICES ASSUME LogIInv PROVE ReturnedIsKept
    OBVIOUS
  <2>1. DOMAIN file = 1..Len(file)
    BY LenProperties DEF LogIInv, LogTypeOK
  <2> QED
    BY <2>1 DEF LogIInv, HashesAreNew, WrittenIsThere, ReturnedIsKept, Readable, Lines
<1> QED
  BY LogInvariance, <1>1, PTL

\* Appends that take turns make one chain that verify_chain accepts.
THEOREM TurnsChain == LogSpec => []TurnsMakeAChain
<1>1. LogIInv => TurnsMakeAChain
  BY DEF LogIInv
<1> QED
  BY LogInvariance, <1>1, PTL

\* Every variable keeps its type.
THEOREM LogTypeCorrect == LogSpec => []LogTypeOK
<1>1. LogIInv => LogTypeOK
  BY DEF LogIInv
<1> QED
  BY LogInvariance, <1>1, PTL

=============================================================================
