----------------------------- MODULE RuntimeHost -----------------------------
(***************************************************************************)
(* The runtime host (runtime_host.py): the main thread reads lines from    *)
(* stdin until it ends and hands each to a pool of workers; a worker       *)
(* decodes its line, has the application handle it and writes the response *)
(* under the stdout lock.  The client writes what it likes, closes stdin   *)
(* when it likes and may stop reading stdout at any moment.                *)
(***************************************************************************)
EXTENDS Naturals, Sequences, FiniteSets, RuntimeProtocol

CONSTANTS
  Lines,    \* lines the client may write, each once
  Text,     \* what is on a line
  MaxWritten,  \* bound: how many of them it writes
  Workers,  \* the threads of the pool; the code has eight
  NoWorker

ASSUME LinesAssumption == Text \in [Lines -> Texts]
ASSUME BoundAssumption == MaxWritten \in Nat
ASSUME WorkersAssumption == Workers # {} /\ NoWorker \notin Workers

NoLine == "none"
ASSUME NoLineAssumption == NoLine \notin Lines

\* Differs from every response: a failure has a code.
NoResponse == Response("nil", "nil", "failed", "none")

VARIABLES
  main,      \* the main thread
  exit,      \* how the process ended
  stdin,     \* lines in the pipe
  written,   \* lines the client has written so far
  closed,    \* the client has closed stdin
  broken,    \* the client reads stdout no longer
  queue,     \* submitted lines no worker has taken
  read,      \* lines the main thread has submitted
  line,      \* the line each worker works on
  place,     \* where each worker is
  response,  \* the response a worker is to write
  lock,      \* the worker that holds stdout_lock
  stdout,    \* the pieces of the lines that have been written
  failed     \* lines whose future holds an exception

client == <<stdin, written, closed, broken>>
pool == <<line, place, response>>
output == <<lock, stdout>>
vars == <<main, exit, client, queue, read, pool, output, failed>>

Half == {"begin", "end"}

TypeOK ==
  /\ main \in {"starting", "reading", "collecting", "raising", "over"}
  /\ exit \in {"none", "zero", "one", "raised"}
  /\ stdin \in Seq(Lines) /\ queue \in Seq(Lines)
  /\ written \subseteq Lines /\ read \subseteq Lines /\ failed \subseteq Lines
  /\ closed \in BOOLEAN /\ broken \in BOOLEAN
  /\ line \in [Workers -> Lines \cup {NoLine}]
  /\ place \in [Workers -> {"idle", "handle", "write", "flush"}]
  /\ response \in [Workers -> Responses \cup {NoResponse}]
  /\ lock \in Workers \cup {NoWorker}
  /\ stdout \in Seq([line : Lines, half : Half, response : Responses])

Init ==
  /\ main = "starting" /\ exit = "none"
  /\ stdin = <<>> /\ written = {} /\ closed = FALSE /\ broken = FALSE
  /\ queue = <<>> /\ read = {}
  /\ line = [w \in Workers |-> NoLine] /\ place = [w \in Workers |-> "idle"]
  /\ response = [w \in Workers |-> NoResponse]
  /\ lock = NoWorker /\ stdout = <<>>
  /\ failed = {}
-----------------------------------------------------------------------------
(* The client *)

Write(l) ==
  /\ ~closed /\ main # "over" /\ l \notin written /\ Cardinality(written) < MaxWritten
  /\ stdin' = Append(stdin, l) /\ written' = written \cup {l}
  /\ UNCHANGED <<main, exit, closed, broken, queue, read, pool, output, failed>>

CloseStdin ==
  /\ ~closed /\ closed' = TRUE
  /\ UNCHANGED <<main, exit, stdin, written, broken, queue, read, pool, output, failed>>

StopReading ==
  /\ ~broken /\ broken' = TRUE
  /\ UNCHANGED <<main, exit, stdin, written, closed, queue, read, pool, output, failed>>
-----------------------------------------------------------------------------
(* The main thread *)

\* RuntimeApplication() is built before a line is read.
Start ==
  /\ main = "starting"
  /\ \/ main' = "reading" /\ UNCHANGED exit
     \/ main' = "over" /\ exit' = "one"
  /\ UNCHANGED <<client, queue, read, pool, output, failed>>

ReadLine ==
  /\ main = "reading" /\ stdin # <<>>
  /\ Text[Head(stdin)].form # "undecodable"
  /\ stdin' = Tail(stdin)
  /\ queue' = Append(queue, Head(stdin)) /\ read' = read \cup {Head(stdin)}
  /\ UNCHANGED <<main, exit, written, closed, broken, pool, output, failed>>

\* The iteration over stdin raises; the pool is shut down on the way out.
ReadFails ==
  /\ main = "reading" /\ stdin # <<>>
  /\ Text[Head(stdin)].form = "undecodable"
  /\ stdin' = Tail(stdin) /\ main' = "raising"
  /\ UNCHANGED <<exit, written, closed, broken, queue, read, pool, output, failed>>

EndOfInput ==
  /\ main = "reading" /\ stdin = <<>> /\ closed
  /\ main' = "collecting"
  /\ UNCHANGED <<exit, client, queue, read, pool, output, failed>>

Idle == queue = <<>> /\ \A w \in Workers : place[w] = "idle"

\* Mutant: the futures are never asked for their results.
ExitUnasked ==
  /\ main \in {"collecting", "raising"} /\ Idle
  /\ main' = "over" /\ exit' = IF main = "raising" THEN "raised" ELSE "zero"
  /\ UNCHANGED <<client, queue, read, pool, output, failed>>

\* The results of the futures are asked for in order, and leaving the pool waits for all of
\* them: the first exception, or the one raised by stdin, becomes the end of the process.
Exit ==
  /\ main \in {"collecting", "raising"} /\ Idle
  /\ main' = "over"
  /\ exit' = IF main = "raising" \/ failed # {} THEN "raised" ELSE "zero"
  /\ UNCHANGED <<client, queue, read, pool, output, failed>>
-----------------------------------------------------------------------------
(* A worker: process_line *)

Goto(w, from, to) == place[w] = from /\ place' = [place EXCEPT ![w] = to]

\* The future is resolved and the thread takes the next line.
Finish(w, from) ==
  /\ Goto(w, from, "idle")
  /\ line' = [line EXCEPT ![w] = NoLine] /\ response' = [response EXCEPT ![w] = NoResponse]

Take(w) ==
  /\ queue # <<>>
  /\ Goto(w, "idle", "handle")
  /\ line' = [line EXCEPT ![w] = Head(queue)] /\ queue' = Tail(queue)
  /\ UNCHANGED <<main, exit, client, read, response, output, failed>>

IgnoreBlank(w) ==
  /\ place[w] = "handle" /\ Text[line[w]].form = "blank"
  /\ Finish(w, "handle")
  /\ UNCHANGED <<main, exit, client, queue, read, output, failed>>

Handle(w) ==
  /\ place[w] = "handle" /\ Text[line[w]].form \in {"object", "other"}
  /\ \E r \in HandleLine(Text[line[w]]) : response' = [response EXCEPT ![w] = r]
  /\ Goto(w, "handle", "write")
  /\ UNCHANGED <<main, exit, client, queue, read, line, output, failed>>

\* The worker's function raises: the exception waits in the future for the end of stdin.
Raise(w, from) == Finish(w, from) /\ failed' = failed \cup {line[w]}

\* decode_request lets everything pass but JSONDecodeError.
HandleRaises(w) ==
  /\ place[w] = "handle" /\ Text[line[w]].form = "deep"
  /\ Raise(w, "handle")
  /\ UNCHANGED <<main, exit, client, queue, read, output>>

\* Mutant: write() and flush() without the lock.
BeginWriteUnlocked(w) ==
  /\ Goto(w, "write", "flush") /\ ~broken
  /\ lock' = w
  /\ stdout' = Append(stdout, [line |-> line[w], half |-> "begin", response |-> response[w]])
  /\ UNCHANGED <<main, exit, client, queue, read, line, response, failed>>

BeginWrite(w) ==
  /\ lock = NoWorker /\ ~broken
  /\ Goto(w, "write", "flush")
  /\ lock' = w
  /\ stdout' = Append(stdout, [line |-> line[w], half |-> "begin", response |-> response[w]])
  /\ UNCHANGED <<main, exit, client, queue, read, line, response, failed>>

\* Mutant: the lock is not let go.
EndWriteHolding(w) ==
  /\ lock = w /\ ~broken
  /\ stdout' = Append(stdout, [line |-> line[w], half |-> "end", response |-> response[w]])
  /\ Finish(w, "flush")
  /\ UNCHANGED <<main, exit, client, queue, read, lock, failed>>

\* Mutant: the worker writes its response again.
EndWriteAgain(w) ==
  /\ lock = w /\ ~broken
  /\ stdout' = Append(stdout, [line |-> line[w], half |-> "end", response |-> response[w]])
  /\ lock' = NoWorker /\ Goto(w, "flush", "write")
  /\ UNCHANGED <<main, exit, client, queue, read, line, response, failed>>

EndWrite(w) ==
  /\ lock = w /\ ~broken
  /\ stdout' = Append(stdout, [line |-> line[w], half |-> "end", response |-> response[w]])
  /\ lock' = NoWorker
  /\ Finish(w, "flush")
  /\ UNCHANGED <<main, exit, client, queue, read, failed>>

\* Nobody reads stdout: the broken pipe is swallowed and the next line is taken.
WriteToNobody(w) ==
  /\ broken
  /\ \/ lock = NoWorker /\ Finish(w, "write")
     \/ lock = w /\ Finish(w, "flush")
  /\ lock' = NoWorker
  /\ UNCHANGED <<main, exit, client, queue, read, stdout, failed>>

\* stdout cannot encode the response.  That is no OSError.
EncodeFails(w) ==
  /\ lock = NoWorker
  /\ place[w] = "write" /\ Quotes(Text[line[w]], response[w])
  /\ Raise(w, "write")
  /\ UNCHANGED <<main, exit, client, queue, read, output>>

Work(w) ==
  \/ Take(w) \/ IgnoreBlank(w) \/ Handle(w) \/ HandleRaises(w)
  \/ BeginWrite(w) \/ EndWrite(w) \/ WriteToNobody(w) \/ EncodeFails(w)

Next ==
  \/ \E l \in Lines : Write(l)
  \/ CloseStdin \/ StopReading
  \/ Start \/ ReadLine \/ ReadFails \/ EndOfInput \/ Exit
  \/ \E w \in Workers : Work(w)

\* The main thread and the workers are threads of a live process, and the application
\* answers: its model calls and tasks have deadlines.
Fairness ==
  /\ WF_vars(Start \/ ReadLine \/ ReadFails \/ EndOfInput \/ Exit)
  /\ \A w \in Workers :
       WF_vars(Take(w)) /\ WF_vars(Work(w) /\ ~Take(w))

Spec == Init /\ [][Next]_vars /\ Fairness
-----------------------------------------------------------------------------
(* Properties *)

\* Lines whose response has been written to its end.
Answered == {stdout[i].line : i \in {j \in DOMAIN stdout : stdout[j].half = "end"}}

\* How often the response of each line has been.
Answers ==
  [l \in Lines |-> Cardinality({i \in DOMAIN stdout : stdout[i].half = "end" /\ stdout[i].line = l})]

\* The pieces of two responses never mix, whatever the workers do at the same time.
LinesAreWhole ==
  \A i \in DOMAIN stdout :
    IF stdout[i].half = "begin"
    THEN i = Len(stdout) \/ stdout[i + 1] = [stdout[i] EXCEPT !.half = "end"]
    ELSE i > 1 /\ stdout[i - 1].half = "begin"

\* The desktop finds the waiting command by the identifiers as it wrote them.
Correlates(text, r) ==
  text.form = "object" =>
    /\ text.request = "canonical" => r.request = "canonical"
    /\ text.task = "canonical" => r.task = "canonical"

\* The reader thread of the desktop can use everything it reads: lines are whole; the
\* identifiers that are written as str(UUID) writes them come back in every response, be the
\* line accepted or rejected, also when the other identifier is broken; and only what was
\* decoded and dispatched is "completed".
ReaderUnderstands ==
  /\ LinesAreWhole
  /\ \A i \in DOMAIN stdout :
       LET text == Text[stdout[i].line]  r == stdout[i].response IN
       /\ Correlates(text, r)
       /\ r.status = "completed" => Decodes(text) /\ text.operation \in Operations

\* A host that ends with code 0 has answered every line it read that was not blank, as long
\* as anybody read the answers; and it has left no line half handled in any case.
ExitIsTruthful ==
  main = "over" =>
    /\ Idle
    /\ exit = "zero" /\ ~broken => \A l \in read : l \in Answered \/ Text[l].form = "blank"

Settled(l) == l \in Answered \cup failed \/ Text[l].form = "blank" \/ broken

\* No line starves in the queue and no worker waits for the lock forever: what was read is
\* answered, or its worker has raised.
EveryLineSettles == \A l \in Lines : l \in read ~> Settled(l)

Contract ==
  INSTANCE RuntimeHostContract WITH asked <- read, answers <- Answers, over <- main = "over"

\* The host keeps the contract RuntimeManager relies on: no answer without a request, none
\* twice, none after the end.
KeepsContract == Contract!Spec

=============================================================================
