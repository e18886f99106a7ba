-------------------------- MODULE RuntimeHostProofs --------------------------
(***************************************************************************)
(* Proofs about RuntimeHost, for every set of lines, whatever is on them,   *)
(* and any number of workers.                                               *)
(***************************************************************************)
EXTENDS RuntimeHost, SequenceTheorems, FiniteSetTheorems, TLAPS

\* What the client has written and the host not read comes only once.
StdinIsFresh ==
  /\ \A i \in 1..Len(stdin) : stdin[i] \in written /\ stdin[i] \notin read
  /\ \A i, j \in 1..Len(stdin) : stdin[i] = stdin[j] => i = j
  /\ read \subseteq written

\* A line that was read is at one place at most: in the queue, at one worker, or answered.
LinesAreApart ==
  /\ \A i \in 1..Len(queue) : queue[i] \in read /\ queue[i] \notin Answered
  /\ \A i, j \in 1..Len(queue) : queue[i] = queue[j] => i = j
  /\ \A i \in 1..Len(queue), w \in Workers : line[w] # queue[i]
  /\ \A w \in Workers :
       IF place[w] = "idle" THEN line[w] = NoLine ELSE line[w] \in read /\ line[w] \notin Answered
  /\ \A v, w \in Workers : line[v] = line[w] /\ line[w] # NoLine => v = w
  /\ Answered \subseteq read

\* And at one place at least, unless its worker has raised, or nobody would read the answer.
LinesAreSomewhere ==
  \A l \in read :
    \/ Settled(l)
    \/ \E i \in 1..Len(queue) : queue[i] = l
    \/ \E w \in Workers : line[w] = l

\* Whoever has begun a line on stdout holds the lock until the line is whole.
WriterHoldsLock ==
  /\ \A w \in Workers : place[w] = "flush" <=> lock = w
  /\ lock # NoWorker =>
       /\ stdout # <<>>
       /\ stdout[Len(stdout)] = [line |-> line[lock], half |-> "begin", response |-> response[lock]]
  /\ lock = NoWorker /\ ~broken => stdout = <<>> \/ stdout[Len(stdout)].half = "end"

\* What is written, or about to be, is what _handle_line made of the line.
ResponsesAreHandled ==
  /\ \A w \in Workers : place[w] \in {"write", "flush"} =>
       Text[line[w]].form \in {"object", "other"} /\ response[w] \in HandleLine(Text[line[w]])
  /\ \A i \in 1..Len(stdout) : stdout[i].response \in HandleLine(Text[stdout[i].line])

\* Before the host reads, and after it has ended, no worker has anything to do.
EndIsQuiet ==
  /\ main \in {"starting", "over"} => Idle
  /\ main # "over" => exit = "none"
  /\ exit = "zero" => failed = {}

IInv ==
  /\ TypeOK /\ StdinIsFresh /\ LinesAreApart /\ LinesAreSomewhere /\ WriterHoldsLock
  /\ ResponsesAreHandled /\ EndIsQuiet /\ LinesAreWhole

\* One piece of stdout, as the client may read it.
Piece == [line : Lines, half : Half, response : Responses]

\* What process_line() makes of a line is a response of the protocol.
LEMMA HandledTypes ==
  ASSUME NEW text \in Texts PROVE HandleLine(text) \subseteq Responses
BY DEF Texts, HandleLine, Responses, Response, Rejection, Dispatched, Decodes, Recovered, Results,
   Codes, IdForms, Operations

\* What a further piece on stdout changes.
LEMMA Appended ==
  ASSUME NEW e \in Piece, stdout \in Seq(Piece), stdout' = Append(stdout, e)
  PROVE  /\ stdout' \in Seq(Piece)
         /\ stdout' # <<>>
         /\ Len(stdout) \in Nat /\ Len(stdout') = Len(stdout) + 1
         /\ \A i \in 1..Len(stdout) : stdout'[i] = stdout[i]
         /\ stdout'[Len(stdout')] = e
         /\ Answered' = Answered \cup (IF e.half = "end" THEN {e.line} ELSE {})
<1>1. /\ stdout' \in Seq(Piece) /\ Len(stdout) \in Nat /\ Len(stdout') = Len(stdout) + 1
      /\ \A i \in 1..Len(stdout) : stdout'[i] = stdout[i]
      /\ stdout'[Len(stdout')] = e
  BY AppendProperties, LenProperties
<1>2. stdout' # <<>>
  BY <1>1, EmptySeq
<1>3. DOMAIN stdout = 1..Len(stdout) /\ DOMAIN stdout' = 1..Len(stdout')
  BY <1>1, LenProperties
<1>4. Answered' = {stdout'[i].line : i \in {j \in 1..Len(stdout') : stdout'[j].half = "end"}}
  BY <1>3 DEF Answered
<1>5. Answered = {stdout[i].line : i \in {j \in 1..Len(stdout) : stdout[j].half = "end"}}
  BY <1>3 DEF Answered
<1>6. Answered' = Answered \cup (IF e.half = "end" THEN {e.line} ELSE {})
  <2>1. ASSUME NEW l \in Answered' PROVE l \in Answered \cup (IF e.half = "end" THEN {e.line} ELSE {})
    <3>1. PICK i \in 1..Len(stdout') : stdout'[i].half = "end" /\ l = stdout'[i].line
      BY <1>4
    <3>2. CASE i = Len(stdout')
      BY <1>1, <3>1, <3>2
    <3>3. CASE i # Len(stdout')
      <4>1. i \in 1..Len(stdout)
        BY <1>1, <3>3
      <4> QED
        BY <1>1, <1>5, <3>1, <4>1
    <3> QED
      BY <3>2, <3>3
  <2>2. ASSUME NEW l \in Answered PROVE l \in Answered'
    <3>1. PICK i \in 1..Len(stdout) : stdout[i].half = "end" /\ l = stdout[i].line
      BY <1>5
    <3>2. i \in 1..Len(stdout') /\ stdout'[i] = stdout[i]
      BY <1>1
    <3> QED
      BY <1>4, <3>1, <3>2
  <2>3. e.half = "end" => e.line \in Answered'
    <3>1. Len(stdout') \in 1..Len(stdout')
      BY <1>1
    <3> QED
      BY <1>1, <1>4, <3>1
  <2> QED
    BY <2>1, <2>2, <2>3
<1> QED
  BY <1>1, <1>2, <1>6

\* Who leaves stdout alone answers nobody.
LEMMA Kept == UNCHANGED stdout => Answered' = Answered /\ Answers' = Answers
BY DEF Answered, Answers

\* A line without an answer has been answered no time.
LEMMA UnansweredCount ==
  ASSUME NEW l \in Lines, l \notin Answered
  PROVE  Answers[l] = 0
<1> DEFINE its == {i \in DOMAIN stdout : stdout[i].half = "end" /\ stdout[i].line = l}
<1>1. its = {}
  BY DEF Answered
<1>2. Answers[l] = Cardinality(its)
  BY DEF Answers
<1> QED
  BY <1>1, <1>2, FS_EmptySet

\* A further piece counts for its line if it is an end, and a first end is counted as one.
LEMMA Counted ==
  ASSUME NEW e \in Piece, stdout \in Seq(Piece), stdout' = Append(stdout, e),
         e.half = "end" => e.line \notin Answered
  PROVE  Answers' = IF e.half = "end" THEN [Answers EXCEPT ![e.line] = 1] ELSE Answers
<1> DEFINE Ends(l) == {i \in DOMAIN stdout : stdout[i].half = "end" /\ stdout[i].line = l}
           EndsNow(l) == {i \in DOMAIN stdout' : stdout'[i].half = "end" /\ stdout'[i].line = l}
<1>1. /\ Len(stdout) \in Nat /\ Len(stdout') = Len(stdout) + 1
      /\ \A i \in 1..Len(stdout) : stdout'[i] = stdout[i]
      /\ stdout'[Len(stdout')] = e /\ stdout' \in Seq(Piece)
  BY Appended
<1>2. DOMAIN stdout = 1..Len(stdout) /\ DOMAIN stdout' = 1..(Len(stdout) + 1)
  BY <1>1, LenProperties
<1>3. \A l \in Lines : Answers[l] = Cardinality(Ends(l)) /\ Answers'[l] = Cardinality(EndsNow(l))
  BY DEF Answers
<1>4. ASSUME NEW l \in Lines, ~(e.half = "end" /\ e.line = l) PROVE EndsNow(l) = Ends(l)
  BY <1>1, <1>2, <1>4
<1>5. ASSUME e.half = "end" PROVE EndsNow(e.line) = {Len(stdout) + 1}
  <2>1. \A i \in 1..Len(stdout) : ~(stdout[i].half = "end" /\ stdout[i].line = e.line)
    BY <1>2, <1>5 DEF Answered
  <2> QED
    BY <1>1, <1>2, <1>5, <2>1
<1>6. e.half = "end" => Answers'[e.line] = 1
  <2>1. Cardinality({Len(stdout) + 1}) = 1
    BY FS_Singleton
  <2>2. e.line \in Lines
    BY DEF Piece
  <2> QED
    BY <1>3, <1>5, <2>1, <2>2
<1>7. \A l \in Lines : ~(e.half = "end" /\ e.line = l) => Answers'[l] = Answers[l]
  <2> SUFFICES ASSUME NEW l \in Lines, ~(e.half = "end" /\ e.line = l) PROVE Answers'[l] = Answers[l]
    OBVIOUS
  <2>1. EndsNow(l) = Ends(l)
    BY <1>4
  <2> HIDE DEF Ends, EndsNow
  <2> QED
    BY <1>3, <2>1
<1>8. DOMAIN Answers = Lines /\ DOMAIN Answers' = Lines
  BY DEF Answers
<1>9. Answers = [l \in Lines |-> Answers[l]] /\ Answers' = [l \in Lines |-> Answers'[l]]
  BY DEF Answers
<1> HIDE DEF Ends, EndsNow
<1>10. CASE e.half = "end"
  <2>1. \A l \in Lines : Answers'[l] = [Answers EXCEPT ![e.line] = 1][l]
    BY <1>6, <1>7, <1>8, <1>10
  <2> QED
    BY <1>8, <1>9, <1>10, <2>1
<1>11. CASE e.half # "end"
  BY <1>7, <1>9, <1>11
<1> QED
  BY <1>10, <1>11

\* The initial states satisfy the invariant.
THEOREM InitIInv == Init => IInv
<1> SUFFICES ASSUME Init PROVE IInv
  OBVIOUS
<1>1. /\ <<>> \in Seq(Lines) /\ <<>> \in Seq(Piece) /\ Len(<<>>) = 0
  BY EmptySeq
<1>2. Answered = {}
  BY DEF Init, Answered
<1>3. TypeOK
  BY <1>1, WorkersAssumption DEF Init, TypeOK, Piece, Half
<1>4. StdinIsFresh /\ LinesAreApart /\ LinesAreSomewhere
  BY <1>1, <1>2 DEF Init, StdinIsFresh, LinesAreApart, LinesAreSomewhere
<1>5. WriterHoldsLock /\ ResponsesAreHandled /\ EndIsQuiet /\ LinesAreWhole
  BY <1>1, WorkersAssumption
  DEF Init, WriterHoldsLock, ResponsesAreHandled, EndIsQuiet, LinesAreWhole, Idle
<1> QED
  BY <1>3, <1>4, <1>5 DEF IInv

\* A worker that is not idle has a line, and that line was written by the client.
LEMMA WorkingLine ==
  ASSUME IInv, NEW w \in Workers, place[w] # "idle"
  PROVE  line[w] \in Lines /\ line[w] \in read /\ line[w] \notin Answered /\ main \notin {"starting", "over"}
BY DEF IInv, TypeOK, LinesAreApart, EndIsQuiet, Idle

\* Every step keeps it, those of the client first.
LEMMA ClientSteps ==
  ASSUME IInv, CloseStdin \/ StopReading \/ \E l \in Lines : Write(l) PROVE IInv'
<1> USE DEF IInv
<1>1. Answered' = Answered
  BY Kept DEF Write, CloseStdin, StopReading, output
<1>2. TypeOK'
  <2>1. ASSUME NEW l \in Lines, Write(l) PROVE TypeOK'
    BY <2>1, AppendProperties DEF Write, TypeOK, pool, output
  <2> QED
    BY <2>1 DEF CloseStdin, StopReading, TypeOK, pool, output
<1>3. StdinIsFresh'
  <2>1. ASSUME NEW l \in Lines, Write(l) PROVE StdinIsFresh'
    <3>1. /\ Len(stdin) \in Nat /\ Len(stdin') = Len(stdin) + 1 /\ stdin'[Len(stdin) + 1] = l
          /\ \A i \in 1..Len(stdin) : stdin'[i] = stdin[i]
      BY <2>1, AppendProperties, LenProperties DEF Write, TypeOK
    <3> QED
      BY <2>1, <3>1 DEF Write, StdinIsFresh
  <2> QED
    BY <2>1 DEF CloseStdin, StopReading, StdinIsFresh
<1>4. LinesAreApart'
  BY <1>1 DEF Write, CloseStdin, StopReading, LinesAreApart, pool
<1>5. LinesAreSomewhere'
  BY <1>1 DEF Write, CloseStdin, StopReading, LinesAreSomewhere, Settled, pool
<1>6. WriterHoldsLock' /\ ResponsesAreHandled' /\ EndIsQuiet' /\ LinesAreWhole'
  <2>1. CASE \E l \in Lines : Write(l)
    BY <2>1 DEF Write, WriterHoldsLock, ResponsesAreHandled, EndIsQuiet, LinesAreWhole, Idle, pool, output
  <2>2. CASE CloseStdin
    BY <2>2 DEF CloseStdin, WriterHoldsLock, ResponsesAreHandled, EndIsQuiet, LinesAreWhole, Idle, pool, output
  <2>3. CASE StopReading
    BY <2>3 DEF StopReading, WriterHoldsLock, ResponsesAreHandled, EndIsQuiet, LinesAreWhole, Idle, pool, output
  <2> QED
    BY <2>1, <2>2, <2>3
<1> QED
  BY <1>2, <1>3, <1>4, <1>5, <1>6

\* The reader loop of main(): a line read, the end of stdin, or bytes that are no text.
LEMMA ReadSteps ==
  ASSUME IInv, ReadLine \/ ReadFails PROVE IInv'
<1> USE DEF IInv
<1>1. Answered' = Answered
  BY Kept DEF ReadLine, ReadFails, output
<1>2. /\ stdin \in Seq(Lines) /\ stdin' = Tail(stdin) /\ stdin # <<>>
      /\ Head(stdin) = stdin[1] /\ Head(stdin) \in Lines /\ stdin' \in Seq(Lines)
      /\ Len(stdin) \in Nat \ {0} /\ Len(stdin') = Len(stdin) - 1
      /\ \A i \in 1..Len(stdin') : stdin'[i] = stdin[i + 1]
  <2>1. stdin \in Seq(Lines) /\ stdin' = Tail(stdin) /\ stdin # <<>>
    BY DEF ReadLine, ReadFails, TypeOK
  <2>2. Len(stdin) \in Nat \ {0}
    BY <2>1, EmptySeq
  <2>3. /\ Head(stdin) \in Lines /\ Tail(stdin) \in Seq(Lines) /\ Len(Tail(stdin)) = Len(stdin) - 1
        /\ \A i \in 1..Len(Tail(stdin)) : Tail(stdin)[i] = stdin[i + 1]
    BY <2>1, HeadTailProperties
  <2>4. Head(stdin) = stdin[1]
    BY <2>1
  <2> QED
    BY <2>1, <2>2, <2>3, <2>4
<1>3. Head(stdin) \in written /\ Head(stdin) \notin read
  BY <1>2 DEF StdinIsFresh
<1>4. CASE ReadLine
  <2>1. /\ queue' \in Seq(Lines) /\ Len(queue) \in Nat /\ Len(queue') = Len(queue) + 1
        /\ queue'[Len(queue) + 1] = Head(stdin)
        /\ \A i \in 1..Len(queue) : queue'[i] = queue[i]
    BY <1>2, <1>4, AppendProperties, LenProperties DEF ReadLine, TypeOK
  <2>2. TypeOK'
    BY <1>2, <1>4, <2>1 DEF ReadLine, TypeOK, pool, output
  <2>3. StdinIsFresh'
    BY <1>2, <1>3, <1>4 DEF ReadLine, StdinIsFresh
  <2>4. LinesAreApart'
    <3>1. \A w \in Workers : line[w] # Head(stdin)
      BY <1>2, <1>3, NoLineAssumption DEF LinesAreApart
    <3> QED
      BY <1>1, <1>3, <1>4, <2>1, <3>1 DEF ReadLine, LinesAreApart, pool
  <2>5. LinesAreSomewhere'
    <3>1. \A i \in 1..Len(queue) : i \in 1..Len(queue')
      BY <2>1
    <3>2. Len(queue) + 1 \in 1..Len(queue')
      BY <2>1
    <3>3. ASSUME NEW l \in read PROVE Settled(l)' \/ (\E i \in 1..Len(queue') : queue'[i] = l)
                                       \/ (\E w \in Workers : line'[w] = l)
      BY <1>1, <1>4, <2>1, <3>1 DEF ReadLine, LinesAreSomewhere, Settled, pool
    <3> QED
      BY <1>4, <2>1, <3>2, <3>3 DEF ReadLine, LinesAreSomewhere
  <2>6. WriterHoldsLock' /\ ResponsesAreHandled' /\ EndIsQuiet' /\ LinesAreWhole'
    BY <1>4 DEF ReadLine, WriterHoldsLock, ResponsesAreHandled, EndIsQuiet, LinesAreWhole, pool, output
  <2> QED
    BY <2>2, <2>3, <2>4, <2>5, <2>6
<1>5. CASE ReadFails
  <2>1. TypeOK'
    BY <1>2, <1>5 DEF ReadFails, TypeOK, pool, output
  <2>2. StdinIsFresh'
    BY <1>2, <1>5 DEF ReadFails, StdinIsFresh
  <2>3. LinesAreApart' /\ LinesAreSomewhere'
    BY <1>1, <1>5 DEF ReadFails, LinesAreApart, LinesAreSomewhere, Settled, pool
  <2>4. WriterHoldsLock' /\ ResponsesAreHandled' /\ EndIsQuiet' /\ LinesAreWhole'
    BY <1>5 DEF ReadFails, WriterHoldsLock, ResponsesAreHandled, EndIsQuiet, LinesAreWhole, pool, output
  <2> QED
    BY <2>1, <2>2, <2>3, <2>4
<1> QED
  BY <1>4, <1>5

\* main() after its loop: the pool is shut down and the process ends.
LEMMA MainSteps ==
  ASSUME IInv, Start \/ EndOfInput \/ Exit PROVE IInv'
<1> USE DEF IInv, Start, EndOfInput, Exit, client, pool, output
<1>1. Answered' = Answered
  BY Kept
<1>2. TypeOK'
  BY DEF TypeOK
<1>3. StdinIsFresh' /\ LinesAreApart' /\ LinesAreSomewhere'
  BY <1>1 DEF StdinIsFresh, LinesAreApart, LinesAreSomewhere, Settled
<1>4. WriterHoldsLock' /\ ResponsesAreHandled' /\ LinesAreWhole'
  BY DEF WriterHoldsLock, ResponsesAreHandled, LinesAreWhole
<1>5. EndIsQuiet'
  BY DEF EndIsQuiet, Idle
<1> QED
  BY <1>2, <1>3, <1>4, <1>5

\* The worker lets its line go: blank, answered, dropped, or its function has raised.
LEMMA FinishSteps ==
  ASSUME IInv, NEW w \in Workers, NEW from, place[w] # "idle", Finish(w, from),
         NEW its \in read, its = line[w],
         UNCHANGED <<main, exit, client, queue, read, stdout>>,
         Settled(its)', failed \subseteq failed', failed' \subseteq failed \cup {its},
         IF place[w] = "flush" THEN broken /\ lock' = NoWorker ELSE UNCHANGED lock
  PROVE  IInv'
<1> USE DEF IInv, client
<1>1. Answered' = Answered
  BY Kept
<1>2. /\ line' = [line EXCEPT ![w] = NoLine] /\ response' = [response EXCEPT ![w] = NoResponse]
      /\ place' = [place EXCEPT ![w] = "idle"]
  BY DEF Finish, Goto
<1>3. /\ line' \in [Workers -> Lines \cup {NoLine}]
      /\ place' \in [Workers -> {"idle", "handle", "write", "flush"}]
      /\ response' \in [Workers -> Responses \cup {NoResponse}]
      /\ line'[w] = NoLine /\ place'[w] = "idle"
      /\ \A v \in Workers \ {w} : line'[v] = line[v] /\ place'[v] = place[v] /\ response'[v] = response[v]
  BY <1>2 DEF TypeOK
<1>4. TypeOK'
  BY <1>3, WorkingLine DEF TypeOK
<1>5. StdinIsFresh'
  BY DEF StdinIsFresh
<1>6. LinesAreApart'
  <2>1. \A i \in 1..Len(queue) : queue[i] # NoLine
    BY NoLineAssumption DEF TypeOK, LinesAreApart
  <2> QED
    BY <1>1, <1>3, <2>1 DEF LinesAreApart
<1>7. LinesAreSomewhere'
  <2>1. SUFFICES ASSUME NEW l \in read
                 PROVE Settled(l)' \/ (\E i \in 1..Len(queue) : queue[i] = l) \/ (\E v \in Workers : line'[v] = l)
    BY DEF LinesAreSomewhere
  <2>2. CASE l = its
    BY <2>2
  <2>3. CASE Settled(l)
    BY <2>3, <1>1 DEF Settled
  <2>4. ASSUME NEW v \in Workers, line[v] = l, l # its PROVE line'[v] = l
    BY <2>4, <1>3
  <2> QED
    BY <2>2, <2>3, <2>4 DEF LinesAreSomewhere
<1>8. WriterHoldsLock'
  <2>1. CASE place[w] = "flush"
    BY <1>3, <2>1, WorkersAssumption DEF WriterHoldsLock, TypeOK
  <2>2. CASE place[w] # "flush"
    BY <1>3, <2>2, WorkersAssumption DEF WriterHoldsLock, TypeOK
  <2> QED
    BY <2>1, <2>2
<1>9. ResponsesAreHandled'
  BY <1>3 DEF ResponsesAreHandled
<1>10. EndIsQuiet'
  BY <1>3, WorkingLine DEF EndIsQuiet, Idle
<1>11. LinesAreWhole'
  BY DEF LinesAreWhole
<1> QED
  BY <1>4, <1>5, <1>6, <1>7, <1>8, <1>9, <1>10, <1>11

\* An exception that process_line() does not expect stays in the future of its line.
LEMMA DroppingSteps ==
  ASSUME IInv, NEW w \in Workers,
         IgnoreBlank(w) \/ HandleRaises(w) \/ WriteToNobody(w) \/ EncodeFails(w)
  PROVE  IInv'
<1>1. /\ place[w] # "idle"
      /\ main \notin {"starting", "over"}
  BY DEF IgnoreBlank, HandleRaises, WriteToNobody, EncodeFails, Raise, Finish, Goto, IInv, EndIsQuiet, Idle
<1>2. PICK its \in read : its = line[w]
  BY <1>1, WorkingLine
<1>3. CASE IgnoreBlank(w)
  <2>1. Settled(its)' /\ place[w] # "flush"
    BY <1>2, <1>3 DEF IgnoreBlank, Settled
  <2> QED
    BY <1>1, <1>2, <1>3, <2>1, FinishSteps DEF IgnoreBlank, output
<1>4. CASE HandleRaises(w)
  <2>1. Settled(its)' /\ place[w] # "flush"
    BY <1>2, <1>4 DEF HandleRaises, Raise, Settled
  <2> QED
    BY <1>1, <1>2, <1>4, <2>1, FinishSteps DEF HandleRaises, Raise, output
<1>5. CASE WriteToNobody(w)
  <2>1. Settled(its)' /\ broken
    BY <1>5 DEF WriteToNobody, Settled, client
  <2>2. place[w] = "flush" => lock = w
    BY DEF IInv, WriterHoldsLock
  <2>3. CASE lock = NoWorker /\ Finish(w, "write")
    <3>1. place[w] # "flush" /\ UNCHANGED lock
      BY <1>5, <2>3 DEF WriteToNobody, Finish, Goto
    <3> QED
      BY <1>1, <1>2, <1>5, <2>1, <2>3, <3>1, FinishSteps DEF WriteToNobody
  <2>4. CASE lock = w /\ Finish(w, "flush")
    <3>1. place[w] = "flush" /\ lock' = NoWorker
      BY <1>5, <2>4 DEF WriteToNobody, Finish, Goto
    <3> QED
      BY <1>1, <1>2, <1>5, <2>1, <2>4, <3>1, FinishSteps DEF WriteToNobody
  <2> QED
    BY <1>5, <2>3, <2>4 DEF WriteToNobody
<1>6. CASE EncodeFails(w)
  <2>1. Settled(its)' /\ place[w] # "flush"
    BY <1>2, <1>6 DEF EncodeFails, Raise, Settled
  <2> QED
    BY <1>1, <1>2, <1>6, <2>1, FinishSteps DEF EncodeFails, Raise, output
<1> QED
  BY <1>3, <1>4, <1>5, <1>6

\* A worker takes the first line that was submitted.
LEMMA TakeSteps ==
  ASSUME IInv, NEW w \in Workers, Take(w) PROVE IInv'
<1> USE DEF IInv
<1>1. Answered' = Answered
  BY Kept DEF Take, output
<1>2. /\ queue \in Seq(Lines) /\ queue # <<>> /\ queue' = Tail(queue)
      /\ UNCHANGED <<main, exit, stdin, written, closed, broken, read, response, lock, stdout, failed>>
  BY DEF Take, TypeOK, client, output
<1>3. Len(queue) \in Nat \ {0}
  BY <1>2, EmptySeq
<1>4. /\ Head(queue) \in Lines /\ queue' \in Seq(Lines) /\ Len(queue') = Len(queue) - 1
      /\ \A i \in 1..Len(queue') : queue'[i] = queue[i + 1]
  BY <1>2, HeadTailProperties
<1>5. Head(queue) = queue[1]
  BY <1>2
<1>6. Head(queue) \in read /\ Head(queue) \notin Answered /\ \A v \in Workers : line[v] # Head(queue)
  BY <1>3, <1>5 DEF LinesAreApart
<1>7. /\ place[w] = "idle"
      /\ line' \in [Workers -> Lines \cup {NoLine}]
      /\ place' \in [Workers -> {"idle", "handle", "write", "flush"}]
      /\ line'[w] = Head(queue) /\ place'[w] = "handle"
      /\ \A v \in Workers \ {w} : line'[v] = line[v] /\ place'[v] = place[v]
  BY <1>4 DEF Take, Goto, TypeOK
<1>8. TypeOK'
  BY <1>2, <1>4, <1>7 DEF TypeOK
<1>9. StdinIsFresh'
  BY <1>2 DEF StdinIsFresh
<1>10. LinesAreApart'
  <2>1. \A i \in 1..Len(queue') : i + 1 \in 1..Len(queue) /\ queue'[i] # Head(queue)
    BY <1>3, <1>4, <1>5 DEF LinesAreApart
  <2> QED
    BY <1>1, <1>2, <1>3, <1>4, <1>6, <1>7, <2>1, NoLineAssumption DEF LinesAreApart
<1>11. LinesAreSomewhere'
  <2>1. SUFFICES ASSUME NEW l \in read, ~Settled(l), l # Head(queue)
                 PROVE (\E i \in 1..Len(queue') : queue'[i] = l) \/ (\E v \in Workers : line'[v] = l)
    BY <1>1, <1>2, <1>7 DEF LinesAreSomewhere, Settled
  <2>2. CASE \E i \in 1..Len(queue) : queue[i] = l
    <3>1. PICK i \in 1..Len(queue) : queue[i] = l
      BY <2>2
    <3>2. i - 1 \in 1..Len(queue') /\ queue'[i - 1] = l
      BY <1>3, <1>4, <1>5, <2>1, <3>1
    <3> QED
      BY <3>2
  <2>3. CASE \E v \in Workers : line[v] = l
    <3>1. PICK v \in Workers : line[v] = l
      BY <2>3
    <3>2. l # NoLine
      BY NoLineAssumption DEF TypeOK
    <3>3. v # w
      BY <1>7, <3>1, <3>2 DEF LinesAreApart
    <3> QED
      BY <1>7, <3>1, <3>3
  <2> QED
    BY <2>1, <2>2, <2>3 DEF LinesAreSomewhere
<1>12. WriterHoldsLock'
  <2>1. lock # w
    BY <1>7 DEF WriterHoldsLock
  <2>2. lock # NoWorker => line'[lock] = line[lock]
    BY <1>7, <2>1 DEF TypeOK
  <2> QED
    BY <1>2, <1>7, <2>1, <2>2 DEF WriterHoldsLock
<1>13. ResponsesAreHandled' /\ LinesAreWhole'
  BY <1>2, <1>7 DEF ResponsesAreHandled, LinesAreWhole
<1>14. EndIsQuiet'
  BY <1>2 DEF EndIsQuiet, Idle
<1> QED
  BY <1>8, <1>9, <1>10, <1>11, <1>12, <1>13, <1>14

\* A worker has the response of its line, or none for a blank one.
LEMMA HandleSteps ==
  ASSUME IInv, NEW w \in Workers, Handle(w) PROVE IInv'
<1> USE DEF IInv
<1>1. Answered' = Answered
  BY Kept DEF Handle, output
<1>2. UNCHANGED <<main, exit, stdin, written, closed, broken, queue, read, line, lock, stdout, failed>>
  BY DEF Handle, client, output
<1>3. PICK r \in HandleLine(Text[line[w]]) : response' = [response EXCEPT ![w] = r]
  BY DEF Handle
<1>4. place[w] = "handle" /\ Text[line[w]].form \in {"object", "other"}
  BY DEF Handle
<1>5. line[w] \in Lines /\ main \notin {"starting", "over"}
  BY <1>4, WorkingLine
<1>6. r \in Responses
  BY <1>3, <1>5, HandledTypes, LinesAssumption
<1>7. /\ response' \in [Workers -> Responses \cup {NoResponse}]
      /\ place' \in [Workers -> {"idle", "handle", "write", "flush"}]
      /\ response'[w] = r /\ place'[w] = "write"
      /\ \A v \in Workers \ {w} : response'[v] = response[v] /\ place'[v] = place[v]
  BY <1>3, <1>6 DEF Handle, Goto, TypeOK
<1>8. TypeOK'
  BY <1>2, <1>7 DEF TypeOK
<1>9. StdinIsFresh' /\ LinesAreSomewhere'
  BY <1>1, <1>2 DEF StdinIsFresh, LinesAreSomewhere, Settled
<1>10. LinesAreApart'
  BY <1>1, <1>2, <1>4, <1>7 DEF LinesAreApart
<1>11. WriterHoldsLock'
  <2>1. lock # w
    BY <1>4 DEF WriterHoldsLock
  <2>2. lock # NoWorker => response'[lock] = response[lock]
    BY <1>7, <2>1 DEF TypeOK
  <2> QED
    BY <1>2, <1>4, <1>7, <2>1, <2>2 DEF WriterHoldsLock
<1>12. ResponsesAreHandled'
  BY <1>2, <1>3, <1>4, <1>7 DEF ResponsesAreHandled
<1>13. EndIsQuiet' /\ LinesAreWhole'
  BY <1>2, <1>5 DEF EndIsQuiet, LinesAreWhole
<1> QED
  BY <1>8, <1>9, <1>10, <1>11, <1>12, <1>13

\* A piece on stdout and its other half.
Whole(begin, end) == end = [line |-> begin.line, half |-> "end", response |-> begin.response]

\* Two pieces with the same fields are the same piece.
LEMMA PieceFields ==
  ASSUME NEW s \in Seq(Piece)
  PROVE  /\ DOMAIN s = 1..Len(s)
         /\ \A i \in 1..Len(s) : Whole(s[i], [s[i] EXCEPT !.half = "end"])
<1>1. DOMAIN s = 1..Len(s) /\ \A i \in 1..Len(s) : s[i] \in Piece
  BY LenProperties, ElementOfSeq
<1>2. ASSUME NEW r \in Piece
      PROVE  [r EXCEPT !.half = "end"] = [line |-> r.line, half |-> "end", response |-> r.response]
  BY <1>2 DEF Piece
<1> QED
  BY <1>1, <1>2 DEF Whole

\* LinesAreWhole in terms of the fields.
AllWhole ==
  \A i \in 1..Len(stdout) :
    IF stdout[i].half = "begin"
    THEN i = Len(stdout) \/ Whole(stdout[i], stdout[i + 1])
    ELSE i > 1 /\ stdout[i - 1].half = "begin"

\* That lines are whole is a matter of the fields of neighbouring pieces.
LEMMA WholeByFields ==
  ASSUME stdout \in Seq(Piece), stdout' \in Seq(Piece)
  PROVE  (LinesAreWhole <=> AllWhole) /\ (LinesAreWhole' <=> AllWhole')
BY PieceFields DEF LinesAreWhole, AllWhole, Whole

\* A worker that holds the lock writes its line, not yet the flush.
LEMMA BeginSteps ==
  ASSUME IInv, NEW w \in Workers, BeginWrite(w) PROVE IInv'
<1> USE DEF IInv
<1> DEFINE e == [line |-> line[w], half |-> "begin", response |-> response[w]]
<1>1. /\ lock = NoWorker /\ ~broken /\ lock' = w /\ place[w] = "write"
      /\ place' = [place EXCEPT ![w] = "flush"] /\ stdout' = Append(stdout, e)
      /\ UNCHANGED <<main, exit, stdin, written, closed, broken, queue, read, line, response, failed>>
  BY DEF BeginWrite, Goto, client
<1>2. line[w] \in Lines /\ line[w] \in read /\ line[w] \notin Answered /\ main \notin {"starting", "over"}
  BY <1>1, WorkingLine
<1>3. response[w] \in HandleLine(Text[line[w]]) /\ response[w] \in Responses
  BY <1>1, <1>2, HandledTypes, LinesAssumption DEF ResponsesAreHandled
<1>4. stdout \in Seq(Piece) /\ e \in Piece
  BY <1>2, <1>3 DEF TypeOK, Piece, Half
<1>5. /\ stdout' \in Seq(Piece)
      /\ stdout' # <<>>
      /\ Len(stdout) \in Nat /\ Len(stdout') = Len(stdout) + 1
      /\ \A i \in 1..Len(stdout) : stdout'[i] = stdout[i]
      /\ stdout'[Len(stdout')] = e
      /\ Answered' = Answered
  BY <1>1, <1>4, Appended
<1>6. /\ place' \in [Workers -> {"idle", "handle", "write", "flush"}]
      /\ place'[w] = "flush" /\ \A v \in Workers \ {w} : place'[v] = place[v]
  BY <1>1 DEF TypeOK
<1>7. TypeOK'
  BY <1>1, <1>5, <1>6 DEF TypeOK, Piece
<1>8. StdinIsFresh' /\ LinesAreSomewhere'
  BY <1>1, <1>5 DEF StdinIsFresh, LinesAreSomewhere, Settled
<1>9. LinesAreApart'
  BY <1>1, <1>5, <1>6 DEF LinesAreApart
<1>10. WriterHoldsLock'
  BY <1>1, <1>5, <1>6, WorkersAssumption DEF WriterHoldsLock
<1>11. ResponsesAreHandled'
  BY <1>1, <1>3, <1>5, <1>6 DEF ResponsesAreHandled
<1>12. EndIsQuiet'
  BY <1>1, <1>2 DEF EndIsQuiet
<1>13. LinesAreWhole'
  <2>1. Len(stdout) > 0 => stdout[Len(stdout)].half = "end"
    BY <1>1, <1>4, EmptySeq DEF WriterHoldsLock
  <2>2. AllWhole
    BY <1>4, <1>5, WholeByFields
  <2>3. Len(stdout) > 0 => stdout[Len(stdout)].half # "begin"
    BY <2>1
  <2> HIDE DEF e
  <2>4. e.half = "begin"
    BY DEF e
  <2>5. AllWhole'
    <3>1. SUFFICES ASSUME NEW i \in 1..Len(stdout')
                   PROVE  IF stdout'[i].half = "begin"
                          THEN i = Len(stdout') \/ Whole(stdout'[i], stdout'[i + 1])
                          ELSE i > 1 /\ stdout'[i - 1].half = "begin"
      BY DEF AllWhole, Whole
    <3>2. CASE i = Len(stdout')
      BY <1>5, <2>4, <3>2
    <3>3. CASE i \in 1..Len(stdout)
      <4>1. i # Len(stdout) => i + 1 \in 1..Len(stdout) /\ stdout'[i + 1] = stdout[i + 1]
        BY <1>5, <3>3
      <4>2. i > 1 => i - 1 \in 1..Len(stdout) /\ stdout'[i - 1] = stdout[i - 1]
        BY <1>5, <3>3
      <4> QED
        BY <1>5, <2>2, <2>3, <3>3, <4>1, <4>2 DEF AllWhole
    <3> QED
      BY <1>5, <3>2, <3>3
  <2> QED
    BY <1>4, <1>5, <2>5, WholeByFields
<1> QED
  BY <1>7, <1>8, <1>9, <1>10, <1>11, <1>12, <1>13

\* The write ends and the lock is released.
LEMMA EndSteps ==
  ASSUME IInv, NEW w \in Workers, EndWrite(w) PROVE IInv'
<1> USE DEF IInv
<1> DEFINE e == [line |-> line[w], half |-> "end", response |-> response[w]]
<1>1. /\ lock = w /\ ~broken /\ lock' = NoWorker /\ place[w] = "flush"
      /\ place' = [place EXCEPT ![w] = "idle"] /\ line' = [line EXCEPT ![w] = NoLine]
      /\ response' = [response EXCEPT ![w] = NoResponse]
      /\ stdout' = Append(stdout, e)
      /\ UNCHANGED <<main, exit, stdin, written, closed, broken, queue, read, failed>>
  BY DEF EndWrite, Finish, Goto, client
<1>2. PICK its \in Lines : its = line[w]
  BY <1>1, WorkingLine
<1>3. its \in read /\ its \notin Answered /\ main \notin {"starting", "over"}
  BY <1>1, <1>2, WorkingLine
<1>4. response[w] \in HandleLine(Text[its]) /\ response[w] \in Responses
  BY <1>1, <1>2, HandledTypes, LinesAssumption DEF ResponsesAreHandled
<1>5. stdout \in Seq(Piece) /\ e \in Piece /\ e.half = "end" /\ e.line = its
  BY <1>2, <1>4 DEF TypeOK, Piece, Half
<1>6. /\ stdout' \in Seq(Piece)
      /\ stdout' # <<>>
      /\ Len(stdout) \in Nat /\ Len(stdout') = Len(stdout) + 1
      /\ \A i \in 1..Len(stdout) : stdout'[i] = stdout[i]
      /\ stdout'[Len(stdout')] = e
      /\ Answered' = Answered \cup {its}
  BY <1>1, <1>5, Appended
<1>7. /\ line' \in [Workers -> Lines \cup {NoLine}]
      /\ place' \in [Workers -> {"idle", "handle", "write", "flush"}]
      /\ response' \in [Workers -> Responses \cup {NoResponse}]
      /\ line'[w] = NoLine /\ place'[w] = "idle"
      /\ \A v \in Workers \ {w} : line'[v] = line[v] /\ place'[v] = place[v] /\ response'[v] = response[v]
  BY <1>1 DEF TypeOK
<1>8. TypeOK'
  BY <1>1, <1>6, <1>7 DEF TypeOK, Piece
<1>9. StdinIsFresh'
  BY <1>1 DEF StdinIsFresh
<1>10. LinesAreApart'
  <2>1. \A i \in 1..Len(queue) : queue[i] # NoLine /\ queue[i] # its
    BY <1>2, NoLineAssumption DEF TypeOK, LinesAreApart
  <2>2. \A v \in Workers \ {w} : line[v] # its
    BY <1>2, NoLineAssumption DEF LinesAreApart
  <2> QED
    BY <1>1, <1>3, <1>6, <1>7, <2>1, <2>2 DEF LinesAreApart
<1>11. LinesAreSomewhere'
  <2>1. SUFFICES ASSUME NEW l \in read, ~Settled(l), l # its
                 PROVE (\E i \in 1..Len(queue) : queue[i] = l) \/ (\E v \in Workers : line'[v] = l)
    BY <1>1, <1>6 DEF LinesAreSomewhere, Settled
  <2>2. ASSUME NEW v \in Workers, line[v] = l PROVE line'[v] = l
    BY <1>2, <1>7, <2>1, <2>2
  <2> QED
    BY <2>1, <2>2 DEF LinesAreSomewhere
<1>12. WriterHoldsLock'
  BY <1>1, <1>5, <1>6, <1>7, WorkersAssumption DEF WriterHoldsLock
<1>13. ResponsesAreHandled'
  <2>1. e.response = response[w]
    OBVIOUS
  <2>2. \A v \in Workers : place'[v] \in {"write", "flush"} =>
          Text[line'[v]].form \in {"object", "other"} /\ response'[v] \in HandleLine(Text[line'[v]])
    BY <1>7 DEF ResponsesAreHandled
  <2>3. ASSUME NEW i \in 1..Len(stdout') PROVE stdout'[i].response \in HandleLine(Text[stdout'[i].line])
    BY <1>4, <1>5, <1>6, <2>1 DEF ResponsesAreHandled
  <2> QED
    BY <2>2, <2>3 DEF ResponsesAreHandled
<1>14. EndIsQuiet'
  BY <1>1, <1>3 DEF EndIsQuiet
<1>15. LinesAreWhole'
  <2>1. /\ Len(stdout) > 0 /\ stdout[Len(stdout)].half = "begin"
        /\ Whole(stdout[Len(stdout)], e)
    BY <1>1, <1>5, WorkersAssumption, EmptySeq DEF WriterHoldsLock, Whole
  <2>2. AllWhole
    BY <1>5, <1>6, WholeByFields
  <2>3. AllWhole'
    <3> HIDE DEF e
    <3>1. SUFFICES ASSUME NEW i \in 1..Len(stdout')
                   PROVE  IF stdout'[i].half = "begin"
                          THEN i = Len(stdout') \/ Whole(stdout'[i], stdout'[i + 1])
                          ELSE i > 1 /\ stdout'[i - 1].half = "begin"
      BY DEF AllWhole, Whole
    <3>2. CASE i = Len(stdout')
      BY <1>5, <1>6, <2>1, <3>2
    <3>3. CASE i = Len(stdout)
      BY <1>6, <2>1, <3>3
    <3>4. CASE i \in 1..(Len(stdout) - 1)
      <4>1. i + 1 \in 1..Len(stdout) /\ stdout'[i + 1] = stdout[i + 1] /\ stdout'[i] = stdout[i] /\ i # Len(stdout)
        BY <1>6, <3>4
      <4>2. i > 1 => i - 1 \in 1..Len(stdout) /\ stdout'[i - 1] = stdout[i - 1]
        BY <1>6, <3>4
      <4> QED
        BY <1>6, <2>2, <3>4, <4>1, <4>2 DEF AllWhole
    <3> QED
      BY <1>6, <3>2, <3>3, <3>4
  <2> QED
    BY <1>5, <1>6, <2>3, WholeByFields
<1> QED
  BY <1>8, <1>9, <1>10, <1>11, <1>12, <1>13, <1>14, <1>15

\* Every step of the client, of main() and of the workers keeps the invariant.
THEOREM StepIInv == IInv /\ [Next]_vars => IInv'
<1> SUFFICES ASSUME IInv, [Next]_vars PROVE IInv'
  OBVIOUS
<1>1. ASSUME NEW w \in Workers, Work(w) PROVE IInv'
  BY <1>1, TakeSteps, HandleSteps, DroppingSteps, BeginSteps, EndSteps DEF Work
<1>2. CASE UNCHANGED vars
  <2>1. UNCHANGED <<main, exit, stdin, written, closed, broken, queue, read, line, place, response,
                    lock, stdout, failed>>
    BY <1>2 DEF vars, client, pool, output
  <2>2. Answered' = Answered
    BY <2>1, Kept
  <2>3. TypeOK' /\ StdinIsFresh'
    BY <2>1 DEF IInv, TypeOK, StdinIsFresh
  <2>4. LinesAreApart' /\ LinesAreSomewhere'
    BY <2>1, <2>2 DEF IInv, LinesAreApart, LinesAreSomewhere, Settled
  <2>5. WriterHoldsLock' /\ ResponsesAreHandled' /\ EndIsQuiet' /\ LinesAreWhole'
    BY <2>1 DEF IInv, WriterHoldsLock, ResponsesAreHandled, EndIsQuiet, Idle, LinesAreWhole
  <2> QED
    BY <2>3, <2>4, <2>5 DEF IInv
<1> QED
  BY <1>1, <1>2, ClientSteps, ReadSteps, MainSteps DEF Next

\* So it holds of every state the host reaches.
THEOREM Invariance == Spec => []IInv
BY InitIInv, StepIInv, PTL DEF Spec

\* The reader thread of the desktop can use what it reads (runtime_host.py,
\* runtime_protocol.py): lines are whole, the identifiers come back, and "completed" is said of
\* decoded requests only, however many workers write.
THEOREM Understanding == Spec => []ReaderUnderstands
<1>1. ASSUME NEW text \in Texts, NEW r \in HandleLine(text)
      PROVE  Correlates(text, r) /\ (r.status = "completed" => Decodes(text) /\ text.operation \in Operations)
  BY <1>1
  DEF Texts, HandleLine, Response, Rejection, Dispatched, Decodes, Recovered, Results,
      Codes, IdForms, Operations, Correlates
<1>2. IInv => ReaderUnderstands
  <2>1. SUFFICES ASSUME IInv PROVE ReaderUnderstands
    OBVIOUS
  <2>2. DOMAIN stdout = 1..Len(stdout) /\ \A i \in 1..Len(stdout) : stdout[i].line \in Lines
    <3>1. stdout \in Seq(Piece)
      BY <2>1 DEF IInv, TypeOK, Piece, Half
    <3>2. DOMAIN stdout = 1..Len(stdout) /\ \A i \in 1..Len(stdout) : stdout[i] \in Piece
      BY <3>1, LenProperties, ElementOfSeq
    <3> QED
      BY <3>2 DEF Piece
  <2>3. \A i \in DOMAIN stdout : Text[stdout[i].line] \in Texts
                                /\ stdout[i].response \in HandleLine(Text[stdout[i].line])
    BY <2>1, <2>2, LinesAssumption DEF IInv, ResponsesAreHandled
  <2> QED
    BY <1>1, <2>1, <2>3 DEF IInv, ReaderUnderstands
<1> QED
  BY Invariance, <1>2, PTL

\* A host that ends with code 0 has answered every line it read, and no end leaves a line half
\* handled (main() of runtime_host.py).
THEOREM Truthfulness == Spec => []ExitIsTruthful
<1>1. IInv => ExitIsTruthful
  <2>1. SUFFICES ASSUME IInv, main = "over" PROVE ExitIsTruthful
    BY DEF ExitIsTruthful
  <2>2. Idle
    BY <2>1 DEF IInv, EndIsQuiet
  <2>3. ASSUME NEW l \in read, exit = "zero", ~broken PROVE l \in Answered \/ Text[l].form = "blank"
    <3>1. l # NoLine
      BY <2>1, NoLineAssumption DEF IInv, TypeOK
    <3>2. \A w \in Workers : line[w] # l
      BY <2>1, <2>2, <3>1 DEF IInv, LinesAreApart, Idle
    <3>3. Len(queue) = 0
      BY <2>2, EmptySeq DEF Idle
    <3>4. Settled(l)
      BY <2>1, <3>2, <3>3 DEF IInv, LinesAreSomewhere
    <3>5. failed = {}
      BY <2>1, <2>3 DEF IInv, EndIsQuiet
    <3> QED
      BY <2>3, <3>4, <3>5 DEF Settled
  <2> QED
    BY <2>1, <2>2, <2>3 DEF ExitIsTruthful
<1> QED
  BY Invariance, <1>1, PTL

\* The host keeps the contract (RuntimeHostContract): a line is answered once, only what was
\* asked is answered, and nothing after the end.
THEOREM Refinement == Spec => KeepsContract
<1>1. Init => Contract!Init
  <2> SUFFICES ASSUME Init PROVE Contract!Init
    OBVIOUS
  <2>1. \A l \in Lines : Answers[l] = 0
    <3>1. Answered = {}
      BY DEF Init, Answered
    <3> QED
      BY <3>1, UnansweredCount
  <2>2. Answers = [l \in Lines |-> Answers[l]]
    BY DEF Answers
  <2>3. Answers = [l \in Lines |-> 0]
    BY <2>1, <2>2
  <2> QED
    BY <2>3 DEF Init, Contract!Init
<1>2. IInv /\ [Next]_vars => [Contract!Next]_(Contract!vars)
  <2> SUFFICES ASSUME IInv, [Next]_vars PROVE [Contract!Next]_(Contract!vars)
    OBVIOUS
  <2> USE DEF Contract!vars
  <2>1. CASE UNCHANGED <<read, Answers, main>>
    BY <2>1
  <2>2. CASE ReadLine
    <3>1. PICK l \in Lines : l = Head(stdin)
      <4>1. stdin \in Seq(Lines) /\ stdin # <<>>
        BY <2>2 DEF IInv, TypeOK, ReadLine
      <4> QED
        BY <4>1, HeadTailProperties
    <3>2. l \notin read
      <4>1. stdin \in Seq(Lines) /\ stdin # <<>>
        BY <2>2 DEF IInv, TypeOK, ReadLine
      <4>2. Len(stdin) \in Nat \ {0} /\ Head(stdin) = stdin[1]
        BY <4>1, EmptySeq
      <4> QED
        BY <3>1, <4>2 DEF IInv, StdinIsFresh
    <3>3. Answers' = Answers /\ main = "reading" /\ main' = "reading" /\ read' = read \cup {l}
      BY <2>2, <3>1, Kept DEF ReadLine, output
    <3>4. Contract!Ask(l)
      BY <3>2, <3>3 DEF Contract!Ask
    <3> QED
      BY <3>4 DEF Contract!Next
  <2>3. ASSUME NEW w \in Workers, EndWrite(w) PROVE Contract!Next
    <3>1. PICK its \in Lines : its = line[w]
      BY <2>3, WorkingLine DEF EndWrite, Finish, Goto
    <3>2. its \in read /\ its \notin Answered /\ main # "over"
      BY <2>3, <3>1, WorkingLine DEF EndWrite, Finish, Goto
    <3>3. stdout' = Append(stdout, [line |-> line[w], half |-> "end", response |-> response[w]])
      BY <2>3 DEF EndWrite
    <3>4. response[w] \in Responses
      BY <2>3, <3>1, HandledTypes, LinesAssumption DEF IInv, ResponsesAreHandled, EndWrite, Finish, Goto
    <3> DEFINE e == [line |-> line[w], half |-> "end", response |-> response[w]]
    <3>5. Answers' = [Answers EXCEPT ![its] = 1] /\ Answers[its] = 0
      <4>1. stdout \in Seq(Piece) /\ e \in Piece /\ e.half = "end" /\ e.line = its
        BY <3>1, <3>4 DEF IInv, TypeOK, Piece, Half
      <4> QED
        BY <3>2, <3>3, <4>1, Counted, UnansweredCount
    <3>6. UNCHANGED <<read, main>>
      BY <2>3 DEF EndWrite
    <3>7. Contract!Answer(its)
      BY <3>2, <3>5, <3>6 DEF Contract!Answer
    <3> QED
      BY <3>7 DEF Contract!Next
  <2>4. CASE Start \/ EndOfInput \/ ReadFails \/ Exit
    <3>1. Answers' = Answers /\ read' = read /\ main # "over"
      BY <2>4, Kept DEF Start, EndOfInput, ReadFails, Exit, output
    <3>2. CASE main' = "over"
      BY <3>1, <3>2 DEF Contract!Next, Contract!End
    <3>3. CASE main' # "over"
      BY <3>1, <3>3
    <3> QED
      BY <3>2, <3>3
  <2>5. ASSUME NEW w \in Workers, BeginWrite(w) PROVE UNCHANGED <<read, Answers, main>>
    <3>1. PICK its \in Lines : its = line[w]
      BY <2>5, WorkingLine DEF BeginWrite, Goto
    <3>2. response[w] \in Responses
      BY <2>5, <3>1, HandledTypes, LinesAssumption DEF IInv, ResponsesAreHandled, BeginWrite, Goto
    <3>3. stdout' = Append(stdout, [line |-> line[w], half |-> "begin", response |-> response[w]])
      BY <2>5 DEF BeginWrite
    <3> DEFINE e == [line |-> line[w], half |-> "begin", response |-> response[w]]
    <3>4. Answers' = Answers
      <4>1. stdout \in Seq(Piece) /\ e \in Piece /\ e.half = "begin"
        BY <3>1, <3>2 DEF IInv, TypeOK, Piece, Half
      <4> QED
        BY <3>3, <4>1, Counted
    <3> QED
      BY <2>5, <3>4 DEF BeginWrite
  <2>6. ASSUME NEW w \in Workers,
               Take(w) \/ IgnoreBlank(w) \/ Handle(w) \/ HandleRaises(w) \/ WriteToNobody(w) \/ EncodeFails(w)
        PROVE  UNCHANGED <<read, Answers, main>>
    BY <2>6, Kept DEF Take, IgnoreBlank, Handle, HandleRaises, WriteToNobody, EncodeFails, output
  <2>7. CASE (\E l \in Lines : Write(l)) \/ CloseStdin \/ StopReading
    BY <2>7, <2>1, Kept DEF Write, CloseStdin, StopReading, output
  <2>8. CASE UNCHANGED vars
    BY <2>8, <2>1, Kept DEF vars, output
  <2> QED
    BY <2>1, <2>2, <2>3, <2>4, <2>5, <2>6, <2>7, <2>8 DEF Next, Work
<1> QED
  BY <1>1, <1>2, Invariance, PTL DEF Spec, KeepsContract, Contract!Spec

\* Every variable keeps its type.
THEOREM TypeCorrect == Spec => []TypeOK
<1>1. IInv => TypeOK
  BY DEF IInv
<1> QED
  BY Invariance, <1>1, PTL

=============================================================================
