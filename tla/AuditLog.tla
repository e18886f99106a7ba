------------------------------- MODULE AuditLog -------------------------------
(***************************************************************************)
(* AppendOnlyAuditLog (audit.py): the threads of one runtime host append    *)
(* records to the hash-chained file that outlives the host.  append reads   *)
(* the last hash and opens the file again to write; nothing holds the other *)
(* threads off in between.  A record's hash is its identity: uuid4 makes    *)
(* every record, and hence its SHA-256, different.                          *)
(***************************************************************************)
EXTENDS Naturals, Sequences

CONSTANTS
  Threads,     \* threads of the host that finish tasks
  MaxRecords,  \* bound: calls of append
  MaxTorn,     \* bound: writes that stop half way (a full disk, a killed host)
  MaxRestarts  \* bound: restarts of the host

ASSUME BoundsAssumption == MaxRecords \in Nat /\ MaxTorn \in Nat /\ MaxRestarts \in Nat

Genesis == 0

Records == [hash : 1..MaxRecords, previous : 0..MaxRecords]

\* A line that cannot be parsed.
Torn == [hash |-> 0, previous |-> 0]

VARIABLES
  file,      \* the lines of audit.jsonl
  open,      \* whether the last of them lacks its newline
  pc,        \* "idle" or "write": between the two halves of append
  previous,  \* previous_hash of the record a thread is about to write
  issued,    \* records made so far
  mine,      \* the hash of the record a thread is about to write
  written,   \* hashes of the records whose append returned
  overlapped, \* whether an append has begun while another one was under way
  torn, restarts

threadVars == <<pc, previous, mine>>
logVars == <<file, open, threadVars, issued, written, overlapped, torn, restarts>>

LogTypeOK ==
  /\ file \in Seq(Records \cup {Torn}) /\ open \in BOOLEAN /\ (open => file # <<>>)
  /\ pc \in [Threads -> {"idle", "write"}]
  /\ previous \in [Threads -> 0..MaxRecords]
  /\ mine \in [Threads -> 0..MaxRecords]
  /\ issued \in 0..MaxRecords
  /\ written \subseteq 1..MaxRecords /\ overlapped \in BOOLEAN
  /\ torn \in 0..MaxTorn /\ restarts \in 0..MaxRestarts

Idle == [t \in Threads |-> "idle"]

LogInit ==
  /\ file = <<>> /\ open = FALSE
  /\ pc = Idle
  /\ previous = [t \in Threads |-> 0] /\ mine = [t \in Threads |-> 0]
  /\ issued = 0 /\ written = {} /\ overlapped = FALSE
  /\ torn = MaxTorn /\ restarts = MaxRestarts

Lines == DOMAIN file

Readable == \A i \in Lines : file[i] # Torn

\* _last_hash: the hash in the last line; it parses every line, so an unparsable one
\* anywhere makes it raise.
LastHash == IF file = <<>> THEN Genesis ELSE file[Len(file)].hash

\* A variant that reads the hash of the first record instead of the last.
ReadFirstHash(t) ==
  /\ pc[t] = "idle" /\ issued < MaxRecords /\ Readable
  /\ issued' = issued + 1
  /\ mine' = [mine EXCEPT ![t] = issued']
  /\ previous' = [previous EXCEPT ![t] = IF file = <<>> THEN Genesis ELSE file[1].hash]
  /\ pc' = [pc EXCEPT ![t] = "write"]
  /\ overlapped' = (overlapped \/ pc # Idle)
  /\ UNCHANGED <<file, open, written, torn, restarts>>

\* append as far as the hash of the new record.
ReadLastHash(t) ==
  /\ pc[t] = "idle" /\ issued < MaxRecords /\ Readable
  /\ issued' = issued + 1
  /\ mine' = [mine EXCEPT ![t] = issued']
  /\ previous' = [previous EXCEPT ![t] = LastHash]
  /\ pc' = [pc EXCEPT ![t] = "write"]
  /\ overlapped' = (overlapped \/ pc # Idle)
  /\ UNCHANGED <<file, open, written, torn, restarts>>

\* An unreadable line: append raises before it has written anything.
ReadRaises(t) ==
  /\ pc[t] = "idle" /\ issued < MaxRecords /\ ~Readable
  /\ issued' = issued + 1
  /\ UNCHANGED <<file, open, threadVars, written, overlapped, torn, restarts>>

\* What is written behind a line without a newline becomes part of it, and neither can be
\* parsed.
Extended(line) ==
  IF open THEN [file EXCEPT ![Len(file)] = Torn] ELSE Append(file, line)

Record(t) == [hash |-> mine[t], previous |-> previous[t]]

\* A variant that opens the file with mode "w".
OverwriteRecord(t) ==
  /\ pc[t] = "write"
  /\ file' = <<Record(t)>> /\ open' = FALSE
  /\ written' = written \cup {mine[t]}
  /\ pc' = [pc EXCEPT ![t] = "idle"]
  /\ UNCHANGED <<previous, mine, issued, overlapped, torn, restarts>>

WriteRecord(t) ==
  /\ pc[t] = "write"
  /\ file' = Extended(Record(t)) /\ open' = FALSE
  /\ written' = written \cup {mine[t]}
  /\ pc' = [pc EXCEPT ![t] = "idle"]
  /\ UNCHANGED <<previous, mine, issued, overlapped, torn, restarts>>

\* The write stops half way, in the line or before its newline, and append raises.
WriteTears(t) ==
  /\ torn > 0 /\ torn' = torn - 1
  /\ pc[t] = "write"
  /\ \E line \in {Torn, Record(t)} : file' = Extended(line)
  /\ open' = TRUE
  /\ pc' = [pc EXCEPT ![t] = "idle"]
  /\ UNCHANGED <<previous, mine, issued, written, overlapped, restarts>>

\* It stops before the first byte.
WriteFails(t) ==
  /\ torn > 0 /\ torn' = torn - 1
  /\ pc[t] = "write"
  /\ pc' = [pc EXCEPT ![t] = "idle"]
  /\ UNCHANGED <<file, open, previous, mine, issued, written, overlapped, restarts>>

\* The host goes down and another one takes over the file.
Restart ==
  /\ restarts > 0 /\ restarts' = restarts - 1
  /\ pc' = Idle
  /\ UNCHANGED <<file, open, previous, mine, issued, written, overlapped, torn>>

LogNext ==
  \/ \E t \in Threads : ReadLastHash(t) \/ ReadRaises(t) \/ WriteRecord(t) \/ WriteTears(t) \/ WriteFails(t)
  \/ Restart

LogSpec == LogInit /\ [][LogNext]_logVars

-----------------------------------------------------------------------------

\* verify_chain, as far as it does not raise.
VerifyChain ==
  \A i \in Lines : file[i].previous = IF i = 1 THEN Genesis ELSE file[i - 1].hash

\* A record whose append returned stays in the file for good, unless a torn line has
\* swallowed it; and it stands there once.
ReturnedIsKept ==
  /\ \A h \in written :
       (\E i \in Lines : file[i].hash = h) \/ ~Readable
  /\ \A i, j \in Lines : file[i] # Torn /\ file[i].hash = file[j].hash => i = j

\* Appends that take turns make one chain, through restarts that end an append half way and
\* through torn writes, as long as the file can be read at all.
TurnsMakeAChain == ~overlapped /\ Readable => VerifyChain

=============================================================================
