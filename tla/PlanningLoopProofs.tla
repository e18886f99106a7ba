-------------------------- MODULE PlanningLoopProofs --------------------------
(***************************************************************************)
(* Proofs about PlanningLoop, for every number of iterations, every         *)
(* conversation a message comes with and every length of an outcome.        *)
(***************************************************************************)
EXTENDS PlanningLoop, SequenceTheorems, FiniteSetTheorems, WellFoundedInduction, TLAPS

\* The control of the loop, without the texts.
ControlIsTyped ==
  /\ pc \in {"top", "asked", "executing", "returned", "done"}
  /\ token \in {"absent", "clear", "user", "timeout"}
  /\ index \in 0..MaxIterations
  /\ outcomes \in Seq(Terminal)

\* An iteration that has come back to the top, or is about to, has executed one task.
OneTaskEach ==
  /\ pc \in {"top", "returned"} => Len(outcomes) = index
  /\ pc \in {"asked", "executing"} => Len(outcomes) + 1 = index

\* While the loop is under way it has no reason to stop, and all tasks so far succeeded.
OnlySuccesses ==
  pc # "done" => stop = "none" /\ \A i \in 1..Len(outcomes) : outcomes[i] = "SUCCEEDED"

IInv == ControlIsTyped /\ OneTaskEach /\ OnlySuccesses /\ FailureEnds /\ StopAgrees

\* The tasks executed so far and one more.
LEMMA Executed ==
  ASSUME NEW s \in Seq(Terminal), NEW state \in Terminal
  PROVE  LET d == Append(s, state) IN
         /\ d \in Seq(Terminal) /\ Len(s) \in Nat /\ Len(d) = Len(s) + 1 /\ d # <<>>
         /\ \A i \in 1..Len(s) : d[i] = s[i]
         /\ d[Len(d)] = state
         /\ DOMAIN d = 1..Len(d)
BY AppendProperties, LenProperties

\* A task that did not succeed has a reason of its own, which no other way out of the loop has.
LEMMA Reasons ==
  /\ DOMAIN TaskStop = Terminal \ {"SUCCEEDED"}
  /\ \A s, u \in DOMAIN TaskStop : TaskStop[s] = TaskStop[u] => s = u
  /\ \A s \in DOMAIN TaskStop :
       TaskStop[s] \notin {"none", "model_error", "escaped", "CANCELLED", "FINAL_RESPONSE",
                           "TOOL_EXECUTION_REQUIRED", "MAX_ITERATIONS"}
<1>1. DOMAIN TaskStop = {"FAILED", "DENIED", "CANCELLED", "TIMED_OUT"}
  BY DEF TaskStop
<1>2. /\ TaskStop["FAILED"] = "TOOL_FAILED" /\ TaskStop["DENIED"] = "TOOL_DENIED"
      /\ TaskStop["CANCELLED"] = "TOOL_CANCELLED" /\ TaskStop["TIMED_OUT"] = "TOOL_TIMED_OUT"
  BY DEF TaskStop
<1> QED
  BY <1>1, <1>2 DEF Terminal

\* The initial states satisfy the invariant.
THEOREM InitIInv == Init => IInv
<1> SUFFICES ASSUME Init PROVE IInv
  OBVIOUS
<1>1. /\ pc = "top" /\ index = 0 /\ stop = "none" /\ token \in {"absent", "clear"}
      /\ outcomes = <<>> /\ Len(outcomes) = 0 /\ DOMAIN outcomes = 1..0
      /\ outcomes \in Seq(Terminal)
  BY EmptySeq, LenProperties DEF Init
<1>2. 1..0 = {}
  OBVIOUS
<1> HIDE DEF Init
<1>3. ControlIsTyped /\ OneTaskEach /\ OnlySuccesses
  BY <1>1, <1>2, LoopAssumption DEF ControlIsTyped, OneTaskEach, OnlySuccesses
<1>4. FailureEnds /\ StopAgrees
  BY <1>1, <1>2, Reasons DEF FailureEnds, StopAgrees
<1> QED
  BY <1>3, <1>4 DEF IInv

\* Every step keeps it.
THEOREM StepIInv == IInv /\ [Next]_vars => IInv'
<1> SUFFICES ASSUME IInv, [Next]_vars PROVE IInv'
  OBVIOUS
<1> USE LoopAssumption DEF IInv
<1>a. Len(outcomes) \in Nat /\ DOMAIN outcomes = 1..Len(outcomes) /\ outcomes \in Seq(Terminal)
  BY LenProperties DEF ControlIsTyped
<1>b. pc # "done" => (outcomes = <<>> <=> ~LastSucceeded)
  BY <1>a, EmptySeq DEF OnlySuccesses, LastSucceeded
\* The ways out that execute nothing.
<1>c. ASSUME pc # "done", NEW reason, Stop(reason), UNCHANGED <<token, explicit, outcomes>>,
             index' \in 0..MaxIterations,
             reason \in {"model_error", "escaped", "CANCELLED", "FINAL_RESPONSE",
                         "TOOL_EXECUTION_REQUIRED", "MAX_ITERATIONS"},
             reason = "FINAL_RESPONSE" => ~explicit \/ LastSucceeded,
             reason = "TOOL_EXECUTION_REQUIRED" => outcomes = <<>>,
             reason = "CANCELLED" => Cancelled,
             reason = "MAX_ITERATIONS" => Len(outcomes) = MaxIterations
      PROVE  IInv'
  <2>1. ControlIsTyped' /\ OneTaskEach' /\ OnlySuccesses'
    BY <1>c DEF Stop, ControlIsTyped, OneTaskEach, OnlySuccesses
  <2>2. FailureEnds'
    BY <1>a, <1>c DEF Stop, OnlySuccesses, FailureEnds
  <2>3. StopAgrees'
    BY <1>c, Reasons DEF Stop, StopAgrees, LastSucceeded, Cancelled
  <2> QED
    BY <2>1, <2>2, <2>3
\* The steps from one place of the loop to the next, and a request of the token.
<1>d. ASSUME pc # "done", pc' \in {"top", "asked", "executing", "returned"}, stop' = stop,
             token' \in {"absent", "clear", "user", "timeout"}, index' \in 0..MaxIterations,
             outcomes' \in Seq(Terminal), OneTaskEach',
             DOMAIN outcomes' = 1..Len(outcomes'),
             \A i \in 1..Len(outcomes') : outcomes'[i] = "SUCCEEDED"
      PROVE  IInv'
  <2>1. ControlIsTyped' /\ OnlySuccesses'
    BY <1>d DEF ControlIsTyped, OnlySuccesses
  <2>2. FailureEnds' /\ StopAgrees'
    BY <1>d, Reasons DEF OnlySuccesses, FailureEnds, StopAgrees
  <2> QED
    BY <1>d, <2>1, <2>2
<1>1. CASE Exhausted
  BY <1>1, <1>c DEF Exhausted, ControlIsTyped, OneTaskEach
<1>2. CASE StopBeforeAsking \/ PromptRefused
  <2>1. pc = "top" /\ index' \in 0..MaxIterations /\ UNCHANGED <<token, explicit, outcomes>>
    BY <1>2 DEF StopBeforeAsking, PromptRefused, Iterate, ControlIsTyped
  <2>2. (Stop("CANCELLED") /\ Cancelled) \/ Stop("escaped")
    BY <1>2 DEF StopBeforeAsking, PromptRefused
  <2> QED
    BY <2>1, <2>2, <1>c
<1>3. CASE Ask
  <2>1. /\ pc = "top" /\ pc' = "asked" /\ index' = index + 1 /\ index < MaxIterations
        /\ UNCHANGED <<token, outcomes, stop>>
    BY <1>3 DEF Ask, Iterate
  <2>2. OneTaskEach' /\ index' \in 0..MaxIterations
    BY <1>a, <2>1 DEF ControlIsTyped, OneTaskEach
  <2> QED
    BY <1>a, <1>d, <2>1, <2>2 DEF ControlIsTyped, OnlySuccesses
<1>4. CASE ModelFails \/ DecisionRefused \/ ProposalRefused
  <2>1. pc # "done" /\ UNCHANGED <<token, explicit, outcomes, index>> /\ (Stop("model_error") \/ Stop("escaped"))
    BY <1>4 DEF ModelFails, DecisionRefused, ProposalRefused, Raise
  <2> QED
    BY <1>c, <2>1 DEF ControlIsTyped
<1>5. CASE Answer
  <2>1. pc # "done" /\ UNCHANGED <<token, explicit, outcomes, index>>
    BY <1>5 DEF Answer
  <2>2. \/ Stop("TOOL_EXECUTION_REQUIRED") /\ outcomes = <<>>
        \/ Stop("FINAL_RESPONSE") /\ (~explicit \/ LastSucceeded)
    BY <1>5, <1>b DEF Answer
  <2> QED
    BY <1>c, <2>1, <2>2 DEF ControlIsTyped
<1>6. CASE Propose \/ RequestAfterTool
  <2>1. /\ UNCHANGED <<token, outcomes, stop, index>>
        /\ \/ pc = "asked" /\ pc' = "executing"
           \/ pc = "returned" /\ pc' = "top"
    BY <1>6 DEF Propose, RequestAfterTool
  <2>2. OneTaskEach'
    BY <2>1 DEF OneTaskEach
  <2> QED
    BY <1>a, <1>d, <2>1, <2>2 DEF ControlIsTyped, OnlySuccesses
<1>7. CASE TaskSucceeds
  <2>1. /\ pc = "executing" /\ pc' = "returned" /\ UNCHANGED <<index, stop>>
        /\ outcomes' = Append(outcomes, "SUCCEEDED")
        /\ token' \in {"absent", "clear", "user", "timeout"}
    BY <1>7 DEF TaskSucceeds, WatchdogMayRequest, ControlIsTyped
  <2>2. /\ outcomes' \in Seq(Terminal) /\ Len(outcomes') = Len(outcomes) + 1
        /\ \A i \in 1..Len(outcomes) : outcomes'[i] = outcomes[i]
        /\ outcomes'[Len(outcomes')] = "SUCCEEDED"
        /\ DOMAIN outcomes' = 1..Len(outcomes')
    BY <1>a, <2>1, Executed DEF Terminal
  <2>3. \A i \in 1..Len(outcomes') : outcomes'[i] = "SUCCEEDED"
    BY <1>a, <2>1, <2>2 DEF OnlySuccesses
  <2>4. OneTaskEach'
    BY <2>1, <2>2 DEF OneTaskEach
  <2> QED
    BY <1>d, <2>1, <2>2, <2>3, <2>4 DEF ControlIsTyped
<1>8. ASSUME NEW s \in Terminal \ {"SUCCEEDED"}, TaskFails(s) PROVE IInv'
  <2>1. /\ pc = "executing" /\ pc' = "done" /\ stop' = TaskStop[s] /\ UNCHANGED <<index, explicit>>
        /\ outcomes' = Append(outcomes, s)
        /\ token' \in {"absent", "clear", "user", "timeout"}
    BY <1>8 DEF TaskFails, Stop, WatchdogMayRequest, ControlIsTyped
  <2>2. /\ outcomes' \in Seq(Terminal) /\ Len(outcomes') = Len(outcomes) + 1
        /\ \A i \in 1..Len(outcomes) : outcomes'[i] = outcomes[i]
        /\ outcomes'[Len(outcomes')] = s
        /\ DOMAIN outcomes' = 1..Len(outcomes')
    BY <1>a, <2>1, Executed
  <2>3. ControlIsTyped' /\ OneTaskEach' /\ OnlySuccesses'
    BY <2>1, <2>2 DEF ControlIsTyped, OneTaskEach, OnlySuccesses
  <2>4. FailureEnds'
    BY <1>a, <2>1, <2>2 DEF OnlySuccesses, FailureEnds
  <2>5. StopAgrees'
    BY <2>1, <2>2, Reasons DEF StopAgrees
  <2> QED
    BY <2>3, <2>4, <2>5
<1>9. CASE TaskRaises
  <2>1. /\ pc = "executing" /\ Stop("escaped") /\ UNCHANGED <<index, explicit, outcomes>>
        /\ token' \in {"absent", "clear", "user", "timeout"}
    BY <1>9 DEF TaskRaises, WatchdogMayRequest, ControlIsTyped
  <2>2. ControlIsTyped' /\ OneTaskEach' /\ OnlySuccesses'
    BY <2>1 DEF Stop, ControlIsTyped, OneTaskEach, OnlySuccesses
  <2>3. FailureEnds'
    BY <1>a, <2>1 DEF Stop, OnlySuccesses, FailureEnds
  <2>4. StopAgrees'
    BY <2>1, Reasons DEF Stop, StopAgrees
  <2> QED
    BY <2>2, <2>3, <2>4
<1>10. CASE StopAfterTask
  BY <1>10, <1>c DEF StopAfterTask, ControlIsTyped
<1>11. CASE UserCancels
  <2>1. pc # "done" /\ token' = "user" /\ UNCHANGED <<pc, index, outcomes, stop>>
    BY <1>11 DEF UserCancels
  <2>2. OneTaskEach'
    BY <2>1 DEF OneTaskEach
  <2> QED
    BY <1>a, <1>d, <2>1, <2>2 DEF ControlIsTyped, OnlySuccesses
<1>12. CASE UNCHANGED vars
  BY <1>12 DEF vars, ControlIsTyped, OneTaskEach, OnlySuccesses, FailureEnds, StopAgrees,
     LastSucceeded, Cancelled
<1> QED
  BY <1>1, <1>2, <1>3, <1>4, <1>5, <1>6, <1>7, <1>8, <1>9, <1>10, <1>11, <1>12 DEF Next

\* So it holds of every state of a message.
THEOREM Invariance == Spec => []IInv
BY InitIInv, StepIInv, PTL DEF Spec

\* After an outcome other than SUCCEEDED the loop is over (intelligence_planning_loop.py): no
\* tool is run after it and the model is not asked again.
THEOREM Failures == Spec => []FailureEnds
<1>1. IInv => FailureEnds
  BY DEF IInv
<1> QED
  BY Invariance, <1>1, PTL

\* The reason a message ends with is what happened to its tasks and its token.
THEOREM TruthfulStops == Spec => []StopAgrees
<1>1. IInv => StopAgrees
  BY DEF IInv
<1> QED
  BY Invariance, <1>1, PTL

-----------------------------------------------------------------------------
(* The view of the conversation: BuildContext, by induction over the messages *)

\* Induction over the natural numbers, stated of a set: the least number outside it would have
\* a predecessor inside it.
LEMMA SetInduction ==
  ASSUME NEW T, 0 \in T, \A n \in Nat : n \in T => n + 1 \in T
  PROVE  \A n \in Nat : n \in T
<1> DEFINE U == Nat \ T
           R == OpToRel(<, Nat)
<1> SUFFICES ASSUME U # {} PROVE FALSE
  OBVIOUS
<1>1. IsWellFoundedOn(R, Nat)
  BY NatLessThanWellFounded
<1>2. U \subseteq Nat
  OBVIOUS
<1> HIDE DEF R
<1>3. PICK x \in U : \A y \in U : <<y, x>> \notin R
  BY <1>1, <1>2, WFMin
<1>4. x # 0 /\ x \in Nat /\ x - 1 \in Nat /\ x - 1 < x
  OBVIOUS
<1>5. <<x - 1, x>> \in R
  BY <1>4 DEF R, OpToRel
<1>6. x - 1 \notin U
  BY <1>3, <1>5
<1>7. x - 1 \in T
  BY <1>4, <1>6
<1>. QED  BY <1>4, <1>7

\* The same up to a bound.
LEMMA BoundedInduction ==
  ASSUME NEW n \in Nat, NEW T, 0 \in T, \A k \in 0..n - 1 : k \in T => k + 1 \in T
  PROVE  \A k \in 0..n : k \in T
<1> DEFINE V == T \cup {k \in Nat : k > n}
<1>1. 0 \in V
  OBVIOUS
<1>2. \A k \in Nat : k \in V => k + 1 \in V
  OBVIOUS
<1>3. \A k \in Nat : k \in V
  <2> HIDE DEF V
  <2>. QED  BY <1>1, <1>2, SetInduction
<1>. QED  BY <1>3

\* f adds up w.
IsSum(f, n, w) == f[0] = 0 /\ \A k \in 1..n : f[k] = f[k - 1] + w[k]

\* Two functions that add up w agree, on natural numbers.
LEMMA SumUnique ==
  ASSUME NEW n \in Nat, NEW w, NEW f, NEW g, IsSum(f, n, w), IsSum(g, n, w),
         \A k \in 1..n : w[k] \in Nat
  PROVE  \A k \in 0..n : f[k] = g[k] /\ f[k] \in Nat
<1> DEFINE T == {k \in 0..n : f[k] = g[k] /\ f[k] \in Nat}
<1>1. 0 \in T
  BY DEF IsSum
<1>2. ASSUME NEW k \in 0..n - 1, k \in T PROVE k + 1 \in T
  <2>1. k + 1 \in 1..n /\ (k + 1) - 1 = k
    OBVIOUS
  <2>. QED  BY <1>2, <2>1 DEF IsSum
<1> HIDE DEF T
<1>3. \A k \in 0..n : k \in T
  BY <1>1, <1>2, BoundedInduction
<1>. QED  BY <1>3 DEF T

\* There is one.
LEMMA SumExists ==
  ASSUME NEW n \in Nat, NEW w, \A k \in 1..n : w[k] \in Nat
  PROVE  \E f \in [0..n -> Nat] : IsSum(f, n, w)
<1> DEFINE T == {k \in 0..n : \E f \in [0..k -> Nat] : IsSum(f, k, w)}
<1>1. 0 \in T
  <2> DEFINE f == [k \in 0..0 |-> 0]
  <2>1. f \in [0..0 -> Nat] /\ IsSum(f, 0, w)
    BY DEF IsSum
  <2>. QED  BY <2>1
<1>2. ASSUME NEW k \in 0..n - 1, k \in T PROVE k + 1 \in T
  <2>1. PICK f \in [0..k -> Nat] : IsSum(f, k, w)
    BY <1>2
  <2> DEFINE g == [i \in 0..k + 1 |-> IF i = k + 1 THEN f[k] + w[k + 1] ELSE f[i]]
  <2>2. k + 1 \in 1..n /\ k \in 0..k
    OBVIOUS
  <2>3. g \in [0..k + 1 -> Nat]
    BY <2>2
  <2>4. g[0] = 0
    BY <2>1 DEF IsSum
  <2>5. ASSUME NEW i \in 1..k + 1 PROVE g[i] = g[i - 1] + w[i]
    <3>1. CASE i = k + 1
      BY <3>1
    <3>2. CASE i \in 1..k
      <4>1. i \in 0..k + 1 /\ i - 1 \in 0..k + 1 /\ i # k + 1 /\ i - 1 # k + 1
        BY <3>2
      <4>. QED  BY <2>1, <3>2, <4>1 DEF IsSum
    <3>. QED  BY <3>1, <3>2
  <2>6. IsSum(g, k + 1, w)
    BY <2>4, <2>5 DEF IsSum
  <2>. QED  BY <2>2, <2>3, <2>6
<1> HIDE DEF T
<1>3. \A k \in 0..n : k \in T
  BY <1>1, <1>2, BoundedInduction
<1>. QED  BY <1>3 DEF T

\* Characters adds up the sizes.
LEMMA CharactersIsSum ==
  ASSUME NEW messages \in Seq(Messages),
         NEW f, IsSum(f, Len(messages), [k \in 1..Len(messages) |-> messages[k].size])
  PROVE  Characters(messages) = f[Len(messages)] /\ Characters(messages) \in Nat
<1> DEFINE n == Len(messages)
           w == [k \in 1..n |-> messages[k].size]
           Body(sum) == [k \in 0..n |-> IF k = 0 THEN 0 ELSE sum[k - 1] + messages[k].size]
           total == CHOOSE sum : sum = Body(sum)
<1>1. n \in Nat /\ \A k \in 1..n : w[k] \in Nat /\ w[k] = messages[k].size
  <2>1. \A k \in 1..n : messages[k] \in Messages
    OBVIOUS
  <2>. QED  BY <2>1 DEF Messages
<1>2. PICK g \in [0..n -> Nat] : IsSum(g, n, w)
  BY <1>1, SumExists
<1>3. g = Body(g)
  <2>1. \A k \in 0..n : g[k] = Body(g)[k]
    BY <1>1, <1>2 DEF IsSum
  <2>. QED  BY <2>1
<1>4. total = Body(total)
  BY <1>3
<1>5. IsSum(total, n, w)
  <2> HIDE DEF total
  <2>. QED  BY <1>1, <1>4 DEF IsSum
<1>6. Characters(messages) = total[n]
  BY DEF Characters
<1> HIDE DEF total, w
<1>7. IsSum(f, n, w)
  BY DEF w
<1>8. total[n] = f[n] /\ total[n] \in Nat
  BY <1>1, <1>5, <1>7, SumUnique
<1>. QED  BY <1>6, <1>8

\* It is a number.
LEMMA CharactersIsTyped ==
  ASSUME NEW messages \in Seq(Messages)
  PROVE  Characters(messages) \in Nat
<1> DEFINE n == Len(messages)
           w == [k \in 1..n |-> messages[k].size]
<1>1. n \in Nat /\ \A k \in 1..n : w[k] \in Nat
  <2>1. \A k \in 1..n : messages[k] \in Messages
    OBVIOUS
  <2>. QED  BY <2>1 DEF Messages
<1>2. PICK f \in [0..n -> Nat] : IsSum(f, n, w)
  BY <1>1, SumExists
<1>. QED  BY <1>2, CharactersIsSum

\* An empty view has no characters.
LEMMA CharactersOfNone == Characters(<<>>) = 0
<1> DEFINE f == [k \in 0..0 |-> 0]
<1>1. <<>> \in Seq(Messages) /\ Len(<<>>) = 0
  OBVIOUS
<1>2. IsSum(f, 0, [k \in 1..0 |-> <<>>[k].size])
  BY DEF IsSum
<1>. QED  BY <1>1, <1>2, CharactersIsSum

\* A message put before the others adds its own size.
LEMMA CharactersOfMore ==
  ASSUME NEW m \in Messages, NEW s \in Seq(Messages)
  PROVE  /\ <<m>> \o s \in Seq(Messages) /\ Len(<<m>> \o s) = Len(s) + 1
         /\ Characters(<<m>> \o s) = Characters(s) + m.size
<1> DEFINE n == Len(s)
           r == <<m>> \o s
           w == [k \in 1..n |-> s[k].size]
           v == [k \in 1..n + 1 |-> r[k].size]
<1>1. n \in Nat /\ r \in Seq(Messages) /\ Len(r) = n + 1 /\ r[1] = m /\ \A k \in 1..n : r[k + 1] = s[k]
  OBVIOUS
<1>2. m.size \in Nat /\ \A k \in 1..n : w[k] \in Nat
  <2>1. \A k \in 1..n : s[k] \in Messages
    OBVIOUS
  <2>. QED  BY <2>1 DEF Messages
<1>3. PICK f \in [0..n -> Nat] : IsSum(f, n, w)
  BY <1>1, <1>2, SumExists
<1> DEFINE g == [k \in 0..n + 1 |-> IF k = 0 THEN 0 ELSE m.size + f[k - 1]]
<1>4. ASSUME NEW k \in 1..n + 1 PROVE g[k] = g[k - 1] + v[k]
  <2>1. CASE k = 1
    <3>1. g[1] = m.size + f[0] /\ g[0] = 0 /\ v[1] = m.size /\ f[0] = 0
      BY <1>1, <1>3 DEF IsSum
    <3>. QED  BY <1>2, <2>1, <3>1
  <2>2. CASE k # 1
    <3>1. k - 1 \in 1..n /\ k - 1 # 0 /\ k - 1 \in 0..n /\ (k - 1) - 1 \in 0..n /\ (k - 1) + 1 = k /\ k \in 0..n + 1 /\ k - 1 \in 0..n + 1
      BY <1>1, <2>2
    <3>2. v[k] = w[k - 1]
      BY <1>1, <3>1
    <3>3. f[k - 1] = f[(k - 1) - 1] + w[k - 1]
      BY <1>3, <3>1 DEF IsSum
    <3>4. f[k - 1] \in Nat /\ f[(k - 1) - 1] \in Nat /\ w[k - 1] \in Nat
      BY <1>2, <3>1
    <3>5. g[k] = m.size + f[k - 1] /\ g[k - 1] = m.size + f[(k - 1) - 1]
      BY <3>1
    <3> HIDE DEF g, v, w
    <3>. QED  BY <1>2, <3>2, <3>3, <3>4, <3>5
  <2>. QED  BY <2>1, <2>2
<1>5. IsSum(g, n + 1, v)
  <2>1. g[0] = 0
    BY <1>1
  <2> HIDE DEF g, v
  <2>. QED  BY <1>4, <2>1 DEF IsSum
<1>6. Characters(r) = g[n + 1] /\ Characters(s) = f[n]
  <2>1. Characters(s) = f[n]
    BY <1>3, CharactersIsSum
  <2> HIDE DEF g
  <2>2. Characters(r) = g[n + 1]
    BY <1>1, <1>5, CharactersIsSum
  <2>. QED  BY <2>1, <2>2
<1>7. g[n + 1] = m.size + f[n] /\ f[n] \in Nat
  BY <1>1
<1>. QED  BY <1>1, <1>2, <1>6, <1>7

\* The loop over the reversed conversation.
IsSelection(f, n, messages) ==
  f[0] = <<>> /\ \A k \in 1..n : f[k] = Offer(messages[Len(messages) - k + 1], f[k - 1])

\* The loop can be run: there is a function that gives its variable after each message.
LEMMA SelectionExists ==
  ASSUME NEW messages \in Seq(Messages)
  PROVE  \E f \in [0..Len(messages) -> Seq(Messages)] : IsSelection(f, Len(messages), messages)
<1> DEFINE n == Len(messages)
           T == {k \in 0..n : \E f \in [0..k -> Seq(Messages)] : IsSelection(f, k, messages)}
<1>0. n \in Nat
  OBVIOUS
<1>1. 0 \in T
  <2> DEFINE f == [k \in 0..0 |-> <<>>]
  <2>1. f \in [0..0 -> Seq(Messages)] /\ IsSelection(f, 0, messages)
    BY DEF IsSelection
  <2> HIDE DEF f
  <2>2. \E h \in [0..0 -> Seq(Messages)] : IsSelection(h, 0, messages)
    BY <2>1
  <2>. QED  BY <1>0, <2>2
<1>2. ASSUME NEW k \in 0..n - 1, k \in T PROVE k + 1 \in T
  <2>1. PICK f \in [0..k -> Seq(Messages)] : IsSelection(f, k, messages)
    BY <1>2
  <2> DEFINE m == messages[n - (k + 1) + 1]
             g == [i \in 0..k + 1 |-> IF i = k + 1 THEN Offer(m, f[k]) ELSE f[i]]
  <2>2. k \in Nat /\ k + 1 \in 0..n /\ k \in 0..k /\ n - (k + 1) + 1 \in 1..n
    BY <1>0
  <2>3. m \in Messages
    BY <2>2
  <2>4. Offer(m, f[k]) \in Seq(Messages)
    BY <2>2, <2>3, CharactersOfMore DEF Offer
  <2>5. g \in [0..k + 1 -> Seq(Messages)]
    BY <2>2, <2>4
  <2>6. g[0] = <<>>
    BY <2>1, <2>2 DEF IsSelection
  <2>7. ASSUME NEW i \in 1..k + 1 PROVE g[i] = Offer(messages[n - i + 1], g[i - 1])
    <3>1. CASE i = k + 1
      <4>1. i \in 0..k + 1 /\ i - 1 = k /\ k \in 0..k + 1 /\ k # k + 1
        BY <2>2, <3>1
      <4>. QED  BY <3>1, <4>1
    <3>2. CASE i \in 1..k
      <4>1. i \in 0..k + 1 /\ i - 1 \in 0..k + 1 /\ i # k + 1 /\ i - 1 # k + 1
        BY <2>2, <3>2
      <4>. QED  BY <2>1, <3>2, <4>1 DEF IsSelection
    <3>. QED  BY <2>2, <3>1, <3>2
  <2>8. IsSelection(g, k + 1, messages)
    BY <2>6, <2>7 DEF IsSelection
  <2>. QED  BY <2>2, <2>5, <2>8
<1> HIDE DEF T
<1>3. \A k \in 0..n : k \in T
  BY <1>0, <1>1, <1>2, BoundedInduction
<1>. QED  BY <1>0, <1>3 DEF T

\* BuildContext returns what the loop has selected when it ends.
LEMMA SelectionIsBuilt ==
  ASSUME NEW messages \in Seq(Messages)
  PROVE  \E f \in [0..Len(messages) -> Seq(Messages)] :
           IsSelection(f, Len(messages), messages) /\ BuildContext(messages) = f[Len(messages)]
<1> DEFINE n == Len(messages)
           Body(f) == [k \in 0..n |-> IF k = 0 THEN <<>> ELSE Offer(messages[n - k + 1], f[k - 1])]
           selected == CHOOSE f : f = Body(f)
<1>0. n \in Nat
  OBVIOUS
<1>1. PICK g \in [0..n -> Seq(Messages)] : IsSelection(g, n, messages)
  BY SelectionExists
<1>2. g = Body(g)
  <2>1. \A k \in 0..n : g[k] = Body(g)[k]
    BY <1>0, <1>1 DEF IsSelection
  <2>. QED  BY <2>1
<1>3. selected = Body(selected)
  BY <1>2
<1>4. BuildContext(messages) = selected[n]
  BY DEF BuildContext
<1> HIDE DEF selected
<1>5. IsSelection(selected, n, messages)
  BY <1>0, <1>3 DEF IsSelection
<1> DEFINE T == {k \in 0..n : selected[k] = g[k]}
<1>6. 0 \in T
  BY <1>0, <1>1, <1>5 DEF IsSelection
<1>7. ASSUME NEW k \in 0..n - 1, k \in T PROVE k + 1 \in T
  <2>1. k + 1 \in 1..n /\ (k + 1) - 1 = k
    BY <1>0
  <2>. QED  BY <1>1, <1>5, <1>7, <2>1 DEF IsSelection
<1> HIDE DEF T
<1>8. \A k \in 0..n : k \in T
  BY <1>0, <1>6, <1>7, BoundedInduction
<1>9. selected[n] = g[n]
  BY <1>0, <1>8 DEF T
<1>. QED  BY <1>1, <1>4, <1>9


\* What NothingMoreFits says of one message: it was kept if those after it left room for it.
Judged(seen, place, messages, i) ==
  \E older \in 0..Len(seen) :
    LET newer == SubSeq(seen, older + 1, Len(seen)) IN
    /\ \A k \in 1..Len(seen) : place[k] > i <=> k > older
    /\ (\E k \in 1..Len(seen) : place[k] = i) <=>
         /\ Len(newer) < MaxMessages
         /\ Characters(newer) + messages[i].size <= MaxCharacters

\* seen is the view of the messages from an index on.
IsView(seen, place, messages, from) ==
  /\ seen \in Seq(Messages) /\ place \in [1..Len(seen) -> from..Len(messages)]
  /\ \A k, l \in 1..Len(seen) : k < l => place[k] < place[l]
  /\ \A k \in 1..Len(seen) : seen[k] = messages[place[k]]
  /\ \A i \in from..Len(messages) : Judged(seen, place, messages, i)

\* One more message, older than all of them, is judged by the whole of the view so far.
LEMMA ViewGrows ==
  ASSUME NEW messages \in Seq(Messages), NEW i \in 1..Len(messages),
         NEW seen, NEW place, IsView(seen, place, messages, i + 1)
  PROVE  \E where : IsView(Offer(messages[i], seen), where, messages, i)
<1> DEFINE n == Len(messages)
           L == Len(seen)
           m == messages[i]
<1>1. /\ n \in Nat /\ L \in Nat /\ m \in Messages /\ seen \in Seq(Messages)
      /\ place \in [1..L -> i + 1..n]
      /\ i \in Nat
  BY DEF IsView
<1>2. SubSeq(seen, 0 + 1, L) = seen /\ \A k \in 1..L : place[k] > i /\ place[k] # i
  <2>1. SubSeq(seen, 0 + 1, L) = seen
    BY <1>1
  <2>2. ASSUME NEW k \in 1..L PROVE place[k] > i /\ place[k] # i
    <3>1. place[k] \in i + 1..n
      BY <1>1
    <3>. QED  BY <1>1, <3>1
  <2>. QED  BY <2>1, <2>2
<1>3. CASE ~Fits(m, seen)
  <2>1. Offer(m, seen) = seen
    BY <1>3 DEF Offer
  <2>2. Judged(seen, place, messages, i)
    <3>1. 0 \in 0..L /\ \A k \in 1..L : place[k] > i <=> k > 0
      BY <1>1, <1>2
    <3>2. ~ \E k \in 1..L : place[k] = i
      BY <1>2
    <3>3. ~(Len(seen) < MaxMessages /\ Characters(seen) + m.size <= MaxCharacters)
      BY <1>3 DEF Fits
    <3>. QED  BY <1>2, <3>1, <3>2, <3>3 DEF Judged
  <2>3. place \in [1..L -> i..n]
    BY <1>1
  <2>4. \A j \in i..n : Judged(seen, place, messages, j)
    BY <1>1, <2>2 DEF IsView
  <2>. QED  BY <2>1, <2>3, <2>4 DEF IsView
<1>4. CASE Fits(m, seen)
  <2> DEFINE r == <<m>> \o seen
             where == [k \in 1..L + 1 |-> IF k = 1 THEN i ELSE place[k - 1]]
  <2>1. Offer(m, seen) = r
    BY <1>4 DEF Offer
  <2>2. /\ r \in Seq(Messages) /\ Len(r) = L + 1 /\ r[1] = m /\ \A k \in 1..L : r[k + 1] = seen[k]
        /\ \A k \in 2..L + 1 : r[k] = seen[k - 1]
    BY <1>1
  <2>3. /\ where \in [1..L + 1 -> i..n] /\ where[1] = i
        /\ \A k \in 2..L + 1 : k - 1 \in 1..L /\ where[k] = place[k - 1]
    BY <1>1
  <2> HIDE DEF where, r
  <2>4. \A k \in 2..L + 1 : where[k] > i /\ where[k] \in Nat
    BY <1>1, <1>2, <2>3
  <2>5. ASSUME NEW k \in 1..L + 1, NEW l \in 1..L + 1, k < l PROVE where[k] < where[l]
    <3>1. l \in 2..L + 1
      BY <1>1, <2>5
    <3>2. CASE k = 1
      BY <1>1, <2>3, <2>4, <3>1, <3>2
    <3>3. CASE k \in 2..L + 1
      <4>1. k - 1 < l - 1 /\ k - 1 \in 1..L /\ l - 1 \in 1..L
        BY <1>1, <2>5, <3>1, <3>3
      <4>. QED  BY <2>3, <3>1, <3>3, <4>1 DEF IsView
    <3>. QED  BY <1>1, <3>2, <3>3
  <2>6. ASSUME NEW k \in 1..L + 1 PROVE r[k] = messages[where[k]]
    <3>1. CASE k = 1
      BY <2>2, <2>3, <3>1
    <3>2. CASE k \in 2..L + 1
      BY <2>2, <2>3, <3>2 DEF IsView
    <3>. QED  BY <1>1, <3>1, <3>2
  <2>7. Judged(r, where, messages, i)
    <3>1. SubSeq(r, 1 + 1, L + 1) = seen
      BY <1>1 DEF r
    <3>2. \A k \in 1..L + 1 : where[k] > i <=> k > 1
      BY <1>1, <2>3, <2>4
    <3>3. 1 \in 1..L + 1 /\ 1 \in 0..L + 1
      BY <1>1
    <3>. QED  BY <1>4, <2>2, <2>3, <3>1, <3>2, <3>3 DEF Judged, Fits
  <2>8. ASSUME NEW j \in i + 1..n PROVE Judged(r, where, messages, j)
    <3>1. Judged(seen, place, messages, j)
      BY DEF IsView
    <3>2. PICK older \in 0..L :
            /\ \A k \in 1..L : place[k] > j <=> k > older
            /\ (\E k \in 1..L : place[k] = j) <=>
                 /\ Len(SubSeq(seen, older + 1, L)) < MaxMessages
                 /\ Characters(SubSeq(seen, older + 1, L)) + messages[j].size <= MaxCharacters
      BY <3>1 DEF Judged
    <3>3. older + 1 \in 0..L + 1 /\ older \in Nat /\ j > i /\ j \in Nat
      BY <1>1
    <3>4. SubSeq(r, (older + 1) + 1, L + 1) = SubSeq(seen, older + 1, L)
      BY <1>1, <3>3 DEF r
    <3>5. \A k \in 1..L + 1 : where[k] > j <=> k > older + 1
      <4>1. ASSUME NEW k \in 2..L + 1 PROVE where[k] > j <=> k > older + 1
        <5>1. place[k - 1] > j <=> k - 1 > older
          BY <2>3, <3>2
        <5>. QED  BY <1>1, <2>3, <3>3, <5>1
      <4>2. ~(where[1] > j) /\ ~(1 > older + 1)
        BY <1>1, <2>3, <3>3
      <4>. QED  BY <1>1, <4>1, <4>2
    <3>6. (\E k \in 1..L + 1 : where[k] = j) <=> (\E k \in 1..L : place[k] = j)
      <4>1. ASSUME NEW k \in 1..L + 1, where[k] = j PROVE k - 1 \in 1..L /\ place[k - 1] = j
        <5>1. k # 1
          BY <1>1, <2>3, <3>3, <4>1
        <5>. QED  BY <1>1, <2>3, <4>1, <5>1
      <4>2. ASSUME NEW k \in 1..L, place[k] = j PROVE k + 1 \in 1..L + 1 /\ where[k + 1] = j
        <5>1. k + 1 \in 2..L + 1 /\ (k + 1) - 1 = k
          BY <1>1
        <5>2. where[k + 1] = place[(k + 1) - 1]
          BY <2>3, <5>1
        <5>. QED  BY <1>1, <4>2, <5>1, <5>2
      <4>. QED  BY <4>1, <4>2
    <3>. QED  BY <2>2, <3>2, <3>3, <3>4, <3>5, <3>6 DEF Judged
  <2>9. \A j \in i..n : Judged(r, where, messages, j)
    BY <1>1, <2>7, <2>8
  <2>10. IsView(r, where, messages, i)
    BY <2>2, <2>3, <2>5, <2>6, <2>9 DEF IsView
  <2>. QED  BY <2>1, <2>10
<1>. QED  BY <1>3, <1>4

\* So the context is a view of the whole conversation.
LEMMA ContextIsView ==
  ASSUME NEW messages \in Seq(Messages)
  PROVE  \E place : IsView(BuildContext(messages), place, messages, 1)
<1> DEFINE n == Len(messages)
<1>0. n \in Nat
  OBVIOUS
<1>1. PICK f \in [0..n -> Seq(Messages)] :
        IsSelection(f, n, messages) /\ BuildContext(messages) = f[n]
  BY SelectionIsBuilt
<1> DEFINE T == {k \in 0..n : \E place : IsView(f[k], place, messages, n - k + 1)}
<1>2. 0 \in T
  <2> DEFINE place == [k \in 1..0 |-> 1]
  <2>1. f[0] = <<>> /\ <<>> \in Seq(Messages) /\ Len(<<>>) = 0 /\ 1..0 = {} /\ n + 1..n = {}
    BY <1>0, <1>1 DEF IsSelection
  <2>2. place \in [1..0 -> n + 1..n]
    BY <2>1
  <2>3. IsView(f[0], place, messages, n - 0 + 1)
    BY <1>0, <2>1, <2>2 DEF IsView
  <2> HIDE DEF place
  <2>. QED  BY <1>0, <2>3
<1>3. ASSUME NEW k \in 0..n - 1, k \in T PROVE k + 1 \in T
  <2>1. PICK place : IsView(f[k], place, messages, n - k + 1)
    BY <1>3
  <2>2. /\ k + 1 \in 1..n /\ (k + 1) - 1 = k /\ n - (k + 1) + 1 = n - k
        /\ n - k \in 1..n /\ (n - k) + 1 = n - k + 1
    BY <1>0
  <2>3. f[k + 1] = Offer(messages[n - k], f[k])
    BY <1>1, <2>2 DEF IsSelection
  <2>4. \E where : IsView(f[k + 1], where, messages, n - k)
    BY <2>1, <2>2, <2>3, ViewGrows
  <2>. QED  BY <1>0, <2>2, <2>4
<1> HIDE DEF T
<1>4. \A k \in 0..n : k \in T
  BY <1>0, <1>2, <1>3, BoundedInduction
<1>5. n \in T /\ n - n + 1 = 1
  BY <1>0, <1>4
<1>. QED  BY <1>1, <1>5 DEF T

-----------------------------------------------------------------------------
(* The conversation and what is asked of the model *)

\* The texts of a message on its way.
TextsAreTyped ==
  /\ explicit \in BOOLEAN /\ stop \in StopReasons
  /\ conversation \in Seq(Messages) /\ prompt \in Seq(Messages)
  /\ size \in ResultSizes \cup {0}
  /\ pc = "returned" => size \in ResultSizes

\* The turns of the loop wrote nothing but proposals and outcomes, and none of the turn under
\* way is there before its task has returned.
Dated ==
  /\ pc \in {"asked", "executing", "returned"} => index > 0
  /\ \A i \in 1..Len(conversation) :
       /\ conversation[i].turn > 0 => conversation[i].role \in {"assistant", "tool"}
       /\ conversation[i].turn <= index
       /\ pc \in {"asked", "executing", "returned"} => conversation[i].turn < index

\* An outcome ends its turn.
OutcomesAreLast ==
  \A i, j \in 1..Len(conversation) :
    i < j /\ conversation[i].role = "tool" /\ conversation[i].turn > 0 =>
      conversation[j].turn > conversation[i].turn

\* The model is asked about the conversation as it is.
AskedWithView == pc = "asked" => prompt = ToModelRequest(BuildContext(conversation))

TextInv == TextsAreTyped /\ Dated /\ OutcomesAreLast /\ AskedWithView

\* The view of a conversation is a sequence of its messages.
LEMMA ContextIsTyped ==
  ASSUME NEW messages \in Seq(Messages)
  PROVE  /\ BuildContext(messages) \in Seq(Messages)
         /\ ToModelRequest(BuildContext(messages)) \in Seq(Messages)
<1>1. BuildContext(messages) \in Seq(Messages)
  BY ContextIsView DEF IsView
<1>2. Intent \in Messages
  BY DEF Intent, Messages, Roles
<1>. QED  BY <1>1, <1>2 DEF ToModelRequest

\* A message comes with a conversation of no turn.
THEOREM InitTextInv == Init => TextInv
<1> SUFFICES ASSUME Init PROVE TextInv
  OBVIOUS
<1> DEFINE Old == [role : Roles, size : Nat \ {0}, turn : {0}]
<1>1. PICK history \in Histories : conversation = BuildContext(history)
  BY DEF Init
<1>2. history \in Seq(Old) /\ Old \subseteq Messages
  <2>1. history \in Seq(Old)
    BY LoopAssumption
  <2>2. Old \subseteq Messages
    BY DEF Messages
  <2>. QED  BY <2>1, <2>2
<1>3. history \in Seq(Messages)
  BY <1>2, SeqMonotonic
<1>4. conversation \in Seq(Messages)
  BY <1>1, <1>3, ContextIsTyped
<1>5. \A i \in 1..Len(conversation) : conversation[i].turn = 0
  <2>1. PICK place : IsView(conversation, place, history, 1)
    BY <1>1, <1>3, ContextIsView
  <2> TAKE i \in 1..Len(conversation)
  <2>2. place[i] \in 1..Len(history) /\ conversation[i] = history[place[i]]
    BY <2>1 DEF IsView
  <2>3. history[place[i]] \in Old
    BY <1>2, <2>2, ElementOfSeq
  <2>. QED  BY <2>2, <2>3
<1>6. TextsAreTyped
  BY <1>4, LoopAssumption DEF Init, TextsAreTyped, StopReasons
<1>7. Dated /\ OutcomesAreLast /\ AskedWithView
  BY <1>5 DEF Init, Dated, OutcomesAreLast, AskedWithView
<1>. QED  BY <1>6, <1>7 DEF TextInv

\* Every step keeps them: the proposal and its outcome are the first of their turn.
THEOREM StepTextInv == IInv /\ TextInv /\ [Next]_vars => TextInv'
<1> SUFFICES ASSUME IInv, TextInv, [Next]_vars PROVE TextInv'
  OBVIOUS
<1> USE LoopAssumption
<1>a. /\ conversation \in Seq(Messages) /\ prompt \in Seq(Messages) /\ explicit \in BOOLEAN
      /\ stop \in StopReasons /\ size \in ResultSizes \cup {0}
      /\ pc \in {"top", "asked", "executing", "returned", "done"} /\ index \in 0..MaxIterations
      /\ \A i \in 1..Len(conversation) : conversation[i] \in Messages /\ conversation[i].turn \in Nat
      /\ Len(conversation) \in Nat
  <2>1. \A i \in 1..Len(conversation) : conversation[i] \in Messages
    BY ElementOfSeq DEF TextInv, TextsAreTyped
  <2>. QED  BY <2>1, LenProperties DEF TextInv, TextsAreTyped, IInv, ControlIsTyped, Messages
\* The steps that leave the conversation alone.
<1>b. ASSUME UNCHANGED <<explicit, conversation>>,
             stop' \in StopReasons, size' \in ResultSizes \cup {0}, prompt' \in Seq(Messages),
             pc' = "returned" => size' \in ResultSizes,
             \/ index' = index /\ pc' = "done"
             \/ index' = index /\ pc' = pc
             \/ index' = index /\ pc \in {"asked", "executing"} /\ pc' \in {"executing", "returned"}
             \/ index' = index + 1 /\ pc' \in {"asked", "done"},
             AskedWithView'
      PROVE  TextInv'
  <2>1. TextsAreTyped'
    BY <1>a, <1>b DEF TextsAreTyped
  <2>2. index \in Nat /\ index' \in Nat /\ index <= index'
    BY <1>a, <1>b
  <2>3. Dated'
    <3> SUFFICES ASSUME NEW i \in 1..Len(conversation)
                 PROVE  /\ conversation[i].turn > 0 => conversation[i].role \in {"assistant", "tool"}
                        /\ conversation[i].turn <= index'
                        /\ pc' \in {"asked", "executing", "returned"} => conversation[i].turn < index'
      <4>1. pc' \in {"asked", "executing", "returned"} => index' > 0
        BY <1>a, <1>b DEF TextInv, Dated
      <4>. QED  BY <1>b, <4>1 DEF Dated
    <3>1. /\ conversation[i].turn > 0 => conversation[i].role \in {"assistant", "tool"}
          /\ conversation[i].turn <= index /\ conversation[i].turn \in Nat
          /\ pc \in {"asked", "executing", "returned"} => conversation[i].turn < index
      BY <1>a DEF TextInv, Dated
    <3>. QED  BY <1>a, <1>b, <2>2, <3>1
  <2>4. OutcomesAreLast'
    BY <1>b DEF TextInv, OutcomesAreLast
  <2>. QED  BY <1>b, <2>1, <2>3, <2>4 DEF TextInv
<1>c. (pc = "returned" => size \in ResultSizes) /\ AskedWithView
  BY DEF TextInv, TextsAreTyped
<1>1. CASE Exhausted
  BY <1>1, <1>a, <1>b DEF Exhausted, Stop, StopReasons, AskedWithView
<1>2. CASE StopBeforeAsking \/ PromptRefused
  BY <1>2, <1>a, <1>b DEF StopBeforeAsking, PromptRefused, Iterate, Stop, StopReasons, AskedWithView
<1>3. CASE Ask
  <2>1. prompt' = ToModelRequest(BuildContext(conversation)) /\ UNCHANGED <<explicit, conversation, size, stop>>
        /\ pc' = "asked" /\ index' = index + 1
    BY <1>3 DEF Ask, Iterate
  <2>2. prompt' \in Seq(Messages) /\ AskedWithView'
    BY <1>a, <2>1, ContextIsTyped DEF AskedWithView
  <2>. QED  BY <1>a, <1>b, <2>1, <2>2
<1>4. CASE ModelFails \/ DecisionRefused \/ ProposalRefused
  BY <1>4, <1>a, <1>b DEF ModelFails, DecisionRefused, ProposalRefused, Raise, Stop, StopReasons, AskedWithView
<1>5. CASE Answer
  BY <1>5, <1>a, <1>b DEF Answer, Stop, StopReasons, AskedWithView
<1>6. CASE Propose
  BY <1>6, <1>a, <1>b DEF Propose, AskedWithView
<1>7. CASE TaskSucceeds
  BY <1>7, <1>a, <1>b DEF TaskSucceeds, AskedWithView
<1>8. ASSUME NEW s \in Terminal \ {"SUCCEEDED"}, TaskFails(s) PROVE TextInv'
  <2>1. TaskStop[s] \in StopReasons
    BY DEF TaskStop, Terminal, StopReasons
  <2>. QED  BY <1>8, <1>a, <1>b, <2>1 DEF TaskFails, Stop, AskedWithView
<1>9. CASE TaskRaises
  BY <1>9, <1>a, <1>b DEF TaskRaises, Stop, StopReasons, AskedWithView
<1>10. CASE StopAfterTask
  BY <1>10, <1>a, <1>b DEF StopAfterTask, Stop, StopReasons, AskedWithView
<1>11. CASE RequestAfterTool
  <2> DEFINE n == Len(conversation)
             c == conversation \o <<Proposal, ToolMessage>>
  <2>1. /\ pc = "returned" /\ pc' = "top" /\ conversation' = c
        /\ UNCHANGED <<explicit, index, prompt, size, stop>>
    BY <1>11 DEF RequestAfterTool
  <2>2. index \in Nat /\ index > 0 /\ size \in Nat \ {0}
    <3>1. index > 0
      BY <2>1 DEF TextInv, Dated
    <3>. QED  BY <1>a, <1>c, <2>1, <3>1
  <2>3. /\ Proposal \in Messages /\ Proposal.role = "assistant" /\ Proposal.turn = index
        /\ ToolMessage \in Messages /\ ToolMessage.role = "tool" /\ ToolMessage.turn = index
    BY <2>2 DEF Proposal, ToolMessage, Messages, Roles
  <2>4. /\ c \in Seq(Messages) /\ Len(c) = n + 2 /\ c[n + 1] = Proposal /\ c[n + 2] = ToolMessage
        /\ \A i \in 1..n : c[i] = conversation[i]
    BY <1>a, <2>3
  <2> HIDE DEF c
  <2>5. /\ \A i \in 1..n : /\ c[i].turn > 0 => c[i].role \in {"assistant", "tool"}
                           /\ c[i].turn < index /\ c[i].turn \in Nat
        /\ \A i \in n + 1..n + 2 : c[i].role \in {"assistant", "tool"} /\ c[i].turn = index
    <3>1. \A i \in 1..n : /\ conversation[i].turn > 0 => conversation[i].role \in {"assistant", "tool"}
                          /\ conversation[i].turn < index /\ conversation[i].turn \in Nat
      BY <1>a, <2>1 DEF TextInv, Dated
    <3>2. \A i \in n + 1..n + 2 : i = n + 1 \/ i = n + 2
      BY <1>a
    <3>. QED  BY <2>3, <2>4, <3>1, <3>2
  <2>6. \A i \in 1..Len(c) : i \in 1..n \/ i \in n + 1..n + 2
    BY <1>a, <2>4
  <2>7. TextsAreTyped'
    BY <1>a, <2>1, <2>4 DEF TextsAreTyped
  <2>8. Dated'
    <3> SUFFICES ASSUME NEW i \in 1..Len(c)
                 PROVE  /\ c[i].turn > 0 => c[i].role \in {"assistant", "tool"}
                        /\ c[i].turn <= index
      BY <2>1 DEF Dated
    <3>. QED  BY <2>2, <2>5, <2>6
  <2>9. OutcomesAreLast'
    <3> SUFFICES ASSUME NEW i \in 1..Len(c), NEW j \in 1..Len(c), i < j, c[i].role = "tool", c[i].turn > 0
                 PROVE  c[j].turn > c[i].turn
      BY <2>1 DEF OutcomesAreLast
    <3>1. i # n + 1 /\ i # n + 2
      BY <1>a, <2>3, <2>4
    <3>2. i \in 1..n
      BY <1>a, <2>4, <3>1
    <3>3. CASE j \in 1..n
      BY <2>4, <3>2, <3>3 DEF TextInv, OutcomesAreLast
    <3>4. CASE j \in n + 1..n + 2
      BY <2>2, <2>5, <3>2, <3>4
    <3>. QED  BY <2>6, <3>3, <3>4
  <2>10. AskedWithView'
    BY <2>1 DEF AskedWithView
  <2>. QED  BY <2>7, <2>8, <2>9, <2>10 DEF TextInv
<1>12. CASE UserCancels
  BY <1>12, <1>a, <1>b, <1>c DEF UserCancels, AskedWithView
<1>13. CASE UNCHANGED vars
  BY <1>13, <1>a, <1>b, <1>c DEF vars, AskedWithView
<1>. QED
  BY <1>1, <1>2, <1>3, <1>4, <1>5, <1>6, <1>7, <1>8, <1>9, <1>10, <1>11, <1>12, <1>13 DEF Next

\* So they hold of every state of a message.
THEOREM TextsInvariance == Spec => [](IInv /\ TextInv)
<1>1. Init => IInv /\ TextInv
  BY InitIInv, InitTextInv
<1>2. IInv /\ TextInv /\ [Next]_vars => (IInv /\ TextInv)'
  BY StepIInv, StepTextInv
<1>. QED  BY <1>1, <1>2, PTL DEF Spec

\* Every variable keeps its type.
THEOREM TypeCorrect == Spec => []TypeOK
<1>1. IInv /\ TextInv => TypeOK
  BY DEF IInv, ControlIsTyped, TextInv, TextsAreTyped, TypeOK
<1>. QED  BY TextsInvariance, <1>1, PTL

\* What the model is asked with: the view, and the intent which is not in it.
LEMMA PromptParts ==
  ASSUME TextInv, pc = "asked"
  PROVE  LET view == BuildContext(conversation) IN
         /\ view \in Seq(Messages)
         /\ \A k \in 1..Len(view) : view[k] # Intent
         /\ \/ HasToolResult(view) /\ prompt = <<Intent>> \o view
            \/ ~HasToolResult(view) /\ prompt = Append(view, Intent)
         /\ \A k, l \in 1..Len(view) :
              k < l /\ view[k].role = "tool" /\ view[k].turn > 0 => view[l].turn > view[k].turn
<1> DEFINE view == BuildContext(conversation)
<1>1. conversation \in Seq(Messages)
  BY DEF TextInv, TextsAreTyped
<1>2. view \in Seq(Messages)
  BY <1>1, ContextIsTyped
<1>3. PICK place : IsView(view, place, conversation, 1)
  BY <1>1, ContextIsView
<1>4. \A k \in 1..Len(view) : place[k] \in 1..Len(conversation) /\ view[k] = conversation[place[k]]
  BY <1>3 DEF IsView
<1>5. \A k, l \in 1..Len(view) : k < l => place[k] < place[l]
  BY <1>3 DEF IsView
<1>6. Intent.role = "user" /\ Intent.turn = 1
  BY DEF Intent
<1>7. prompt = ToModelRequest(view)
  BY DEF TextInv, AskedWithView
<1> HIDE DEF view
<1>8. \A k \in 1..Len(view) : view[k] # Intent
  BY <1>4, <1>6 DEF TextInv, Dated
<1>9. \A k, l \in 1..Len(view) :
        k < l /\ view[k].role = "tool" /\ view[k].turn > 0 => view[l].turn > view[k].turn
  <2> SUFFICES ASSUME NEW k \in 1..Len(view), NEW l \in 1..Len(view), k < l,
                      view[k].role = "tool", view[k].turn > 0
               PROVE  view[l].turn > view[k].turn
    OBVIOUS
  <2> DEFINE i == place[k]
             j == place[l]
  <2>1. /\ i \in 1..Len(conversation) /\ j \in 1..Len(conversation) /\ i < j
        /\ view[k] = conversation[i] /\ view[l] = conversation[j]
    BY <1>4, <1>5
  <2> HIDE DEF i, j
  <2>2. conversation[i].role = "tool" /\ conversation[i].turn > 0
    BY <2>1
  <2>3. conversation[j].turn > conversation[i].turn
    BY <2>1, <2>2 DEF TextInv, OutcomesAreLast
  <2>. QED  BY <2>1, <2>3
<1>10. \/ HasToolResult(view) /\ prompt = <<Intent>> \o view
       \/ ~HasToolResult(view) /\ prompt = Append(view, Intent)
  BY <1>7 DEF ToModelRequest
<1>. QED  BY <1>2, <1>8, <1>9, <1>10 DEF view

\* Around the intent the model sees the view and nothing else.
LEMMA SeenIsView ==
  ASSUME TextInv, pc = "asked"
  PROVE  Seen = BuildContext(conversation)
<1> DEFINE view == BuildContext(conversation)
<1>1. /\ view \in Seq(Messages) /\ Intent \in Messages
      /\ \A k \in 1..Len(view) : view[k] # Intent
      /\ \/ HasToolResult(view) /\ prompt = <<Intent>> \o view
         \/ ~HasToolResult(view) /\ prompt = Append(view, Intent)
  <2>1. Intent \in Messages
    BY DEF Intent, Messages, Roles
  <2>. QED  BY <2>1, PromptParts
<1> HIDE DEF view
<1>2. CASE prompt = <<Intent>> \o view
  <2>1. prompt[1] = Intent /\ Tail(prompt) = view
    BY <1>1, <1>2
  <2>. QED  BY <2>1 DEF Seen, view
<1>3. CASE prompt = Append(view, Intent)
  <2>1. CASE Len(view) = 0
    <3>1. view = <<>> /\ prompt = <<Intent>>
      BY <1>1, <1>3, <2>1
    <3>2. prompt[1] = Intent /\ Tail(prompt) = <<>>
      BY <3>1
    <3>. QED  BY <3>1, <3>2 DEF Seen, view
  <2>2. CASE Len(view) # 0
    <3>1. 1 \in 1..Len(view) /\ Len(view) \in Nat
      BY <1>1, <2>2
    <3>2. prompt[1] = view[1] /\ prompt[1] # Intent /\ Len(prompt) - 1 = Len(view)
      BY <1>1, <1>3, <3>1
    <3>3. SubSeq(prompt, 1, Len(view)) = view
      BY <1>1, <1>3, <3>1
    <3>. QED  BY <3>2, <3>3 DEF Seen, view
  <2>. QED  BY <2>1, <2>2
<1>. QED  BY <1>1, <1>2, <1>3

\* The model is given the newest of the conversation that fits (context_manager.py): a message
\* is left out only if those kept after it left no room, for every conversation and budget.
THEOREM TheViewIsFull == Spec => []NothingMoreFits
<1>1. TextInv => NothingMoreFits
  <2> SUFFICES ASSUME TextInv, pc = "asked" PROVE NothingMoreFits
    BY DEF NothingMoreFits
  <2>1. conversation \in Seq(Messages)
    BY DEF TextInv, TextsAreTyped
  <2>2. PICK place : IsView(Seen, place, conversation, 1)
    BY <2>1, SeenIsView, ContextIsView
  <2>3. DOMAIN Seen = 1..Len(Seen) /\ DOMAIN conversation = 1..Len(conversation)
    BY <2>1, <2>2 DEF IsView
  <2>4. place \in [DOMAIN Seen -> DOMAIN conversation]
    BY <2>2, <2>3 DEF IsView
  <2>5. /\ \A k, l \in DOMAIN Seen : k < l => place[k] < place[l]
        /\ \A k \in DOMAIN Seen : Seen[k] = conversation[place[k]]
    BY <2>2, <2>3 DEF IsView
  <2>6. \A i \in DOMAIN conversation : Judged(Seen, place, conversation, i)
    BY <2>2, <2>3 DEF IsView
  <2> HIDE DEF Seen
  <2>7. \A i \in DOMAIN conversation : \E older \in 0..Len(Seen) :
          LET newer == SubSeq(Seen, older + 1, Len(Seen)) IN
          /\ \A k \in DOMAIN Seen : place[k] > i <=> k > older
          /\ (\E k \in DOMAIN Seen : place[k] = i) <=>
               /\ Len(newer) < MaxMessages
               /\ Characters(newer) + conversation[i].size <= MaxCharacters
    BY <2>3, <2>6 DEF Judged
  <2>. QED  BY <2>4, <2>5, <2>7 DEF NothingMoreFits
<1>. QED  BY TextsInvariance, <1>1, PTL

\* However the view was cut (intelligence_orchestrator.py builds the request from it), the
\* intent is in the prompt once and after no outcome, and outcomes follow their proposals.
THEOREM PromptsAreOrdered == Spec => []PromptIsInOrder
<1>1. TextInv => PromptIsInOrder
  <2> SUFFICES ASSUME TextInv, pc = "asked" PROVE PromptIsInOrder
    BY DEF PromptIsInOrder
  <2> DEFINE view == BuildContext(conversation)
             n == Len(view)
  <2>1. /\ view \in Seq(Messages) /\ Intent \in Messages /\ Intent.role = "user" /\ n \in Nat
        /\ \A k \in 1..n : view[k] # Intent
        /\ \/ HasToolResult(view) /\ prompt = <<Intent>> \o view
           \/ ~HasToolResult(view) /\ prompt = Append(view, Intent)
        /\ \A k, l \in 1..n :
             k < l /\ view[k].role = "tool" /\ view[k].turn > 0 => view[l].turn > view[k].turn
    <3>1. Intent \in Messages /\ Intent.role = "user"
      BY DEF Intent, Messages, Roles
    <3>2. view \in Seq(Messages)
      BY PromptParts
    <3>3. n \in Nat
      BY <3>2, LenProperties
    <3>. QED  BY <3>1, <3>2, <3>3, PromptParts
  <2> HIDE DEF view
  <2>2. CASE prompt = <<Intent>> \o view
    <3>1. DOMAIN prompt = 1..n + 1 /\ prompt[1] = Intent
          /\ \A k \in 2..n + 1 : prompt[k] = view[k - 1] /\ k - 1 \in 1..n
      BY <2>1, <2>2
    <3>2. {i \in DOMAIN prompt : prompt[i] = Intent} = {1}
      <4>1. \A k \in 2..n + 1 : prompt[k] # Intent
        BY <2>1, <3>1
      <4>2. 1 \in DOMAIN prompt /\ \A k \in DOMAIN prompt : k = 1 \/ k \in 2..n + 1
        BY <2>1, <3>1
      <4>. QED  BY <3>1, <4>1, <4>2
    <3>3. ASSUME NEW i \in DOMAIN prompt, NEW j \in DOMAIN prompt, i < j
          PROVE  /\ prompt[j] = Intent => prompt[i].role # "tool"
                 /\ prompt[i].role = "tool" /\ prompt[i].turn > 0 => prompt[j].turn > prompt[i].turn
      <4>1. j \in 2..n + 1
        BY <2>1, <3>1, <3>3
      <4>2. prompt[j] # Intent
        BY <2>1, <3>1, <4>1
      <4>3. CASE i = 1
        BY <2>1, <3>1, <4>2, <4>3
      <4>4. CASE i \in 2..n + 1
        <5>1. i - 1 < j - 1 /\ i - 1 \in 1..n /\ j - 1 \in 1..n
          BY <3>1, <3>3, <4>1, <4>4
        <5>2. prompt[i] = view[i - 1] /\ prompt[j] = view[j - 1]
          BY <3>1, <4>1, <4>4
        <5>. QED  BY <2>1, <4>2, <5>1, <5>2
      <4>. QED  BY <2>1, <3>1, <4>3, <4>4
    <3>4. Cardinality({1}) = 1
      BY FS_Singleton
    <3>. QED  BY <3>2, <3>3, <3>4 DEF PromptIsInOrder
  <2>3. CASE ~HasToolResult(view) /\ prompt = Append(view, Intent)
    <3>1. DOMAIN prompt = 1..n + 1 /\ prompt[n + 1] = Intent /\ \A k \in 1..n : prompt[k] = view[k]
      BY <2>1, <2>3
    <3>2. {i \in DOMAIN prompt : prompt[i] = Intent} = {n + 1}
      BY <2>1, <3>1
    <3>3. \A k \in 1..n : view[k].role # "tool"
      BY <2>1, <2>3 DEF HasToolResult
    <3>4. \A i, j \in DOMAIN prompt : i < j => prompt[i].role # "tool"
      <4> TAKE i \in DOMAIN prompt, j \in DOMAIN prompt
      <4> HAVE i < j
      <4>1. i \in 1..n
        BY <2>1, <3>1
      <4>. QED  BY <3>1, <3>3, <4>1
    <3>5. Cardinality({n + 1}) = 1
      BY FS_Singleton
    <3>. QED  BY <3>2, <3>4, <3>5 DEF PromptIsInOrder
  <2>. QED  BY <2>1, <2>2, <2>3
<1>. QED  BY TextsInvariance, <1>1, PTL

-----------------------------------------------------------------------------
(* Both budgets hold, and a view that was cut is not cut again *)

InBudget(messages) == Len(messages) <= MaxMessages /\ Characters(messages) <= MaxCharacters

\* The view never exceeds a budget.
LEMMA ContextIsInBudget ==
  ASSUME NEW messages \in Seq(Messages)
  PROVE  InBudget(BuildContext(messages))
<1> DEFINE n == Len(messages)
<1>0. n \in Nat
  OBVIOUS
<1>1. PICK f \in [0..n -> Seq(Messages)] :
        IsSelection(f, n, messages) /\ BuildContext(messages) = f[n]
  BY SelectionIsBuilt
<1> DEFINE T == {k \in 0..n : InBudget(f[k])}
<1>2. 0 \in T
  <2>1. f[0] = <<>> /\ Len(<<>>) = 0
    BY <1>1 DEF IsSelection
  <2>. QED  BY <1>0, <2>1, CharactersOfNone, BudgetAssumption DEF InBudget
<1>3. ASSUME NEW k \in 0..n - 1, k \in T PROVE k + 1 \in T
  <2> DEFINE m == messages[n - (k + 1) + 1]
             s == f[k]
  <2>1. k + 1 \in 1..n /\ (k + 1) - 1 = k /\ n - (k + 1) + 1 \in 1..n /\ k \in 0..n
    BY <1>0
  <2>2. m \in Messages /\ s \in Seq(Messages) /\ f[k + 1] = Offer(m, s)
    <3>1. m \in Messages
      BY <2>1
    <3>2. s \in Seq(Messages)
      BY <1>1, <2>1
    <3>3. f[k + 1] = Offer(m, s)
      BY <1>1, <2>1 DEF IsSelection
    <3>. QED  BY <3>1, <3>2, <3>3
  <2>3. Len(s) \in Nat /\ InBudget(s)
    BY <1>3, <2>2
  <2> HIDE DEF m, s
  <2>4. CASE Fits(m, s)
    <3>1. f[k + 1] = <<m>> \o s
      BY <2>2, <2>4 DEF Offer
    <3>2. Len(s) + 1 <= MaxMessages /\ Characters(s) + m.size <= MaxCharacters
      BY <2>3, <2>4, BudgetAssumption DEF Fits
    <3>3. Len(f[k + 1]) = Len(s) + 1 /\ Characters(f[k + 1]) = Characters(s) + m.size
      BY <2>2, <3>1, CharactersOfMore
    <3>. QED  BY <2>1, <3>2, <3>3 DEF InBudget
  <2>5. CASE ~Fits(m, s)
    BY <2>1, <2>2, <2>3, <2>5 DEF Offer
  <2>. QED  BY <2>4, <2>5
<1> HIDE DEF T
<1>4. \A k \in 0..n : k \in T
  BY <1>0, <1>2, <1>3, BoundedInduction
<1>. QED  BY <1>0, <1>1, <1>4 DEF T

\* The last k messages, and one more.
LEMMA OneMore ==
  ASSUME NEW s \in Seq(Messages), NEW k \in 0..Len(s) - 1
  PROVE  LET n == Len(s)
             newer == SubSeq(s, n - k + 1, n)
             more == SubSeq(s, n - k, n)
         IN  /\ newer \in Seq(Messages) /\ Len(newer) = k /\ s[n - k] \in Messages
             /\ more = <<s[n - k]>> \o newer
             /\ Characters(more) = Characters(newer) + s[n - k].size
             /\ Characters(newer) \in Nat
<1> DEFINE n == Len(s)
           newer == SubSeq(s, n - k + 1, n)
           more == SubSeq(s, n - k, n)
<1>1. n \in Nat /\ k \in Nat /\ n - k \in 1..n /\ n - k + 1 \in 1..n + 1
  OBVIOUS
<1>2. /\ newer \in Seq(Messages) /\ Len(newer) = k
      /\ more \in Seq(Messages) /\ Len(more) = k + 1 /\ s[n - k] \in Messages
  BY <1>1
<1>3. more = <<s[n - k]>> \o newer
  <2>1. /\ <<s[n - k]>> \o newer \in Seq(Messages)
        /\ Len(<<s[n - k]>> \o newer) = k + 1
    BY <1>1, <1>2
  <2>2. ASSUME NEW i \in 1..k + 1 PROVE more[i] = (<<s[n - k]>> \o newer)[i]
    <3>1. more[i] = s[(n - k) + i - 1]
      BY <1>1
    <3>2. CASE i = 1
      BY <1>1, <1>2, <3>1, <3>2
    <3>3. CASE i \in 2..k + 1
      <4>1. i - 1 \in 1..k /\ newer[i - 1] = s[(n - k + 1) + (i - 1) - 1]
        BY <1>1, <3>3
      <4>2. (n - k + 1) + (i - 1) - 1 = (n - k) + i - 1
        BY <1>1
      <4>3. (<<s[n - k]>> \o newer)[i] = newer[i - 1]
        BY <1>1, <1>2, <3>3
      <4>. QED  BY <3>1, <4>1, <4>2, <4>3
    <3>. QED  BY <1>1, <3>2, <3>3
  <2> HIDE DEF newer, more
  <2>. QED  BY <1>1, <1>2, <2>1, <2>2, SeqEqual
<1> HIDE DEF newer, more
<1>4. Characters(more) = Characters(newer) + s[n - k].size
  BY <1>2, <1>3, CharactersOfMore
<1>5. Characters(newer) \in Nat
  BY <1>2, CharactersIsTyped
<1>. QED  BY <1>2, <1>3, <1>4, <1>5 DEF newer, more

\* What is within both budgets is kept whole: BuildContext changes nothing on its own result.
LEMMA InBudgetIsWhole ==
  ASSUME NEW s \in Seq(Messages), InBudget(s)
  PROVE  BuildContext(s) = s
<1> DEFINE n == Len(s)
           newest(k) == SubSeq(s, n - k + 1, n)
<1>0. n \in Nat
  OBVIOUS
<1>1. PICK f \in [0..n -> Seq(Messages)] : IsSelection(f, n, s) /\ BuildContext(s) = f[n]
  BY SelectionIsBuilt
<1>2. \A k \in 0..n : newest(k) \in Seq(Messages)
  BY <1>0
<1>3. newest(n) = s
  <2>1. n - n + 1 = 1 /\ newest(n) \in Seq(Messages) /\ Len(newest(n)) = n
        /\ \A i \in 1..n : newest(n)[i] = s[i]
    BY <1>0
  <2>. QED  BY <2>1, SeqEqual
<1>4. \A k \in 0..n - 1 : LET m == s[n - k] IN
        /\ Len(newest(k)) = k /\ m \in Messages /\ newest(k + 1) = <<m>> \o newest(k)
        /\ Characters(newest(k + 1)) = Characters(newest(k)) + m.size
        /\ Characters(newest(k)) \in Nat
  <2> TAKE k \in 0..n - 1
  <2>1. n - (k + 1) + 1 = n - k
    BY <1>0
  <2>. QED  BY <2>1, OneMore
<1> HIDE DEF newest
<1>5. \A k \in 0..n : Characters(newest(k)) <= MaxCharacters
  <2> DEFINE T == {k \in 0..n : Characters(newest(n - k)) <= MaxCharacters}
  <2>1. 0 \in T
    BY <1>0, <1>3 DEF InBudget
  <2>2. ASSUME NEW k \in 0..n - 1, k \in T PROVE k + 1 \in T
    <3> DEFINE j == n - (k + 1)
    <3>1. j \in 0..n - 1 /\ j + 1 = n - k /\ k + 1 \in 0..n /\ n - j \in 1..n
      BY <1>0
    <3> HIDE DEF j
    <3>2. /\ s[n - j] \in Messages
          /\ Characters(newest(j + 1)) = Characters(newest(j)) + s[n - j].size
          /\ Characters(newest(j)) \in Nat
      BY <1>4, <3>1
    <3>3. s[n - j].size \in Nat
      BY <3>2 DEF Messages
    <3>4. Characters(newest(j + 1)) <= MaxCharacters
      BY <2>2, <3>1
    <3>5. Characters(newest(j)) <= MaxCharacters
      BY <3>2, <3>3, <3>4, BudgetAssumption
    <3>. QED  BY <3>1, <3>5 DEF j
  <2> HIDE DEF T
  <2>3. \A k \in 0..n : k \in T
    BY <1>0, <2>1, <2>2, BoundedInduction
  <2>. QED
    <3> TAKE k \in 0..n
    <3>1. n - k \in 0..n /\ n - (n - k) = k
      BY <1>0
    <3>. QED  BY <2>3, <3>1 DEF T
<1> DEFINE T == {k \in 0..n : f[k] = newest(k)}
<1>6. 0 \in T
  <2>1. newest(0) = <<>>
    BY <1>0 DEF newest
  <2>. QED  BY <1>0, <1>1, <2>1 DEF IsSelection
<1>7. ASSUME NEW k \in 0..n - 1, k \in T PROVE k + 1 \in T
  <2> DEFINE m == s[n - k]
  <2>1. k + 1 \in 1..n /\ (k + 1) - 1 = k /\ n - (k + 1) + 1 = n - k /\ k + 1 \in 0..n
    BY <1>0
  <2>2. f[k + 1] = Offer(m, newest(k))
    BY <1>1, <1>7, <2>1 DEF IsSelection
  <2>3. Len(newest(k)) < MaxMessages
    <3>1. n <= MaxMessages
      BY DEF InBudget
    <3>2. Len(newest(k)) = k
      BY <1>4
    <3>. QED  BY <1>0, <3>1, <3>2, BudgetAssumption
  <2>4. Characters(newest(k)) + m.size <= MaxCharacters
    BY <1>4, <1>5, <2>1
  <2>5. f[k + 1] = <<m>> \o newest(k)
    BY <2>2, <2>3, <2>4 DEF Offer, Fits
  <2>. QED  BY <1>4, <2>1, <2>5
<1> HIDE DEF T
<1>8. \A k \in 0..n : k \in T
  BY <1>0, <1>6, <1>7, BoundedInduction
<1>. QED  BY <1>0, <1>1, <1>3, <1>8 DEF T

\* What the model is shown around the intent is within both budgets.
BudgetsHold == pc = "asked" => InBudget(Seen)

\* In its first question the model sees the conversation as handle_message has bounded it.
FirstViewIsWhole == pc = "asked" /\ index = 1 => Seen = conversation

\* Until the first task has returned the conversation is the one the message came with.
StillInBudget ==
  index = 0 \/ (index = 1 /\ pc \in {"asked", "executing", "returned"}) => InBudget(conversation)

\* A message comes with a view of its history.
LEMMA InitInBudget == Init => StillInBudget
<1> SUFFICES ASSUME Init PROVE InBudget(conversation)
  BY DEF StillInBudget
<1>1. PICK history \in Histories : conversation = BuildContext(history)
  BY DEF Init
<1>2. history \in Seq(Messages)
  <2>1. [role : Roles, size : Nat \ {0}, turn : {0}] \subseteq Messages
    BY DEF Messages
  <2>2. history \in Seq([role : Roles, size : Nat \ {0}, turn : {0}])
    BY LoopAssumption
  <2>. QED  BY <2>1, <2>2, SeqMonotonic
<1>. QED  BY <1>1, <1>2, ContextIsInBudget

\* Only a task that has returned adds to the conversation, and the next question is the second.
LEMMA StepInBudget == ASSUME IInv, TextInv, StillInBudget, [Next]_vars PROVE StillInBudget'
<1>0. index \in Nat /\ (pc = "returned" => index > 0)
  BY LoopAssumption DEF IInv, ControlIsTyped, TextInv, Dated
<1>1. CASE RequestAfterTool
  BY <1>0, <1>1 DEF RequestAfterTool, StillInBudget
<1>2. CASE Exhausted \/ StopBeforeAsking \/ Ask \/ PromptRefused
  BY <1>0, <1>2 DEF Exhausted, StopBeforeAsking, Ask, PromptRefused, Iterate, Stop, StillInBudget,
     InBudget
<1>3. CASE ModelFails \/ DecisionRefused \/ Answer \/ Propose \/ ProposalRefused
  BY <1>3 DEF ModelFails, DecisionRefused, Answer, Propose, ProposalRefused, Raise, Stop,
     StillInBudget, InBudget
<1>4. CASE TaskSucceeds \/ (\E s \in Terminal \ {"SUCCEEDED"} : TaskFails(s)) \/ TaskRaises
  BY <1>4 DEF TaskSucceeds, TaskFails, TaskRaises, Stop, StillInBudget, InBudget
<1>5. CASE StopAfterTask \/ UserCancels \/ UNCHANGED vars
  BY <1>5 DEF StopAfterTask, UserCancels, vars, Stop, StillInBudget, InBudget
<1>. QED  BY <1>1, <1>2, <1>3, <1>4, <1>5 DEF Next

\* Whatever the conversation, the model is never shown more messages or characters than the
\* budgets allow (context_manager.py).
THEOREM NothingExceedsBudgets == Spec => []BudgetsHold
<1>1. TextInv => BudgetsHold
  <2> SUFFICES ASSUME TextInv, pc = "asked" PROVE InBudget(Seen)
    BY DEF BudgetsHold
  <2>1. conversation \in Seq(Messages)
    BY DEF TextInv, TextsAreTyped
  <2>. QED  BY <2>1, SeenIsView, ContextIsInBudget
<1>. QED  BY TextsInvariance, <1>1, PTL

\* handle_message bounds the stored conversation, and run bounds it again before each question:
\* for the first question the second time takes nothing away.
THEOREM BoundedOnce == Spec => []FirstViewIsWhole
<1>1. TextInv /\ StillInBudget => FirstViewIsWhole
  <2> SUFFICES ASSUME TextInv, StillInBudget, pc = "asked", index = 1 PROVE Seen = conversation
    BY DEF FirstViewIsWhole
  <2>1. conversation \in Seq(Messages) /\ InBudget(conversation)
    BY DEF TextInv, TextsAreTyped, StillInBudget
  <2>. QED  BY <2>1, SeenIsView, InBudgetIsWhole
<1>. QED  BY TextsInvariance, InitInBudget, StepInBudget, <1>1, PTL DEF Spec

=============================================================================
