------------------------- MODULE RuntimeHostContract -------------------------
(***************************************************************************)
(* What the runtime host promises to whoever holds its pipes, and all that *)
(* RuntimeManager needs of a host that behaves: a line it has read is      *)
(* answered at most once, nothing is answered that was not asked, and a    *)
(* host that has ended says nothing more.                                  *)
(***************************************************************************)
EXTENDS Naturals

CONSTANT Lines

VARIABLES
  asked,    \* the lines that were read
  answers,  \* how often each line was answered
  over

vars == <<asked, answers, over>>

Init == asked = {} /\ answers = [l \in Lines |-> 0] /\ over = FALSE

Ask(l) == ~over /\ l \notin asked /\ asked' = asked \cup {l} /\ UNCHANGED <<answers, over>>

\* A second answer is a step of its own, and not one of these.
Answer(l) ==
  /\ ~over /\ l \in asked /\ answers[l] = 0
  /\ answers' = [answers EXCEPT ![l] = 1] /\ UNCHANGED <<asked, over>>

End == ~over /\ over' = TRUE /\ UNCHANGED <<asked, answers>>

Next == End \/ \E l \in Lines : Ask(l) \/ Answer(l)

Spec == Init /\ [][Next]_vars

=============================================================================
