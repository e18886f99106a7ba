---------------------------- MODULE ContextWindow ----------------------------
(***************************************************************************)
(* ContextManager.build_context: which messages of a conversation a model  *)
(* gets to see.  A message is its role, the length of its content and the  *)
(* turn of the planning loop that made it (0: before the loop).            *)
(***************************************************************************)
EXTENDS Naturals, Sequences, FiniteSets

CONSTANTS
  MaxMessages,   \* MAX_CONTEXT_MESSAGES, 32 in the program
  MaxCharacters  \* MAX_CONTEXT_CHARACTERS, 32 000 in the program

ASSUME BudgetAssumption == MaxMessages \in Nat \ {0} /\ MaxCharacters \in Nat \ {0}

\* "other" is a role that no ModelRole has.
Roles == {"system", "user", "assistant", "tool", "other"}

Messages == [role : Roles, size : Nat \ {0}, turn : Nat]

Characters(messages) ==
  LET sum[k \in 0..Len(messages)] == IF k = 0 THEN 0 ELSE sum[k - 1] + messages[k].size
  IN  sum[Len(messages)]

Fits(message, selected) ==
  /\ Len(selected) < MaxMessages
  /\ Characters(selected) + message.size <= MaxCharacters

\* A variant that stops at the first message that does not fit.
BuildContextUpToGap(conversation) ==
  LET last == Len(conversation)
      selected[k \in 0..last] ==
        IF k = 0 THEN <<>>
        ELSE LET message == conversation[last - k + 1]
                 newer == selected[k - 1]
             IN  IF Len(newer) = k - 1 /\ Fits(message, newer) THEN <<message>> \o newer ELSE newer
  IN  selected[last]

\* A message that does not fit is skipped, and the search goes on.
Offer(message, newer) == IF Fits(message, newer) THEN <<message>> \o newer ELSE newer

\* Newest first: what is selected of the newest k messages.
BuildContext(conversation) ==
  LET last == Len(conversation)
      selected[k \in 0..last] ==
        IF k = 0 THEN <<>> ELSE Offer(conversation[last - k + 1], selected[k - 1])
  IN  selected[last]

=============================================================================
