------------------------ MODULE MCConversationSessions ------------------------
(* Instances of ConversationSessions for TLC. *)
EXTENDS ConversationSessions, TLC

CONSTANTS s1, s2, m1, m2, m3

\* m2 is answered with a blank text, m3 with one that is too long.
MCUserLength == [m \in Messages |-> IF m = m2 THEN 2 ELSE 1]
MCReplyLength == [m \in Messages |-> CASE m = m1 -> 2 [] m = m2 -> 0 [] m = m3 -> 3]

\* Two short messages with short answers.
MCShort == [m \in Messages |-> 1]

Symmetry == Permutations(Sessions)

=============================================================================
