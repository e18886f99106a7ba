---------------------------- MODULE MCRuntimeHost ----------------------------
(* Instances of RuntimeHost for TLC. *)
EXTENDS RuntimeHost, TLC

CONSTANTS w1, w2, message, rejected, odd, blank, deep, strange

Good ==
  [form |-> "object", keys |-> TRUE, header |-> TRUE, request |-> "canonical",
   task |-> "canonical", operation |-> "message", payload |-> TRUE, session |-> TRUE]

\* A message; a line with an unknown field and a broken task id; a request whose ids are not
\* written as UUIDs are printed, for an operation that needs a session it does not name.
MCText ==
  [l \in Lines |->
     CASE l = message -> Good
       [] l = rejected -> [Good EXCEPT !.keys = FALSE, !.task = "invalid"]
       [] l = odd -> [Good EXCEPT !.request = "other", !.operation = "clear_session",
                                  !.session = FALSE]
       [] l = blank -> [Good EXCEPT !.form = "blank"]
       [] l = deep -> [Good EXCEPT !.form = "deep"]
       [] l = strange -> [Good EXCEPT !.form = "undecodable"]]

=============================================================================
