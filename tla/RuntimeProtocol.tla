--------------------------- MODULE RuntimeProtocol ---------------------------
(***************************************************************************)
(* One line of the protocol between the desktop and the runtime host       *)
(* (runtime_protocol.py, and what runtime_host.py recovers from a line it  *)
(* cannot decode).  A text is described by what the decoder looks at.      *)
(***************************************************************************)

\* How an identifier is written: as str(UUID) prints it, in another form that UUID()
\* accepts (upper case, braces), or as nothing UUID() accepts.
IdForms == {"canonical", "other", "invalid"}

Operations == {"health", "create_session", "clear_session", "delete_session", "message"}

\* form: nothing but blanks; a JSON object; anything else json.loads can tell; so deeply
\* nested that json.loads gives up with a RecursionError; bytes that the encoding of stdin
\* has no character for.
Texts ==
  [form : {"blank", "object", "other", "deep", "undecodable"},
   keys : BOOLEAN,                \* exactly the six fields of the protocol
   header : BOOLEAN,              \* the version and the type it speaks
   request : IdForms, task : IdForms,
   operation : Operations \cup {"unknown", "blank"},
   payload : BOOLEAN,             \* an object
   session : BOOLEAN]             \* whose session_id is a string

Decodes(text) ==
  /\ text.form = "object" /\ text.keys /\ text.header /\ text.payload
  /\ text.request # "invalid" /\ text.task # "invalid"
  /\ text.operation # "blank"

\* Mutant: the identifiers are recovered together or not at all.
RecoverTogether(form, text) ==
  IF text.form # "object" \/ text.request = "invalid" \/ text.task = "invalid"
  THEN "nil" ELSE "canonical"

\* _recover_identifiers: each identifier for itself, normalised, or the UUID of zeros.
Recovered(form, text) ==
  IF text.form = "object" /\ form # "invalid" THEN "canonical" ELSE "nil"

Response(request, task, status, code) ==
  [request |-> request, task |-> task, status |-> status, code |-> code]

Rejection(text) ==
  Response(Recovered(text.request, text), Recovered(text.task, text), "failed",
           "ANN_E_PROTOCOL_ERROR")

Codes == {"none", "application", "ANN_E_PROTOCOL_ERROR", "ANN_E_UNSUPPORTED_OPERATION",
          "ANN_E_RUNTIME_HOST_ERROR"}

Responses ==
  [request : {"canonical", "other", "nil"}, task : {"canonical", "other", "nil"},
   status : {"completed", "failed"}, code : Codes]

\* _dispatch and what _handle_line makes of its exceptions: the responses an operation may
\* get.  Whatever calls the application may fail there, in a way it foresaw or not.
Results(text) ==
  CASE text.operation = "health" -> {"none"}
    [] text.operation = "unknown" -> {"ANN_E_UNSUPPORTED_OPERATION"}
    [] text.operation \in {"clear_session", "delete_session"} /\ ~text.session -> {"application"}
    [] OTHER -> {"none", "application", "ANN_E_RUNTIME_HOST_ERROR"}

Dispatched(text) ==
  {Response(text.request, text.task, IF code = "none" THEN "completed" ELSE "failed", code) :
     code \in Results(text)}

\* _handle_line of a text that json.loads can tell.
HandleLine(text) == IF Decodes(text) THEN Dispatched(text) ELSE {Rejection(text)}

\* Whether text of the client or of the model may be quoted in the response, which stdout may
\* then refuse to encode (half of a surrogate pair).  A rejection quotes the names of unknown
\* fields and nothing else; the host's own errors and its health quote nothing, an unknown
\* operation is quoted by its repr().
Quotes(text, response) ==
  IF Decodes(text)
  THEN /\ response.code \in {"none", "application"}
       /\ text.operation \notin {"health", "create_session"}
  ELSE text.form = "object" /\ ~text.keys

=============================================================================
