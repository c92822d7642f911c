----------------------------- MODULE LspServer -----------------------------
(***************************************************************************)
(* The language server of crates/ori-lsp/src: server.rs (the loop of run   *)
(* and its handlers), state.rs (the documents) and codec.rs (the framing). *)
(*                                                                         *)
(* A client and the server are connected by two streams that keep their    *)
(* order. The client does not wait: it may edit, ask and shut down while   *)
(* earlier messages are still on their way. A text is abstracted to the    *)
(* number of the edit that made it, 0 standing for "not open"; which       *)
(* method a request has, which document it is about and whether its        *)
(* parameters parse is chosen when the server handles it; only whether its *)
(* cursor is past the end of a line is chosen by the client, because some  *)
(* handlers panic there. An answer is abstracted to its kind and to the    *)
(* texts it was computed from.                                             *)
(***************************************************************************)
EXTENDS Integers, Sequences

CONSTANTS
  Uris,       \* the documents
  MaxSends    \* bound on the messages of the client

ASSUME LspAssumption == MaxSends \in Nat

VARIABLES
  documents,      \* WorkspaceState: the text of every open document
  shutting_down,  \* shutdown was requested
  status,         \* run is going on, returned, failed, or panicked
  inbox, outbox,  \* the two streams
  \* The client.
  editor,         \* the text of every document it has open
  markers,        \* the text whose diagnostics it shows, for every document
  asked,          \* history: the editor's texts when request i was sent
  answers,        \* the ids of the responses it has read
  sends,          \* the number of messages it has sent
  gone,           \* it has closed its end of the streams
  cutoff          \* history: the requests sent before the first message that
                  \* may end the server, or NoCutoff

server == <<documents, shutting_down, status>>
client == <<editor, markers, asked, answers, sends, gone, cutoff>>
vars == <<server, inbox, outbox, client>>

NoCutoff == -1
Closed == [u \in Uris |-> 0]

\* A request, and one whose cursor is past the end of its line.
Requests == {"request", "request_past"}

\* The messages that end run, or may.
Ending == {"exit", "eof", "cut", "bad_header", "request_past"}
ResultKinds == {"ok", "null", "empty", "invalid_params", "invalid_request",
                "method_not_found"}

Init ==
  /\ documents = Closed /\ shutting_down = FALSE /\ status = "running"
  /\ inbox = <<>> /\ outbox = <<>>
  /\ editor = Closed /\ markers = Closed /\ asked = <<>> /\ answers = <<>>
  /\ sends = 0 /\ gone = FALSE /\ cutoff = NoCutoff
----------------------------------------------------------------------------
(***************************************************************************)
(* The client, from how the server reads its messages.                     *)
(***************************************************************************)
Send(message) ==
  /\ ~gone /\ sends < MaxSends
  /\ sends' = sends + 1
  /\ inbox' = Append(inbox, message)
  /\ cutoff' = IF cutoff = NoCutoff /\ message.type \in Ending THEN Len(asked) ELSE cutoff
  /\ UNCHANGED <<server, outbox, markers, answers>>

\* The user opens or edits a document; every didOpen and didChange has the
\* whole text.
Edits(u, method) ==
  /\ editor' = [editor EXCEPT ![u] = sends + 1]
  /\ Send([type |-> method, uri |-> u, text |-> sends + 1])
  /\ UNCHANGED <<asked, gone>>

Closes(u) ==
  /\ editor' = [editor EXCEPT ![u] = 0]
  /\ Send([type |-> "textDocument/didClose", uri |-> u])
  /\ UNCHANGED <<asked, gone>>

\* A request, one with a broken envelope, or the shutdown request.
Asks(type) ==
  /\ asked' = Append(asked, editor)
  /\ Send([type |-> type, id |-> Len(asked) + 1])
  /\ UNCHANGED <<editor, gone>>

\* A notification that changes nothing (initialized, one that is unknown or
\* malformed, a didChange without changes), a payload that is no JSON, a header
\* that cannot be read (no colon, no Content-Length, or one that is no number or
\* too large), or exit. A payload longer than announced is one that is no JSON
\* followed by such a header.
Tells(type) == Send([type |-> type]) /\ UNCHANGED <<editor, asked, gone>>

\* The client goes away, between two messages or in the middle of one.
HangsUp(type) == Send([type |-> type]) /\ gone' = TRUE /\ UNCHANGED <<editor, asked>>

\* The client reads the next message of the server.
Reads ==
  /\ ~gone /\ outbox /= <<>>
  /\ outbox' = Tail(outbox)
  /\ LET m == Head(outbox)
     IN  CASE m.type = "publishDiagnostics" ->
                markers' = [markers EXCEPT ![m.uri] = m.text] /\ UNCHANGED answers
           [] m.type = "response" ->
                answers' = Append(answers, m.id) /\ UNCHANGED markers
           [] OTHER -> UNCHANGED <<markers, answers>>
  /\ UNCHANGED <<server, inbox, editor, asked, sends, gone, cutoff>>
----------------------------------------------------------------------------
(***************************************************************************)
(* state.rs.                                                               *)
(***************************************************************************)
open(u, text) == [documents EXCEPT ![u] = text]

\* Mutant: a didChange of a document that is not open is ignored.
update_mutant(u, text) ==
  IF documents[u] = 0 THEN documents ELSE [documents EXCEPT ![u] = text]

\* update creates the document if it has to.
update(u, text) == [documents EXCEPT ![u] = text]

close(u) == [documents EXCEPT ![u] = 0]

OpenDocuments == {u \in Uris : documents[u] /= 0}
----------------------------------------------------------------------------
(***************************************************************************)
(* The loop of run.                                                        *)
(***************************************************************************)

\* The server takes up a message of this type.
Receives(type) ==
  /\ status = "running" /\ inbox /= <<>> /\ Head(inbox).type = type
  /\ inbox' = Tail(inbox)
  /\ UNCHANGED client

\* write_message: once the client is gone it may fail, and with it run.
write_message(message) ==
  \/ outbox' = Append(outbox, message) /\ UNCHANGED status
  \/ gone /\ status' = "failed" /\ UNCHANGED outbox

Keeps == UNCHANGED <<documents, shutting_down>>

\* A response computed from the texts of `consulted`.
Response(result, consulted) ==
  write_message([type |-> "response", id |-> Head(inbox).id, result |-> result,
                 saw |-> [u \in consulted |-> documents[u]]])

\* No JSON: a parse error without an id.
on_invalid_json ==
  Receives("not_json") /\ write_message([type |-> "parse_error"]) /\ Keeps

on_invalid_envelope ==
  Receives("bad_envelope") /\ Response("invalid_request", {}) /\ Keeps

\* The end of the stream is clean between two messages and an error inside one; a
\* header that cannot be read is an error though the client is still there.
read_message_ends ==
  \/ Receives("eof") /\ status' = "ended" /\ Keeps /\ UNCHANGED outbox
  \/ /\ Receives("cut") \/ Receives("bad_header")
     /\ status' = "failed" /\ Keeps /\ UNCHANGED outbox
----------------------------------------------------------------------------
(***************************************************************************)
(* The request handlers. Bad parameters come first in most of them.        *)
(***************************************************************************)
Answer(result, consulted) ==
  /\ ~shutting_down /\ \E type \in Requests : Receives(type)
  /\ Response(result, consulted)
  /\ Keeps

\* identifier_at looks at the byte before the cursor, which is past the line if the
\* cursor is and the line ends in punctuation: the process panics.
identifier_at_panics ==
  /\ ~shutting_down /\ Receives("request_past")
  /\ OpenDocuments /= {}
  /\ status' = "panicked"
  /\ Keeps /\ UNCHANGED outbox

\* Handlers that look up one document: what they say without parameters, and
\* what they say if it is not open.
LookUp(missing) ==
  \/ Answer("invalid_params", {})
  \/ \E u \in Uris \ OpenDocuments : Answer(missing, {u})

on_initialize == Answer("ok", {})

on_hover ==
  \/ LookUp("null")
  \/ \E u \in OpenDocuments, result \in {"null", "ok"} : Answer(result, {u})

on_code_action == \E result \in {"invalid_params", "ok"} : Answer(result, {})

on_completion ==
  \/ Answer("invalid_params", {})
  \/ \E u \in Uris : Answer("ok", {u})

on_rename ==
  \/ LookUp("null")
  \/ identifier_at_panics
  \/ \E u \in OpenDocuments, result \in {"null", "ok"} : Answer(result, {u})

on_workspace_symbol == Answer("ok", Uris)

on_document_symbol ==
  \/ LookUp("empty")
  \/ \E u \in OpenDocuments : Answer("ok", {u})

\* No identifier there, none defined anywhere, or the first in URI order.
on_definition ==
  \/ LookUp("null")
  \/ identifier_at_panics
  \/ \E u \in OpenDocuments : \/ Answer("null", {u})
                              \/ \E result \in {"null", "ok"} : Answer(result, Uris)

on_references ==
  \/ LookUp("empty")
  \/ identifier_at_panics
  \/ \E u \in OpenDocuments : Answer("empty", {u}) \/ Answer("ok", Uris)

on_semantic_tokens_full ==
  \/ LookUp("empty")
  \/ \E u \in OpenDocuments : Answer("ok", {u})

on_formatting ==
  \/ LookUp("empty")
  \/ \E u \in OpenDocuments, result \in {"empty", "ok"} : Answer(result, {u})

\* Callers are counted in all open documents.
on_code_lens == LookUp("empty") \/ (OpenDocuments /= {} /\ Answer("ok", Uris))

on_code_lens_resolve == \E result \in {"invalid_params", "ok"} : Answer(result, {})

on_inlay_hint ==
  \/ LookUp("empty")
  \/ \E u \in OpenDocuments : Answer("ok", {u})

on_folding_range ==
  \/ LookUp("empty")
  \/ \E u \in OpenDocuments : Answer("ok", {u})

on_selection_range ==
  \/ LookUp("empty")
  \/ \E u \in OpenDocuments : Answer("ok", {u})

\* The hierarchies of calls and of types search the whole workspace.
Hierarchy == Answer("invalid_params", {}) \/ Answer("ok", Uris)
on_prepare_call_hierarchy == Hierarchy \/ identifier_at_panics
on_incoming_calls == Hierarchy
on_outgoing_calls == Hierarchy
on_prepare_type_hierarchy == Hierarchy \/ identifier_at_panics
on_type_hierarchy_supertypes == Hierarchy
on_type_hierarchy_subtypes == Hierarchy

\* The refactorings: bad arguments, a document that is not open and a refusal
\* are all invalid parameters.
on_execute_command ==
  \/ LookUp("invalid_params")
  \/ identifier_at_panics
  \/ Answer("method_not_found", {})
  \/ \E u \in OpenDocuments, result \in {"invalid_params", "ok"} : Answer(result, {u})

on_other == Answer("method_not_found", {})

on_shutdown ==
  /\ Receives("shutdown")
  /\ shutting_down' = TRUE
  /\ Response("null", {})
  /\ UNCHANGED documents

\* Mutant: a request after shutdown is dropped.
refuse_after_shutdown_mutant ==
  /\ shutting_down /\ \E type \in Requests : Receives(type)
  /\ Keeps /\ UNCHANGED <<outbox, status>>

\* The guard of handle_request.
refuse_after_shutdown ==
  /\ shutting_down /\ \E type \in Requests : Receives(type)
  /\ Response("invalid_request", {})
  /\ Keeps

\* exit sent as a request passes that guard, and no handler knows it.
exit_request ==
  Receives("exit_request") /\ Response("method_not_found", {}) /\ Keeps

handle_request ==
  \/ on_initialize \/ on_shutdown \/ on_hover \/ on_code_action
  \/ on_completion \/ on_rename \/ on_workspace_symbol \/ on_document_symbol
  \/ on_definition \/ on_references \/ on_semantic_tokens_full
  \/ on_formatting \/ on_code_lens \/ on_code_lens_resolve
  \/ on_inlay_hint \/ on_folding_range \/ on_selection_range
  \/ on_prepare_call_hierarchy \/ on_incoming_calls \/ on_outgoing_calls
  \/ on_prepare_type_hierarchy \/ on_type_hierarchy_supertypes
  \/ on_type_hierarchy_subtypes \/ on_execute_command \/ on_other
  \/ refuse_after_shutdown \/ exit_request
----------------------------------------------------------------------------
(***************************************************************************)
(* The notification handlers. They do not look at shutting_down.           *)
(***************************************************************************)
publish_diagnostics(u, text) ==
  write_message([type |-> "publishDiagnostics", uri |-> u, text |-> text])

on_did_open ==
  LET m == Head(inbox)
  IN  /\ Receives("textDocument/didOpen")
      /\ documents' = open(m.uri, m.text)
      /\ publish_diagnostics(m.uri, m.text)
      /\ UNCHANGED shutting_down

on_did_change ==
  LET m == Head(inbox)
  IN  /\ Receives("textDocument/didChange")
      /\ documents' = update(m.uri, m.text)
      /\ publish_diagnostics(m.uri, m.text)
      /\ UNCHANGED shutting_down

\* Mutant: the markers of a closed document stay.
on_did_close_mutant ==
  /\ Receives("textDocument/didClose")
  /\ documents' = close(Head(inbox).uri)
  /\ UNCHANGED <<shutting_down, outbox, status>>

\* An empty list of diagnostics clears the markers.
on_did_close ==
  LET m == Head(inbox)
  IN  /\ Receives("textDocument/didClose")
      /\ documents' = close(m.uri)
      /\ publish_diagnostics(m.uri, 0)
      /\ UNCHANGED shutting_down

on_exit == Receives("exit") /\ status' = "ended" /\ Keeps /\ UNCHANGED outbox

on_ignored == Receives("ignored") /\ Keeps /\ UNCHANGED <<outbox, status>>

handle_notification ==
  on_did_open \/ on_did_change \/ on_did_close \/ on_exit \/ on_ignored
----------------------------------------------------------------------------
run ==
  \/ handle_request
  \/ handle_notification
  \/ on_invalid_json
  \/ on_invalid_envelope
  \/ read_message_ends

Next ==
  \/ \E u \in Uris : \/ Edits(u, "textDocument/didOpen")
                     \/ Edits(u, "textDocument/didChange")
                     \/ Closes(u)
  \/ \E type \in Requests \cup {"shutdown", "exit_request", "bad_envelope"} : Asks(type)
  \/ \E type \in {"ignored", "not_json", "bad_header", "exit"} : Tells(type)
  \/ \E type \in {"eof", "cut"} : HangsUp(type)
  \/ Reads
  \/ run

Spec == Init /\ [][Next]_vars

\* The server handles what it was sent, and an editor that is there reads what
\* it is sent; nobody has to send anything.
FairSpec == Spec /\ WF_vars(run) /\ WF_vars(Reads)
----------------------------------------------------------------------------
(***************************************************************************)
(* Properties.                                                             *)
(***************************************************************************)

\* The places of the responses that are on their way.
Replies == {i \in DOMAIN outbox : outbox[i].type = "response"}

\* The state of the server and the streams.
TypeOK ==
  /\ documents \in [Uris -> 0..MaxSends]
  /\ shutting_down \in BOOLEAN /\ status \in {"running", "ended", "failed", "panicked"}
  /\ \A i \in Replies : outbox[i].result \in ResultKinds

\* Every request is answered once and in the order it was sent, whatever its
\* envelope, its parameters and the state of the server: the client has read the
\* answers to the first requests, and those on their way continue the count.
AnsweredInOrder ==
  /\ \A i \in DOMAIN answers : answers[i] = i
  /\ \A i, j \in Replies : i < j => outbox[i].id < outbox[j].id
  /\ \A i \in Replies :
       /\ outbox[i].id > Len(answers)
       /\ \A n \in (Len(answers) + 1)..outbox[i].id : \E j \in Replies : outbox[j].id = n

\* An answer is computed from the texts the user had in front of them when the
\* request was sent, however many edits were on their way before or after it.
AnswersTheAskedTexts ==
  \A i \in Replies : \A u \in DOMAIN outbox[i].saw :
    outbox[i].saw[u] = asked[outbox[i].id][u]

\* The editor gets one answer per request, in order, to the question it asked.
AnswersAreExact == TypeOK /\ AnsweredInOrder /\ AnswersTheAskedTexts

\* Once everything is delivered, the markers an editor shows are those of the
\* texts it has, and a document it closed has none.
MarkersMatchWhenQuiet ==
  status = "running" /\ inbox = <<>> /\ outbox = <<>> => markers = editor

\* Every request that was sent before anything that may end the server is answered,
\* as long as the client is there to read: broken envelopes, payloads that are no
\* JSON and a shutdown cost no other request its answer. A cursor past the end of
\* its line may end the server too (identifier_at_panics), which nobody promises.
EveryRequestIsAnswered ==
  \A n \in 1..MaxSends :
    Len(asked) >= n /\ cutoff \notin 0..(n - 1) ~> Len(answers) >= n \/ gone

\* exit, the end of the stream or a header that cannot be read ends run, with or
\* without a shutdown.
StopsWhenTold ==
  (\E i \in DOMAIN inbox : inbox[i].type \in Ending \ {"request_past"})
    ~> status /= "running"

\* Nothing else ends it.
StopsOnlyWhenTold == status /= "running" => cutoff /= NoCutoff

\* The server keeps up with its editor: requests are answered, and it stops when
\* told and not before.
KeepsUp == EveryRequestIsAnswered /\ StopsWhenTold /\ []StopsOnlyWhenTold
============================================================================
