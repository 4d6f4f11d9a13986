---------------------------- MODULE LanguageServerCalls ----------------------------
(***************************************************************************)
(* The calls of a language server (pygls.lsp._base_server): one operator   *)
(* for each generated method and its _async twin.  Nothing is asked before *)
(* sending, not even whether the server was initialized or is shutting     *)
(* down.  program.calls bounds the calls.                                  *)
(***************************************************************************)
EXTENDS Naturals, Sequences, FiniteSets

VARIABLES
  program,      \* what the programs on both sides may do, see Session
  toClient,     \* messages the server has sent and the client has not read
  outstanding,  \* requests without an answer
  made,         \* methods the server has called
  mislaid       \* those whose request or answer was dropped on the way, see Session

\* The message LanguageServer.report_server_error shows.
Shown(m) == [kind |-> "notification", method |-> "window/showMessage", about |-> m]

\* _send_data.  What cannot be encoded is reported, and not sent.
Send(kind, m) ==
  /\ m \in program.makes \ made
  /\ Cardinality(made) < program.calls
  /\ made' = made \cup {m}
  /\ \/ /\ toClient' = Append(toClient, [kind |-> kind, method |-> m])
        /\ UNCHANGED mislaid
     \/ /\ m \in program.faulty
        /\ toClient' = Append(toClient, Shown(m))
        /\ mislaid' = mislaid \cup {m}

Request(m) ==
  /\ Send("request", m)
  /\ outstanding' = outstanding \cup {m}
  /\ UNCHANGED program

Notify(m) ==
  /\ Send("notification", m)
  /\ UNCHANGED <<program, outstanding>>

-----------------------------------------------------------------------------
(* Requests.                                                                *)

client_register_capability == Request("client/registerCapability")
client_unregister_capability == Request("client/unregisterCapability")
window_show_document == Request("window/showDocument")
window_show_message_request == Request("window/showMessageRequest")
window_work_done_progress_create == Request("window/workDoneProgress/create")
workspace_apply_edit == Request("workspace/applyEdit")
workspace_code_lens_refresh == Request("workspace/codeLens/refresh")
workspace_configuration == Request("workspace/configuration")
workspace_diagnostic_refresh == Request("workspace/diagnostic/refresh")
workspace_folding_range_refresh == Request("workspace/foldingRange/refresh")
workspace_inlay_hint_refresh == Request("workspace/inlayHint/refresh")
workspace_inline_value_refresh == Request("workspace/inlineValue/refresh")
workspace_semantic_tokens_refresh == Request("workspace/semanticTokens/refresh")
workspace_text_document_content_refresh ==
  Request("workspace/textDocumentContent/refresh")
workspace_workspace_folders == Request("workspace/workspaceFolders")

-----------------------------------------------------------------------------
(* Notifications.                                                           *)

cancel_request == Notify("$/cancelRequest")
log_trace == Notify("$/logTrace")
progress == Notify("$/progress")
telemetry_event == Notify("telemetry/event")
text_document_publish_diagnostics == Notify("textDocument/publishDiagnostics")
window_log_message == Notify("window/logMessage")
window_show_message == Notify("window/showMessage")

-----------------------------------------------------------------------------

Calls ==
  \/ client_register_capability \/ client_unregister_capability \/ window_show_document
  \/ window_show_message_request \/ window_work_done_progress_create
  \/ workspace_apply_edit \/ workspace_code_lens_refresh \/ workspace_configuration
  \/ workspace_diagnostic_refresh \/ workspace_folding_range_refresh
  \/ workspace_inlay_hint_refresh \/ workspace_inline_value_refresh
  \/ workspace_semantic_tokens_refresh \/ workspace_text_document_content_refresh
  \/ workspace_workspace_folders \/ cancel_request \/ log_trace \/ progress
  \/ telemetry_event \/ text_document_publish_diagnostics \/ window_log_message
  \/ window_show_message

=============================================================================
