------------------------------ MODULE LanguageClient -------------------------
(***************************************************************************)
(* The calls of a language client (pygls.lsp._base_client): one operator   *)
(* for each generated method and its _async twin, which differ in how the  *)
(* caller waits.  Every one of them refuses a client that has been         *)
(* stopped; then a request registers a future and sends, a notification    *)
(* only sends.                                                             *)
(*                                                                         *)
(* A client calls each method at most once, so the method stands for the   *)
(* message id.  It follows the order of the LSP: initialize once,          *)
(* initialized and shutdown when initialize was answered.                  *)
(***************************************************************************)
EXTENDS Naturals, Sequences, FiniteSets

VARIABLES
  program,    \* what the programs on both sides may do, see Session
  toServer,   \* messages the client has sent and the server has not read
  pending,    \* requests without an answer
  called,     \* methods the client has called
  lost,       \* those whose request or answer was dropped on the way, see Session
  stopped     \* JsonRPCClient.stopped

Answered(m) == m \in called \ pending

\* What a client that follows the protocol does.  program.calls bounds the
\* calls besides initialize.
MayCall(m) ==
  /\ {m, "exit"} \cap called = {}
  /\ m \in {"initialized", "shutdown"} => Answered("initialize")
  /\ m # "initialize" =>
       m \in program.uses /\ Cardinality(called \ {"initialize"}) < program.calls

\* The requests a cancel notification can name.
Cancellable == called \cap program.uses

\* _send_data.  What cannot be encoded is reported to a hook that does nothing
\* (JsonRPCClient.report_server_error): nothing is sent, the caller waits on.
Send(kind, m, params) ==
  /\ ~stopped
  /\ MayCall(m)
  /\ called' = called \cup {m}
  /\ \/ /\ toServer' = Append(toServer, [kind |-> kind, method |-> m, params |-> params])
        /\ UNCHANGED lost
     \/ /\ m \in program.faulty
        /\ lost' = lost \cup {m}
        /\ UNCHANGED toServer

Request(m, params) ==
  /\ Send("request", m, params)
  /\ pending' = pending \cup {m}
  /\ UNCHANGED <<program, stopped>>

Notify(m, params) ==
  /\ Send("notification", m, params)
  /\ UNCHANGED <<program, pending, stopped>>

-----------------------------------------------------------------------------
(* Requests.                                                                *)

call_hierarchy_incoming_calls == Request("callHierarchy/incomingCalls", <<>>)
call_hierarchy_outgoing_calls == Request("callHierarchy/outgoingCalls", <<>>)
code_action_resolve == Request("codeAction/resolve", <<>>)
code_lens_resolve == Request("codeLens/resolve", <<>>)
completion_item_resolve == Request("completionItem/resolve", <<>>)
document_link_resolve == Request("documentLink/resolve", <<>>)
initialize == \E root \in program.roots : Request("initialize", <<root>>)
inlay_hint_resolve == Request("inlayHint/resolve", <<>>)
shutdown == Request("shutdown", <<>>)
text_document_code_action == Request("textDocument/codeAction", <<>>)
text_document_code_lens == Request("textDocument/codeLens", <<>>)
text_document_color_presentation == Request("textDocument/colorPresentation", <<>>)
text_document_completion == Request("textDocument/completion", <<>>)
text_document_declaration == Request("textDocument/declaration", <<>>)
text_document_definition == Request("textDocument/definition", <<>>)
text_document_diagnostic == Request("textDocument/diagnostic", <<>>)
text_document_document_color == Request("textDocument/documentColor", <<>>)
text_document_document_highlight == Request("textDocument/documentHighlight", <<>>)
text_document_document_link == Request("textDocument/documentLink", <<>>)
text_document_document_symbol == Request("textDocument/documentSymbol", <<>>)
text_document_folding_range == Request("textDocument/foldingRange", <<>>)
text_document_formatting == Request("textDocument/formatting", <<>>)
text_document_hover == Request("textDocument/hover", <<>>)
text_document_implementation == Request("textDocument/implementation", <<>>)
text_document_inlay_hint == Request("textDocument/inlayHint", <<>>)
text_document_inline_completion == Request("textDocument/inlineCompletion", <<>>)
text_document_inline_value == Request("textDocument/inlineValue", <<>>)
text_document_linked_editing_range == Request("textDocument/linkedEditingRange", <<>>)
text_document_moniker == Request("textDocument/moniker", <<>>)
text_document_on_type_formatting == Request("textDocument/onTypeFormatting", <<>>)
text_document_prepare_call_hierarchy ==
  Request("textDocument/prepareCallHierarchy", <<>>)
text_document_prepare_rename == Request("textDocument/prepareRename", <<>>)
text_document_prepare_type_hierarchy ==
  Request("textDocument/prepareTypeHierarchy", <<>>)
text_document_ranges_formatting == Request("textDocument/rangesFormatting", <<>>)
text_document_range_formatting == Request("textDocument/rangeFormatting", <<>>)
text_document_references == Request("textDocument/references", <<>>)
text_document_rename == Request("textDocument/rename", <<>>)
text_document_selection_range == Request("textDocument/selectionRange", <<>>)
text_document_semantic_tokens_full == Request("textDocument/semanticTokens/full", <<>>)
text_document_semantic_tokens_full_delta ==
  Request("textDocument/semanticTokens/full/delta", <<>>)
text_document_semantic_tokens_range ==
  Request("textDocument/semanticTokens/range", <<>>)
text_document_signature_help == Request("textDocument/signatureHelp", <<>>)
text_document_type_definition == Request("textDocument/typeDefinition", <<>>)
text_document_will_save_wait_until == Request("textDocument/willSaveWaitUntil", <<>>)
type_hierarchy_subtypes == Request("typeHierarchy/subtypes", <<>>)
type_hierarchy_supertypes == Request("typeHierarchy/supertypes", <<>>)
workspace_diagnostic == Request("workspace/diagnostic", <<>>)
workspace_execute_command ==
  \E call \in program.commandCalls : Request("workspace/executeCommand", call)
workspace_symbol == Request("workspace/symbol", <<>>)
workspace_symbol_resolve == Request("workspaceSymbol/resolve", <<>>)
workspace_text_document_content == Request("workspace/textDocumentContent", <<>>)
workspace_will_create_files == Request("workspace/willCreateFiles", <<>>)
workspace_will_delete_files == Request("workspace/willDeleteFiles", <<>>)
workspace_will_rename_files == Request("workspace/willRenameFiles", <<>>)

-----------------------------------------------------------------------------
(* Notifications.                                                           *)

cancel_request == \E m \in Cancellable : Notify("$/cancelRequest", <<m>>)
exit == Notify("exit", <<>>)
initialized == Notify("initialized", <<>>)
notebook_document_did_change == Notify("notebookDocument/didChange", <<>>)
notebook_document_did_close == Notify("notebookDocument/didClose", <<>>)
notebook_document_did_open == Notify("notebookDocument/didOpen", <<>>)
notebook_document_did_save == Notify("notebookDocument/didSave", <<>>)
progress == Notify("$/progress", <<>>)
set_trace == Notify("$/setTrace", <<>>)
text_document_did_change == Notify("textDocument/didChange", <<>>)
text_document_did_close == Notify("textDocument/didClose", <<>>)
text_document_did_open == Notify("textDocument/didOpen", <<>>)
text_document_did_save == Notify("textDocument/didSave", <<>>)
text_document_will_save == Notify("textDocument/willSave", <<>>)
window_work_done_progress_cancel == Notify("window/workDoneProgress/cancel", <<>>)
workspace_did_change_configuration == Notify("workspace/didChangeConfiguration", <<>>)
workspace_did_change_watched_files == Notify("workspace/didChangeWatchedFiles", <<>>)
workspace_did_change_workspace_folders ==
  Notify("workspace/didChangeWorkspaceFolders", <<>>)
workspace_did_create_files == Notify("workspace/didCreateFiles", <<>>)
workspace_did_delete_files == Notify("workspace/didDeleteFiles", <<>>)
workspace_did_rename_files == Notify("workspace/didRenameFiles", <<>>)

-----------------------------------------------------------------------------

Calls ==
  \/ call_hierarchy_incoming_calls \/ call_hierarchy_outgoing_calls
  \/ code_action_resolve \/ code_lens_resolve \/ completion_item_resolve
  \/ document_link_resolve \/ initialize \/ inlay_hint_resolve \/ shutdown
  \/ text_document_code_action \/ text_document_code_lens
  \/ text_document_color_presentation \/ text_document_completion
  \/ text_document_declaration \/ text_document_definition \/ text_document_diagnostic
  \/ text_document_document_color \/ text_document_document_highlight
  \/ text_document_document_link \/ text_document_document_symbol
  \/ text_document_folding_range \/ text_document_formatting \/ text_document_hover
  \/ text_document_implementation \/ text_document_inlay_hint
  \/ text_document_inline_completion \/ text_document_inline_value
  \/ text_document_linked_editing_range \/ text_document_moniker
  \/ text_document_on_type_formatting \/ text_document_prepare_call_hierarchy
  \/ text_document_prepare_rename \/ text_document_prepare_type_hierarchy
  \/ text_document_ranges_formatting \/ text_document_range_formatting
  \/ text_document_references \/ text_document_rename \/ text_document_selection_range
  \/ text_document_semantic_tokens_full \/ text_document_semantic_tokens_full_delta
  \/ text_document_semantic_tokens_range \/ text_document_signature_help
  \/ text_document_type_definition \/ text_document_will_save_wait_until
  \/ type_hierarchy_subtypes \/ type_hierarchy_supertypes \/ workspace_diagnostic
  \/ workspace_execute_command \/ workspace_symbol \/ workspace_symbol_resolve
  \/ workspace_text_document_content \/ workspace_will_create_files
  \/ workspace_will_delete_files \/ workspace_will_rename_files \/ cancel_request
  \/ exit \/ initialized \/ notebook_document_did_change \/ notebook_document_did_close
  \/ notebook_document_did_open \/ notebook_document_did_save \/ progress \/ set_trace
  \/ text_document_did_change \/ text_document_did_close \/ text_document_did_open
  \/ text_document_did_save \/ text_document_will_save
  \/ window_work_done_progress_cancel \/ workspace_did_change_configuration
  \/ workspace_did_change_watched_files \/ workspace_did_change_workspace_folders
  \/ workspace_did_create_files \/ workspace_did_delete_files
  \/ workspace_did_rename_files

=============================================================================
