------------------------------ MODULE Session -------------------------------
(***************************************************************************)
(* A session of a language client with a language server: both directions  *)
(* of the wire, the built-in features of LanguageServerProtocol, the       *)
(* user's features and commands, and what initialize tells the client.     *)
(*                                                                         *)
(* A behaviour chooses one program: the functions and registrations of the *)
(* user on the server's side, the calls, the capabilities and the root the *)
(* client comes with.  User code may register at any time.  A handler runs *)
(* inline (nothing else is read meanwhile), as a task or in a thread.      *)
(*                                                                         *)
(* The futures behind a request are JsonRpc's matter and the documents'    *)
(* contents Workspace's; here a request is answered by what its handler    *)
(* does in the end.                                                        *)
(***************************************************************************)
EXTENDS FeatureManager, Capabilities, Errors, Uris

CONSTANT Programs   \* the programs to choose from

\* Functions have as many parameters as they have, handlers raise what the
\* exception classes let them construct, the result of shutdown is None, and the
\* root is an absolute path, if there is one.
ASSUME SessionAssumption ==
  /\ \A f \in DOMAIN Signature :
       /\ {Signature[f].others, Signature[f].defaults, Signature[f].keywords} \subseteq Nat
       /\ {Signature[f].var, Signature[f].needed, Signature[f].varkw} \subseteq BOOLEAN
       /\ Signature[f].needed => Signature[f].keywords > 0
  /\ \A p \in Programs :
       /\ p.funs \subseteq DOMAIN Signature
       /\ p.raises \subseteq Exceptions
       /\ "shutdown" \notin p.faulty
       /\ \A call \in p.commandCalls :
            call = <<call[1], call[2], call[3]>> /\ call[2] \in Nat \cup {-1}
       /\ \A root \in p.roots :
            root.win \in BOOLEAN /\ (root.path # <<>> => IsAbsolute(root.win, root.path))

VARIABLES
  toServer, pending, called, lost, stopped,   \* the client, see LanguageClient
  toClient, outstanding, made, mislaid,  \* the server's calls, see LanguageServerCalls
  phase,       \* of initialize: "created", "initializing", "ready" or "failed"
  caps,        \* the capabilities the server has announced
  workspace,   \* whether it exists, its root (as given, and the uri), its encoding
               \* and the open documents
  running,     \* user handlers that have started
  stopping,    \* `_shutdown`
  exited,      \* the server's process has ended
  failures,    \* methods whose handler has failed
  noticed,     \* methods of which the client was told that they failed
  answer       \* the last answer the client got

clientVars == <<toServer, pending, called, stopped>>
callVars == <<toClient, outstanding, made, mislaid>>
lifeVars == <<phase, caps, workspace, stopping, exited>>
vars == <<program, fm, clientVars, callVars, lifeVars, running, failures, lost, noticed,
          answer>>

Client == INSTANCE LanguageClient
Server == INSTANCE LanguageServerCalls

TypeOK ==
  /\ program \in Programs
  /\ features \in [DOMAIN features -> [fun : program.funs, thread : BOOLEAN]]
  /\ DOMAIN features \subseteq {o[1] : o \in program.offers}
  /\ DOMAIN options \subseteq DOMAIN features
  /\ DOMAIN commands \subseteq program.commands
  /\ marked \cup decorated \subseteq program.funs \ AsyncFuns
  /\ pending \subseteq called
  /\ outstanding \subseteq made
  /\ mislaid \subseteq made
  /\ made \subseteq program.makes
  /\ lost \subseteq called
  /\ phase \in {"created", "initializing", "ready", "failed"}
  /\ workspace.documents \subseteq {"textDocument", "notebookDocument"}
  /\ \A r \in running : /\ r.mode \in {"inline", "task", "thread"}
                        /\ r.kind \in {"request", "notification"}
                        /\ r.cancelled \in BOOLEAN
  /\ {stopping, exited, stopped} \subseteq BOOLEAN
  /\ failures \subseteq called
  /\ noticed \subseteq called \cup made
  /\ answer.seen.class \in Classes \cup {"none"}

NoError == [class |-> "none", code |-> 0]

NoWorkspace == [exists |-> FALSE, uri |-> [netloc |-> <<>>, path |-> <<>>],
                root |-> [win |-> FALSE, path |-> <<>>, encodings |-> <<>>],
                encoding |-> "utf-16", documents |-> {}]

Init ==
  /\ program \in Programs
  /\ FMInit
  /\ toServer = <<>> /\ pending = {} /\ called = {} /\ lost = {} /\ stopped = FALSE
  /\ toClient = <<>> /\ outstanding = {} /\ made = {} /\ mislaid = {}
  /\ phase = "created" /\ caps = {} /\ workspace = NoWorkspace
  /\ stopping = FALSE /\ exited = FALSE
  /\ running = {} /\ failures = {} /\ noticed = {}
  /\ answer = [method |-> "none", raised |-> NoError, seen |-> NoError]

-----------------------------------------------------------------------------
(* Both sides make calls; the user's program registers what it serves.      *)

ClientCalls ==
  /\ Client!Calls
  /\ UNCHANGED <<fm, callVars, lifeVars, running, failures, noticed, answer>>

ServerCalls ==
  /\ ~exited
  /\ Server!Calls
  /\ UNCHANGED <<fm, clientVars, lifeVars, running, failures, lost, noticed, answer>>

Registers ==
  /\ ~exited
  /\ \/ \E f \in program.funs, o \in program.offers : feature(f, o[1], o[2])
     \/ \E f \in program.funs, c \in program.commands : command(f, c)
     \/ \E f \in program.funs : program.threads /\ thread(f)
  /\ UNCHANGED <<program, clientVars, callVars, lifeVars, running, failures, lost, noticed,
                 answer>>

-----------------------------------------------------------------------------
(* The built-in features.                                                   *)

NotebookSync == {"notebookDocument/didOpen", "notebookDocument/didChange",
                 "notebookDocument/didClose"}

\* Those that need the workspace.
Synchronising == NotebookSync \cup {
  "textDocument/didOpen", "textDocument/didChange", "textDocument/didClose",
  "workspace/didChangeWorkspaceFolders"}

Builtin == Synchronising \cup {
  "initialize", "initialized", "shutdown", "exit", "$/setTrace",
  "workspace/executeCommand", "window/workDoneProgress/cancel"}

\* _execute_handler
Mode(h) == IF h.fun \in AsyncFuns THEN "task"
           ELSE IF IsThreadFunction(h) THEN "thread" ELSE "inline"

Start(msg, h) ==
  running' = running \cup {[method |-> msg.method, kind |-> msg.kind, mode |-> Mode(h),
                            cancelled |-> FALSE]}

\* _send_response
Result(m) == [kind |-> "result", method |-> m]
Error(m, exc) == [kind |-> "error", method |-> m, exc |-> exc]

Default(class) == Raise(class, 0)

\* Mutant: nothing is shown of a notification that fails.
ReportNothing(m, kind) == <<>>

\* LanguageServer.report_server_error: a request has its answer, anything else
\* is shown to the user.
report_server_error(m, kind) ==
  IF kind = "request" THEN <<>>
  ELSE <<Server!Shown(m)>>

\* What is sent when the handler of a message has failed
\* (_send_handler_result, _check_handler_result).
FailureReply(m, kind, exc) ==
  (IF kind = "request" THEN <<Error(m, exc)>> ELSE <<>>) \o report_server_error(m, kind)

Fail(m, kind, exc) ==
  /\ toClient' = toClient \o FailureReply(m, kind, exc)
  /\ failures' = failures \cup {m}
  /\ UNCHANGED lost

\* _send_data cannot encode what a handler has returned, or the data of the
\* exception it has raised: the error is reported, no response is sent, and the
\* client waits on.
Unsent(m, kind) ==
  /\ kind = "request" /\ m \in program.faulty
  /\ toClient' = Append(toClient, Server!Shown(m))
  /\ lost' = lost \cup {m}

-----------------------------------------------------------------------------
(* The rest of a built-in feature, when its user handler is done or when    *)
(* there is none.  `rest` are the handlers that still run, `ws` is the       *)
(* workspace the message leaves behind.                                     *)

\* Mutant: the workspace is made when the user's handler is done.
FinishInitializeLate(ws) ==
  /\ phase' = "ready"
  /\ caps' = Build([features |-> DOMAIN features \cup Builtin, options |-> options,
                    client |-> program.client, commands |-> DOMAIN commands,
                    notebook |-> program.notebook])
  /\ workspace' = [ws EXCEPT !.documents = {}]

\* Mutant: the user's features are left out of the union.
FinishInitializeBuiltin(ws) ==
  /\ phase' = "ready"
  /\ caps' = Build([features |-> Builtin, options |-> options,
                    client |-> program.client, commands |-> DOMAIN commands,
                    notebook |-> program.notebook])
  /\ workspace' = ws

\* lsp_initialize, from the user's handler on.
FinishInitialize(ws) ==
  /\ phase' = "ready"
  /\ caps' = Build([features |-> DOMAIN features \cup Builtin, options |-> options,
                    client |-> program.client, commands |-> DOMAIN commands,
                    notebook |-> program.notebook])
  /\ workspace' = ws

\* The futures lsp_shutdown can cancel: of tasks and of built-in features.
Cancel(rs) ==
  {[r EXCEPT !.cancelled = @ \/ r.mode = "task" \/ r.method \in Builtin] : r \in rs}

\* lsp_shutdown, from the user's handler on.  Cancelling a request for a
\* built-in feature (a command, or initialize) removes its future from the
\* dictionary the loop goes through: the loop raises there, the shutdown fails,
\* and which of the others were cancelled depends on their place.
FinishShutdown(rest) ==
  LET waiting == {r \in rest : r.kind = "request" /\ r.method \in Builtin /\ ~r.cancelled} IN
  \/ /\ waiting = {}
     /\ stopping' = TRUE
     /\ running' = Cancel(rest)
     /\ outstanding' = {}
     /\ toClient' = Append(toClient, Result("shutdown"))
     /\ UNCHANGED <<failures, lost>>
  \/ \E first \in waiting, others \in SUBSET (rest \ waiting) :
     /\ running' = Cancel({first} \cup others) \cup (rest \ ({first} \cup others))
     /\ outstanding' \in SUBSET outstanding
     /\ toClient' = toClient \o
          <<Error(first.method, Default("JsonRpcRequestCancelled")),
            Error("shutdown", Default("JsonRpcInternalError"))>>
     /\ failures' = failures \cup {"shutdown"}
     /\ UNCHANGED <<stopping, lost>>

\* The handlers of messages that leave nothing to do but to answer.
FinishOther(m, kind, rest) ==
  /\ running' = rest
  /\ \/ /\ toClient' = IF kind = "request" THEN Append(toClient, Result(m)) ELSE toClient
        /\ UNCHANGED lost
     \/ Unsent(m, kind)
  /\ UNCHANGED <<outstanding, stopping, failures>>

Finish(m, kind, rest, ws) ==
  /\ IF m = "shutdown" THEN FinishShutdown(rest) ELSE FinishOther(m, kind, rest)
  /\ IF m = "initialize" THEN FinishInitialize(ws)
                         ELSE workspace' = ws /\ UNCHANGED <<phase, caps>>
  /\ exited' = (m = "exit")
  /\ UNCHANGED <<made, mislaid>>

-----------------------------------------------------------------------------
(* handle_message.  Nothing is read while a handler runs inline.            *)

Read ==
  /\ ~exited
  /\ toServer # <<>>
  /\ \A r \in running : r.mode # "inline"
  /\ toServer' = Tail(toServer)
  /\ UNCHANGED <<program, fm, pending, called, stopped, noticed, answer>>

Message == Head(toServer)

Dropped == stopping /\ Message.method # "exit"

DropMessage ==
  /\ Read
  /\ Dropped
  /\ UNCHANGED <<callVars, lifeVars, running, failures, lost>>

\* structure_message raises before the message gets to handle_message: the main
\* loop reports it, a request is not answered and a response not matched.
ReadFails ==
  LET m == Message.method IN
  /\ Read
  /\ m \in program.faulty
  /\ toClient' = Append(toClient, Server!Shown(m))
  /\ lost' = IF Message.kind = "request" THEN lost \cup {m} ELSE lost
  /\ mislaid' = IF Message.kind = "response" THEN mislaid \cup {m} ELSE mislaid
  /\ UNCHANGED <<outstanding, made, lifeVars, running, failures>>

\* _handle_response, of a call of the server.
HandleResponse ==
  /\ Read
  /\ ~Dropped
  /\ Message.kind = "response"
  /\ outstanding' = outstanding \ {Message.method}
  /\ UNCHANGED <<toClient, made, mislaid, lifeVars, running, failures, lost>>

\* Mutant: the future of a command is cancelled and nobody is told.
HandleCancelSilently ==
  LET target == {r \in running : r.kind = "request" /\ r.method = Message.params[1]
                                   /\ ~r.cancelled}
  IN
  /\ Read
  /\ ~Dropped
  /\ Message.kind = "notification" /\ Message.method = "$/cancelRequest"
  /\ running' = (running \ target) \cup Cancel(target)
  /\ UNCHANGED <<callVars, lifeVars, failures, lost>>

\* _handle_cancel_notification.  The future of a command is done at once, and
\* so answered; its handler runs on for nobody.
HandleCancel ==
  LET target == {r \in running : r.kind = "request" /\ r.method = Message.params[1]
                                   /\ ~r.cancelled}
      done   == {r \in target : r.method \in Builtin}
  IN
  /\ Read
  /\ ~Dropped
  /\ Message.kind = "notification" /\ Message.method = "$/cancelRequest"
  /\ running' = (running \ target) \cup Cancel(target)
  /\ toClient' = IF done = {} THEN toClient
                 ELSE Append(toClient, Error(Message.params[1], Default("JsonRpcRequestCancelled")))
  /\ UNCHANGED <<outstanding, made, mislaid, lifeVars, failures, lost>>

Calling ==
  /\ Read
  /\ ~Dropped
  /\ Message.kind \in {"request", "notification"}
  /\ Message.method # "$/cancelRequest"

\* A feature of the user, which cannot replace a built-in one (_get_handler).
HandleFeature ==
  /\ Calling
  /\ Message.method \notin Builtin
  /\ Message.method \in DOMAIN features
  /\ Start(Message, features[Message.method])
  /\ UNCHANGED <<callVars, lifeVars, failures, lost>>

\* Mutant: an unknown request is ignored like a notification.
HandleUnknownSilently ==
  /\ Calling
  /\ Message.method \notin Builtin \cup DOMAIN features
  /\ UNCHANGED <<callVars, lifeVars, running, failures, lost>>

\* JsonRpcMethodNotFound; a notification is ignored.
HandleUnknown ==
  LET m == Message.method IN
  /\ Calling
  /\ m \notin Builtin \cup DOMAIN features
  /\ IF Message.kind = "request" THEN Fail(m, "request", Default("JsonRpcMethodNotFound"))
                                 ELSE UNCHANGED <<toClient, failures, lost>>
  /\ UNCHANGED <<outstanding, made, mislaid, lifeVars, running>>

\* Workspace(root_uri, ...): the root is given as a path, or not at all.
NewWorkspace(root) ==
  [exists    |-> TRUE,
   root      |-> root,
   uri       |-> IF root.path = <<>> THEN NoWorkspace.uri ELSE FromFsPath(root.win, root.path),
   encoding  |-> ChoosePositionEncoding(root.encodings),
   documents |-> {}]

Opens == {<<"textDocument/didOpen", "textDocument">>,
          <<"notebookDocument/didOpen", "notebookDocument">>}
Closes == {<<"textDocument/didClose", "textDocument">>,
           <<"notebookDocument/didClose", "notebookDocument">>}
Changes == {<<"textDocument/didChange", "textDocument">>,
            <<"notebookDocument/didChange", "notebookDocument">>}

\* What the message does to the workspace.
Effect(m, params) ==
  IF m = "initialize" THEN NewWorkspace(params[1])
  ELSE [workspace EXCEPT
          !.documents = (@ \cup {d \in {"textDocument", "notebookDocument"} : <<m, d>> \in Opens})
                          \ {d \in @ : <<m, d>> \in Closes}]

\* The built-in part raises: the workspace is not there, the document is not
\* open, or the root is a host without a path.
BuiltinRaises(m, params) ==
  \/ m \in Synchronising /\ ~workspace.exists
  \/ \E d \in {"textDocument", "notebookDocument"} :
       <<m, d>> \in Changes /\ d \notin workspace.documents
  \/ m = "initialize" /\ Raises(params[1].win, params[1].path)

BuiltinFails ==
  LET m == Message.method IN
  /\ Calling
  /\ m \in Builtin
  /\ BuiltinRaises(m, Message.params)
  /\ Fail(m, Message.kind, Default("JsonRpcInternalError"))
  /\ phase' = IF m = "initialize" THEN "failed" ELSE phase
  /\ UNCHANGED <<outstanding, made, mislaid, caps, workspace, stopping, exited, running>>

\* A built-in feature other than a command: its own part, then the handler of
\* the user, if there is one.
HandleBuiltin ==
  LET m  == Message.method
      ws == Effect(m, Message.params)
  IN
  /\ Calling
  /\ m \in Builtin \ {"workspace/executeCommand"}
  /\ ~BuiltinRaises(m, Message.params)
  /\ IF m \in DOMAIN features
       THEN /\ Start(Message, features[m])
            /\ workspace' = ws
            /\ phase' = IF m = "initialize" THEN "initializing" ELSE phase
            /\ UNCHANGED <<callVars, caps, stopping, exited, failures, lost>>
       ELSE Finish(m, Message.kind, running, ws)

-----------------------------------------------------------------------------
(* Commands.                                                                *)

NoArguments == -1   \* params.arguments is None

Parameters(f) == Signature[f].others + (IF Signature[f].first = "absent" THEN 0 ELSE 1)

\* Keyword-only parameters and a **kwargs.
Keywords(f) == Signature[f].keywords + (IF Signature[f].varkw THEN 1 ELSE 0)

Takes(f, n, least, most) == least <= n /\ (n <= most \/ Signature[f].var)

\* Mutant: arguments that are left over are not noticed.
PreparedLeftOver(f, n, fit) ==
  n = NoArguments \/ (Signature[f].first # "generic" /\ fit /\ n >= Parameters(f) - 1)

\* _prepare_command_arguments: every parameter but the server takes one
\* argument, the ones with defaults and the keyword-only ones too, **kwargs one
\* as well, while *args leave nothing for those that follow.  issubclass raises
\* for a first parameter whose annotation is no class, and structuring raises
\* for arguments that do not fit their parameters.  What stands for the server is
\* told by another rule than in has_ls_param_or_annotation.
Prepared(f, n, fit) ==
  LET positional == Parameters(f)
                      - (IF Signature[f].first \in {"ls", "exact", "derived"} THEN 1 ELSE 0)
      expected   == positional + Keywords(f)
  IN  \/ n = NoArguments
      \/ /\ Signature[f].first # "generic"
         /\ fit
         /\ Takes(f, n, expected, expected)
         /\ Signature[f].var => Keywords(f) = 0

\* Python's own check of a call, with the server in front where it is passed and
\* nothing by keyword.
Callable(f, n) ==
  LET given == (IF n = NoArguments THEN 0 ELSE n) + (IF f \in ServerFuns THEN 1 ELSE 0)
  IN  /\ Takes(f, given, Parameters(f) - Signature[f].defaults, Parameters(f))
      /\ ~Signature[f].needed

ExecuteCommand ==
  LET m   == "workspace/executeCommand"
      c   == Message.params[1]
      n   == Message.params[2]
      fit == Message.params[3]
  IN
  /\ Calling
  /\ Message.method = m
  /\ IF c \notin DOMAIN commands \/ ~Prepared(commands[c].fun, n, fit)
       THEN Fail(m, "request", Default("JsonRpcInvalidParams")) /\ UNCHANGED running
     ELSE IF ~Callable(commands[c].fun, n)
       THEN Fail(m, "request", Default("JsonRpcInternalError")) /\ UNCHANGED running
     ELSE Start(Message, commands[c]) /\ UNCHANGED <<toClient, failures, lost>>
  /\ UNCHANGED <<outstanding, made, mislaid, lifeVars>>

-----------------------------------------------------------------------------
(* A user handler ends.  A task that was cancelled may still return.        *)

\* Nobody waits for the handler of a built-in feature that was cancelled: what
\* it returns or raises is dropped (_run_generator).
ForNobody(r) ==
  /\ r.cancelled /\ r.method \in Builtin
  /\ running' = running \ {r}
  /\ UNCHANGED <<callVars, lifeVars, failures, lost>>

HandlerReturns(r) ==
  /\ r \in running
  /\ ~exited
  /\ \/ ForNobody(r)
     \/ /\ ~(r.cancelled /\ r.method \in Builtin)
        /\ Finish(r.method, r.kind, running \ {r}, workspace)
  /\ UNCHANGED <<program, fm, clientVars, noticed, answer>>

HandlerRaises(r) ==
  /\ r \in running
  /\ ~exited
  /\ program.raises # {}
  /\ \/ ForNobody(r)
     \/ /\ ~(r.cancelled /\ r.method \in Builtin)
        /\ \/ \E exc \in program.raises : Fail(r.method, r.kind, exc)
           \/ Unsent(r.method, r.kind) /\ failures' = failures \cup {r.method}
        /\ running' = running \ {r}
        /\ phase' = IF r.method = "initialize" THEN "failed" ELSE phase
        /\ UNCHANGED <<outstanding, made, mislaid, caps, workspace, stopping, exited>>
  /\ UNCHANGED <<program, fm, clientVars, noticed, answer>>

\* Only of a feature of the user: what waits for a built-in one was told before.
HandlerCancelled(r) ==
  /\ r \in running
  /\ ~exited
  /\ r.cancelled /\ r.mode = "task" /\ r.method \notin Builtin
  /\ running' = running \ {r}
  /\ toClient' = IF r.kind = "request"
                   THEN Append(toClient, Error(r.method, Default("JsonRpcRequestCancelled")))
                   ELSE toClient
  /\ UNCHANGED <<program, fm, clientVars, outstanding, made, mislaid, lifeVars, failures, lost,
                 noticed, answer>>

-----------------------------------------------------------------------------
(* The client reads.  Its own handlers of the server's requests are run     *)
(* inline; a method it does not know is answered with an error.             *)

Receive ==
  LET msg == Head(toClient) IN
  /\ ~stopped
  /\ toClient # <<>>
  /\ toClient' = Tail(toClient)
  /\ pending' = IF msg.kind \in {"result", "error"} THEN pending \ {msg.method} ELSE pending
  /\ noticed' = noticed \cup (IF msg.kind = "error" THEN {msg.method}
                              ELSE IF "about" \in DOMAIN msg THEN {msg.about} ELSE {})
  /\ toServer' = IF msg.kind = "request"
                   THEN Append(toServer, [kind |-> "response", method |-> msg.method])
                   ELSE toServer
  /\ IF msg.kind = "error"
       THEN \E seen \in FromError(msg.exc.code) :
              answer' = [method |-> msg.method, raised |-> msg.exc, seen |-> seen]
       ELSE UNCHANGED answer
  /\ UNCHANGED <<program, fm, called, stopped, outstanding, made, mislaid, lifeVars, running,
                 failures, lost>>

\* The client's own structure_message raises, and its hook for errors does
\* nothing.  Error responses, and what report_server_error shows, have types
\* that always fit.
ReceiveFails ==
  LET msg == Head(toClient) IN
  /\ ~stopped
  /\ toClient # <<>>
  /\ msg.kind # "error" /\ "about" \notin DOMAIN msg
  /\ msg.method \in program.faulty
  /\ toClient' = Tail(toClient)
  /\ lost' = IF msg.kind = "result" THEN lost \cup {msg.method} ELSE lost
  /\ mislaid' = IF msg.kind = "request" THEN mislaid \cup {msg.method} ELSE mislaid
  /\ UNCHANGED <<program, fm, clientVars, outstanding, made, lifeVars, running, failures,
                 noticed, answer>>

\* JsonRPCClient._server_exit, see RpcClient.
ServerGone ==
  /\ exited
  /\ ~stopped
  /\ stopped' = TRUE
  /\ pending' = {}
  /\ UNCHANGED <<program, fm, toServer, called, callVars, lifeVars, running, failures, lost,
                 noticed, answer>>

Ends == \E r \in running : HandlerReturns(r) \/ HandlerRaises(r) \/ HandlerCancelled(r)

Reads == DropMessage \/ ReadFails \/ HandleResponse \/ HandleCancel \/ HandleFeature
           \/ HandleUnknown \/ BuiltinFails \/ HandleBuiltin \/ ExecuteCommand

Receives == Receive \/ ReceiveFails

Next == ClientCalls \/ ServerCalls \/ Registers \/ Reads \/ Ends \/ Receives \/ ServerGone

\* Messages are read, handlers end and the client notices the end of the
\* process; nobody has to call.
Fairness == WF_vars(Reads) /\ WF_vars(Ends) /\ WF_vars(Receives) /\ WF_vars(ServerGone)

Spec == Init /\ [][Next]_vars /\ Fairness

-----------------------------------------------------------------------------
(* What the LSP invites a client to send, given the announced capabilities  *)
(* (external: the protocol's text).  What the user promises in options is   *)
(* the user's to serve and left out.                                        *)

Primary ==
  [open_close |-> {"textDocument/didOpen", "textDocument/didClose"},
   change |-> {"textDocument/didChange"},
   will_save |-> {"textDocument/willSave"},
   will_save_wait_until |-> {"textDocument/willSaveWaitUntil"},
   save |-> {"textDocument/didSave"},
   notebook_document_sync |-> NotebookSync,
   completion |-> {"textDocument/completion"},
   hover |-> {"textDocument/hover"},
   signature_help |-> {"textDocument/signatureHelp"},
   declaration |-> {"textDocument/declaration"},
   definition |-> {"textDocument/definition"},
   type_definition |-> {"textDocument/typeDefinition"},
   inlay_hint |-> {"textDocument/inlayHint"},
   implementation |-> {"textDocument/implementation"},
   references |-> {"textDocument/references"},
   document_highlight |-> {"textDocument/documentHighlight"},
   document_symbol |-> {"textDocument/documentSymbol"},
   code_action |-> {"textDocument/codeAction"},
   code_lens |-> {"textDocument/codeLens"},
   document_link |-> {"textDocument/documentLink"},
   color |-> {"textDocument/documentColor"},
   formatting |-> {"textDocument/formatting"},
   range_formatting |-> {"textDocument/rangeFormatting"},
   on_type_formatting |-> {"textDocument/onTypeFormatting"},
   rename |-> {"textDocument/rename"},
   folding_range |-> {"textDocument/foldingRange"},
   execute_command |-> {"workspace/executeCommand"},
   selection_range |-> {"textDocument/selectionRange"},
   call_hierarchy |-> {"textDocument/prepareCallHierarchy"},
   type_hierarchy |-> {"textDocument/prepareTypeHierarchy"},
   semantic_tokens |-> {},
   linked_editing_range |-> {"textDocument/linkedEditingRange"},
   moniker |-> {"textDocument/moniker"},
   workspace_symbol |-> {"workspace/symbol"},
   workspace_folders |-> {"workspace/didChangeWorkspaceFolders"},
   diagnostic |-> {"textDocument/diagnostic"},
   inline_value |-> {"textDocument/inlineValue"},
   inline_completion |-> {"textDocument/inlineCompletion"},
   will_create |-> {"workspace/willCreateFiles"},
   did_create |-> {"workspace/didCreateFiles"},
   will_delete |-> {"workspace/willDeleteFiles"},
   did_delete |-> {"workspace/didDeleteFiles"},
   will_rename |-> {"workspace/willRenameFiles"},
   did_rename |-> {"workspace/didRenameFiles"}]

\* <<field, part, the method it invites, the feature it goes with>>
Companions == {
  <<"inlay_hint", "resolve", "inlayHint/resolve", "textDocument/inlayHint">>,
  <<"code_lens", "resolve", "codeLens/resolve", "textDocument/codeLens">>,
  <<"document_link", "resolve", "documentLink/resolve", "textDocument/documentLink">>,
  <<"rename", "prepare", "textDocument/prepareRename", "textDocument/rename">>,
  <<"workspace_symbol", "resolve", "workspaceSymbol/resolve", "workspace/symbol">>,
  <<"diagnostic", "workspace", "workspace/diagnostic", "textDocument/diagnostic">>,
  <<"semantic_tokens", "full", TokensFull, TokensFull>>,
  <<"semantic_tokens", "delta", TokensDelta, TokensDelta>>,
  <<"semantic_tokens", "range", TokensRange, TokensRange>>}

\* <<field, a request on what the first one returned, the feature of the first>>
Follows == {
  <<"color", "textDocument/colorPresentation", "textDocument/documentColor">>,
  <<"call_hierarchy", "callHierarchy/incomingCalls", "textDocument/prepareCallHierarchy">>,
  <<"call_hierarchy", "callHierarchy/outgoingCalls", "textDocument/prepareCallHierarchy">>,
  <<"type_hierarchy", "typeHierarchy/supertypes", "textDocument/prepareTypeHierarchy">>,
  <<"type_hierarchy", "typeHierarchy/subtypes", "textDocument/prepareTypeHierarchy">>}

Asked(capabilities) ==
  (UNION {Primary[c[1]] : c \in capabilities})
    \cup {k[3] : k \in {j \in Companions : <<j[1], j[2]>> \in capabilities}}

\* The full tokens come before a delta.
FollowUps(capabilities) ==
  {k[2] : k \in {j \in Follows : \E c \in capabilities : c[1] = j[1]}}
    \cup {m \in {TokensFull} : <<"semantic_tokens", "delta">> \in capabilities}

Invited(capabilities) == Asked(capabilities) \cup FollowUps(capabilities)

AllTokens == {TokensFull, TokensDelta, TokensRange}

\* Features that are announced only with options, and those that are announced
\* only to a client that supports them.
WithOptions == {"textDocument/onTypeFormatting", "textDocument/inlineCompletion",
                TokensFull, TokensDelta, TokensRange}
                 \cup {op[1] : op \in FileOperations}

Supported == FileOperations \cup {
  <<"textDocument/willSave", "will_save">>,
  <<"textDocument/willSaveWaitUntil", "will_save_wait_until">>,
  <<"textDocument/prepareRename", "prepare_support">>}

\* Resolving and the like is announced with the feature it goes with, a follow-up
\* with the first request, commands by their names, and registration options
\* stand for themselves.
Announceable(m) ==
  /\ \/ \E field \in DOMAIN Primary : m \in Primary[field]
     \/ \E k \in Companions : m = k[3] /\ k[4] \in DOMAIN features
     \/ \E k \in Follows : m = k[2] /\ k[3] \in DOMAIN features
  /\ m \in WithOptions => m \in DOMAIN options
  /\ m \in AllTokens => \A k \in AllTokens \cap DOMAIN options : options[k] # "registration"
  /\ \A s \in Supported : m = s[1] => s[2] \in program.client
  /\ m \in NotebookSync => "notebook_document" \in program.client /\ program.notebook
  /\ m = "workspace/executeCommand" => DOMAIN commands # {}

-----------------------------------------------------------------------------
(* Properties.                                                              *)

\* Whatever the announced capabilities invite the client to send has a handler,
\* however the registrations fell before, during and after initialize
\* (lsp_initialize, ServerCapabilitiesBuilder.build).  The exception are the
\* follow-ups: the builder announces the field for the first request alone, and
\* whether the ones that follow have a handler is up to the user.
AdvertisedIsServed ==
  /\ Asked(caps) \subseteq Builtin \cup DOMAIN features
  /\ \A c \in caps : c[1] = "execute_command" => c[2] \in DOMAIN commands

\* What was registered when the user's initialize handler was done is announced
\* (lsp_initialize: "Now that the user has had the opportunity to setup
\* additional features, calculate the server's capabilities").
RegisteredIsAdvertised ==
  [][phase # "ready" /\ phase' = "ready" =>
       /\ \A m \in DOMAIN features : Announceable(m) => m \in Invited(caps')
       /\ \A c \in DOMAIN commands : <<"execute_command", c>> \in caps']_vars

\* Only a message that closes a document takes it out of the workspace: a
\* document that was opened while the user's initialize handler was running is
\* still there when it is done (lsp_initialize creates the workspace first).
OpenedIsKept ==
  [][\A d \in workspace.documents \ workspace'.documents :
       toServer # <<>> /\ <<Message.method, d>> \in Closes]_vars

\* The root the workspace works with is the path the client gave, in the native
\* form (from_fs_path, then to_fs_path in Workspace.__init__), except for POSIX
\* paths with a name that is taken for a drive.
RootIsKept ==
  LET root == workspace.root IN
  root.path # <<>> /\ (~root.win => ~TakenForDrive(root.path)) =>
    ToFsPath(root.win, workspace.uri) = NativeForm(root.win, root.path)

\* The client gets the code the server's handler raised, in an exception whose
\* class the code alone decides, whatever the order in which from_error goes
\* through its set.  It is the class that was raised if the client knows it and it
\* was raised with a code of its own: JsonRpcException.__init__ takes any code.
ErrorIsKept ==
  answer.method # "none" =>
    LET raised == answer.raised
        seen   == answer.seen
    IN  /\ seen.code = raised.code
        /\ FromError(raised.code) = {seen}
        /\ seen.class # "JsonRpcException" => SupportsCode(seen.class, seen.code)
        /\ raised.class \in ReceivedClasses /\ SupportsCode(raised.class, raised.code) =>
             seen.class = raised.class

\* The functions for which _prepare_command_arguments and Python agree on what a
\* parameter is: the first one is annotated with a class, and not with a base
\* class or another class of servers, and nothing is passed by keyword.
Regular(f) ==
  Signature[f].first \notin {"base", "derived", "generic"} /\ Keywords(f) = 0

\* A command that was asked for in a message that can be structured runs if Python
\* accepts the call with all its parameters given and the arguments fit, and only
\* if Python accepts the call.  Otherwise the answer is InvalidParams, or an
\* internal error where no arguments were given at all or the function is not a
\* regular one, which may also be refused although Python would accept the call
\* (lsp_workspace__execute_command, _prepare_command_arguments).
CommandArity ==
  [][\A c \in DOMAIN commands, call \in program.commandCalls :
       /\ toServer # <<>> /\ toServer' = Tail(toServer) /\ ~stopping
       /\ "workspace/executeCommand" \notin program.faulty
       /\ Message.kind = "request" /\ Message.params = call /\ call[1] = c
       => LET f    == commands[c].fun
              n    == call[2]
              all  == Parameters(f) - (IF f \in ServerFuns THEN 1 ELSE 0)
              fits == Callable(f, n) /\ call[3] /\ (Signature[f].defaults = 0 \/ n = all)
              ran  == \E r \in running' : r.method = "workspace/executeCommand"
              said == toClient'[Len(toClient')].exc.class
          IN  /\ Regular(f) /\ fits => ran
              /\ ran => Callable(f, n)
              /\ ~ran => \/ said = "JsonRpcInvalidParams"
                         \/ /\ said = "JsonRpcInternalError"
                            /\ n = NoArguments \/ ~Regular(f)]_vars

\* Every call of either side is answered, unless a message of it could not be
\* encoded or structured, or the server shuts down first: from then on it reads
\* nothing but exit.  The calls are finitely many, so it is enough that in the end
\* none is left (_handle_request, _handle_response).
EveryCallAnswered ==
  <>[](stopping \/ stopped \/ (pending \subseteq lost /\ outstanding \subseteq mislaid))

\* Every failure of a handler reaches the client, as an error response or as a
\* message to show (report_server_error), even before initialize and also when its
\* error cannot be encoded.  What the handler of a cancelled built-in feature
\* raises is not among them: its request was answered before.
FailuresAreNoticed == <>[](stopped \/ failures \subseteq noticed)

\* A message of one of these kinds, about this method, is on a wire.
OnWire(wire, kinds, m) ==
  \E i \in DOMAIN wire : wire[i].kind \in kinds /\ wire[i].method = m

\* The handler of a request answers it in the end.  A built-in feature that was
\* cancelled has been answered before, and its handler runs on for nobody.
WillAnswer(r) == r.kind = "request" /\ ~(r.cancelled /\ r.method \in Builtin)

BeingHandled(m) == \E r \in running : r.method = m /\ WillAnswer(r)

\* Until the server shuts down a call of either side is lost only if one of its
\* messages could not be encoded or structured (_send_data, structure_message):
\* while its caller waits, the request is still to be read, a handler works on it,
\* or its answer is under way, whatever was cancelled and however a handler ended
\* (handle_message, _handle_request, _handle_cancel_notification, _send_response).
CallsOnTheirWay ==
  \/ stopping
  \/ /\ \A m \in pending \ lost : \/ OnWire(toServer, {"request"}, m)
                                  \/ BeingHandled(m)
                                  \/ OnWire(toClient, {"result", "error"}, m)
     /\ \A m \in outstanding \ mislaid : \/ OnWire(toClient, {"request"}, m)
                                         \/ OnWire(toServer, {"response"}, m)

-----------------------------------------------------------------------------
(* The inductive invariant.                                                 *)

\* What can be on the wire, given what has been called.
ClientMessages ==
  [kind : {"request"}, method : {"initialize"}, params : {<<root>> : root \in program.roots}]
    \cup [kind : {"request"}, method : {"workspace/executeCommand"},
          params : program.commandCalls]
    \cup [kind : {"notification"}, method : {"$/cancelRequest"},
          params : {<<m>> : m \in program.uses}]
    \cup [kind : {"request", "notification"},
          method : called \ {"initialize", "workspace/executeCommand", "$/cancelRequest"},
          params : {<<>>}]
    \cup [kind : {"response"}, method : made]

ServerMessages ==
  [kind : {"request", "notification"}, method : made]
    \cup [kind : {"notification"}, method : {"window/showMessage"}, about : called \cup made]
    \cup [kind : {"result"}, method : called]
    \cup [kind : {"error"}, method : called, exc : Exceptions]

Runs == [method : called, kind : {"request", "notification"},
         mode : {"inline", "task", "thread"}, cancelled : BOOLEAN]

\* No message on either wire, and no handler, is anything else than what the two
\* sides construct.
WireOK ==
  /\ program \in Programs
  /\ toServer \in Seq(ClientMessages)
  /\ toClient \in Seq(ServerMessages)
  /\ running \subseteq Runs

\* A call is on the wire once, and its handler starts when it has left it.
Unread == {i \in DOMAIN toServer : toServer[i].kind # "response"}

CalledOnce ==
  /\ \A i, j \in Unread : toServer[i].method = toServer[j].method => i = j
  /\ \A i \in Unread : toServer[i].method \in called
  /\ \A r \in running, i \in Unread : toServer[i].method # r.method

\* Nothing can be open in a workspace that is still to be made.
InitializedOnce ==
  /\ DOMAIN workspace = DOMAIN NoWorkspace
  /\ workspace.documents # {} => workspace.exists
  /\ workspace.exists =>
       "initialize" \in called /\ \A i \in Unread : toServer[i].method # "initialize"

SessionInv ==
  /\ WireOK /\ CalledOnce /\ InitializedOnce
  /\ RegistryInv
  /\ ErrorIsKept
  /\ AdvertisedIsServed

=============================================================================
