----------------------------- MODULE MCSession ------------------------------
(***************************************************************************)
(* Session with small programs, one for each area of the protocol.         *)
(***************************************************************************)
EXTENDS Session

Function(first, others, defaults, var, async) ==
  [first |-> first, others |-> others, defaults |-> defaults, var |-> var, async |-> async,
   keywords |-> 0, needed |-> FALSE, varkw |-> FALSE]

MCSignature ==
  [plain     |-> Function("plain", 0, 0, FALSE, FALSE),
   coroutine |-> Function("plain", 0, 0, FALSE, TRUE),
   server    |-> Function("ls", 1, 0, FALSE, FALSE),
   two       |-> Function("exact", 2, 0, FALSE, FALSE),
   optional  |-> Function("ls", 1, 1, FALSE, FALSE),
   variadic  |-> Function("ls", 1, 0, TRUE, FALSE),
   base      |-> Function("base", 1, 0, FALSE, FALSE),
   derived   |-> Function("derived", 1, 0, FALSE, FALSE),
   generic   |-> Function("generic", 0, 0, FALSE, FALSE),
   keyword   |-> [Function("ls", 1, 0, FALSE, FALSE) EXCEPT !.keywords = 1],
   needed    |-> [Function("plain", 0, 0, FALSE, FALSE)
                    EXCEPT !.keywords = 1, !.needed = TRUE],
   anything  |-> [Function("absent", 0, 0, TRUE, FALSE) EXCEPT !.varkw = TRUE],
   kwargs    |-> [Function("plain", 0, 0, FALSE, FALSE) EXCEPT !.varkw = TRUE],
   nothing   |-> Function("absent", 0, 0, FALSE, FALSE)]

NoRoot == [win |-> FALSE, path |-> <<>>, encodings |-> <<>>]

Base ==
  [funs |-> {"plain"}, offers |-> {}, commands |-> {}, threads |-> FALSE, uses |-> {},
   client |-> {}, roots |-> {NoRoot}, commandCalls |-> {}, makes |-> {},
   notebook |-> FALSE, raises |-> {}, faulty |-> {}, calls |-> 1]

\* A program that serves the methods, with every choice of options, and a
\* client that calls them.
Serves(methods, opts) ==
  [Base EXCEPT !.offers = methods \X opts, !.uses = methods]

Plain(methods) == Serves(methods, {"none"})

Calling_(methods) == [Base EXCEPT !.makes = methods, !.uses = {"shutdown"}, !.calls = 2]

PythonError == Raise("JsonRpcInternalError", 0)

\* Language features.
Areas == {
  Plain({"textDocument/hover", "textDocument/declaration", "textDocument/definition",
         "textDocument/typeDefinition"}),
  Plain({"textDocument/implementation", "textDocument/references",
         "textDocument/documentHighlight", "textDocument/documentSymbol"}),
  Plain({"textDocument/completion", "completionItem/resolve", "textDocument/signatureHelp",
         "textDocument/moniker"}),
  Plain({"textDocument/codeAction", "codeAction/resolve", "textDocument/codeLens",
         "codeLens/resolve"}),
  Plain({"textDocument/documentLink", "documentLink/resolve", "textDocument/documentColor",
         "textDocument/colorPresentation"}),
  Plain({"textDocument/formatting", "textDocument/rangeFormatting",
         "textDocument/rangesFormatting"}),
  Serves({"textDocument/onTypeFormatting", "textDocument/inlineCompletion"}, {"none", "on"}),
  Plain({"textDocument/rename", "textDocument/prepareRename"}),
  [Plain({"textDocument/rename", "textDocument/prepareRename",
          "textDocument/linkedEditingRange"}) EXCEPT !.client = {"prepare_support"}],
  Plain({"textDocument/foldingRange", "textDocument/selectionRange",
         "textDocument/inlineValue"}),
  Plain({"textDocument/prepareCallHierarchy", "callHierarchy/incomingCalls",
         "callHierarchy/outgoingCalls"}),
  Plain({"textDocument/prepareTypeHierarchy", "typeHierarchy/subtypes",
         "typeHierarchy/supertypes"}),
  Serves({TokensFull, TokensDelta, TokensRange}, {"none", "legend", "registration"}),
  Serves({"textDocument/inlayHint", "inlayHint/resolve"}, {"none", "resolve"}),
  Plain({"workspace/symbol", "workspaceSymbol/resolve"}),
  Plain({"textDocument/diagnostic", "workspace/diagnostic", "workspace/textDocumentContent"}),
  [Serves({"workspace/willCreateFiles", "workspace/willDeleteFiles",
           "workspace/willRenameFiles"}, {"none", "on"})
     EXCEPT !.client = {"will_create", "will_rename"}],
  [Serves({"workspace/didCreateFiles", "workspace/didDeleteFiles",
           "workspace/didRenameFiles"}, {"none", "on"})
     EXCEPT !.client = {"did_create", "did_delete"}]}

\* Synchronisation, with a user handler of initialize that takes its time.
Syncing == {
  [Base EXCEPT
     !.uses = {"textDocument/didOpen", "textDocument/didChange", "textDocument/didClose"},
     !.offers = {<<"initialize", "none">>, <<"textDocument/didOpen", "none">>},
     !.funs = {"coroutine"}, !.raises = {PythonError}, !.calls = 3],
  [Plain({"textDocument/willSave", "textDocument/willSaveWaitUntil", "textDocument/didSave"})
     EXCEPT !.client = {"will_save", "will_save_wait_until"}],
  [Plain({"notebookDocument/didOpen", "notebookDocument/didChange",
          "notebookDocument/didClose", "notebookDocument/didSave"})
     EXCEPT !.client = {"notebook_document"}, !.notebook = TRUE,
            !.offers = {<<"notebookDocument/didSave", "none">>}, !.calls = 3],
  [Plain({"$/setTrace", "$/progress", "window/workDoneProgress/cancel",
          "workspace/didChangeConfiguration", "workspace/didChangeWatchedFiles",
          "workspace/didChangeWorkspaceFolders"})
     EXCEPT !.offers = {<<"workspace/didChangeConfiguration", "none">>},
            !.raises = {PythonError}],
  [Base EXCEPT
     !.offers = {"initialize", "initialized", "shutdown", "exit"} \X {"none"},
     !.uses = {"initialized", "shutdown", "exit"},
     !.funs = {"plain", "coroutine"}, !.raises = {PythonError}, !.calls = 3]}

\* Commands of every signature, cancelled and shut down under way.
Commands_ == {
  [Base EXCEPT !.funs = {f}, !.commands = {"run"}, !.uses = {"workspace/executeCommand"},
               !.commandCalls = {"run", "unknown"} \X (0 .. 3 \cup {NoArguments}) \X BOOLEAN] :
    f \in DOMAIN MCSignature} \cup {
  [Base EXCEPT !.funs = {"coroutine"}, !.commands = {"run"},
               !.offers = {<<"textDocument/hover", "none">>},
               !.uses = {"workspace/executeCommand", "textDocument/hover", "$/cancelRequest",
                         "shutdown", "exit"},
               !.commandCalls = {<<"run", 1, TRUE>>}, !.raises = {PythonError},
               !.makes = {"workspace/applyEdit"},
               !.calls = 4]}

\* Decorators in any order, and options that are refused.
Decorators == {
  [Base EXCEPT !.funs = {"plain", "server", "coroutine"}, !.threads = TRUE,
               !.offers = {"textDocument/hover"} \X {"none", "wrong"}
                             \cup {<<"custom/method", "on">>},
               !.commands = {"run"}]}

\* Messages that one side cannot encode or the other cannot structure, of either
\* direction, next to some that arrive.
Faults == {
  [Plain({"textDocument/hover", "textDocument/didSave"}) EXCEPT
     !.uses = @ \cup {"$/cancelRequest"}, !.funs = {"coroutine"},
     !.faulty = {"textDocument/hover", "textDocument/didSave"}, !.raises = {PythonError},
     !.calls = 2],
  [Base EXCEPT
     !.offers = {<<"initialize", "none">>}, !.funs = {"plain"}, !.raises = {PythonError},
     !.uses = {"shutdown"}, !.makes = {"workspace/applyEdit", "workspace/configuration"},
     !.faulty = {"initialize", "workspace/applyEdit"}, !.calls = 2],
  [Base EXCEPT
     !.funs = {"coroutine"}, !.commands = {"run"},
     !.uses = {"workspace/executeCommand", "shutdown"}, !.commandCalls = {<<"run", 1, TRUE>>},
     !.faulty = {"workspace/executeCommand"}, !.calls = 2]}

\* Exceptions of every class, and codes at the limits of the server's range.
Raising == {
  [Plain({"textDocument/hover"}) EXCEPT !.raises =
     {Raise(c, 0) : c \in Classes \ {"JsonRpcServerError"}}
       \cup {Raise(c, code) : c \in {"JsonRpcException", "JsonRpcServerError"},
                              code \in {-32099, -32050, -32000}}
       \cup {Raise("JsonRpcException", code) : code \in {-32100, -31999, 1}}
       \cup {Raise(c, code) : c \in {"JsonRpcInvalidParams", "JsonRpcRequestCancelled"},
                              code \in {-32603, -32602, -32000, 1}}]}

Names == {"name", "a b", "a%20b"}

Paths(prefixes, slash, names) ==
  prefixes \cup {p \o <<n>> : p \in prefixes, n \in names}
           \cup {p \o <<n, slash, k>> : p \in prefixes, n \in names, k \in Names}

Posix == Paths({<<"/">>, <<"/", "/", "name", "/">>}, "/", Names \cup {"\\", "c:", "C:"})
           \cup {<<"/", "/", "name">>}

Windows == Paths({<<"C:", "\\">>, <<"c:", "\\">>, <<"C:", "/">>, <<"\\", "\\", "name", "\\">>},
                 "\\", Names)

Rooted == {
  [Base EXCEPT !.roots = [win : {FALSE}, path : Posix, encodings : {<<>>}]
                           \cup [win : {TRUE}, path : Windows, encodings : {<<>>}]
                           \cup [win : {FALSE}, path : {<<>>},
                                 encodings : {<<"utf-8">>, <<"other", "utf-32", "utf-8">>,
                                              <<"other">>}]]}

\* Calls of the server.
ServerSide == {
  Calling_({"client/registerCapability", "client/unregisterCapability", "window/showDocument",
            "window/showMessageRequest", "window/workDoneProgress/create"}),
  Calling_({"workspace/applyEdit", "workspace/codeLens/refresh", "workspace/configuration",
            "workspace/diagnostic/refresh", "workspace/foldingRange/refresh"}),
  Calling_({"workspace/inlayHint/refresh", "workspace/inlineValue/refresh",
            "workspace/semanticTokens/refresh", "workspace/textDocumentContent/refresh",
            "workspace/workspaceFolders"}),
  Calling_({"$/cancelRequest", "$/logTrace", "$/progress", "telemetry/event",
            "textDocument/publishDiagnostics", "window/logMessage", "window/showMessage"})}

MCPrograms ==
  Areas \cup Syncing \cup Commands_ \cup Decorators \cup Faults \cup Raising \cup Rooted \cup ServerSide

=============================================================================
