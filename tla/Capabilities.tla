---------------------------- MODULE Capabilities ----------------------------
(***************************************************************************)
(* ServerCapabilitiesBuilder (pygls.capabilities): which fields of the     *)
(* initialize result the registered features turn on.                      *)
(*                                                                         *)
(* A builder b has the features, the options they were registered with,    *)
(* the capabilities the client declared, the commands, and whether the     *)
(* server was given options for notebooks.  The result is a set of pairs   *)
(* <<field, part>>; a field that stays None is in no pair.  Of a value     *)
(* only what it invites the client to send is kept: "on" is a provider     *)
(* with nothing more, the other parts name the companions it announces.    *)
(***************************************************************************)
EXTENDS Naturals, Sequences

\* A field set to a value, or left alone when there is none: optional values
\* are sets of at most one element.
Field(name, value) == {name} \X value

GetOr(options, feature, default) ==
  IF feature \in DOMAIN options THEN {options[feature]} ELSE default

\* _provider_options
ProviderOptions(b, feature, default) ==
  IF feature \in b.features THEN GetOr(b.options, feature, default) ELSE {}

On == {"on"}

None == {}

\* The shape most of the builder's methods have.
Provider(b, field, feature, default) ==
  Field(field, ProviderOptions(b, feature, default))

\* The methods that overwrite one flag of the options: it says whether the
\* companion is registered, whatever the user's options said.
ProviderWith(b, field, feature, companion, flag) ==
  IF feature \in b.features
    THEN Field(field, IF companion \in b.features THEN {flag} ELSE On)
    ELSE {}

-----------------------------------------------------------------------------

\* choose_position_encoding: the client's first choice among the supported.
SupportedEncodings == {"utf-8", "utf-16", "utf-32"}

ChoosePositionEncoding(preferred) ==
  LET supported == SelectSeq(preferred, LAMBDA e : e \in SupportedEncodings) IN
  IF supported = <<>> THEN "utf-16" ELSE Head(supported)

WithTextDocumentSync(b) ==
  LET open_close == {"textDocument/didOpen", "textDocument/didClose"} \cap b.features # {}
      Save(feature, capability) ==
        IF capability \in b.client /\ feature \in b.features THEN On ELSE None
  IN  UNION {
        Field("open_close", IF open_close THEN On ELSE None),
        Field("change", On),
        Field("will_save", Save("textDocument/willSave", "will_save")),
        Field("will_save_wait_until",
              Save("textDocument/willSaveWaitUntil", "will_save_wait_until")),
        Provider(b, "save", "textDocument/didSave", On)}

WithNotebookDocumentSync(b) ==
  IF "notebook_document" \in b.client /\ b.notebook
    THEN Field("notebook_document_sync", On) ELSE {}

WithCompletion(b) == Provider(b, "completion", "textDocument/completion", On)
WithHover(b) == Provider(b, "hover", "textDocument/hover", On)
WithSignatureHelp(b) == Provider(b, "signature_help", "textDocument/signatureHelp", On)
WithDeclaration(b) == Provider(b, "declaration", "textDocument/declaration", On)
WithDefinition(b) == Provider(b, "definition", "textDocument/definition", On)
WithTypeDefinition(b) == Provider(b, "type_definition", "textDocument/typeDefinition", On)

\* Mutant: the options are passed on as the user gave them.
WithInlayHintsAsGiven(b) == Provider(b, "inlay_hint", "textDocument/inlayHint", On)

WithInlayHints(b) ==
  ProviderWith(b, "inlay_hint", "textDocument/inlayHint", "inlayHint/resolve", "resolve")

WithImplementation(b) == Provider(b, "implementation", "textDocument/implementation", On)
WithReferences(b) == Provider(b, "references", "textDocument/references", On)
WithDocumentHighlight(b) ==
  Provider(b, "document_highlight", "textDocument/documentHighlight", On)
WithDocumentSymbol(b) == Provider(b, "document_symbol", "textDocument/documentSymbol", On)
WithCodeAction(b) == Provider(b, "code_action", "textDocument/codeAction", On)

WithCodeLens(b) ==
  ProviderWith(b, "code_lens", "textDocument/codeLens", "codeLens/resolve", "resolve")

WithDocumentLink(b) ==
  ProviderWith(b, "document_link", "textDocument/documentLink", "documentLink/resolve",
               "resolve")

WithColor(b) == Provider(b, "color", "textDocument/documentColor", On)
WithDocumentFormatting(b) == Provider(b, "formatting", "textDocument/formatting", On)
WithDocumentRangeFormatting(b) ==
  Provider(b, "range_formatting", "textDocument/rangeFormatting", On)
WithDocumentOnTypeFormatting(b) ==
  Provider(b, "on_type_formatting", "textDocument/onTypeFormatting", None)

\* The options of rename are the builder's own, and only for a client that
\* knows them.
WithRename(b) ==
  IF "textDocument/rename" \notin b.features THEN {}
  ELSE Field("rename", IF /\ "prepare_support" \in b.client
                          /\ "textDocument/prepareRename" \in b.features
                         THEN {"prepare"} ELSE On)

WithFoldingRange(b) == Provider(b, "folding_range", "textDocument/foldingRange", On)

WithExecuteCommand(b) == Field("execute_command", b.commands)

WithSelectionRange(b) == Provider(b, "selection_range", "textDocument/selectionRange", On)
WithCallHierarchy(b) ==
  Provider(b, "call_hierarchy", "textDocument/prepareCallHierarchy", On)
WithTypeHierarchy(b) ==
  Provider(b, "type_hierarchy", "textDocument/prepareTypeHierarchy", On)

TokensFull == "textDocument/semanticTokens/full"
TokensDelta == "textDocument/semanticTokens/full/delta"
TokensRange == "textDocument/semanticTokens/range"

\* The first of the three features with options counts.  Registration options
\* are passed on; with a legend the rest follows from what is registered, and
\* the delta stands for the full request too.
WithSemanticTokens(b) ==
  LET given == {m \in {TokensFull, TokensDelta, TokensRange} : ProviderOptions(b, m, None) # {}}
      first == IF TokensFull \in given THEN TokensFull
               ELSE IF TokensDelta \in given THEN TokensDelta ELSE TokensRange
      full  == IF TokensDelta \in b.features THEN {"delta"}
               ELSE IF TokensFull \in b.features THEN {"full"} ELSE {}
      range == IF TokensRange \in b.features THEN {"range"} ELSE {}
  IN  Field("semantic_tokens",
            IF given = {} THEN {}
            ELSE IF b.options[first] = "registration" THEN {"registration"}
            ELSE full \cup range)

WithLinkedEditingRange(b) ==
  Provider(b, "linked_editing_range", "textDocument/linkedEditingRange", On)
WithMoniker(b) == Provider(b, "moniker", "textDocument/moniker", On)

WithWorkspaceSymbol(b) ==
  ProviderWith(b, "workspace_symbol", "workspace/symbol", "workspaceSymbol/resolve", "resolve")

FileOperations == {
  <<"workspace/willCreateFiles", "will_create">>, <<"workspace/didCreateFiles", "did_create">>,
  <<"workspace/willDeleteFiles", "will_delete">>, <<"workspace/didDeleteFiles", "did_delete">>,
  <<"workspace/willRenameFiles", "will_rename">>, <<"workspace/didRenameFiles", "did_rename">>}

WithWorkspaceCapabilities(b) ==
  Field("workspace_folders", On)
    \cup UNION {IF op[2] \in b.client THEN Provider(b, op[2], op[1], None) ELSE {} :
                  op \in FileOperations}

WithDiagnosticProvider(b) ==
  ProviderWith(b, "diagnostic", "textDocument/diagnostic", "workspace/diagnostic", "workspace")

WithInlineValueProvider(b) == Provider(b, "inline_value", "textDocument/inlineValue", On)
WithInlineCompletionProvider(b) ==
  Provider(b, "inline_completion", "textDocument/inlineCompletion", None)

Build(b) ==
  UNION {
    WithTextDocumentSync(b), WithNotebookDocumentSync(b), WithCompletion(b), WithHover(b),
    WithSignatureHelp(b), WithDeclaration(b), WithDefinition(b), WithTypeDefinition(b),
    WithInlayHints(b), WithImplementation(b), WithReferences(b), WithDocumentHighlight(b),
    WithDocumentSymbol(b), WithCodeAction(b), WithCodeLens(b), WithDocumentLink(b),
    WithColor(b), WithDocumentFormatting(b), WithDocumentRangeFormatting(b),
    WithDocumentOnTypeFormatting(b), WithRename(b), WithFoldingRange(b),
    WithExecuteCommand(b), WithSelectionRange(b), WithCallHierarchy(b),
    WithTypeHierarchy(b), WithSemanticTokens(b), WithLinkedEditingRange(b), WithMoniker(b),
    WithWorkspaceSymbol(b), WithWorkspaceCapabilities(b), WithDiagnosticProvider(b),
    WithInlineValueProvider(b), WithInlineCompletionProvider(b)}

=============================================================================
