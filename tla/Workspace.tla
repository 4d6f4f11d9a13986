----------------------------- MODULE Workspace -----------------------------
(***************************************************************************)
(* The workspace (pygls.workspace.workspace): the text documents,          *)
(* notebooks and folders that are open, kept in step with the client by    *)
(* the didOpen, didChange and didClose notifications.                      *)
(*                                                                         *)
(* The client is the reference: it goes from one state to another in one   *)
(* step and describes the step in a message, a notebook change by the      *)
(* slice of cells that is replaced, the cells that opened and closed, and  *)
(* the data and texts that changed.  What the server makes of the message  *)
(* is translated from the code.  The text of a document stands for itself  *)
(* as the text of its version; TextDocument looks inside.                  *)
(***************************************************************************)
EXTENDS Naturals, Sequences, FiniteSets, SequencesExt, FiniteSetsExt, Functions

CONSTANTS
  Files,       \* text documents that are no cells
  CellUris,    \* text documents of cells
  Notebooks,   \* notebooks
  Folders,     \* workspace folders
  Data,        \* what is known of a cell beside its text
  MaxVersion,  \* bound on the versions of documents
  MaxChanges   \* bound on the versions of notebooks

ASSUME WorkspaceAssumption ==
  /\ Files \cap CellUris = {}
  /\ IsFiniteSet(CellUris) /\ IsFiniteSet(Folders)
  /\ MaxVersion \in Nat /\ MaxChanges \in Nat

Uris     == Files \cup CellUris
Versions == 0 .. MaxVersion
Cells    == [document : CellUris, data : Data]
Metadata == {"empty", "full"}

VARIABLES
  opened,   \* the client's documents: [Uris it has open -> version]
  books,    \* the client's notebooks: [those it has open -> notebook]
  roots,    \* the client's folders
  text_documents, notebook_documents, cell_in_notebook, folders

client == <<opened, books, roots>>
server == <<text_documents, notebook_documents, cell_in_notebook, folders>>
vars   == <<client, server>>

\* The dictionaries over some of the keys K with values in V.
Dict(K, V) == UNION {[S -> V] : S \in SUBSET K}

IsBook(b) ==
  /\ DOMAIN b = {"version", "metadata", "cells"}
  /\ b.version \in 0 .. MaxChanges /\ b.metadata \in Metadata /\ b.cells \in Seq(Cells)

TypeOK ==
  /\ opened \in Dict(Uris, Versions)
  /\ DOMAIN books \subseteq Notebooks /\ \A n \in DOMAIN books : IsBook(books[n])
  /\ roots \subseteq Folders
  /\ DOMAIN text_documents \subseteq Uris
  /\ \A u \in DOMAIN text_documents :
       text_documents[u] \in [source : Versions, version : Versions]
  /\ DOMAIN notebook_documents \subseteq Notebooks
  /\ \A n \in DOMAIN notebook_documents : IsBook(notebook_documents[n])
  /\ cell_in_notebook \in Dict(CellUris, Notebooks)
  /\ folders \subseteq Folders

\* lsp_initialize brings the first folders.
Init ==
  /\ opened = <<>> /\ books = <<>> /\ roots \in SUBSET Folders
  /\ text_documents = <<>> /\ notebook_documents = <<>> /\ cell_in_notebook = <<>>
  /\ folders = roots

\* The dictionary d without some keys, and with the entries of e.
Without(d, keys) == Restrict(d, DOMAIN d \ keys)

Updated(d, e) ==
  [k \in DOMAIN d \cup DOMAIN e |-> IF k \in DOMAIN e THEN e[k] ELSE d[k]]

Entry(k, v) == [x \in {k} |-> v]

Documents(cells) == {c.document : c \in ToSet(cells)}

-----------------------------------------------------------------------------
(* Text documents.                                                          *)

_create_text_document(v) == [source |-> v, version |-> v]

\* put_text_document, for each of the new texts.
PutDocuments(docs, texts) ==
  Updated(docs, [u \in DOMAIN texts |-> _create_text_document(texts[u])])

update_text_document(doc, v) == [doc EXCEPT !.source = v, !.version = v]

\* textDocument/didOpen
OpenDocument(u, v) ==
  /\ u \in Files \ DOMAIN opened
  /\ opened' = Updated(opened, Entry(u, v))
  /\ text_documents' = PutDocuments(text_documents, Entry(u, v))
  /\ UNCHANGED <<books, roots, notebook_documents, cell_in_notebook, folders>>

\* textDocument/didChange
ChangeDocument(u, v) ==
  /\ u \in Files \cap DOMAIN opened /\ v > opened[u]
  /\ opened' = [opened EXCEPT ![u] = v]
  /\ text_documents' = [text_documents EXCEPT ![u] = update_text_document(@, v)]
  /\ UNCHANGED <<books, roots, notebook_documents, cell_in_notebook, folders>>

\* textDocument/didClose
CloseDocument(u) ==
  /\ u \in Files \cap DOMAIN opened
  /\ opened' = Without(opened, {u})
  /\ text_documents' = Without(text_documents, {u})
  /\ cell_in_notebook' = Without(cell_in_notebook, {u})
  /\ UNCHANGED <<books, roots, notebook_documents, folders>>

-----------------------------------------------------------------------------
(* Notebooks.                                                               *)

\* put_notebook_document
OpenNotebook(n, book) ==
  LET texts == [u \in Documents(book.cells) |-> 0] IN
  /\ n \in Notebooks \ DOMAIN books
  /\ books' = Updated(books, Entry(n, book))
  /\ opened' = Updated(opened, texts)
  /\ notebook_documents' = Updated(notebook_documents, Entry(n, book))
  /\ text_documents' = PutDocuments(text_documents, texts)
  /\ cell_in_notebook' = Updated(cell_in_notebook, [u \in DOMAIN texts |-> n])
  /\ UNCHANGED <<roots, folders>>

\* remove_notebook_document: the client names the cells that close with it.
CloseNotebook(n) ==
  LET cells == Documents(books[n].cells) IN
  /\ n \in DOMAIN books
  /\ books' = Without(books, {n})
  /\ opened' = Without(opened, cells)
  /\ notebook_documents' = Without(notebook_documents, {n})
  /\ text_documents' = Without(text_documents, cells)
  /\ cell_in_notebook' = Without(cell_in_notebook, cells)
  /\ UNCHANGED <<roots, folders>>

\* The client's message for the way from one notebook to another: the slice of
\* the cells between what they have in common in front and at the end, the
\* documents that opened and closed, the data of the cells that stay.
Difference(old, new, texts) ==
  LET a      == [k \in DOMAIN old.cells |-> old.cells[k].document]
      b      == [k \in DOMAIN new.cells |-> new.cells[k].document]
      short  == Min({Len(a), Len(b)})
      front  == Max({k \in 0 .. short : \A i \in 1 .. k : a[i] = b[i]})
      rest   == short - front
      back   == Max({k \in 0 .. rest : \A i \in 1 .. k : a[Len(a) + 1 - i] = b[Len(b) + 1 - i]})
  IN  [version      |-> new.version,
       metadata     |-> new.metadata,
       data         |-> {c \in ToSet(new.cells) : c.document \in Documents(old.cells)}
                          \ ToSet(old.cells),
       start        |-> front,
       delete_count |-> Len(a) - front - back,
       cells        |-> SubSeq(new.cells, front + 1, Len(b) - back),
       did_open     |-> ToSet(b) \ ToSet(a),
       did_close    |-> ToSet(a) \ ToSet(b),
       text_content |-> texts]

\* The cells of a notebook with the new data of some of them.
WithData(cells, data) ==
  [k \in DOMAIN cells |->
     IF \E c \in data : c.document = cells[k].document
       THEN CHOOSE c \in data : c.document = cells[k].document
       ELSE cells[k]]

\* Mutant: the cells to delete are only skipped if none take their place.
ReplaceCellsKeepsOld(cells, change) ==
  SubSeq(cells, 1, change.start) \o change.cells
    \o SubSeq(cells, change.start + 1
                     + (IF change.cells = <<>> THEN change.delete_count ELSE 0), Len(cells))

\* The slice of cells a structural change puts in place of another; without
\* such a change both are empty.
ReplaceCells(cells, change) ==
  SubSeq(cells, 1, change.start) \o change.cells
    \o SubSeq(cells, change.start + change.delete_count + 1, Len(cells))

\* Mutant: cells that close stay in the notebook they were in.
CellNotebooksKeepsClosed(n, change) ==
  Updated(cell_in_notebook, [u \in change.did_open |-> n])

\* put_text_document and remove_text_document for the cells that open and
\* close, in this order.
CellNotebooks(n, change) ==
  Without(Updated(cell_in_notebook, [u \in change.did_open |-> n]), change.did_close)

CellDocuments(change) ==
  Without(PutDocuments(text_documents, [u \in change.did_open |-> 0]), change.did_close)

\* Metadata that is empty is taken for none.
update_notebook_document(n, change) ==
  LET docs == CellDocuments(change) IN
  /\ notebook_documents' = [notebook_documents EXCEPT ![n] =
       [version  |-> change.version,
        metadata |-> IF change.metadata # "empty" THEN change.metadata ELSE @.metadata,
        cells    |-> ReplaceCells(WithData(@.cells, change.data), change)]]
  /\ cell_in_notebook' = CellNotebooks(n, change)
  /\ text_documents' = [u \in DOMAIN docs |->
       IF u \in DOMAIN change.text_content
         THEN update_text_document(docs[u], change.text_content[u])
         ELSE docs[u]]

\* notebookDocument/didChange: cells come, go and move, get new data, and the
\* texts of some of them change, all in one message.
ChangeNotebook(n, book, edited) ==
  LET old     == Documents(books[n].cells)
      new     == Documents(book.cells)
      Then(u) == (IF u \in old THEN opened[u] ELSE 0) + (IF u \in edited THEN 1 ELSE 0)
      texts   == [u \in new |-> Then(u)]
  IN
  /\ \A u \in new : texts[u] \in Versions
  /\ books' = [books EXCEPT ![n] = book]
  /\ opened' = Updated(Without(opened, old), texts)
  /\ update_notebook_document(n, Difference(books[n], book, Restrict(texts, edited)))
  /\ UNCHANGED <<roots, folders>>

-----------------------------------------------------------------------------
(* Folders.                                                                 *)

\* The k-th element of a sequence, if there is one.
Nth(s, k) == {s[i] : i \in {k} \cap DOMAIN s}

\* The first n pairs of an event: add_folder, then remove_folder.
ApplyPairs(added, removed, n) ==
  LET after[k \in 0 .. n] ==
        IF k = 0 THEN folders ELSE (after[k - 1] \cup Nth(added, k)) \ Nth(removed, k)
  IN  after[n]

ApplyFolders(added, removed) ==
  ApplyPairs(added, removed, Max({Len(added), Len(removed)}))

\* workspace/didChangeWorkspaceFolders.  No folder is both added and removed.
ChangeFolders(added, removed) ==
  /\ ToSet(added) \subseteq Folders \ roots /\ ToSet(removed) \subseteq roots
  /\ roots' = (roots \cup ToSet(added)) \ ToSet(removed)
  /\ folders' = ApplyFolders(added, removed)
  /\ UNCHANGED <<opened, books, text_documents, notebook_documents, cell_in_notebook>>

-----------------------------------------------------------------------------

\* The notebooks of a version whose cells are some of the documents, each once.
Books(v, docs) ==
  UNION {{[version |-> v, metadata |-> m,
           cells |-> [k \in DOMAIN s |-> [document |-> s[k], data |-> d[s[k]]]]] :
             m \in Metadata, d \in [ToSet(s) -> Data]} : s \in SetToAllKPermutations(docs)}

\* Documents that may be cells of a notebook: its own and those that are closed.
Available(n) == (CellUris \ DOMAIN opened) \cup Documents(books[n].cells)

Next ==
  \/ \E u \in Files, v \in Versions : OpenDocument(u, v) \/ ChangeDocument(u, v)
  \/ \E u \in Files : CloseDocument(u)
  \/ \E n \in Notebooks :
       \/ \E book \in Books(0, CellUris \ DOMAIN opened) : OpenNotebook(n, book)
       \/ CloseNotebook(n)
       \/ /\ n \in DOMAIN books /\ books[n].version < MaxChanges
          /\ \E book \in Books(books[n].version + 1, Available(n)) :
               \E edited \in SUBSET Documents(book.cells) : ChangeNotebook(n, book, edited)
  \/ \E added, removed \in SetToAllKPermutations(Folders) : ChangeFolders(added, removed)

Spec == Init /\ [][Next]_vars

-----------------------------------------------------------------------------
(* Properties.                                                              *)

\* The server's documents are the ones the client has open, files and cells,
\* each with the text and the version of its last change, also when cells
\* open, close and change in one message (update_notebook_document).
DocumentsMirrored ==
  text_documents = [u \in DOMAIN opened |-> [source |-> opened[u], version |-> opened[u]]]

\* The server's notebooks are the client's: the same cells in the same order
\* with the same data, after any sequence of slices; the metadata too, unless
\* the client has cleared it (update_notebook_document, put_notebook_document,
\* remove_notebook_document).
NotebooksMirrored ==
  /\ DOMAIN notebook_documents = DOMAIN books
  /\ \A n \in DOMAIN books :
       /\ notebook_documents[n].version = books[n].version
       /\ notebook_documents[n].cells = books[n].cells
       /\ notebook_documents[n].metadata = books[n].metadata \/ books[n].metadata = "empty"

\* get_notebook_document(cell_uri = u): the notebook is found by way of the
\* cell, or there is none.
get_notebook_document(u) ==
  {n \in DOMAIN notebook_documents : u \in DOMAIN cell_in_notebook /\ cell_in_notebook[u] = n}

\* A cell leads to the notebook that holds it, also after it has moved to
\* another notebook, and a closed one to none (get_notebook_document).
CellLookup ==
  \A u \in CellUris :
    get_notebook_document(u) = {n \in DOMAIN books : u \in Documents(books[n].cells)}

\* The server's folders are the client's (lsp_workspace__did_change_workspace_folders).
FoldersMirrored == folders = roots

\* After every message the server's documents, notebooks and folders are the
\* client's, also when one notebook change carries all its parts at once.
Mirrored == DocumentsMirrored /\ NotebooksMirrored /\ FoldersMirrored

-----------------------------------------------------------------------------
(* The inductive invariant.                                                 *)

\* A notebook of the client holds each of its cells once, and all are open.
CellsAreOpen ==
  \A n \in DOMAIN books :
    /\ books[n].cells \in Seq(Cells)
    /\ \A i, j \in DOMAIN books[n].cells :
         books[n].cells[i].document = books[n].cells[j].document => i = j
    /\ Documents(books[n].cells) \subseteq CellUris \cap DOMAIN opened

\* The server has filed the cells under the notebooks that hold them, and no
\* others: an entry left behind would come back with the next notebook.
CellsAreFiled ==
  /\ \A u \in DOMAIN cell_in_notebook :
       /\ cell_in_notebook[u] \in DOMAIN books
       /\ u \in Documents(books[cell_in_notebook[u]].cells)
  /\ \A n \in DOMAIN books : \A u \in Documents(books[n].cells) :
       u \in DOMAIN cell_in_notebook /\ cell_in_notebook[u] = n

\* The client counts its versions.
VersionsCount == \A u \in DOMAIN opened : opened[u] \in Versions

MirrorInv == Mirrored /\ CellsAreOpen /\ CellsAreFiled /\ VersionsCount

=============================================================================
