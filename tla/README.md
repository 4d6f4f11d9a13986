# A TLA+ verification of pygls

pygls is a framework for language servers: it reads JSON-RPC messages from a
client (an editor), dispatches them to built-in and user handlers, and sends
responses, notifications and requests back. This directory holds TLA+ modules
that model it, the TLC configurations that check them on small instances,
and TLAPS proofs of the results that hold for every instance. Paths below are
relative to `src/pygls/`; `PROJECT.json` maps each definition to its source
lines.

## 1. Inventory

| part | state it keeps | operations | what makes it correct |
|---|---|---|---|
| `JsonRPCProtocol`, incoming (`protocol/json_rpc.py`) | `_request_futures`, the context variable with the current id, `_shutdown` | `handle_message`, `_handle_request`, `_handle_notification`, `_execute_handler`, `_run_generator`, `_handle_cancel_notification`, the done callbacks | each request is answered once, also when it is cancelled; "cancelled" only with cause; bookkeeping is undone; no generator is forgotten |
| `lsp_shutdown` (`protocol/language_server.py`) | `_shutdown` | user handler, then a loop that cancels what is in flight | all in-flight work is cancelled or done, nothing starts afterwards, the request succeeds |
| `JsonRPCProtocol`, outgoing | `_request_futures`, `_result_types` | `send_request`, `send_request_async`, `structure_message`, `_handle_response` | a response reaches the future of its request, whatever the thread and the timing; every call has an outcome in the end |
| `Progress` (`progress.py`) | `tokens` | `create`, `create_async`, `begin`, `end`, the client's cancel notification | a cancellation is not lost and ends the work, also when several tasks use one token |
| stdio reader and pool (`io_.py`, `server.py`) | the executor, the pending read | `StdinAsyncReader.readline/readexactly`, `run_async` | threaded handlers that block do not stop the reader |
| framing (`io_.py`) | the length announced, the bytes read | `run_async`, `run`, `run_websocket` | messages are cut where the client cut them; end of input ends the loop |
| server life cycle (`server.py`, `lsp_exit`) | stop event, transport, pool | `start_io`, `start_tcp`, `start_ws`, `shutdown`, `exit` | the process ends with the right code, and only then |
| client (`client.py`) | server process, tasks, stop event | `start_io`, `_server_exit`, `stop` | pending calls fail when the server dies |
| workspace (`workspace/workspace.py`) | text documents, notebooks, folders | open, change, close, of documents and notebooks | a notebook's open cells are the documents that are open |
| text documents (`workspace/text_document.py`) | source, version | full and incremental changes, offsets, words | the source is the client's source after each change |
| position encodings (`workspace/position_codec.py`) | encoding | conversions to and from client units | round trips and clamping |
| feature manager (`feature_manager.py`) | features, commands, options, attributes of the user's functions | `feature`, `command`, `thread` | decorators can come in any order, and exactly what was decorated runs in a thread |
| sessions (`protocol/language_server.py`, `lsp/server.py`) | workspace, capabilities, trace, running handlers | `initialize` and the other built-in features, commands, `report_server_error` | what is announced is served and what is registered announced; every call is answered unless its messages cannot be encoded or structured, every failure is noticed |
| capabilities (`capabilities.py`) | the builder's inputs | one method per field of the initialize result | a field asks only for what has a handler |
| generated methods (`lsp/_base_client.py`, `lsp/_base_server.py`) | none of their own | one method, and its `_async` twin, per LSP message | a stopped client sends nothing |
| exceptions (`exceptions.py`) | none | from a class to a code and back | the client sees the code the handler raised, and the class that goes with it |
| URIs (`uris.py`) | none | `from_fs_path`, `to_fs_path` | the root is the path the client gave |

Left out: the typing overloads of `lsp/_capabilities.py`, the command line, and
the scripts that generate code and documentation (section 6).

**How the parts interact.** One main thread runs the event loop. `run_async`
awaits a message, decodes it and calls `handle_message`, which runs to its end
before the next step of the loop: a synchronous handler is run on the spot, a
coroutine becomes a task, a threaded handler an item of the pool's queue, and a
generator (every built-in feature) is run up to the user handler it yields to
and continued by that handler's done callback. So the callback of a threaded
handler, and a generator that waited for one, run on a *worker*, concurrently
with the main thread: `_request_futures` is shared between them without a lock.
Requests to the client are registered in the same dictionary, and the same pool
carries the reads of stdin.

**What is hard here.** Done callbacks that run in three different places (by
`cancel()` in the middle of the canceller, by a worker, by the main thread in
`add_done_callback`); a dictionary iterated over while callbacks pop from it; a
check before an `await` and the action after it; late and malformed responses;
a pool that both blocks on and delivers the same messages; registrations that go
on while `initialize` is being answered; a server that dies while its client is
in the middle of something. The hazards are
listed, at their lines, in `PROJECT.json`.

## 2. Modules

### JsonRpc, RequestContract

`JsonRpc` models an incoming message from dispatch to response, `lsp_shutdown`,
and `lsp_exit`, the one feature that is served after it. A *job* is one message; its future has the key `Main(j)`, the
future of the user handler its generator yields to the key `Sub(j)`.

| variable | in the code |
|---|---|
| `kind`, `future` | the kind of a handler and the state of its concurrent `Future` or asyncio `Task` |
| `rank`, `inserted` | `_request_futures` with its insertion order, which the loop of `lsp_shutdown` follows |
| `called` | the futures whose done callback has run |
| `cancelling` | tasks on which `cancel()` was called; they get the error at their next step |
| `gen`, `main` | the generators, and what the main thread is in the middle of |
| `sweep`, `shutdown` | the loop of `lsp_shutdown` (position, and size of the dictionary when it began) and `_shutdown` |
| `asked`, `replies`, `verdict`, `reported` | cancellations received, calls of `_send_response`, what the last one said, calls of `_report_server_error` |

`Handle*` are the branches of `_execute_handler`. The threaded branch is three
actions (`HandleThread`, `RegisterThread`, `AttachThread`), since the handler may
end between any two of them; then `add_done_callback` runs the callback itself.
`StartGenerator`, `Yield*`, `Resume` and `GenReturn` are `_run_generator`. The
operator `Settle` completes a concurrent future and runs its callback in the same
step and thread, as `concurrent.futures` does; tasks (`TaskStart`, `TaskEnd`,
`TaskCallback`) run their callback in a later step of the event loop. `Sweep*`
are the iterations of the loop of `lsp_shutdown`: cancelling a pending future
runs its callback inside the loop, which pops the entry, and the next iteration
raises `RuntimeError` (`SweepError`). `handle_message` drops what comes after a
shutdown, but for `exit` (`Accept`): the generator of `lsp_exit` and the user's
handler do start then. `SystemExit` and `WriterClosed` are its `sys.exit`, at once or
when the writer is closed; on the main thread it ends the process, on a worker
nothing.

What is abstracted: a result is one of result / unsendable / error / cancelled,
where *unsendable* is a value `json.dumps` refuses (the failure is reported and
no response leaves the server). The pool starts queued items in any order and the
event loop steps tasks in any order, so the model has more interleavings than the
code. A generator yields at most once, as the built-in ones do, and to a handler
that is no generator; the client does not reuse an id and sends one `shutdown`.
Handlers do not raise `CancelledError` on their own account.

`RequestContract` says what a client may rely on, without threads and futures:
a request is opened once, settled once, and answered "cancelled" only if the
client asked for it or a shutdown has begun. To settle is to answer, or to drop: of
a result that cannot be encoded nothing leaves the server, and the contract says so
(`Drop`) instead of counting it as an answer. `JsonRpc!ImplementsContract` maps
`status` to the count and the kind of the responses and checks the implication,
with the liveness part: an open request is settled in the end, unless the process
exits first (`Quit`).

### Outgoing

The calls of `send_request` in any thread (register, record the type, send) and
of `send_request_async`, whose asyncio future is chained to the concurrent one in
later steps of the loop; responses that come early, late, twice, with an error,
or *malformed* (the converter raises); the awaiting coroutine's cancellation; and
`lsp_shutdown`, which cancels the futures it meets before it ends or fails. Ids
are fresh uuids, so a call stands for its id.

### Progress

The dictionary `tokens` and tasks that use it, coroutines or threads. `create` looks
whether the token is registered and is refused if so; it registers the token in the
response's callback, which runs on the main thread while the thread that waited may
go on (`Created`, `OnCreated`), `create_async` when the coroutine resumes, `begin` with
`setdefault`. The client may cancel a token at any time. Nothing keeps two tasks from
using one token: `raced` records the tokens of which a create was under way while
another task registered or created it.

### StdioPool

The pool of the stdio server with its queue and its workers, the read the main
loop waits for, and threaded handlers that send a request and block on its
result. A handler that is done may be called again, so `Handlers` bounds how many are
under way at a time, not how often they run. The reads of one message (header lines
and body) are taken as one.

### PositionCodec, TextDocument

`PositionCodec` holds the conversions between client units and code points as
operators, `TextDocument` a document the client edits and the server follows.
Of a character only its class matters: how many units it takes in UTF-8, UTF-16
and UTF-32, whether it ends a line, whether it belongs to a word. `text` is the
client's text and `source` the server's; an edit is made between two offsets of
`text`, translated to positions by `PositionOf` (the protocol's own definition),
and applied to `source` by `_apply_incremental_change` from the positions alone.
A client sends ranges to a server that did not ask for them only when they cover
the whole text, the one case in which the code's fallback to a full change (which
the tests rely on) can be right. An offset between `\r` and `\n` is not a place.
A position past the end of a line is clamped as in the code. `JoinCrlf` stands for
`line.replace("\r\n", "\n")` on the lines of `splitlines`, of which only the end can
be a `\r\n`. `splitlines` is Python's (external): `LineEnds` are the places at which it cuts, and
`Cut` the place of the k-th.

### Workspace

The dictionaries of documents, notebooks, cells and folders, against a client that
goes from one state to another and describes the step as an editor does: for a
notebook, the slice of cells between what the two versions have in common in
front and at the end, the documents that opened and closed, the new data of the
cells that stay, the texts that changed. The server applies the message in the
order of `update_notebook_document`. Texts are opaque here (a document's text is
"the text of version v"); `TextDocument` looks inside.

### ServerLoop

From the bytes of one connection to the end of the process. `stream` holds header
lines and bodies; a length stands for the message it was announced for, so a body
read with another length counts as misplaced (0 in `seen`). `ReadHeader`,
`ReadBody`, `HeaderEof`, `BodyEof` are the paths of `run_async`, `RecvMessage` and
`RecvClosed` those of `run_websocket`. The client may close the connection
anywhere, also inside a body, where a file returns what there is and a TCP stream
raises out of the loop (`crashed`). The loop calls the user's `report_server_error`
unguarded (`ReportError`): one that raises ends the loop, and over TCP and
websockets nobody shuts the server down then. `wasm` is the synchronous `run` of
WebAssembly builds: no event loop, so no coroutines or threads, and `asyncio.run`
refuses what it returns, so that `start_io` ends with an exception. `HandleExit` is `lsp_exit`: on the main thread
`sys.exit` leaves the loop, over websockets after the connection is closed; after
a coroutine over stdio a worker is still inside `readline` (`reading`), and
`thread_pool.shutdown()` waits for it; on a worker `SystemExit` is lost, and over
TCP the writer's socket is taken from an event loop that may be asleep (`deaf`).
Assumed: one connection, one `exit`.
The stop event is implied: it is set only when the loop is over.

### Session

The composition: a language client and a language server with both directions of
the wire between them. `LanguageClient` and `LanguageServerCalls` are the generated
methods, one operator each; `FeatureManager` is the registry with its decorators;
`Capabilities` the builder of the initialize result; `Errors` the exception classes
and their codes; `Uris` the way from a path to a URI and back. `Session` adds the
built-in features and the handlers under way.

| variable | in the code |
|---|---|
| `program` | what the user's functions, registrations and calls may be, and what the client declares; chosen once |
| `features`, `options`, `commands`, `attrs`, `marked` | `_features`, `_feature_options`, `_commands`, the attributes set on functions |
| `toServer`, `toClient` | the two pipes |
| `pending`, `outstanding` | the `_request_futures` of client and server, for their own calls |
| `phase`, `caps`, `workspace` | how far `lsp_initialize` is, `server_capabilities`, `_workspace` |
| `running` | user handlers that have started: inline, as a task or in a thread |
| `stopping`, `exited`, `stopped` | `_shutdown`, the end of the process, `JsonRPCClient.stopped` |
| `lost`, `mislaid` | calls of the client and of the server of which a message could not be encoded or structured (recorded for the properties) |
| `failures`, `noticed`, `answer` | observers: what failed, what the client heard of, and its last error |

A message is read only when no handler runs inline. `HandleBuiltin` is the part of
a built-in feature before its user handler, `Finish` the part after it: for
`initialize` the capabilities are built in `FinishInitialize`, from what is
registered by then, while the workspace exists from `HandleBuiltin` on. A
capability is a pair of a field and a part of it, as far as it invites a client to
send something; `Invited` reads that off, from the LSP's text. It has two parts: what a
field asks for (`Asked`) and what follows up on the result of that (`FollowUps`: the
presentations of a color, the calls and types of a hierarchy, full tokens before a
delta), which the builder does not look at. Functions differ in
the ways the code tells apart: coroutine or not, the form of the first parameter (one
whose annotation is no class, on which `issubclass` raises, included),
the number of the others, defaults, `*args`, keyword-only parameters and `**kwargs`; an
argument of a command fits its parameter or not. An exception may have any code, as in
`JsonRpcException.__init__`, but a server error only one of its range.

Messages of the methods in `program.faulty` may fail on their way: a result or a
request that `_send_data` cannot encode is reported and not sent (`Unsent`, `Send`), and
one that `structure_message` refuses is reported by the server's main loop (`ReadFails`)
or ignored by the client's (`ReceiveFails`). `shutdown`, without parameters and result,
is not among them. What the user handler of a cancelled built-in feature returns or
raises is dropped without a word, as in `_run_generator` (`ForNobody`). The steps of one request between
reading and answering are one step here; `JsonRpc` takes them apart.

The client keeps to the order of the LSP as far as `initialize`, `initialized` and
`shutdown` go, and calls each method at most once; anything else it may call at any
time, before `initialize` too.

### RpcClient

`JsonRPCClient`, with the server as its environment: it answers, asks (the client's
handler is then a Task in `_request_futures`) and goes at any time, with part of
its output unread. `_server_exit` is `Sweep` (wait for the process, then fail the
pending futures without a pause; a Task in the dictionary refuses and aborts it)
and `HookEnds` (the user's `server_exit`, during which messages are read and calls
made); `stop`, `StopSeesProcess` and `StopReturns` are the awaits of `stop()`.

## 3. Runs

All runs but the violations pass; deadlock is an error only in `text_document` and
`workspace`, where the client can always go on: elsewhere a
server with nothing to do waits for its client.

| run | shows |
|---|---|
| `jsonrpc` | `AtMostOneReply`, `AnsweredIsDeregistered`, `CancelledOnlyIfAsked`, `NoOrphanedGenerator`, `ShutdownIsComplete`, `NoStartAfterShutdown` over all kinds of handlers (1.2 million states); `exit` and its handler are what `NoStartAfterShutdown` and `ShutdownIsComplete` except. With a threaded user handler for `shutdown` (`ThreadedShutdown`) the loop of `lsp_shutdown` runs on a worker; `AtMostOneReply`, `ShutdownIsComplete` and `NoStartAfterShutdown` do not hold then and are stated for the other kinds, the rest holds always |
| `jsonrpc_contract` | with fairness, `JsonRpc` implements `RequestContract`: every request is answered, dropped for want of an encoding, or cut off by `exit` |
| `outgoing` | a usable response finds its call registered whenever it comes (`OutstandingIsRegistered`), and every call has an outcome in the end, also after malformed responses (`FutureResolves`) |
| `progress` | a cancellation sticks (`CancelSticks`) and ends the work (`CancelStopsWork`), unless creates of the token overlapped |
| `stdio_pool` | with one worker more than handlers that block at a time, every blocked handler gets its response and ends (`BlockingHandlersEnd`) |
| `text_document` | after any edits the server's text is the client's (`Synchronised`), positions mean the same offset to both and survive the way to code points and back (`PositionsMatch`), `word_at_position` finds the word the client means (`WordAtPlace`), and a position past the end of a line is the end of its content (`PastEndIsEnd`) |
| `workspace` | documents, notebooks with their cells, the way from a cell to its notebook and folders are the client's after every message (`Mirrored`, `CellLookup`) |
| `server_loop` | bodies are cut where the client cut them (`DecodedInOrder`); a lost connection ends the process, also when an error could not be reported; `exit` on the main thread ends it without the client's help |
| `session` | what the capabilities ask for is served (`AdvertisedIsServed`) and what was registered in time is announced (`RegisteredIsAdvertised`); decorators work in any order (`ThreadsAsDecorated`); documents opened during `initialize` stay (`OpenedIsKept`); the root (`RootIsKept`) and errors (`ErrorIsKept`) survive their conversions; a command runs only with arguments it takes, and an ordinary function with all of them (`CommandArity`); every call is answered (`EveryCallAnswered`), and until then is not lost on the way (`CallsOnTheirWay`), unless one of its messages cannot be encoded or structured; every failure is noticed (`FailuresAreNoticed`) (507,000 states) |
| `rpc_client` | when the process ends, calls made before are over when the hook runs (`HookSeesNoPendingCall`) and come to an end (`ExitFailsCalls`); the client notices (`GoneServerStops`), and `stop()` ends once the server is gone (`StopEnds`) |

The run of `JsonRpc` also checks `TypeOK`; those of `JsonRpc`, `Outgoing`, `RpcClient`,
`ServerLoop` and `TextDocument` are proved. In the other modules `TypeOK` documents the
variables; it holds on the same instances when it is added to the configuration.

Bounds: one request, `exit` (a notification) and `shutdown` give every pair of
concurrent activities the code tells apart (jobs with sub-handlers and the
loop over them), and two workers let a worker race both the main thread and
another worker; jobs of the same kind only meet through `_request_futures`, whose
order the `shutdown` loop sees with up to six keys; the contract's run has a notification besides. In `outgoing` a blocking and
an awaiting call and two responses each cover an answer that is late and one that
is repeated. `progress` has five tasks: three on a token that a thread and a coroutine create, two on one that came with a request.
`stdio_pool` has three handlers against four workers, `pool_exhausted` against
three. `text_document` has texts of up to four and insertions of up to two
characters of five classes (a letter, a three-byte and a four-byte character,
`\n` and `\r`): two lines with something before and after the edit on each, every
line end, every pair of unit lengths. Python's other line separators are left out
of its alphabet on purpose (below). `workspace` has two notebooks that share three
cells, enough for a slice with something before and after it and for a cell that
moves; every notebook can be opened with any cells, so one change after the
opening meets every state a longer series would. `server_loop` has two messages,
so that something follows a bad message or an early end. `session` has one program
per area of the protocol, since features of different areas share no field of the
capabilities: all methods of an area may be registered and called, in every order
and with every choice of options, by up to four calls besides `initialize`
(`program.calls`); commands have every signature with no to three arguments, fitting or
not, or `None`; three programs have messages that fail on their way; paths have up to three names on either system. `rpc_client` has two calls
and one task: a call before and after the task in the dictionary, and one made
during the hook.

Fairness. `JsonRpc`, `Outgoing` and `StdioPool` assume that the main thread and
the workers keep running and that handlers end: the loop handles one message and
one callback after the other and nothing in it blocks. The client is never
required to send or cancel anything; in `StdioPool` it answers the requests it
gets. In `Progress` only polling and the handling of received notifications are
fair. In `ServerLoop` the main loop, the user's exit handler and the end of the
process are; the client need neither send nor close, and nothing has to wake a
sleeping event loop (`Wake`). In `Session` messages are read and user handlers end;
nobody has to call or register anything. In `RpcClient` the client's event loop
runs and the user's hook ends; the server need neither answer nor go, and the
client's handlers need not end. `TextDocument` and `Workspace` are checked for
safety only: each message is applied in one step of the main thread.

### What the code does differently from what it says

Each is a run expected to end in a violation.

* `shutdown_fails`: cancelling a generator that waits for a user handler pops from
  the dictionary being iterated over; `shutdown` is answered with an internal
  error and `_shutdown` stays false.
* `pool_exhausted`: when as many threaded handlers block as there are workers, no
  worker is left to read their responses.

Met while modelling, each reproducible by a small change of a configuration or a
property:

* the futures of notifications and of yielded handlers never leave
  `_request_futures`;
* with a threaded `shutdown` handler the rest of `lsp_shutdown` runs where the
  context variable is unset and cancels its own request, in spite of the comment;
  and a generator in its first part can have its future cancelled under it, in
  which case `_handle_request` answers a second time;
* a started coroutine *is* stopped by `$/cancelRequest`, although the comment says
  cancelling works only before the start;
* a response that cannot be structured leaves its future pending until a usable
  one comes; an error response leaves its entry in `_result_types`;
* two tasks that create the same progress token at the same time both pass the check,
  and the second registration discards a cancelled future: `CancelSticks` fails without
  its exception of `raced`, although the docstring of `Progress` says that "These futures
  will be cancelled if the client sends a cancel work done process notification";
* `splitlines` splits at form feeds, U+2028 and others, where the client does not:
  with `"separator"` in the alphabet `Synchronised` and `PositionsMatch` fail;
* a notebook's metadata cannot be cleared; a cell in both `did_open` and
  `did_close` is gone, and so is a folder in both `added` and `removed` of an event
  that names it at the same place or removes it later;
* `start_io` swallows `SystemExit`, so the exit code 1 of an `exit` without
  `shutdown` is lost over stdio; a second TCP client takes over the writer;
* on the empty line after a final line end `offset_at_position` counts in client
  units, although its docstring (`workspace/text_document.py:173`) says code points: for
  `"\u6f22\n"` in UTF-8 it returns 4, past the end of a source of length 2
  (`PositionsMatch` fails without its exception);
* a position is clamped only from the second unit past the content of a line on: one
  unit past it is the place behind a lone `\r`, or between `\r` and `\n`, where
  `word_at_position` finds no word, although a test says "or last in line if past the
  end" (`tests/test_document.py:460`). Past the end of a last line without a line end the
  code stops one unit early;
* of a result that cannot be encoded no response leaves the server, and the client
  waits for ever; a request or a response that cannot be structured is lost likewise;
* a `JsonRpcInvalidParams` raised with a code of the server's range arrives as a
  `JsonRpcServerError`: the code decides;
* a color or hierarchy provider is announced for its first request alone, and the
  follow-ups are refused with MethodNotFound if they have no handler;
* after an asynchronous user handler for `exit` over stdio the server waits for the
  worker that reads stdin, that is, for the client, and a threaded one loses
  `SystemExit` on its worker, although the documentation of the built-in features
  says that the process is stopped;
* a feature whose options are refused stays registered, without options; `@thread` on
  a function that takes the server and was registered twice marks the second
  registration only;
* a command whose first parameter is annotated with a base class of the server is
  passed the server and asked for an argument too many, one whose first parameter is
  annotated with something that is no class (`Optional[int]`) is refused every call with
  arguments, keyword-only parameters and `**kwargs` are counted as positional ones, one annotated with another
  class of servers is not passed the server and can never be called; a parameter
  with a default still needs its argument; with `arguments` of `None` nothing is
  checked and Python's own error is an internal one;
* a root path that is a UNC host and nothing else fails `initialize` with a
  `ValueError` (`str.index` is used as if it were `str.find`); on POSIX a directory
  called like a drive loses the slash in front of it, and one after a host its capital;
* a user feature for `workspace/executeCommand` is not announced unless there are
  commands;
* the delta of semantic tokens alone announces the full tokens too;
* a client's own handler that is running when the server's process ends aborts
  `_server_exit`: later calls stay pending, the hook is not called and the client
  is not stopped. Over TCP the client does not notice the end of the server at all;
* over WebAssembly `asyncio.run` is given what `run` returned, which is no coroutine.

## 4. Theorems

TLAPS checks every proof to its last leaf. Seven modules hold them. Each extends the
module it is about, which ends with the inductive invariant, so that TLC can check
that one too; the invariant of `TextDocument` is `TypeOK /\ Synchronised` itself.
`OutgoingProofs` extends `Outgoing` and `Progress`, which is why the definitions of the
latter have names of their own (`ProgressSpec`, `ProgressInit`). The bounds of the modules
(`MaxWorkers`, `MaxMessages`, `MaxVersion`, `program.calls` and the like) are
constants of the theorems, so nothing depends on the values of the runs.

| module | theorem | states | for |
|---|---|---|---|
| `JsonRpcProofs` | `TypeCorrect` | `[]TypeOK` | any finite sets of requests and notifications, handlers of any kinds, pools of any size |
| | `OneReply` | `[]AtMostOneReply` | the same |
| | `NothingLeaks` | `[]AnsweredIsDeregistered` | the same |
| | `CancelledForCause` | `[]CancelledOnlyIfAsked` | the same |
| | `GeneratorsAreFinished` | `[]NoOrphanedGenerator` | the same |
| | `ShutdownCompletes` | `[]ShutdownIsComplete` | the same |
| | `NothingStartsAfterShutdown` | `NoStartAfterShutdown`: only `exit` is served | the same |
| | `RefinesContract` | the specification implements `RequestContract` (without its fairness) | no threaded user handler of `shutdown` |
| `OutgoingProofs` | `TypeCorrect`, `ResponsesFindTheirCall` | `[]TypeOK`, `[]OutstandingIsRegistered` | any calls, any number of responses to each |
| | `CancelledForGood` | `[]CancelSticks` | any tasks, coroutines or threads, and any tokens, shared or not |
| `RpcClientProofs` | `TypeCorrect`, `NoCallLeftPending` | `[]TypeOK`, `[]HookSeesNoPendingCall` | any calls and tasks |
| `ServerLoopProofs` | `TypeCorrect`, `InOrder` | `[]TypeOK`, `[]DecodedInOrder` | any number of messages, headers in any order, a connection lost anywhere |
| `TextDocumentProofs` | `TypeCorrect`, `SourceIsText` | `[]TypeOK`, `[]Synchronised` | texts and insertions of any length, every encoding; with incremental changes no character that splits lines for Python only |
| | `PlacesAgree`, `WordsAreFound`, `PastEndsAreEnds` | `[]PositionsMatch`, `[]WordAtPlace`, `[]PastEndIsEnd` | the same, without such characters |
| | `ServerPlacesReturn` | `position_from_client_units` undoes `position_to_client_units` | any line of any text, every encoding, places not in or behind a final `\r\n` |
| `WorkspaceProofs` | `ServerMirrorsClient`, `CellsAreFound` | `[]Mirrored`, `[]CellLookup` | any files, finitely many cells and folders, notebooks of any length |
| `SessionProofs` | `DecoratorOrder` | `[]ThreadsAsDecorated` | any functions and registrations |
| | `CapabilitiesAreHonest`, `NothingIsForgotten` | `[]AdvertisedIsServed`, `RegisteredIsAdvertised` | any features, options, commands and client capabilities |
| | `ErrorsSurviveTheWire` | `[]ErrorIsKept` | any class and any code |
| | `NoCallIsLost` | `[]CallsOnTheirWay` | any programs on both sides, any messages that fail on their way |
| | `RootSurvives` | `[]RootIsKept` | absolute paths of any length |
| | `DocumentsAreKept` | `OpenedIsKept` | any messages |
| | `CommandsGetTheirArguments` | `CommandArity` | any signatures, keyword-only parameters and `**kwargs` included |

**Assumptions.** Each module names what its proofs need of the constants, and TLC
evaluates it in the module's run. They say what the constants are (`JobsAssumption`,
`KindsAssumption`, `WorkersAssumption`, `CallsAssumption`, `AnswersAssumption`,
`TasksAssumption`, `ClientAssumption`, `LoopAssumption`, `PoolAssumption`,
`WorkspaceAssumption`, `TextAssumption`), with one that says more. `SessionAssumption`: handlers raise what the exception classes let them construct
(a `JsonRpcServerError` refuses codes outside its range), and the root a client
names is an absolute path; the messages of `shutdown` can be encoded and structured. Some theorems carry a hypothesis of their own where the
property is false without it (section 3): those of `TextDocumentProofs` leave out the `"separator"` characters, at
which `splitlines` splits and a client does not; with full synchronisation `SourceIsText`
holds for them too (`SplitsAlike`).

**JsonRpc.** Counting replies is not inductive: nothing in it says why a callback
cannot run twice, or why nobody else answers. `ProtocolInv` has two parts.
`FutureInv` holds wherever `lsp_shutdown` runs: a callback has run only on a future
that is done (`FutureLife`); a generator waits exactly until the callback of the
handler it yielded to has run, and only a cancellation settles its future before
(`GeneratorWaits`); between `submit` and `add_done_callback` no callback has run
(`Attaching`); a request with a future is answered by the future's callback, which
takes the key out for good (`AnsweredByCallback`); what is not in the dictionary
needs no cancelling (`UnregisteredIsOver`); a generator's key comes before that of
its handler, so the loop of `lsp_shutdown` cancels the generator first
(`InsertionOrder`, `Sweeping`, `CancelledInOrder`). `MainThreadInv` is added while the
loop runs on the main thread: a generator in its first part holds the main thread
and a future that is not done, so the exception that would answer a second time
does not occur (`RunningIsOpen`), and what the loop has passed stays cancelled or
beyond cancelling, since nothing is registered meanwhile (`SweptIsStopped`). Once
the user handler of `shutdown` is a threaded one it stays so, and only `FutureInv`
is claimed. The proofs have one case per action. `RefinesContract` maps the state
of a request's future to its status in `RequestContract`, action by action.

**Outgoing, Progress, RpcClient.** `Bookkept` says that a call is registered from the
first line of `send_request` until a usable response was handled; `CreatesOnly` who may
be in the middle of a create, and `Unannounced` that without a race a token is absent
until its create is over, but for the future of its own `begin`, which nobody can have
cancelled while the main thread runs the callback; `CallsRegistered` and `OnTheWay`
that a pending call is a key of `_request_futures` and that no message is under way
twice. With these each action is a short case.

**ServerLoop.** `DecodedInOrder` speaks of what was decoded; it needs the order of what
is still in the stream. `Framed` says that after the length of a message come the rest
of its header and its body, and after its body the next message; `InStep` that the
first place of the stream is what the loop waits for, given the length it remembers;
`Complete` that an open connection has the last message as a whole, so that the next
one is put in its place. `Cut` is where a lost connection ends a body.

**TextDocument.** What `splitlines`, the conversions and the search for a word compute
for every text would be an induction over texts, and the library's induction theorems
are out of the provers' reach. `Least` takes their place: a set of numbers that is not
empty has a least member, which speaks of sets and needs no operator. The definitions
are in a form that goes with it: `splitlines` cuts a text between consecutive line ends
(`LineEnds`, `Cut`) instead of peeling off line after line, and the units of a line are a
function of how many characters are counted (`UnitsExist`, `UnitsAre`).

* The lines, joined, are the text (`Lines`, `Flattened`), and an offset is in the line
  that follows the line ends before it (`OffsetLine`).
* The units before a place grow with the place, so the first place with enough of them is
  the one the client counted (`Converted`): the server finds the line and the code point.
  Joining a final `\r\n` does no harm, since no offset lies inside it, and it is all that
  can be joined: only the end of a line is a `\n` (`OnlyTheEndIsLf`).
* `_apply_incremental_change` goes through all lines; what it writes for the lines before
  an edit, for the lines it touches and for those behind it add up to the client's edit
  (`Halves`, `WrittenLineByLine`, `Applied`). An edit at the end of a text that ends with a
  line end is the branch of its own in the code, and in the proof.
* A word does not go over a line end, so the runs of letters around the place are the same
  in the line and in the text (`LineAround`, `WordBefore`, `WordAfter`, `WordFound`).

**Workspace.** `Mirrored` compares documents and notebooks; what the server keeps
besides, the dictionary from cells to notebooks, must be right too, or the next message
goes wrong. `CellsAreFiled` says that it holds the cells of the open notebooks and
nothing else, `CellsAreOpen` that a notebook has each of its cells once, and as an open
document: replacing a slice then removes exactly the cells that leave.

**Session.** `SessionInv` collects the invariants of the parts.

* `RegistryInv`: the attributes of a function lead to one of its handlers
  (`AttributesLead`), and a mark is on the function, and then on all its handlers, or on
  a handler of it (`MarksFollow`). That a mark on *a* handler is one on *the* handler of
  a function registered once is a fact about cardinalities (`TwoRegistrations`).
* The capabilities: every one of the builder's methods is gone through in both
  directions. `BuildHonest` says that what a field invites is among the features the
  builder was given; `BuildComplete` that whatever can be announced is. The proof of the
  latter found an exception the run's programs did not have: a user feature for
  `workspace/executeCommand` is announced by commands only (`Announceable`).
* `WireOK` says what messages and handlers look like, `CalledOnce` that a call is on the
  wire once and its handler starts after it has left it, `InitializedOnce` that nothing is
  open before `initialize` was read. They are what `DocumentsAreKept` needs (the workspace
  `initialize` makes replaces an empty one) and `CommandsGetTheirArguments` (no other
  command is running).
* `CallsOnTheirWay` is the safety part of `EveryCallAnswered`: a call can only be late, or
  be recorded as lost when one of its messages was. It is inductive given `WireOK`.
  `Advances` says what reading a message does for it and for everybody else: the server
  only adds to the client's wire (`Adds`), the handlers that would have answered still
  will, have, or could not be understood (`Settles`, `Loses`), what fails is told
  (`Tells`).
* `RootRoundTrip`: `from_fs_path` and `to_fs_path` go through a path place by place, so no
  induction is needed; a UNC path is put together from its pieces, a drive gets its slash
  and loses it. The paths are sequences over `Tokens`.

**Only model-checked**, and why:

* the liveness properties (`ImplementsContract` with its fairness, `FutureResolves`,
  `CancelStopsWork`, `BlockingHandlersEnd`, `LostConnectionEnds`,
  `ExitOnMainStops`, `EveryCallAnswered`, `FailuresAreNoticed`, `ExitFailsCalls`,
  `GoneServerStops`, `StopEnds`): fairness is about ENABLED, which the provers do not
  handle. For the calls of a session, what can be said without fairness is proved
  (`NoCallIsLost`).

The two runs that expect a violation are about what the code does on small instances and
have no theorem.

## 5. Plan

All safety invariants and action properties of the passing runs are theorems, and the
safety part of `ImplementsContract`. What is left is small:

1. Type correctness of `Workspace`, `Session` and `StdioPool` as theorems of their own,
   which the invariants above already imply in part;
2. for the other liveness properties, invariants like `CallsOnTheirWay` that say what their
   progress rests on.

## 6. Not modelled

* `lsp/_capabilities.py`: typing overloads without a body, generated for every path
  through the capabilities, and one lookup along attribute names; `Capabilities`
  uses it as membership in `client`.
* `cli.py`: argument parsing, then one of the `start_*` methods.
* `scripts/`, `docs/`, the examples: not part of the running system.
* `uri_with`, `uri_scheme`: nothing in the package calls them.
* Two connections to one TCP or websocket server: they share one protocol object,
  whose writer is the last one's; the code makes no promise about them.
* In `JsonRpc`, generators that yield more than once and ids used twice; in
  `Workspace`, messages about documents that are not open, which raise in the
  middle of a change, and documents read from disk.
* The contents of messages beyond what the control depends on, and logging.
