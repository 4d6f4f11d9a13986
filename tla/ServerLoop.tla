----------------------------- MODULE ServerLoop -----------------------------
(***************************************************************************)
(* From the bytes of a connection to the end of the process: the main      *)
(* loops run_async, run and run_websocket (pygls.io_), the exit            *)
(* notification (lsp_exit) and what start_io, start_tcp and start_ws do    *)
(* when the loop ends or is left by an exception (pygls.server).  Under    *)
(* WASM start_io has the loop without coroutines (run): "wasm".            *)
(*                                                                         *)
(* Over stdio and TCP a message is a frame: header lines, an empty line    *)
(* and a body of the announced length.  A length stands for the message it *)
(* was announced for: a body read with another length is cut in the wrong  *)
(* place.  Over websockets a message is a message.  The client may close   *)
(* the connection anywhere, also in the middle of a body.                  *)
(***************************************************************************)
EXTENDS Naturals, Sequences

CONSTANTS
  Transports,   \* ways to connect: "stdio", "wasm", "tcp", "ws"
  ExitKinds,    \* kinds of the user's handler for `exit`
  MaxMessages   \* bound on the messages of the client

ASSUME LoopAssumption ==
  /\ Transports \subseteq {"stdio", "wasm", "tcp", "ws"}
  /\ ExitKinds \subseteq {"none", "sync", "async", "thread"}
  /\ MaxMessages \in Nat

VARIABLES
  transport,  \* how the client is connected
  exitKind,   \* kind of the user's handler for `exit`
  reporter,   \* whether the user's report_server_error "works" or "raises"
  messages,   \* what the client has sent: "good", "bad" (no JSON) or "exit"
  stream,     \* header lines and bodies that are not read yet
  eof,        \* the client has closed the connection
  loop,       \* where the main loop is
  expected,   \* content_length: the message it was announced for, or 0
  seen,       \* messages whose body was decoded, 0 for a misplaced one
  exiting,    \* how far lsp_exit is; "deaf" if it closed the reader's socket unnoticed
  reading,    \* a worker still reads stdin when the loop is gone
  process     \* "up", "ended", or "raised" if start_io ended with an exception

vars == <<transport, exitKind, reporter, messages, stream, eof, loop, expected, seen,
          exiting, reading, process>>

Ids == 1 .. MaxMessages

Length(m) == <<"length", m>>
Body(m)   == <<"body", m>>
Other     == <<"other", 0>>   \* another header line
Blank     == <<"blank", 0>>
Cut       == <<"cut", 0>>     \* the first bytes of a body, before the end

TypeOK ==
  /\ transport \in Transports
  /\ exitKind \in ExitKinds
  /\ reporter \in {"works", "raises"}
  /\ messages \in Seq({"good", "bad", "exit"})
  /\ stream \in Seq({"length", "body", "other", "blank", "cut"} \X (0 .. MaxMessages))
  /\ eof \in BOOLEAN
  /\ loop \in {"header", "body", "ended", "crashed", "broken", "left"}
  /\ expected \in 0 .. MaxMessages
  /\ seen \in Seq(0 .. MaxMessages)
  /\ exiting \in {"none", "handler", "failed", "closing", "exit", "lost", "deaf"}
  /\ reading \in BOOLEAN
  /\ process \in {"up", "ended", "raised"}

Init ==
  /\ transport \in Transports
  /\ exitKind \in ExitKinds
  /\ transport = "wasm" => exitKind \in {"none", "sync"}
  /\ reporter \in {"works", "raises"}
  /\ messages = <<>>
  /\ stream = <<>>
  /\ eof = FALSE
  /\ loop = "header"
  /\ expected = 0
  /\ seen = <<>>
  /\ exiting = "none"
  /\ reading = FALSE
  /\ process = "up"

-----------------------------------------------------------------------------
(* The client.                                                              *)

Frames(m) ==
  IF transport = "ws" THEN {<<Body(m)>>}
  ELSE {<<Length(m), Blank, Body(m)>>,
        <<Other, Length(m), Blank, Body(m)>>,
        <<Length(m), Other, Blank, Body(m)>>,
        <<Blank, Length(m), Blank, Body(m)>>}

ClientSends(kind) ==
  LET m == Len(messages) + 1 IN
  /\ process = "up" /\ ~eof /\ m \in Ids
  /\ kind = "exit" => \A n \in 1 .. Len(messages) : messages[n] # "exit"
  /\ messages' = Append(messages, kind)
  /\ \E frame \in Frames(m) : stream' = stream \o frame
  /\ UNCHANGED <<transport, exitKind, reporter, eof, loop, expected, seen, exiting,
                 reading, process>>

\* The connection is closed.  What was not read yet may be lost, and a body
\* be cut short.
Close ==
  /\ eof' = TRUE
  /\ \E n \in 0 .. Len(stream) :
       \/ stream' = SubSeq(stream, 1, n)
       \/ /\ transport # "ws" /\ n < Len(stream) /\ stream[n + 1][1] = "body"
          /\ stream' = Append(SubSeq(stream, 1, n), Cut)

ClientCloses ==
  /\ process = "up" /\ ~eof
  /\ Close
  /\ UNCHANGED <<transport, exitKind, reporter, messages, loop, expected, seen, exiting,
                 reading, process>>

-----------------------------------------------------------------------------
(* lsp_exit.                                                                *)

\* The rest of lsp_exit on the main thread: the writer is closed and sys.exit
\* leaves the loop, over websockets once the connection is closed.
ExitOnMain ==
  IF transport = "ws"
    THEN exiting' = "closing" /\ loop' = "header"
    ELSE exiting' = "exit" /\ loop' = "left"

\* Mutant: the loop catches SystemExit.
HandleExitIsCaught == exiting' = "exit" /\ loop' = "header"

\* A synchronous handler is run on the spot; after one that raises, lsp_exit
\* is not continued.  A coroutine or a threaded handler leaves the loop free
\* to read on.
HandleExit ==
  \/ exitKind \in {"none", "sync"} /\ ExitOnMain
  \/ exitKind = "sync" /\ exiting' = "failed" /\ loop' = "header"
  \/ exitKind \in {"async", "thread"} /\ exiting' = "handler" /\ loop' = "header"

\* The user's coroutine ends, and its callback runs while the loop waits for
\* input: over stdio with a worker that holds the read.
ExitHandlerEnds ==
  /\ process = "up" /\ exiting = "handler" /\ exitKind = "async"
  /\ loop \in {"header", "body", "crashed"}
  /\ ExitOnMain
  /\ reading' = (transport = "stdio")
  /\ UNCHANGED <<transport, exitKind, reporter, messages, stream, eof, expected, seen,
                 process>>

ExitHandlerFails ==
  /\ process = "up" /\ exiting = "handler"
  /\ exiting' = "failed"
  /\ UNCHANGED <<transport, exitKind, reporter, messages, stream, eof, loop, expected, seen,
                 reading, process>>

\* On a worker SystemExit ends the worker, and nothing else.  Over TCP the
\* connection is closed before; that does not wake an event loop that sleeps,
\* whose socket is no longer watched.  Over websockets there is no event loop
\* on the worker to close the connection in.
ExitOnWorker ==
  /\ process = "up" /\ exiting = "handler" /\ exitKind = "thread"
  /\ IF transport = "tcp"
       THEN Close /\ exiting' \in {"lost", "deaf"}
       ELSE UNCHANGED <<stream, eof>> /\ exiting' = "lost"
  /\ UNCHANGED <<transport, exitKind, reporter, messages, loop, expected, seen, reading,
                 process>>

\* Something else wakes the event loop, another connection for instance.
Wake ==
  /\ process = "up" /\ exiting = "deaf"
  /\ exiting' = "lost"
  /\ UNCHANGED <<transport, exitKind, reporter, messages, stream, eof, loop, expected, seen,
                 reading, process>>

-----------------------------------------------------------------------------
(* The main loop.                                                           *)

Take == stream # <<>> /\ stream' = Tail(stream)

Reading(place) == process = "up" /\ loop = place /\ exiting # "deaf"

OverPipes == transport \in {"stdio", "wasm"}

\* The loop calls report_server_error itself, not the guarded
\* _report_server_error: if that raises, the loop is left.  start_io shuts the
\* server down; a task of a TCP or websocket server just ends.
ReportError ==
  loop' = IF reporter = "works" THEN "header" ELSE IF OverPipes THEN "broken" ELSE "crashed"

\* A message was decoded, or could not be and was reported; it is handled
\* before the loop goes on.
Handle(m) ==
  IF m # 0 /\ messages[m] = "exit" THEN HandleExit
  ELSE /\ IF m = 0 \/ messages[m] = "bad" THEN ReportError ELSE loop' = "header"
       /\ UNCHANGED exiting

\* readline: the first length counts, and an empty line ends the header once
\* there is one.
ReadHeader ==
  /\ Reading("header") /\ transport # "ws"
  /\ Take
  /\ expected' = IF expected = 0 /\ Head(stream)[1] = "length"
                   THEN Head(stream)[2] ELSE expected
  /\ loop' = IF Head(stream) = Blank /\ expected # 0 THEN "body" ELSE "header"
  /\ UNCHANGED <<transport, exitKind, reporter, messages, eof, seen, exiting, reading,
                 process>>

\* Mutant: content_length is not reset.
ReadBodyKeepsLength ==
  LET m == IF Head(stream) = Body(expected) THEN expected ELSE 0 IN
  /\ Reading("body")
  /\ Take /\ Head(stream) # Cut
  /\ seen' = Append(seen, m)
  /\ Handle(m)
  /\ UNCHANGED <<transport, exitKind, reporter, messages, eof, expected, reading, process>>

\* readexactly, json.loads and handle_message.
ReadBody ==
  LET m == IF Head(stream) = Body(expected) THEN expected ELSE 0 IN
  /\ Reading("body")
  /\ Take /\ Head(stream) # Cut
  /\ seen' = Append(seen, m)
  /\ expected' = 0
  /\ Handle(m)
  /\ UNCHANGED <<transport, exitKind, reporter, messages, eof, reading, process>>

\* readline returns nothing.
HeaderEof ==
  /\ Reading("header") /\ transport # "ws"
  /\ eof /\ stream = <<>>
  /\ loop' = "ended"
  /\ UNCHANGED <<transport, exitKind, reporter, messages, stream, eof, expected, seen,
                 exiting,
                 reading, process>>

\* The input ends before the body does.  A file returns what there is, which
\* is no JSON, or nothing; a stream raises IncompleteReadError.
BodyEof ==
  /\ Reading("body")
  /\ eof /\ stream \in {<<>>, <<Cut>>}
  /\ stream' = <<>>
  /\ IF transport = "tcp" THEN loop' = "crashed" /\ UNCHANGED expected
     ELSE IF stream = <<>> THEN loop' = "ended" /\ UNCHANGED expected
     ELSE ReportError /\ expected' = 0
  /\ UNCHANGED <<transport, exitKind, reporter, messages, eof, seen, exiting, reading,
                 process>>

\* websocket.recv
RecvMessage ==
  /\ Reading("header") /\ transport = "ws"
  /\ Take
  /\ seen' = Append(seen, Head(stream)[2])
  /\ Handle(Head(stream)[2])
  /\ UNCHANGED <<transport, exitKind, reporter, messages, eof, expected, reading, process>>

RecvClosed ==
  /\ Reading("header") /\ transport = "ws"
  /\ eof /\ stream = <<>>
  /\ loop' = "ended"
  /\ UNCHANGED <<transport, exitKind, reporter, messages, stream, eof, expected, seen,
                 exiting,
                 reading, process>>

-----------------------------------------------------------------------------
(* The end of the process.                                                  *)

\* Mutant: start_io does not shut down when the loop is left by an exception.
LoopEndsOrderly ==
  /\ process = "up" /\ loop = "ended"
  /\ process' = "ended"
  /\ UNCHANGED <<transport, exitKind, reporter, messages, stream, eof, loop, expected, seen,
                 exiting, reading>>

\* After the loop, JsonRPCServer.shutdown stops the pool and the listener, and
\* start_io, start_tcp or start_ws return.  start_io shuts down after an
\* exception too, and passes it on.  Under WASM it passes what run has returned
\* to asyncio.run, which refuses it.
LoopEnds ==
  /\ process = "up" /\ loop \in {"ended", "broken"}
  /\ process' = IF loop = "broken" \/ transport = "wasm" THEN "raised" ELSE "ended"
  /\ UNCHANGED <<transport, exitKind, reporter, messages, stream, eof, loop, expected, seen,
                 exiting, reading>>

\* SystemExit leaves start_tcp; start_io catches it and shuts the pool down,
\* which waits for the worker that reads stdin.
SystemExit ==
  /\ process = "up" /\ loop = "left"
  /\ reading => stream # <<>> \/ eof
  /\ process' = "ended"
  /\ UNCHANGED <<transport, exitKind, reporter, messages, stream, eof, loop, expected, seen,
                 exiting, reading>>

\* The websocket is closed: the callback of the closing task calls sys.exit.
SystemExitOnClose ==
  /\ process = "up" /\ exiting = "closing"
  /\ process' = "ended"
  /\ UNCHANGED <<transport, exitKind, reporter, messages, stream, eof, loop, expected, seen,
                 exiting, reading>>

-----------------------------------------------------------------------------

MainLoop ==
  ReadHeader \/ ReadBody \/ HeaderEof \/ BodyEof \/ RecvMessage \/ RecvClosed

ExitHandler == ExitHandlerEnds \/ ExitHandlerFails \/ ExitOnWorker

Ending == LoopEnds \/ SystemExit \/ SystemExitOnClose

Next ==
  \/ \E kind \in {"good", "bad", "exit"} : ClientSends(kind)
  \/ ClientCloses
  \/ MainLoop
  \/ ExitHandler
  \/ Wake
  \/ Ending

Spec == Init /\ [][Next]_vars

\* The threads of the server keep running and the user's handler ends; the
\* client need neither send nor close.
Fairness ==
  /\ WF_vars(MainLoop)
  /\ WF_vars(ExitHandler)
  /\ WF_vars(Ending)

FairSpec == Spec /\ Fairness

-----------------------------------------------------------------------------
(* Properties.                                                              *)

\* Bodies are decoded one after the other as the client sent them, none left
\* out, repeated or cut in the wrong place, whatever header lines and errors
\* come between them (run_async, run_websocket).
DecodedInOrder == \A k \in 1 .. Len(seen) : seen[k] = k

\* When the connection is gone the process comes to its end, also after an exit
\* that failed or was lost on a worker, and after an error that could not be
\* reported.  Over TCP and websockets an exception may have killed the loop, or
\* the connection was closed behind its back.
LostConnectionEnds ==
  eof ~> (process # "up" \/ (~OverPipes /\ loop = "crashed") \/ exiting = "deaf")

\* `exit` stops the process without the help of the client, if the user's
\* handler does not fail and the rest of lsp_exit runs on the main thread with
\* no read of stdin under way.
ExitOnMainStops ==
  (/\ exiting # "none"
   /\ exitKind \in {"none", "sync"} \/ (exitKind = "async" /\ transport # "stdio"))
  ~> (process # "up" \/ exiting = "failed")

-----------------------------------------------------------------------------
(* The inductive invariant.                                                 *)

\* The stream ends before place k, or has one of the tokens there.
OneOf(k, tokens) == k <= Len(stream) => stream[k] \in tokens

\* The header of message m once its length is known, and then its body.
HeaderAt(k, m) ==
  \/ OneOf(k, {Blank}) /\ OneOf(k + 1, {Body(m), Cut})
  \/ OneOf(k, {Other}) /\ OneOf(k + 1, {Blank}) /\ OneOf(k + 2, {Body(m), Cut})

\* The beginning of message m.
MessageAt(k, m) ==
  IF transport = "ws" THEN OneOf(k, {Body(m)})
  ELSE \/ OneOf(k, {Length(m)})
       \/ OneOf(k, {Other, Blank}) /\ OneOf(k + 1, {Length(m)})

\* Message follows message without a gap, each with its own length.
Framed ==
  \A k \in 1 .. Len(stream), m \in Ids :
    /\ stream[k] = Length(m) => HeaderAt(k + 1, m)
    /\ stream[k] = Body(m) => MessageAt(k + 1, m + 1)

\* What is next in the stream is what the loop waits for: the first message
\* that was not decoded.
InStep ==
  LET n == Len(seen) + 1 IN
  /\ transport = "ws" => loop # "body" /\ expected = 0 /\ MessageAt(1, n)
  /\ transport # "ws" /\ loop = "header" =>
       \/ expected = 0 /\ MessageAt(1, n)
       \/ expected = n /\ HeaderAt(1, n)
  /\ loop = "body" => expected = n /\ OneOf(1, {Body(n), Cut})

\* As long as the connection is open the last message is there as a whole.
Complete ==
  ~eof => IF stream = <<>>
            THEN Len(seen) = Len(messages) /\ expected = 0 /\ loop # "body"
            ELSE stream[Len(stream)] = Body(Len(messages))

StreamInv == TypeOK /\ Framed /\ InStep /\ Complete /\ DecodedInOrder

=============================================================================
