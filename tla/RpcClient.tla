----------------------------- MODULE RpcClient ------------------------------
(***************************************************************************)
(* JsonRPCClient (pygls.client): a client that starts a server or connects *)
(* to one, makes calls, serves the server's requests with coroutines, and  *)
(* comes to its end by stop() or because the server is gone.               *)
(*                                                                         *)
(* `_request_futures` holds the futures of its own calls and the tasks of  *)
(* its handlers, in the order of their insertion.  Calls and tasks stand   *)
(* for their message ids.                                                  *)
(***************************************************************************)
EXTENDS Naturals, Sequences, SequencesExt

CONSTANTS
  Transports,  \* "stdio", "tcp", "ws"
  Calls,       \* requests the client may send
  Tasks        \* requests of the server, handled by coroutines of the client

ASSUME ClientAssumption ==
  /\ Transports \subseteq {"stdio", "tcp", "ws"}
  /\ Calls \cap Tasks = {}

VARIABLES
  transport,  \* how the client is connected, "none" before it is
  server,     \* "up" or "gone": the process, or the other end of the connection
  state,      \* [Calls -> state of the call's future]
  asked,      \* tasks the server has asked for
  futures,    \* `_request_futures`, keys in order
  wire,       \* messages from the server that are not read
  sent,       \* calls that reached the server and are not answered
  late,       \* calls made after the futures were failed
  loop,       \* the main loop: "none", "waiting", "ended" or "crashed"
  stopEvent,  \* `_stop_event`
  exitTask,   \* where _server_exit is
  stopping    \* where stop() is

vars == <<transport, server, state, asked, futures, wire, sent, late, loop, stopEvent,
          exitTask, stopping>>

Done == {"result", "failed"}

TypeOK ==
  /\ transport \in Transports \cup {"none"}
  /\ server \in {"up", "gone"}
  /\ state \in [Calls -> {"none", "pending"} \cup Done]
  /\ asked \subseteq Tasks
  /\ futures \in Seq(Calls \cup Tasks) /\ IsInjective(futures)
  /\ wire \in Seq(Calls \cup Tasks)
  /\ sent \subseteq Calls /\ late \subseteq Calls
  /\ loop \in {"none", "waiting", "ended", "crashed"}
  /\ stopEvent \in BOOLEAN
  /\ exitTask \in {"none", "waiting", "hook", "done", "aborted"}
  /\ stopping \in {"none", "process", "tasks", "returned", "raised"}

Init ==
  /\ transport = "none"
  /\ server = "up"
  /\ state = [c \in Calls |-> "none"]
  /\ asked = {}
  /\ futures = <<>>
  /\ wire = <<>>
  /\ sent = {}
  /\ late = {}
  /\ loop = "none"
  /\ stopEvent = FALSE
  /\ exitTask = "none"
  /\ stopping = "none"

-----------------------------------------------------------------------------
(* The client connects and calls.                                           *)

Connect(t) ==
  /\ transport = "none" /\ stopping = "none"
  /\ t \in Transports
  /\ transport' = t
  /\ loop' = "waiting"
  /\ UNCHANGED <<server, state, asked, futures, wire, sent, late, stopEvent, stopping>>

\* Mutant: nobody waits for the end of the process.
start_ioUnwatched == Connect("stdio") /\ UNCHANGED exitTask

start_io == Connect("stdio") /\ exitTask' = "waiting"

start_tcp == Connect("tcp") /\ UNCHANGED exitTask

start_ws == Connect("ws") /\ UNCHANGED exitTask

\* A generated method: send_request, unless the client is stopped.  What is
\* written before the client is connected, or when the server is gone, goes
\* nowhere; the future is there all the same.
Call(c) ==
  /\ ~stopEvent
  /\ state[c] = "none"
  /\ state' = [state EXCEPT ![c] = "pending"]
  /\ futures' = Append(futures, c)
  /\ sent' = IF transport # "none" /\ server = "up" THEN sent \cup {c} ELSE sent
  /\ late' = IF exitTask \in {"hook", "done", "aborted"} THEN late \cup {c} ELSE late
  /\ UNCHANGED <<transport, server, asked, wire, loop, stopEvent, exitTask, stopping>>

-----------------------------------------------------------------------------
(* The server: it answers, asks, and may go at any time.                    *)

ServerAnswers(c) ==
  /\ server = "up" /\ c \in sent
  /\ sent' = sent \ {c}
  /\ wire' = Append(wire, c)
  /\ UNCHANGED <<transport, server, state, asked, futures, late, loop, stopEvent, exitTask, stopping>>

ServerAsks(t) ==
  /\ server = "up" /\ transport # "none" /\ t \notin asked
  /\ asked' = asked \cup {t}
  /\ wire' = Append(wire, t)
  /\ UNCHANGED <<transport, server, state, futures, sent, late, loop, stopEvent, exitTask, stopping>>

\* What it has written can still be read, or the rest is lost.
ServerGoes ==
  /\ server = "up" /\ transport # "none"
  /\ server' = "gone"
  /\ \E n \in 0 .. Len(wire) : wire' = SubSeq(wire, 1, n)
  /\ UNCHANGED <<transport, state, asked, futures, sent, late, loop, stopEvent, exitTask, stopping>>

-----------------------------------------------------------------------------
(* The main loop, run_async or run_websocket.                               *)

\* `_request_futures`.pop(m, None).
Pop(m) ==
  futures' = IF Contains(futures, m)
               THEN RemoveAt(futures, CHOOSE k \in 1 .. Len(futures) : futures[k] = m)
               ELSE futures

\* handle_message: a request starts a task, a response takes its future out; a
\* future that has failed keeps its exception, and set_result raises, which
\* the loop reports.
HandleMessage(m) ==
  IF m \in Tasks
    THEN futures' = Append(futures, m) /\ UNCHANGED state
    ELSE /\ Pop(m)
         /\ state' = IF state[m] = "pending" THEN [state EXCEPT ![m] = "result"] ELSE state

\* The event is looked at before a line or a message is waited for: a loop that
\* waits when the client is stopped takes one more, and run_async handles the
\* message only if it waited for the body.
Read ==
  /\ loop = "waiting" /\ wire # <<>>
  /\ wire' = Tail(wire)
  /\ \/ HandleMessage(Head(wire))
     \/ stopEvent /\ transport # "ws" /\ UNCHANGED <<state, futures>>
  /\ loop' = IF stopEvent THEN "ended" ELSE "waiting"
  /\ UNCHANGED <<transport, server, asked, sent, late, stopEvent, exitTask, stopping>>

\* Mutant: over websockets the loop goes on waiting.
ConnectionClosedIgnored ==
  /\ loop = "waiting" /\ wire = <<>> /\ server = "gone"
  /\ loop' = IF transport = "ws" THEN "waiting" ELSE "ended"
  /\ stopEvent' = (stopEvent \/ transport = "ws")
  /\ UNCHANGED <<transport, server, state, asked, futures, wire, sent, late, exitTask, stopping>>

\* readline returns nothing, readexactly raises in the middle of a body, or
\* recv raises ConnectionClosed, which alone sets the event.
ConnectionClosed ==
  /\ loop = "waiting" /\ wire = <<>> /\ server = "gone"
  /\ loop' \in IF transport = "ws" THEN {"ended"} ELSE {"ended", "crashed"}
  /\ stopEvent' = (stopEvent \/ transport = "ws")
  /\ UNCHANGED <<transport, server, state, asked, futures, wire, sent, late, exitTask, stopping>>

\* A handler of the client ends; _send_handler_result takes its task out.
TaskEnds(t) ==
  /\ Contains(futures, t)
  /\ Pop(t)
  /\ UNCHANGED <<transport, server, state, asked, wire, sent, late, loop, stopEvent,
                 exitTask, stopping>>

-----------------------------------------------------------------------------
(* _server_exit, when the process has ended.                                *)

\* The place of the first task: a task does not let its exception be set.
FirstTask ==
  IF \E k \in 1 .. Len(futures) : futures[k] \in Tasks
    THEN CHOOSE k \in 1 .. Len(futures) :
           futures[k] \in Tasks /\ \A j \in 1 .. k - 1 : futures[j] \notin Tasks
    ELSE Len(futures) + 1

FailUpTo(n) ==
  state' = [c \in Calls |-> IF \E k \in 1 .. n : futures[k] = c THEN "failed" ELSE state[c]]

\* Mutant: the last future is left out.
SweepTooShort ==
  /\ exitTask = "waiting" /\ server = "gone"
  /\ FailUpTo(IF futures = <<>> THEN 0 ELSE FirstTask - 2)
  /\ exitTask' = IF FirstTask <= Len(futures) THEN "aborted" ELSE "hook"
  /\ UNCHANGED <<transport, server, asked, futures, wire, sent, late, loop, stopEvent, stopping>>

\* Pending futures get an exception, one after the other without a pause.  A
\* task in between ends _server_exit with a RuntimeError.
Sweep ==
  /\ exitTask = "waiting" /\ server = "gone"
  /\ FailUpTo(FirstTask - 1)
  /\ exitTask' = IF FirstTask <= Len(futures) THEN "aborted" ELSE "hook"
  /\ UNCHANGED <<transport, server, asked, futures, wire, sent, late, loop, stopEvent, stopping>>

\* Mutant: an exception of the hook ends _server_exit.
HookEndsUnguarded ==
  /\ exitTask = "hook"
  /\ exitTask' = "done"
  /\ UNCHANGED <<transport, server, state, asked, futures, wire, sent, late, loop, stopEvent,
                 stopping>>

\* The user's server_exit returns or raises, which is logged.
HookEnds ==
  /\ exitTask = "hook"
  /\ exitTask' = "done"
  /\ stopEvent' = TRUE
  /\ UNCHANGED <<transport, server, state, asked, futures, wire, sent, late, loop, stopping>>

-----------------------------------------------------------------------------
(* stop().                                                                  *)

stop ==
  /\ stopping = "none"
  /\ stopEvent' = TRUE
  /\ stopping' = IF transport = "stdio" THEN "process" ELSE "tasks"
  /\ UNCHANGED <<transport, server, state, asked, futures, wire, sent, late, loop, exitTask>>

StopSeesProcess ==
  /\ stopping = "process" /\ server = "gone"
  /\ stopping' = "tasks"
  /\ UNCHANGED <<transport, server, state, asked, futures, wire, sent, late, loop, stopEvent,
                 exitTask>>

\* gather waits for both tasks, and passes on the first exception at once.
StopReturns ==
  /\ stopping = "tasks"
  /\ \/ /\ loop \in {"none", "ended"} /\ exitTask \in {"none", "done"}
        /\ stopping' = "returned"
     \/ /\ loop = "crashed" \/ exitTask = "aborted"
        /\ stopping' = "raised"
  /\ UNCHANGED <<transport, server, state, asked, futures, wire, sent, late, loop, stopEvent,
                 exitTask>>

-----------------------------------------------------------------------------

MainLoop == Read \/ ConnectionClosed

ExitTask == Sweep \/ HookEnds

Stop == StopSeesProcess \/ StopReturns

Next ==
  \/ start_io \/ start_tcp \/ start_ws
  \/ \E c \in Calls : Call(c) \/ ServerAnswers(c)
  \/ \E t \in Tasks : ServerAsks(t) \/ TaskEnds(t)
  \/ ServerGoes
  \/ MainLoop
  \/ ExitTask
  \/ stop
  \/ Stop

\* The client's event loop runs, and the user's server_exit comes to an end;
\* the server owes nothing, and neither do the client's handlers.
Spec == Init /\ [][Next]_vars /\ WF_vars(MainLoop) /\ WF_vars(ExitTask) /\ WF_vars(Stop)

-----------------------------------------------------------------------------
(* Properties.                                                              *)

\* When the user's server_exit runs, no call made before it is pending: the
\* process is gone and every future has an outcome (_server_exit).
HookSeesNoPendingCall ==
  exitTask \in {"hook", "done"} =>
    \A c \in Calls : state[c] = "pending" => c \in late

\* When the process of a server that was started by start_io ends, the calls
\* that wait for it come to an end, unless a handler of the client was running:
\* its task aborts _server_exit.
ExitFailsCalls ==
  \A c \in Calls :
    server = "gone" /\ transport = "stdio" /\ state[c] = "pending"
      ~> (state[c] # "pending" \/ exitTask = "aborted" \/ c \in late)

\* The end of the server's process, or of a websocket, stops the client, with
\* the same exception; the end of a TCP connection does not.
GoneServerStops ==
  server = "gone" /\ transport # "tcp" ~> (stopEvent \/ exitTask = "aborted")

\* stop() comes to an end once the server is gone, whatever it was doing.
StopEnds ==
  stopping # "none" /\ (server = "gone" \/ transport = "none")
    ~> stopping \in {"returned", "raised"}

-----------------------------------------------------------------------------
(* The inductive invariant.                                                 *)

\* A message is under way once, and a task is registered after its request was
\* read.
OnTheWay ==
  /\ IsInjective(wire) /\ sent \cap ToSet(wire) = {}
  /\ \A t \in Tasks : t \notin asked => t \notin ToSet(wire) \cup ToSet(futures)
  /\ \A t \in Tasks : t \in ToSet(wire) => t \notin ToSet(futures)

\* A call is registered when it is made, and as long as it is pending.
CallsRegistered ==
  \A c \in Calls :
    /\ state[c] = "none" => c \notin sent \cup ToSet(wire) \cup ToSet(futures)
    /\ state[c] = "pending" => c \in ToSet(futures)

ClientInv == TypeOK /\ OnTheWay /\ CallsRegistered /\ HookSeesNoPendingCall

=============================================================================
