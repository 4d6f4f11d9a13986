------------------------------ MODULE JsonRpc ------------------------------
(***************************************************************************)
(* The life of an incoming message in pygls.protocol.json_rpc: dispatch by *)
(* the kind of its handler, the bookkeeping of futures, cancellation by    *)
(* the client, the built-in `shutdown` request, which cancels what is      *)
(* still in flight, and the built-in `exit` notification, which is the one *)
(* message served after it and ends the process.                           *)
(*                                                                         *)
(* Two kinds of threads act.  The main thread runs the event loop: it      *)
(* takes messages, steps coroutine handlers and runs their callbacks, one  *)
(* at a time.  Pool workers run @server.thread() handlers and the          *)
(* callbacks of the futures they complete.  One action is a stretch of     *)
(* code of one thread between two points where the other threads can see   *)
(* or change something it relies on.                                       *)
(*                                                                         *)
(* A job is one message from the client.  It has a future of its own       *)
(* ("main") and, when its handler is a generator that yields to a user     *)
(* handler, the future of that handler ("sub").                            *)
(***************************************************************************)
EXTENDS Naturals, FiniteSets

CONSTANTS
  Requests,       \* ids of the requests a client sends, `shutdown` excepted
  Notifications,  \* occurrences of notifications a client sends
  Shutdown,       \* the id of the client's `shutdown` request
  Exit,           \* the client's `exit` notification
  HandlerKinds,   \* kinds of handlers registered for the messages
  SubKinds,       \* kinds of user handlers a built-in generator yields to
  ShutdownKinds,  \* kinds of the user's handler for `shutdown`
  ExitKinds,      \* kinds of the user's handler for `exit`
  MaxWorkers      \* size of the thread pool

ASSUME JobsAssumption ==
  /\ Requests \cap Notifications = {}
  /\ Shutdown \notin Requests \cup Notifications
  /\ Exit \in Notifications
  /\ IsFiniteSet(Requests) /\ IsFiniteSet(Notifications)

ASSUME KindsAssumption ==
  /\ HandlerKinds \subseteq {"sync", "async", "thread", "generator"}
  /\ SubKinds \subseteq {"none", "sync", "async", "thread"}
  /\ ShutdownKinds \subseteq {"none", "sync", "async", "thread"}
  /\ ExitKinds \subseteq {"none", "sync", "async", "thread"}

ASSUME WorkersAssumption == MaxWorkers \in Nat \ {0}

Jobs == Requests \cup Notifications \cup {Shutdown}

\* The jobs that are owed a response.
RequestJobs == Requests \cup {Shutdown}

\* Keys of `_request_futures`: a request's id, or the uuid4 that stands for a
\* notification or for the handler a generator yields to.
Id == Jobs \X {"main", "sub"}
Main(j) == <<j, "main">>
Sub(j)  == <<j, "sub">>

\* How a handler may end.  "unsendable" is a result json.dumps cannot encode.
Done == {"result", "unsendable", "error", "cancelled"}

VARIABLES
  received,    \* jobs the main loop has dispatched
  kind,        \* [Id -> kind of the handler behind the future]
  future,      \* [Id -> state of the concurrent Future or asyncio Task]
  cancelling,  \* tasks on which task.cancel() was called before they ended
  called,      \* futures whose done callback has run
  rank,        \* `_request_futures`: 0 = absent, else the insertion rank
  inserted,    \* number of insertions into `_request_futures` so far
  gen,         \* [Jobs -> what the job's generator is doing]
  main,        \* what the main thread is in the middle of
  sweep,       \* the loop of lsp_shutdown over `_request_futures`
  shutdown,    \* `_shutdown`
  asked,       \* requests for which a $/cancelRequest was received
  replies,     \* [RequestJobs -> number of calls of _send_response]
  verdict,     \* [RequestJobs -> what the last of them had to say]
  reported     \* jobs for which _report_server_error was called

vars == <<received, kind, future, cancelling, called, rank, inserted, gen,
          main, sweep, shutdown, asked, replies, verdict, reported>>

\* What answering a job or deregistering it changes.
outVars == <<rank, replies, verdict, reported>>

Registered == {i \in Id : rank[i] > 0}

\* `shutdown` and `exit` are served by generators of the protocol itself.
Builtin == {Shutdown, Exit}

Idle     == [at |-> "idle", on |-> Main(Shutdown)]
Exited   == [at |-> "exited", on |-> Main(Exit)]
NoSweep  == [phase |-> "off", cursor |-> 0, size |-> 0, left |-> 0]

\* The main thread is running the code of j's generator.
OnMain(j) == main = [at |-> "generator", on |-> Main(j)]

\* add_done_callback has been called on i's future.
Attached(i) == ~(main.at \in {"submitted", "registered"} /\ main.on = i)

\* Pool threads in use: running a handler, or the callback of its future.
Busy ==
  Cardinality({i \in Id : /\ kind[i] = "thread"
                          /\ \/ future[i] = "running"
                             \/ /\ future[i] \in Done \ {"cancelled"}
                                /\ i \notin called /\ Attached(i)})
  + Cardinality({j \in Jobs : gen[j] = "running" /\ ~OnMain(j)})

TypeOK ==
  /\ received \subseteq Jobs
  /\ kind \in [Id -> {"none", "sync", "async", "thread", "generator"}]
  /\ future \in [Id -> {"none", "pending", "running"} \cup Done]
  /\ cancelling \subseteq Id
  /\ called \subseteq Id
  /\ rank \in [Id -> Nat]
  /\ inserted \in Nat
  /\ gen \in [Jobs -> {"none", "running", "waiting", "closed"}]
  /\ main \in [at : {"idle", "submitted", "registered", "generator", "exited"}, on : Id]
  /\ sweep \in [phase : {"off", "on", "end", "over"}, cursor : Nat, size : Nat, left : Nat]
  /\ shutdown \in BOOLEAN
  /\ asked \subseteq RequestJobs
  /\ replies \in [RequestJobs -> Nat]
  /\ verdict \in [RequestJobs -> {"none"} \cup Done]
  /\ reported \subseteq Jobs

Init ==
  /\ received = {}
  /\ kind = [i \in Id |-> "none"]
  /\ future = [i \in Id |-> "none"]
  /\ cancelling = {}
  /\ called = {}
  /\ rank = [i \in Id |-> 0]
  /\ inserted = 0
  /\ gen = [j \in Jobs |-> "none"]
  /\ main = Idle
  /\ sweep = NoSweep
  /\ shutdown = FALSE
  /\ asked = {}
  /\ replies = [r \in RequestJobs |-> 0]
  /\ verdict = [r \in RequestJobs |-> "none"]
  /\ reported = {}

-----------------------------------------------------------------------------
(* Responses and done callbacks.                                            *)

\* _send_response.  A failure is also reported to the user; so is a result
\* that _send_data cannot encode, and then no response leaves the server.
SendResponse(j, out) ==
  /\ replies' = [replies EXCEPT ![j] = @ + 1]
  /\ verdict' = [verdict EXCEPT ![j] = out]
  /\ reported' = IF out \in {"error", "unsendable"} THEN reported \cup {j} ELSE reported

\* Mutant: the future stays in `_request_futures`.
SendHandlerResultKeepsFuture(j, out) == SendResponse(j, out) /\ UNCHANGED rank

\* Mutant: nothing is sent for a cancelled future.
SendHandlerResultUnlessCancelled(j, out) ==
  /\ rank' = [rank EXCEPT ![Main(j)] = 0]
  /\ IF out = "cancelled" THEN UNCHANGED <<replies, verdict, reported>>
                          ELSE SendResponse(j, out)

\* Done callback of a request's future.
SendHandlerResult(j, out) ==
  /\ rank' = [rank EXCEPT ![Main(j)] = 0]
  /\ SendResponse(j, out)

\* Done callback of a notification's future: nothing is deregistered.
CheckHandlerResult(j, out) ==
  /\ reported' = IF out = "error" THEN reported \cup {j} ELSE reported
  /\ UNCHANGED <<rank, replies, verdict>>

FinishJob(j, out) ==
  IF j \in Notifications THEN CheckHandlerResult(j, out)
                         ELSE SendHandlerResult(j, out)

\* set_result, set_exception or cancel() on the Future of a job that is not
\* done, which runs its callback in the same thread.  f and c are the futures
\* and the called callbacks as the calling code has left them so far.
Settle(f, c, j, out) ==
  /\ future' = [f EXCEPT ![Main(j)] = out]
  /\ called' = c \cup {Main(j)}
  /\ FinishJob(j, out)

\* The same on a Future that may be done: set_result then raises
\* InvalidStateError, which is only logged when the caller is a callback.
SettleUnlessDone(f, c, j, out) ==
  IF f[Main(j)] \in Done
    THEN future' = f /\ called' = c /\ UNCHANGED outVars
    ELSE Settle(f, c, j, out)

\* An exception that escapes _execute_handler on the main thread.
DispatchError(j) ==
  /\ IF j \in Notifications
       THEN reported' = reported \cup {j} /\ UNCHANGED <<replies, verdict>>
       ELSE SendResponse(j, "error")
  /\ UNCHANGED rank

Register(i) ==
  /\ inserted' = inserted + 1
  /\ rank' = [rank EXCEPT ![i] = inserted + 1]

-----------------------------------------------------------------------------
(* The main loop takes a message (handle_message, _handle_request,          *)
(* _handle_notification, _execute_handler).  Once `_shutdown` is set every  *)
(* message but `exit` is discarded, which changes nothing here.             *)

Accept(j) ==
  /\ main.at = "idle"
  /\ shutdown => j = Exit
  /\ j \notin received
  /\ received' = received \cup {j}
  /\ UNCHANGED <<cancelling, sweep, shutdown, asked>>

\* No handler is registered under the message's method.
HandleUnknownMethod(j) ==
  /\ j \notin Builtin
  /\ Accept(j)
  /\ IF j \in Notifications THEN UNCHANGED <<replies, verdict, reported>>
                            ELSE SendResponse(j, "error")
  /\ UNCHANGED <<kind, future, called, rank, inserted, gen, main>>

HandleSync(j) ==
  /\ "sync" \in HandlerKinds /\ j \notin Builtin
  /\ Accept(j)
  /\ \E out \in Done \ {"cancelled"} : FinishJob(j, out)
  /\ UNCHANGED <<kind, future, called, inserted, gen, main>>

HandleAsync(j) ==
  /\ "async" \in HandlerKinds /\ j \notin Builtin
  /\ Accept(j)
  /\ kind' = [kind EXCEPT ![Main(j)] = "async"]
  /\ future' = [future EXCEPT ![Main(j)] = "pending"]
  /\ Register(Main(j))
  /\ UNCHANGED <<called, gen, main, replies, verdict, reported>>

\* Mutant: the job takes the place of the key in the dispatch that follows.
HandleThreadMixesUpKeys(j) ==
  /\ "thread" \in HandlerKinds /\ j \notin Builtin
  /\ Accept(j)
  /\ kind' = [kind EXCEPT ![Main(j)] = "thread"]
  /\ future' = [future EXCEPT ![Main(j)] = "pending"]
  /\ main' = [at |-> "submitted", on |-> j]
  /\ UNCHANGED <<called, rank, inserted, gen, replies, verdict, reported>>

\* thread_pool.submit; the future is registered two steps later, while the
\* handler may already be running.
HandleThread(j) ==
  /\ "thread" \in HandlerKinds /\ j \notin Builtin
  /\ Accept(j)
  /\ kind' = [kind EXCEPT ![Main(j)] = "thread"]
  /\ future' = [future EXCEPT ![Main(j)] = "pending"]
  /\ main' = [at |-> "submitted", on |-> Main(j)]
  /\ UNCHANGED <<called, rank, inserted, gen, replies, verdict, reported>>

\* Built-in features are generators.
HandleGenerator(j) ==
  /\ "generator" \in HandlerKinds \/ j \in Builtin
  /\ Accept(j)
  /\ kind' = [kind EXCEPT ![Main(j)] = "generator"]
  /\ future' = [future EXCEPT ![Main(j)] = "pending"]
  /\ Register(Main(j))
  /\ main' = [at |-> "registered", on |-> Main(j)]
  /\ UNCHANGED <<called, gen, replies, verdict, reported>>

\* Mutant: the client is told "cancelled" without regard to future.cancel().
CancelAnswersAnyway(r) ==
  LET i == Main(r) IN
  /\ main.at = "idle" /\ ~shutdown /\ i \in Registered
  /\ asked' = asked \cup {r}
  /\ SendHandlerResult(r, "cancelled")
  /\ UNCHANGED <<received, kind, future, cancelling, called, inserted, gen, main,
                 sweep, shutdown>>

\* Mutant: the dictionary's first entry is cancelled, not the one asked for.
CancelFirst(r) ==
  /\ main.at = "idle" /\ ~shutdown /\ Main(r) \in Registered
  /\ asked' = asked \cup {r}
  /\ \E q \in RequestJobs :
       /\ \A i \in Registered : rank[Main(q)] <= rank[i]
       /\ Main(q) \in Registered /\ future[Main(q)] = "pending"
       /\ Settle(future, called, q, "cancelled")
  /\ UNCHANGED <<received, kind, cancelling, inserted, gen, main, sweep, shutdown>>

\* $/cancelRequest.  A running threaded handler cannot be cancelled, only
\* deregistered; a coroutine gets a CancelledError at its next step; any
\* other future is still pending and is cancelled on the spot.
Cancel(r) ==
  LET i == Main(r) IN
  /\ main.at = "idle"
  /\ ~shutdown
  /\ i \in Registered
  /\ asked' = asked \cup {r}
  /\ IF kind[i] # "async" /\ future[i] = "pending"
       THEN /\ Settle(future, called, r, "cancelled")
            /\ UNCHANGED cancelling
       ELSE /\ cancelling' = IF kind[i] = "async" /\ future[i] \notin Done
                               THEN cancelling \cup {i} ELSE cancelling
            /\ rank' = [rank EXCEPT ![i] = 0]
            /\ UNCHANGED <<future, called, replies, verdict, reported>>
  /\ UNCHANGED <<received, kind, inserted, gen, main, sweep, shutdown>>

-----------------------------------------------------------------------------
(* Generators (_run_generator).                                             *)

LeaveMain(j) == main' = IF OnMain(j) THEN Idle ELSE main

\* add_done_callback, and the first call of _run_generator: it does nothing
\* if another thread has cancelled the future already.
StartGenerator(j) ==
  /\ main = [at |-> "registered", on |-> Main(j)]
  /\ kind[Main(j)] = "generator"
  /\ IF future[Main(j)] = "cancelled"
       THEN /\ called' = called \cup {Main(j)}
            /\ FinishJob(j, "cancelled")
            /\ gen' = [gen EXCEPT ![j] = "closed"]
            /\ main' = Idle
       ELSE /\ gen' = [gen EXCEPT ![j] = "running"]
            /\ main' = [main EXCEPT !.at = "generator"]
            /\ UNCHANGED <<called, outVars>>
  /\ UNCHANGED <<received, kind, future, cancelling, inserted, sweep, shutdown, asked>>

\* Kinds of user handlers j's generator may find, "none" included.
UserKinds(j) == IF j = Shutdown THEN ShutdownKinds
                ELSE IF j = Exit THEN ExitKinds ELSE SubKinds

\* Mutant: the failure of the handler is not passed on.
ResumeWithoutFailure(f, c, j, out) == future' = f /\ called' = c /\ UNCHANGED outVars

\* The callback of the handler j's generator yielded to, which ended with
\* out: the generator is dropped if its own future was cancelled, a failure
\* becomes the job's failure, a result is sent into the generator.  An
\* asyncio.CancelledError is no Exception, so it escapes the callback.
ResumeWith(f, c, j, out) ==
  IF out = "error" \/ (out = "cancelled" /\ kind[Sub(j)] = "thread")
    THEN SettleUnlessDone(f, c, j, "error")
    ELSE future' = f /\ called' = c /\ UNCHANGED outVars

Resumes(f, j, out) == f[Main(j)] # "cancelled" /\ out = "result"

Resume(f, j, out) ==
  /\ ResumeWith(f, called \cup {Sub(j)}, j, out)
  /\ gen' = [gen EXCEPT ![j] = IF Resumes(f, j, out) THEN "running" ELSE "closed"]

\* The main thread runs the callback and stays in the generator.
ResumeOnMain(f, j, out) ==
  /\ Resume(f, j, out)
  /\ main' = IF Resumes(f, j, out) THEN [at |-> "generator", on |-> Main(j)]
                                   ELSE Idle

\* The generator yields to a user handler from its first part, which always
\* runs on the main thread.
Yields(j, k) ==
  /\ k \in UserKinds(j)
  /\ gen[j] = "running" /\ OnMain(j)
  /\ kind[Sub(j)] = "none"
  /\ sweep.phase = "off" \/ j # Shutdown
  /\ kind' = [kind EXCEPT ![Sub(j)] = k]
  /\ UNCHANGED <<received, cancelling, sweep, shutdown, asked>>

YieldSync(j) ==
  /\ Yields(j, "sync")
  /\ \E out \in {"result", "error"} :
       ResumeOnMain([future EXCEPT ![Sub(j)] = out], j, out)
  /\ UNCHANGED inserted

YieldAsync(j) ==
  /\ Yields(j, "async")
  /\ future' = [future EXCEPT ![Sub(j)] = "pending"]
  /\ Register(Sub(j))
  /\ gen' = [gen EXCEPT ![j] = "waiting"]
  /\ main' = Idle
  /\ UNCHANGED <<called, replies, verdict, reported>>

YieldThread(j) ==
  /\ Yields(j, "thread")
  /\ future' = [future EXCEPT ![Sub(j)] = "pending"]
  /\ gen' = [gen EXCEPT ![j] = "waiting"]
  /\ main' = [at |-> "submitted", on |-> Sub(j)]
  /\ UNCHANGED <<called, rank, inserted, replies, verdict, reported>>

\* The generator has what it waited for and is in its last part.
LastPart(j) == gen[j] = "running" /\ (kind[Sub(j)] # "none" \/ "none" \in UserKinds(j))

\* StopIteration, or an exception, also from the first part.  In the first
\* part an InvalidStateError escapes to _handle_request, which answers again.
\* lsp_exit returns if closing its writer needs the event loop, which calls
\* sys.exit later, and fails if a worker has no loop to do so.
GenReturn(j) ==
  /\ j # Shutdown
  /\ gen[j] = "running"
  /\ j = Exit => LastPart(j)
  /\ \E out \in Done \ {"cancelled"} :
       /\ LastPart(j) \/ out = "error"
       /\ j = Exit => out = "error" \/ (out = "result" /\ OnMain(j))
       /\ IF kind[Sub(j)] = "none" /\ future[Main(j)] \in Done
            THEN DispatchError(j) /\ UNCHANGED <<future, called>>
            ELSE SettleUnlessDone(future, called, j, out)
  /\ gen' = [gen EXCEPT ![j] = "closed"]
  /\ LeaveMain(j)
  /\ UNCHANGED <<received, kind, cancelling, inserted, sweep, shutdown, asked>>

\* sys.exit in lsp_exit.  SystemExit is no Exception: nothing on the way out
\* of the generator catches it.  On the main thread it ends the event loop, on
\* a worker only what the worker was doing.
SystemExit ==
  /\ LastPart(Exit)
  /\ gen' = [gen EXCEPT ![Exit] = "closed"]
  /\ main' = IF OnMain(Exit) THEN Exited ELSE main
  /\ UNCHANGED <<received, kind, future, cancelling, called, inserted, sweep,
                 shutdown, asked, outVars>>

\* The writer that lsp_exit began to close is closed: its task's callback
\* calls sys.exit.
WriterClosed ==
  /\ main.at = "idle"
  /\ future[Main(Exit)] = "result"
  /\ main' = Exited
  /\ UNCHANGED <<received, kind, future, cancelling, called, inserted, gen, sweep,
                 shutdown, asked, outVars>>

-----------------------------------------------------------------------------
(* lsp_shutdown, after its user handler: a loop over `_request_futures` in  *)
(* insertion order, by the main thread or by the worker that ran a threaded *)
(* user handler.                                                            *)

SweepBegin ==
  /\ LastPart(Shutdown)
  /\ sweep.phase = "off"
  /\ sweep' = [phase |-> "on", cursor |-> 0, size |-> Cardinality(Registered),
                left |-> Cardinality(Registered)]
  /\ UNCHANGED <<received, kind, future, cancelling, called, rank, inserted, gen,
                 main, shutdown, asked, replies, verdict, reported>>

\* The dictionary has changed size, or has a key more to visit than expected.
DictChanged ==
  \/ Cardinality(Registered) # sweep.size
  \/ sweep.left = 0 /\ \E k \in Id : rank[k] > sweep.cursor

\* i is the next key of the iteration.
SweepNext(i) ==
  /\ sweep.phase = "on"
  /\ ~DictChanged
  /\ rank[i] > sweep.cursor
  /\ \A k \in Id : rank[k] > sweep.cursor => rank[i] <= rank[k]
  /\ sweep' = [sweep EXCEPT !.cursor = rank[i], !.left = @ - 1]
  /\ UNCHANGED <<received, kind, inserted, shutdown, asked>>

\* Mutant: every threaded handler is spared, those still queued too.
SparedThreads(i) ==
  \/ i = Main(Shutdown) /\ OnMain(Shutdown)
  \/ future[i] \in Done
  \/ kind[i] = "thread"

\* The context variable that holds the current request's id is only set on
\* the main thread: a worker does not recognise its own request.
Spared(i) ==
  \/ i = Main(Shutdown) /\ OnMain(Shutdown)
  \/ future[i] \in Done
  \/ kind[i] = "thread" /\ future[i] = "running"

SweepSkip(i) ==
  /\ SweepNext(i)
  /\ Spared(i)
  /\ UNCHANGED <<future, cancelling, called, gen, main, outVars>>

\* Mutant: coroutines are left alone.
SweepTaskNoCancel(i) ==
  /\ SweepNext(i)
  /\ ~Spared(i) /\ kind[i] = "async"
  /\ UNCHANGED <<future, cancelling, called, gen, main, outVars>>

SweepTask(i) ==
  /\ SweepNext(i)
  /\ ~Spared(i) /\ kind[i] = "async"
  /\ cancelling' = cancelling \cup {i}
  /\ UNCHANGED <<future, called, gen, main, outVars>>

\* cancel() succeeds on a pending Future and runs its callback at once, or,
\* if the main thread has yet to attach the callback, leaves it to that.
SweepFuture(i) ==
  LET j == i[1] IN
  /\ SweepNext(i)
  /\ ~Spared(i) /\ kind[i] # "async"
  /\ \/ /\ ~Attached(i)
        /\ future' = [future EXCEPT ![i] = "cancelled"]
        /\ UNCHANGED <<called, gen, outVars>>
     \/ /\ Attached(i) /\ i = Main(j)
        /\ Settle(future, called, j, "cancelled")
        /\ UNCHANGED gen
     \/ /\ Attached(i) /\ i = Sub(j)
        /\ Resume([future EXCEPT ![i] = "cancelled"], j, "cancelled")
  /\ UNCHANGED <<cancelling, main>>

\* lsp_shutdown ends, and with it the generator.
EndShutdown(out) ==
  /\ SettleUnlessDone(future, called, Shutdown, out)
  /\ gen' = [gen EXCEPT ![Shutdown] = "closed"]
  /\ LeaveMain(Shutdown)
  /\ sweep' = [NoSweep EXCEPT !.phase = "over"]
  /\ UNCHANGED <<received, kind, cancelling, inserted, asked>>

\* RuntimeError: dictionary changed size (or keys changed) during iteration.
SweepError ==
  /\ sweep.phase = "on"
  /\ DictChanged
  /\ EndShutdown("error")
  /\ UNCHANGED shutdown

SweepEnd ==
  /\ sweep.phase = "on"
  /\ ~DictChanged
  /\ \A k \in Id : rank[k] <= sweep.cursor
  /\ sweep' = [sweep EXCEPT !.phase = "end"]
  /\ UNCHANGED <<received, kind, future, cancelling, called, rank, inserted, gen,
                 main, shutdown, asked, replies, verdict, reported>>

ShutdownReturn ==
  /\ sweep.phase = "end"
  /\ shutdown' = TRUE
  /\ EndShutdown("result")

-----------------------------------------------------------------------------
(* Coroutine handlers, stepped by the event loop on the main thread.        *)

\* A "sub" handler's value goes into the generator, it is not encoded.
Outcomes(i) ==
  IF i = Sub(i[1]) THEN {"result", "error"} ELSE {"result", "unsendable", "error"}

TaskStart(i) ==
  /\ main.at = "idle"
  /\ kind[i] = "async" /\ future[i] = "pending"
  /\ future' = [future EXCEPT
                  ![i] = IF i \in cancelling THEN "cancelled" ELSE "running"]
  /\ UNCHANGED <<received, kind, cancelling, called, inserted, gen, main, sweep,
                 shutdown, asked, outVars>>

\* A coroutine may handle its CancelledError and end in another way.
TaskEnd(i) ==
  /\ main.at = "idle"
  /\ kind[i] = "async" /\ future[i] = "running"
  /\ \E out \in Outcomes(i) \cup (IF i \in cancelling THEN {"cancelled"} ELSE {}) :
       future' = [future EXCEPT ![i] = out]
  /\ UNCHANGED <<received, kind, cancelling, called, inserted, gen, main, sweep,
                 shutdown, asked, outVars>>

\* The done callback of i's future, run by the main thread.
CallbackOnMain(i) ==
  LET j == i[1] IN
  \/ /\ i = Main(j)
     /\ called' = called \cup {i}
     /\ FinishJob(j, future[i])
     /\ main' = Idle
     /\ UNCHANGED <<future, gen>>
  \/ /\ i = Sub(j)
     /\ ResumeOnMain(future, j, future[i])

TaskCallback(i) ==
  /\ main.at = "idle"
  /\ kind[i] = "async" /\ future[i] \in Done /\ i \notin called
  /\ CallbackOnMain(i)
  /\ UNCHANGED <<received, kind, cancelling, inserted, sweep, shutdown, asked>>

-----------------------------------------------------------------------------
(* Threaded handlers: the rest of their dispatch, and the pool workers.     *)

RegisterThread ==
  /\ main.at = "submitted"
  /\ Register(main.on)
  /\ main' = [main EXCEPT !.at = "registered"]
  /\ UNCHANGED <<received, kind, future, cancelling, called, gen, sweep, shutdown,
                 asked, replies, verdict, reported>>

\* add_done_callback runs the callback itself if the future is done already.
AttachThread ==
  /\ main.at = "registered" /\ kind[main.on] = "thread"
  /\ IF future[main.on] \in Done
       THEN CallbackOnMain(main.on)
       ELSE main' = Idle /\ UNCHANGED <<future, called, gen, outVars>>
  /\ UNCHANGED <<received, kind, cancelling, inserted, sweep, shutdown, asked>>

ThreadStart(i) ==
  /\ kind[i] = "thread" /\ future[i] = "pending"
  /\ Busy < MaxWorkers
  /\ future' = [future EXCEPT ![i] = "running"]
  /\ UNCHANGED <<received, kind, cancelling, called, inserted, gen, main, sweep,
                 shutdown, asked, outVars>>

ThreadEnd(i) ==
  /\ kind[i] = "thread" /\ future[i] = "running"
  /\ \E out \in Outcomes(i) : future' = [future EXCEPT ![i] = out]
  /\ UNCHANGED <<received, kind, cancelling, called, inserted, gen, main, sweep,
                 shutdown, asked, outVars>>

\* The worker that completed the future runs its callback.
ThreadCallback(i) ==
  LET j == i[1] IN
  /\ kind[i] = "thread" /\ future[i] \in Done /\ i \notin called
  /\ Attached(i)
  /\ \/ /\ i = Main(j)
        /\ called' = called \cup {i}
        /\ FinishJob(j, future[i])
        /\ UNCHANGED <<future, gen>>
     \/ /\ i = Sub(j)
        /\ Resume(future, j, future[i])
  /\ UNCHANGED <<received, kind, cancelling, inserted, main, sweep, shutdown, asked>>

-----------------------------------------------------------------------------

Receive(j) ==
  \/ HandleUnknownMethod(j)
  \/ HandleSync(j)
  \/ HandleAsync(j)
  \/ HandleThread(j)
  \/ HandleGenerator(j)

Generator(j) ==
  \/ StartGenerator(j)
  \/ YieldSync(j)
  \/ YieldAsync(j)
  \/ YieldThread(j)
  \/ GenReturn(j)

Task(i) == TaskStart(i) \/ TaskEnd(i) \/ TaskCallback(i)

Worker(i) == ThreadStart(i) \/ ThreadEnd(i) \/ ThreadCallback(i)

ExitStep == SystemExit \/ WriterClosed

ShutdownStep ==
  \/ SweepBegin
  \/ \E i \in Id : SweepSkip(i) \/ SweepTask(i) \/ SweepFuture(i)
  \/ SweepError
  \/ SweepEnd
  \/ ShutdownReturn

Next ==
  \/ \E j \in Jobs : Receive(j)
  \/ \E r \in RequestJobs : Cancel(r)
  \/ \E j \in Jobs : Generator(j)
  \/ \E i \in Id : Task(i) \/ Worker(i)
  \/ RegisterThread
  \/ AttachThread
  \/ ShutdownStep
  \/ ExitStep

Spec == Init /\ [][Next]_vars

\* Every thread keeps running and every handler ends, until `exit` ends the
\* main thread; the client is free to send nothing.
Fairness ==
  /\ WF_vars(RegisterThread) /\ WF_vars(AttachThread) /\ WF_vars(ShutdownStep)
  /\ WF_vars(ExitStep)
  /\ \A j \in Jobs : WF_vars(Generator(j))
  /\ \A i \in Id : WF_vars(Task(i)) /\ WF_vars(Worker(i))

FairSpec == Spec /\ Fairness

-----------------------------------------------------------------------------
(* Properties.                                                              *)

\* The user's `shutdown` handler is threaded: the rest of lsp_shutdown then
\* runs on a worker beside the main thread.
ThreadedShutdown == kind[Sub(Shutdown)] = "thread"

\* _send_response is called at most once for a request, whatever the order in
\* which its handler ends, its callback runs, the client cancels it and
\* lsp_shutdown cancels it (_send_handler_result, _handle_cancel_notification),
\* as long as lsp_shutdown runs on the main thread.
AtMostOneReply ==
  ~ThreadedShutdown => \A r \in RequestJobs : replies[r] <= 1

\* Once a request is answered its future is out of `_request_futures` for
\* good, although a threaded handler may end before the main thread has put
\* the future in (_execute_handler against _send_handler_result).
AnsweredIsDeregistered ==
  \A r \in RequestJobs : replies[r] > 0 => Main(r) \notin Registered

\* A client gets "request cancelled" only for a request it has cancelled, or
\* once lsp_shutdown has begun to cancel what is in flight.
CancelledOnlyIfAsked ==
  \A r \in RequestJobs :
    verdict[r] = "cancelled" => r \in asked \/ sweep.phase # "off"

\* A generator is never dropped while the future of its job is pending: it
\* would stay unanswered (the early return and the CancelledError that
\* escapes in _run_generator).  lsp_exit, which answers nobody, is dropped by
\* its own sys.exit.
NoOrphanedGenerator ==
  \A j \in Jobs \ {Exit} : gen[j] = "closed" => future[Main(j)] \in Done

\* When `_shutdown` is set, what is still registered is done, or is a
\* coroutine about to get its CancelledError, or is a threaded handler too
\* late to stop (lsp_shutdown, run on the main thread).  Only what belongs to
\* `exit`, which is served after a shutdown, may be pending.
ShutdownIsComplete ==
  shutdown /\ ~ThreadedShutdown =>
              \A i \in Registered :
                \/ i[1] = Exit
                \/ future[i] \in Done
                \/ i \in cancelling
                \/ kind[i] = "thread" /\ future[i] = "running"

\* Once `_shutdown` is set no code starts that does not serve `exit`: neither
\* a handler that was queued in the pool or in the event loop, nor a generator
\* that waited (lsp_shutdown, run on the main thread; handle_message, which
\* lets `exit` through, and with it lsp_exit and the user's handler for it).
NoStartAfterShutdown ==
  [][shutdown /\ ~ThreadedShutdown =>
       /\ \A i \in Id :
            i[1] # Exit /\ future'[i] = "running" => future[i] = "running"
       /\ \A j \in Jobs \ {Exit} :
            gen'[j] = "running" => gen[j] = "running"]_vars

\* What became of a request.  For one whose result cannot be encoded nothing
\* has left the server.
Status(r) ==
  IF r \notin received THEN "new"
  ELSE IF replies[r] = 0 THEN "open"
  ELSE IF replies[r] > 1 THEN "answered twice"
  ELSE IF verdict[r] = "unsendable" THEN "dropped"
  ELSE verdict[r]

Stage == IF main.at = "exited" THEN "exited"
         ELSE IF shutdown THEN "stopped"
         ELSE IF sweep.phase = "off" THEN "serving" ELSE "draining"

Contract == INSTANCE RequestContract
              WITH Reqs <- RequestJobs,
                   status <- [r \in RequestJobs |-> Status(r)],
                   unwanted <- asked,
                   stage <- Stage

\* The threads, futures and callbacks implement what RequestContract promises
\* of the requests, including that each is settled in the end: it is answered,
\* or dropped because _send_data cannot encode its result (it then only
\* reports the error), or the process exits first.
ImplementsContract == Contract!FairSpec

-----------------------------------------------------------------------------
(* The inductive invariant.  FutureInv holds wherever lsp_shutdown runs,    *)
(* MainThreadInv if it runs on the main thread.                             *)

\* Nothing is known of a message that has not been dispatched.
Fresh ==
  \A j \in Jobs \ received :
    /\ kind[Main(j)] = "none" /\ kind[Sub(j)] = "none" /\ gen[j] = "none"
    /\ j \in RequestJobs => replies[j] = 0

\* A future exists once its handler has been started, a callback has run only
\* if its future is done.
FutureLife ==
  /\ \A i \in Id : kind[i] = "none" => future[i] = "none"
  /\ \A i \in Id : kind[i] \in {"none", "sync"} => rank[i] = 0
  /\ \A i \in called : kind[i] # "none" /\ future[i] \in Done

\* Only a generator has a generator's life, and it waits exactly until the
\* callback of the handler it yielded to has run.  What settles its future up
\* to then is a cancellation.
GeneratorWaits ==
  \A j \in Jobs :
    /\ gen[j] # "none" => kind[Main(j)] = "generator"
    /\ kind[Sub(j)] # "none" => gen[j] # "none"
    /\ kind[Sub(j)] # "generator" /\ kind[Main(j)] # "sync"
    /\ kind[Main(j)] = "generator" => future[Main(j)] \in Done \cup {"pending"}
    /\ kind[Sub(j)] # "none" /\ Sub(j) \notin called => gen[j] = "waiting"
    /\ \/ gen[j] = "waiting"
       \/ gen[j] = "running" /\ kind[Sub(j)] = "none"
       => future[Main(j)] \in {"pending", "cancelled"}
    /\ future[Sub(j)] # "unsendable"
    /\ gen[j] # "none" /\ future[Main(j)] \in Done => Main(j) \in called

\* The main thread is between submit and add_done_callback; a worker that runs
\* lsp_shutdown may cancel what is registered by then.
Attaching ==
  main.at \in {"submitted", "registered"} =>
    /\ main.on \notin called
    /\ main.at = "submitted" => kind[main.on] = "thread" /\ rank[main.on] = 0
    /\ \/ kind[main.on] = "thread"
       \/ /\ kind[main.on] = "generator"
          /\ future[main.on] \in {"pending", "cancelled"}
          /\ \E j \in Jobs : main.on = Main(j) /\ gen[j] = "none"

\* A request is answered by a callback, or has no future, and its callback
\* takes the future out of `_request_futures`.
AnsweredByCallback ==
  \A r \in RequestJobs :
    /\ replies[r] > 0 => kind[Main(r)] = "none" \/ Main(r) \in called
    /\ Main(r) \in called => rank[Main(r)] = 0

\* What was never registered, or is no longer, needs no cancellation.
UnregisteredIsOver ==
  \A i \in Id : rank[i] = 0 =>
    /\ kind[i] = "generator" => future[i] \in Done
    /\ kind[i] = "async" => future[i] \in Done \/ i \in cancelling
    /\ kind[i] = "thread" /\ future[i] = "pending" => main = [at |-> "submitted", on |-> i]

\* The keys of `_request_futures` have an order; a generator's comes before
\* that of the handler it yields to.
InsertionOrder ==
  /\ \A i \in Id : rank[i] <= inserted
  /\ \A i, k \in Id : rank[i] = rank[k] /\ rank[i] > 0 => i = k
  /\ \A j \in Jobs : rank[Sub(j)] > 0 => rank[Main(j)] < rank[Sub(j)]
  /\ sweep.cursor <= inserted

\* The loop of lsp_shutdown has cancelled every generator it has passed.
Sweeping ==
  /\ sweep.phase \in {"on", "end"} => gen[Shutdown] = "running"
  /\ sweep.phase = "on" =>
       \A j \in Jobs \ {Shutdown} :
         kind[Main(j)] = "generator" /\ rank[Main(j)] <= sweep.cursor =>
           future[Main(j)] \in Done

\* A handler a generator waits for is cancelled only after the generator.
CancelledInOrder ==
  /\ \A i \in cancelling : kind[i] = "async"
  /\ \A j \in Jobs :
       Sub(j) \in cancelling \/ (kind[Sub(j)] = "async" /\ future[Sub(j)] = "cancelled")
         => future[Main(j)] \in Done

\* Whatever is cancelled is cancelled by the client or by lsp_shutdown.
CancelledForAReason ==
  \A r \in RequestJobs :
    \/ verdict[r] = "cancelled"
    \/ future[Main(r)] = "cancelled"
    \/ Main(r) \in cancelling
    => r \in asked \/ sweep.phase # "off"

FutureInv ==
  /\ TypeOK
  /\ Fresh
  /\ FutureLife
  /\ GeneratorWaits
  /\ Attaching
  /\ AnsweredByCallback
  /\ UnregisteredIsOver
  /\ InsertionOrder
  /\ Sweeping
  /\ CancelledInOrder
  /\ CancelledForAReason
  /\ NoOrphanedGenerator

\* No request is answered twice.
RepliedOnce == \A r \in RequestJobs : replies[r] <= 1

\* The first part of a generator runs on the main thread, and a generator the
\* main thread runs, or is about to, is still wanted.
RunningIsOpen ==
  /\ \A j \in Jobs : gen[j] = "running" =>
       /\ kind[Sub(j)] = "none" => OnMain(j)
       /\ OnMain(j) => future[Main(j)] \notin Done
  /\ main.at = "registered" => kind[main.on] = "thread" \/ future[main.on] \notin Done

\* lsp_shutdown runs on the main thread, unless its user handler is threaded.
ShutdownOnMain ==
  /\ kind[Sub(Shutdown)] # "thread"
  /\ gen[Shutdown] = "running" => OnMain(Shutdown)

\* What the loop of lsp_shutdown has passed is cancelled or too late to cancel,
\* nothing is registered behind its back, and once `_shutdown` is set the main
\* thread dispatches nothing but `exit`.
Stopped(i) ==
  \/ future[i] \in Done
  \/ i \in cancelling
  \/ kind[i] = "thread" /\ future[i] = "running"

OnlyExit == main.at \in {"idle", "exited"} \/ main.on[1] = Exit

SweptIsStopped ==
  /\ sweep.phase \in {"on", "end"} =>
       \A i \in Registered :
         rank[i] <= sweep.cursor => Stopped(i) \/ i = Main(Shutdown)
  /\ sweep.phase = "end" => \A i \in Id : rank[i] <= sweep.cursor
  /\ shutdown => OnlyExit /\ \A i \in Registered : Stopped(i) \/ i[1] = Exit

MainThreadInv ==
  /\ RepliedOnce
  /\ RunningIsOpen
  /\ ShutdownOnMain
  /\ SweptIsStopped

ProtocolInv == FutureInv /\ (~ThreadedShutdown => MainThreadInv)

-----------------------------------------------------------------------------
(* What the tests of the repository say, and the code does not do.          *)

\* A shutdown request that nobody cancelled and whose user handler did not
\* fail is answered with its result (lsp_shutdown, and the tests, which
\* expect None).
ShutdownSucceeds ==
  verdict[Shutdown] = "error" => future[Sub(Shutdown)] = "error"

=============================================================================
