----------------------------- MODULE StdioPool -----------------------------
(***************************************************************************)
(* The stdio server's thread pool.  It runs the threaded handlers, and it  *)
(* runs the reads of stdin too: StdinAsyncReader hands each readline and   *)
(* read to the executor, where it holds a worker until there is input.     *)
(* The main loop waits for the read, handles the message, and asks for the *)
(* next read.                                                              *)
(*                                                                         *)
(* A handler here sends a request to the client and blocks on .result(),   *)
(* the documented way for threaded functions.  The several reads of one    *)
(* message are taken as one.                                               *)
(***************************************************************************)
EXTENDS Naturals, Sequences, FiniteSets

CONSTANTS
  Handlers,     \* threaded handlers that may be under way at the same time
  Read,         \* the work item of a read
  MaxWorkers    \* size of the pool

ASSUME PoolAssumption ==
  /\ Read \notin Handlers
  /\ IsFiniteSet(Handlers)
  /\ MaxWorkers \in Nat \ {0}

VARIABLES
  stdin,    \* messages the client has written: what they ask of which handler
  main,     \* what the main loop does
  queue,    \* the pool's work queue
  active,   \* items the workers are running
  handler,  \* [Handlers -> where the handler is]
  results   \* blocked handlers whose response has been handled

vars == <<stdin, main, queue, active, handler, results>>

Message == {"call", "response"} \X Handlers

TypeOK ==
  /\ stdin \in Seq(Message)
  /\ main \in {<<"ready">>, <<"reading">>} \cup Message
  /\ queue \in Seq(Handlers \cup {Read})
  /\ active \subseteq Handlers \cup {Read}
  /\ handler \in [Handlers -> {"none", "called", "queued", "running", "blocked",
                               "answered", "done"}]
  /\ results \subseteq Handlers

Init ==
  /\ stdin = <<>>
  /\ main = <<"ready">>
  /\ queue = <<>>
  /\ active = {}
  /\ handler = [h \in Handlers |-> "none"]
  /\ results = {}

Put(h, place) == handler' = [handler EXCEPT ![h] = place]

-----------------------------------------------------------------------------
(* The client calls handlers, again and again, and answers their requests.  *)

ClientCalls(h) ==
  /\ handler[h] \in {"none", "done"}
  /\ Put(h, "called")
  /\ stdin' = Append(stdin, <<"call", h>>)
  /\ UNCHANGED <<main, queue, active, results>>

ClientAnswers(h) ==
  /\ handler[h] = "blocked"
  /\ Put(h, "answered")
  /\ stdin' = Append(stdin, <<"response", h>>)
  /\ UNCHANGED <<main, queue, active, results>>

-----------------------------------------------------------------------------
(* The main loop (run_async).                                               *)

\* await reader.readline(): run_in_executor puts the read in the queue.
SubmitRead ==
  /\ main = <<"ready">>
  /\ main' = <<"reading">>
  /\ queue' = Append(queue, Read)
  /\ UNCHANGED <<stdin, active, handler, results>>

\* A worker's read returns with a message.
ReadReturns ==
  /\ Read \in active
  /\ stdin # <<>>
  /\ main' = Head(stdin)
  /\ stdin' = Tail(stdin)
  /\ active' = active \ {Read}
  /\ UNCHANGED <<queue, handler, results>>

\* handle_message: a call is submitted to the pool ...
HandleCall(h) ==
  /\ main = <<"call", h>>
  /\ main' = <<"ready">>
  /\ queue' = Append(queue, h)
  /\ Put(h, "queued")
  /\ UNCHANGED <<stdin, active, results>>

\* ... and a response resolves the future the handler waits for.
HandleAnswer(h) ==
  /\ main = <<"response", h>>
  /\ main' = <<"ready">>
  /\ results' = results \cup {h}
  /\ UNCHANGED <<stdin, queue, active, handler>>

-----------------------------------------------------------------------------
(* The workers.                                                             *)

\* Mutant: one worker of the pool is never used.
TakeSparingOne ==
  /\ queue # <<>>
  /\ Cardinality(active) + 1 < MaxWorkers
  /\ queue' = Tail(queue)
  /\ active' = active \cup {Head(queue)}
  /\ handler' = [h \in Handlers |-> IF h = Head(queue) THEN "running" ELSE handler[h]]
  /\ UNCHANGED <<stdin, main, results>>

\* A free worker takes the oldest item.
Take ==
  /\ queue # <<>>
  /\ Cardinality(active) < MaxWorkers
  /\ queue' = Tail(queue)
  /\ active' = active \cup {Head(queue)}
  /\ handler' = [h \in Handlers |-> IF h = Head(queue) THEN "running" ELSE handler[h]]
  /\ UNCHANGED <<stdin, main, results>>

\* send_request(...).result()
Block(h) ==
  /\ handler[h] = "running"
  /\ Put(h, "blocked")
  /\ UNCHANGED <<stdin, main, queue, active, results>>

Unblock(h) ==
  /\ h \in results /\ h \in active
  /\ Put(h, "done")
  /\ active' = active \ {h}
  /\ results' = results \ {h}
  /\ UNCHANGED <<stdin, main, queue>>

-----------------------------------------------------------------------------

MainLoop == SubmitRead \/ \E h \in Handlers : HandleCall(h) \/ HandleAnswer(h)

Next ==
  \/ MainLoop
  \/ ReadReturns
  \/ Take
  \/ \E h \in Handlers : ClientCalls(h) \/ ClientAnswers(h) \/ Block(h) \/ Unblock(h)

Spec == Init /\ [][Next]_vars

\* The main thread and the workers keep running, and the client answers the
\* requests it gets; it need not call anything.
Fairness ==
  /\ WF_vars(MainLoop) /\ WF_vars(ReadReturns) /\ WF_vars(Take)
  /\ \A h \in Handlers : WF_vars(Block(h)) /\ WF_vars(Unblock(h)) /\ WF_vars(ClientAnswers(h))

FairSpec == Spec /\ Fairness

-----------------------------------------------------------------------------
(* Properties.                                                              *)

\* "Threaded functions can be used to run blocking operations": each time the
\* client calls a handler, it comes to its end.  This holds while the pool has
\* a worker more than handlers block at a time, since StdinAsyncReader shares
\* it, and fails from then on.
BlockingHandlersEnd ==
  \A h \in Handlers : handler[h] = "called" ~> handler[h] = "done"

=============================================================================
