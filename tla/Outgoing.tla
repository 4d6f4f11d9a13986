------------------------------ MODULE Outgoing ------------------------------
(***************************************************************************)
(* The requests this endpoint sends: send_request, send_request_async, the *)
(* `_request_futures` and `_result_types` they fill, and the client's      *)
(* responses, which structure_message and _handle_response match with      *)
(* them.                                                                   *)
(*                                                                         *)
(* send_request may run in any thread, responses are handled by the main   *)
(* thread.  Message ids are fresh (uuid4), so a call stands for its id.    *)
(* An asynchronous call runs on the main thread and awaits an asyncio      *)
(* future chained to the concurrent one: completion and cancellation pass  *)
(* from one to the other in later steps of the event loop.                 *)
(***************************************************************************)
EXTENDS Naturals

CONSTANTS
  Calls,        \* calls of send_request and send_request_async
  AsyncCalls,   \* those of send_request_async
  Answers,      \* kinds of responses the client sends
  MaxAnswers    \* bound on the number of responses to one request

ASSUME CallsAssumption == AsyncCalls \subseteq Calls

\* A "malformed" response is one the converter cannot structure.
ASSUME AnswersAssumption ==
  /\ Answers \subseteq {"result", "error", "malformed"}
  /\ MaxAnswers \in Nat

Done == {"result", "error", "cancelled"}

VARIABLES
  pc,          \* [Calls -> how far send_request has come]
  future,      \* [Calls -> state of the concurrent Future it returns]
  awaited,     \* [Calls -> state of the asyncio future around it]
  registered,  \* calls in `_request_futures`
  typed,       \* calls in `_result_types`
  wire,        \* responses the client has sent and we have not read
  answers,     \* [Calls -> number of responses the client has sent]
  handled,     \* responses that were read
  reported,    \* calls for which reading a response failed
  stopping     \* `_shutdown`

vars == <<pc, future, awaited, registered, typed, wire, answers, handled,
          reported, stopping>>

TypeOK ==
  /\ pc \in [Calls -> {"start", "registered", "typed", "sent", "unsendable"}]
  /\ future \in [Calls -> {"none", "pending"} \cup Done]
  /\ awaited \in [Calls -> {"none", "pending"} \cup Done]
  /\ registered \subseteq Calls
  /\ typed \subseteq Calls
  /\ wire \subseteq Calls \X Answers
  /\ answers \in [Calls -> 0 .. MaxAnswers]
  /\ handled \subseteq Calls \X Answers
  /\ reported \subseteq Calls
  /\ stopping \in BOOLEAN

Init ==
  /\ pc = [c \in Calls |-> "start"]
  /\ future = [c \in Calls |-> "none"]
  /\ awaited = [c \in Calls |-> "none"]
  /\ registered = {}
  /\ typed = {}
  /\ wire = {}
  /\ answers = [c \in Calls |-> 0]
  /\ handled = {}
  /\ reported = {}
  /\ stopping = FALSE

-----------------------------------------------------------------------------
(* send_request: the bookkeeping comes before the message goes out.         *)

RegisterFuture(c) ==
  /\ pc[c] = "start"
  /\ pc' = [pc EXCEPT ![c] = "registered"]
  /\ future' = [future EXCEPT ![c] = "pending"]
  /\ registered' = registered \cup {c}
  /\ UNCHANGED <<awaited, typed, wire, answers, handled, reported, stopping>>

RecordType(c) ==
  /\ pc[c] = "registered"
  /\ pc' = [pc EXCEPT ![c] = "typed"]
  /\ typed' = typed \cup {c}
  /\ UNCHANGED <<future, awaited, registered, wire, answers, handled, reported, stopping>>

\* _send_data.  Parameters that cannot be encoded are reported, and the
\* caller gets its future all the same.  wrap_future follows at once.
Send(c) ==
  /\ pc[c] = "typed"
  /\ \/ pc' = [pc EXCEPT ![c] = "sent"] /\ UNCHANGED reported
     \/ pc' = [pc EXCEPT ![c] = "unsendable"] /\ reported' = reported \cup {c}
  /\ awaited' = IF c \in AsyncCalls THEN [awaited EXCEPT ![c] = "pending"] ELSE awaited
  /\ UNCHANGED <<future, registered, typed, wire, answers, handled, stopping>>

-----------------------------------------------------------------------------
(* The client answers, usually once.                                        *)

Respond(c, a) ==
  /\ pc[c] = "sent"
  /\ answers[c] < MaxAnswers
  /\ answers' = [answers EXCEPT ![c] = @ + 1]
  /\ wire' = wire \cup {<<c, a>>}
  /\ UNCHANGED <<pc, future, awaited, registered, typed, handled, reported, stopping>>

\* structure_message: the type of the result is used up by any response that
\* is not an error.
StructureMessage(c, a) ==
  typed' = IF a = "error" THEN typed ELSE typed \ {c}

\* Mutant: an error response is dropped once its future is popped.
HandleResponseDropsErrors(c, a) ==
  /\ registered' = registered \ {c}
  /\ future' = IF c \in registered /\ future[c] = "pending" /\ a = "result"
                 THEN [future EXCEPT ![c] = a] ELSE future
  /\ UNCHANGED reported

\* The future registered for the response is popped, then completed.  If it
\* is done already, set_result raises and the main loop reports that.
HandleResponse(c, a) ==
  /\ registered' = registered \ {c}
  /\ IF c \in registered /\ future[c] = "pending"
       THEN future' = [future EXCEPT ![c] = a] /\ UNCHANGED reported
       ELSE /\ reported' = IF c \in registered THEN reported \cup {c} ELSE reported
            /\ UNCHANGED future

\* One round of the main loop: json.loads, which structures the message, and
\* handle_message.
Receive(c, a) ==
  /\ <<c, a>> \in wire
  /\ wire' = wire \ {<<c, a>>}
  /\ handled' = handled \cup {<<c, a>>}
  /\ StructureMessage(c, a)
  /\ \/ /\ a = "malformed"
        /\ reported' = reported \cup {c}
        /\ UNCHANGED <<future, registered>>
     \/ /\ a # "malformed" /\ stopping
        /\ UNCHANGED <<future, registered, reported>>
     \/ /\ a # "malformed" /\ ~stopping
        /\ HandleResponse(c, a)
  /\ UNCHANGED <<pc, awaited, answers, stopping>>

-----------------------------------------------------------------------------
(* The chain between the two futures of an asynchronous call.               *)

\* The awaiting coroutine is cancelled.
CancelAwait(c) ==
  /\ awaited[c] = "pending"
  /\ awaited' = [awaited EXCEPT ![c] = "cancelled"]
  /\ UNCHANGED <<pc, future, registered, typed, wire, answers, handled, reported, stopping>>

\* Mutant: a cancelled call is taken out of `_request_futures`.
PropagateCancelForgets(c) ==
  /\ awaited[c] = "cancelled" /\ future[c] = "pending"
  /\ future' = [future EXCEPT ![c] = "cancelled"]
  /\ registered' = registered \ {c}
  /\ UNCHANGED <<pc, awaited, typed, wire, answers, handled, reported, stopping>>

PropagateCancel(c) ==
  /\ awaited[c] = "cancelled" /\ future[c] = "pending"
  /\ future' = [future EXCEPT ![c] = "cancelled"]
  /\ UNCHANGED <<pc, awaited, registered, typed, wire, answers, handled, reported, stopping>>

PropagateResult(c) ==
  /\ awaited[c] = "pending" /\ future[c] \in Done
  /\ awaited' = [awaited EXCEPT ![c] = future[c]]
  /\ UNCHANGED <<pc, future, registered, typed, wire, answers, handled, reported, stopping>>

\* lsp_shutdown cancels every pending future it meets; unless the loop ends
\* early it meets them all and sets `_shutdown`.
Shutdown ==
  LET pending == {c \in registered : future[c] = "pending"} IN
  /\ ~stopping
  /\ \E met \in SUBSET pending :
       /\ future' = [c \in Calls |-> IF c \in met THEN "cancelled" ELSE future[c]]
       /\ \/ stopping' = FALSE
          \/ met = pending /\ stopping' = TRUE
  /\ UNCHANGED <<pc, awaited, registered, typed, wire, answers, handled, reported>>

-----------------------------------------------------------------------------

SendRequest(c) == RegisterFuture(c) \/ RecordType(c) \/ Send(c)

EventLoop(c) == PropagateCancel(c) \/ PropagateResult(c)

Next ==
  \/ \E c \in Calls :
       \/ SendRequest(c)
       \/ CancelAwait(c)
       \/ EventLoop(c)
       \/ \E a \in Answers : Respond(c, a) \/ Receive(c, a)
  \/ Shutdown

Spec == Init /\ [][Next]_vars

\* The sending thread and the main loop keep going; what the client, the
\* awaiting coroutines and a shutdown do is up to them.
Fairness ==
  \A c \in Calls :
    /\ WF_vars(SendRequest(c))
    /\ WF_vars(EventLoop(c))
    /\ \A a \in Answers : WF_vars(Receive(c, a))

FairSpec == Spec /\ Fairness

-----------------------------------------------------------------------------
(* Properties.                                                              *)

\* A response finds the future of its request registered, whichever thread
\* sends and however fast the client is: until a usable response has been
\* handled or the server has stopped, the call stays in `_request_futures`
\* (send_request registers before it sends, _handle_response pops).
OutstandingIsRegistered ==
  \A c \in Calls :
    pc[c] = "sent" /\ c \notin registered =>
      \E a \in {"result", "error"} : <<c, a>> \in handled

\* The future of a request is resolved once a usable response has been received
\* (docstring of send_request), unless the server has shut down meanwhile; a
\* response that cannot be structured before it does not get in the way.
FutureResolves ==
  \A c \in Calls :
    (\E a \in {"result", "error"} : <<c, a>> \in wire) ~> (future[c] \in Done \/ stopping)

-----------------------------------------------------------------------------
(* The inductive invariant.                                                 *)

\* A call has a future, and is registered until a usable response has been
\* handled, from the first line of send_request on.
Bookkept ==
  \A c \in Calls :
    /\ pc[c] = "start" => future[c] = "none"
    /\ pc[c] # "start" /\ c \notin registered =>
         \E a \in {"result", "error"} : <<c, a>> \in handled

CallInv == TypeOK /\ Bookkept

=============================================================================
