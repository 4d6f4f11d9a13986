------------------------------ MODULE Progress ------------------------------
(***************************************************************************)
(* Work done progress (pygls.progress.Progress): the `tokens` dictionary   *)
(* of cancellation futures, filled when the client accepts a token or when *)
(* work begins, and cancelled by window/workDoneProgress/cancel.           *)
(*                                                                         *)
(* A task is user code that reports progress the documented way: create    *)
(* the token (unless the client supplied it), begin, poll                  *)
(* tokens[token].cancelled() while working, end.  It is a coroutine, which *)
(* takes turns with the main loop, or runs in a thread of its own.         *)
(* Nothing keeps two tasks from using one token.                           *)
(*                                                                         *)
(* Tokens are announced by a call of Outgoing's.  The two modules have no  *)
(* name in common, so that their proofs can extend both.                   *)
(***************************************************************************)
CONSTANTS
  Tasks,        \* tasks that report progress
  Tokens,       \* progress tokens
  TokenOf,      \* [Tasks -> Tokens]
  Supplied,     \* tasks whose token came with a request of the client
  Coroutines    \* tasks that use create_async; the others, threads, use create

ASSUME TasksAssumption ==
  /\ TokenOf \in [Tasks -> Tokens]
  /\ Supplied \subseteq Tasks
  /\ Coroutines \subseteq Tasks

VARIABLES
  stage,     \* [Tasks -> where the task is]
  tokens,    \* [Tokens -> state of the token's future, or "absent"]
  calling,   \* the task whose on_created callback the main thread is to run
  cancels,   \* tokens with a cancel notification under way
  heeded,    \* tokens whose cancel notification found a future to cancel
  raced      \* tokens that were registered or created while a create of another
             \* task was under way (recorded for the properties)

progressVars == <<stage, tokens, calling, cancels, heeded, raced>>

ProgressTypeOK ==
  /\ stage \in [Tasks -> {"idle", "refused", "creating", "answered", "created",
                          "failed", "working", "ended"}]
  /\ tokens \in [Tokens -> {"absent", "live", "cancelled"}]
  /\ calling \subseteq Tasks
  /\ cancels \subseteq Tokens
  /\ heeded \subseteq Tokens
  /\ raced \subseteq Tokens

ProgressInit ==
  /\ stage = [t \in Tasks |-> "idle"]
  /\ tokens = [k \in Tokens |-> "absent"]
  /\ calling = {}
  /\ cancels = {}
  /\ heeded = {}
  /\ raced = {}

Go(t, place) == stage' = [stage EXCEPT ![t] = place]

\* A coroutine does not run while the main thread is busy.
MayRun(t) == t \in Coroutines => calling = {}

\* _register_token: a new future, whatever the dictionary held.
RegisterToken(t) == tokens' = [tokens EXCEPT ![TokenOf[t]] = "live"]

\* The task has passed the check of create and its token is not registered yet.
UnderWay(t) == stage[t] \in {"creating", "answered"} \/ t \in calling

\* A create of t's token by another task is under way.
Overlaps(t) == \E u \in Tasks \ {t} : TokenOf[u] = TokenOf[t] /\ UnderWay(u)

NoteRace(t) == raced' = IF Overlaps(t) THEN raced \cup {TokenOf[t]} ELSE raced

\* Mutant: create does not look into `tokens`.
CreateUnchecked(t) ==
  /\ stage[t] = "idle" /\ t \notin Supplied /\ MayRun(t)
  /\ Go(t, "creating")
  /\ NoteRace(t)
  /\ UNCHANGED <<tokens, calling, cancels, heeded>>

\* create and create_async: _check_token_registered, then the request to the
\* client.
Create(t) ==
  /\ stage[t] = "idle" /\ t \notin Supplied /\ MayRun(t)
  /\ \/ /\ tokens[TokenOf[t]] = "absent"
        /\ Go(t, "creating")
        /\ NoteRace(t)
     \/ /\ tokens[TokenOf[t]] # "absent"
        /\ Go(t, "refused")
        /\ UNCHANGED raced
  /\ UNCHANGED <<tokens, calling, cancels, heeded>>

\* The client has accepted the token: set_result wakes the thread that waits
\* for it, then runs on_created.
Created(t) ==
  /\ stage[t] = "creating" /\ calling = {}
  /\ IF t \in Coroutines THEN Go(t, "answered") /\ UNCHANGED calling
                         ELSE Go(t, "created") /\ calling' = {t}
  /\ UNCHANGED <<tokens, cancels, heeded, raced>>

OnCreated(t) ==
  /\ t \in calling
  /\ calling' = calling \ {t}
  /\ RegisterToken(t)
  /\ UNCHANGED <<stage, cancels, heeded, raced>>

\* create_async registers the token when the coroutine resumes.
ResumeCreate(t) ==
  /\ stage[t] = "answered" /\ calling = {}
  /\ Go(t, "created")
  /\ RegisterToken(t)
  /\ UNCHANGED <<calling, cancels, heeded, raced>>

\* The client refuses the token, or the request is cancelled.
NotCreated(t) ==
  /\ stage[t] = "creating" /\ calling = {}
  /\ Go(t, "failed")
  /\ UNCHANGED <<tokens, calling, cancels, heeded, raced>>

\* begin: tokens.setdefault.
Begin(t) ==
  /\ stage[t] = "created" \/ (stage[t] = "idle" /\ t \in Supplied)
  /\ MayRun(t)
  /\ Go(t, "working")
  /\ IF tokens[TokenOf[t]] = "absent"
       THEN RegisterToken(t) /\ NoteRace(t)
       ELSE UNCHANGED <<tokens, raced>>
  /\ UNCHANGED <<calling, cancels, heeded>>

\* The task polls its token's future and finds it cancelled.
Stop(t) ==
  /\ stage[t] = "working" /\ MayRun(t)
  /\ tokens[TokenOf[t]] = "cancelled"
  /\ Go(t, "ended")
  /\ UNCHANGED <<tokens, calling, cancels, heeded, raced>>

\* The task completes its work.  `end` leaves the token registered.
Finish(t) ==
  /\ stage[t] = "working" /\ MayRun(t)
  /\ Go(t, "ended")
  /\ UNCHANGED <<tokens, calling, cancels, heeded, raced>>

\* The user cancels work the client shows.
ClientCancels(k) ==
  /\ k \notin cancels
  /\ \E t \in Tasks : TokenOf[t] = k /\ stage[t] = "working"
  /\ cancels' = cancels \cup {k}
  /\ UNCHANGED <<stage, tokens, calling, heeded, raced>>

\* Mutant: the token is forgotten together with its future.
HandleCancelForgets(k) ==
  /\ k \in cancels /\ calling = {}
  /\ cancels' = cancels \ {k}
  /\ tokens' = [tokens EXCEPT ![k] = "absent"]
  /\ heeded' = heeded \cup {k}
  /\ UNCHANGED <<stage, calling, raced>>

\* lsp_work_done_progress_cancel.
HandleCancel(k) ==
  /\ k \in cancels /\ calling = {}
  /\ cancels' = cancels \ {k}
  /\ IF tokens[k] = "absent"
       THEN UNCHANGED <<tokens, heeded>>
       ELSE tokens' = [tokens EXCEPT ![k] = "cancelled"] /\ heeded' = heeded \cup {k}
  /\ UNCHANGED <<stage, calling, raced>>

ProgressNext ==
  \/ \E t \in Tasks :
       \/ Create(t) \/ Created(t) \/ OnCreated(t) \/ ResumeCreate(t) \/ NotCreated(t)
       \/ Begin(t) \/ Stop(t) \/ Finish(t)
  \/ \E k \in Tokens : ClientCancels(k) \/ HandleCancel(k)

ProgressSpec == ProgressInit /\ [][ProgressNext]_progressVars

\* The main loop handles what it receives and a task keeps polling; neither
\* the client nor the work has to come to an end.
ProgressFairness ==
  /\ \A t \in Tasks : WF_progressVars(Stop(t)) /\ WF_progressVars(OnCreated(t))
  /\ \A k \in Tokens : WF_progressVars(HandleCancel(k))

FairProgress == ProgressSpec /\ ProgressFairness

-----------------------------------------------------------------------------
(* Properties.                                                              *)

\* A token the client has cancelled stays cancelled, unless one of its creates
\* raced with another registration: the check of create comes before the request
\* and the registration after it, so that two tasks may create one token, and the
\* later registration replaces the cancelled future.  Short of that a second
\* create is refused (_check_token_registered), a second begin keeps the future
\* (setdefault), and on_created, which the main thread runs while the task it has
\* woken begins, replaces only a future nobody has cancelled.
CancelSticks == \A k \in heeded \ raced : tokens[k] = "cancelled"

\* Work the client cancels comes to an end, with the same exception.
CancelStopsWork ==
  \A t \in Tasks :
    (stage[t] = "working" /\ TokenOf[t] \in cancels)
      ~> (stage[t] = "ended" \/ TokenOf[t] \in raced)

-----------------------------------------------------------------------------
(* The inductive invariant.                                                 *)

\* Who is under way: a task that called create; on_created runs for a thread
\* that has its answer, and for one at a time.
CreatesOnly ==
  /\ \A t \in Tasks : UnderWay(t) => t \notin Supplied
  /\ \A t \in calling : stage[t] \in {"created", "working", "ended"}
  /\ \A t, u \in calling : t = u

\* Without a race one create of a token is under way at a time, and all that
\* is registered before it is over is the future of its own begin.
Unannounced ==
  \A t \in Tasks :
    UnderWay(t) /\ TokenOf[t] \notin raced =>
      /\ ~Overlaps(t)
      /\ tokens[TokenOf[t]] = "absent" \/ (t \in calling /\ tokens[TokenOf[t]] = "live")

ProgressInv == ProgressTypeOK /\ CreatesOnly /\ Unannounced /\ CancelSticks

=============================================================================
