-------------------------- MODULE RequestContract --------------------------
(***************************************************************************)
(* What a client may rely on for the requests it sends: the server opens a *)
(* request once, settles an open request once, and says "cancelled" only   *)
(* to a request the client has cancelled or to one that was cut short by a *)
(* shutdown in progress.  Settling is answering, with one exception: a     *)
(* result that cannot be encoded is dropped and the client hears nothing.  *)
(* Threads, futures and callbacks are not visible.                         *)
(***************************************************************************)
CONSTANT Reqs

VARIABLES
  status,    \* [Reqs -> "new", "open", "dropped" or the kind of the answer]
  unwanted,  \* requests the client has cancelled while they were open
  stage      \* how far the server is with shutting down and exiting

vars == <<status, unwanted, stage>>

Answers == {"result", "error"}

Init ==
  /\ status = [r \in Reqs |-> "new"]
  /\ unwanted = {}
  /\ stage = "serving"

Become(r, s) == status' = [status EXCEPT ![r] = s]

\* Some requests are settled in the step that takes them.
Accept(r) ==
  /\ stage \in {"serving", "draining"}
  /\ status[r] = "new"
  /\ \E s \in {"open", "dropped"} \cup Answers : Become(r, s)
  /\ UNCHANGED <<unwanted, stage>>

\* A cancellation takes effect at once or is taken note of.
CancelRequest(r) ==
  /\ stage \in {"serving", "draining"}
  /\ status[r] = "open"
  /\ unwanted' = unwanted \cup {r}
  /\ Become(r, "cancelled") \/ UNCHANGED status
  /\ UNCHANGED stage

Answer(r) ==
  /\ status[r] = "open"
  /\ \E s \in Answers \cup {"cancelled"} :
       /\ s = "cancelled" => r \in unwanted \/ stage # "serving"
       /\ Become(r, s)
  /\ UNCHANGED <<unwanted, stage>>

\* No response leaves for a result that cannot be encoded.
Drop(r) ==
  /\ status[r] = "open"
  /\ Become(r, "dropped")
  /\ UNCHANGED <<unwanted, stage>>

Settle(r) == Answer(r) \/ Drop(r)

BeginShutdown ==
  /\ stage = "serving"
  /\ stage' = "draining"
  /\ UNCHANGED <<status, unwanted>>

\* The request that asked for it is answered as the server stops.
Stop(r) ==
  /\ stage = "draining"
  /\ stage' = "stopped"
  /\ status[r] = "open"
  /\ Become(r, "result")
  /\ UNCHANGED unwanted

\* The process ends, whatever is open.
Quit ==
  /\ stage # "exited"
  /\ stage' = "exited"
  /\ UNCHANGED <<status, unwanted>>

Next ==
  \/ \E r \in Reqs : Accept(r) \/ CancelRequest(r) \/ Settle(r) \/ Stop(r)
  \/ BeginShutdown
  \/ Quit

Spec == Init /\ [][Next]_vars

\* Open requests are settled in the end, unless the process ends before.
FairSpec == Spec /\ \A r \in Reqs : WF_vars(Settle(r) /\ stage # "exited")

=============================================================================
