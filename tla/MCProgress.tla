----------------------------- MODULE MCProgress -----------------------------
(* Instances of Progress for TLC. *)
EXTENDS Progress, TLC

CONSTANTS create, create_async, claimed, supplied, again, t1, t2

\* Every kind of task.  Three tasks share a token that two of them create, two
\* share one that came with a request.
MCTokenOf ==
  (create :> t1) @@ (create_async :> t1) @@ (claimed :> t1)
    @@ (supplied :> t2) @@ (again :> t2)

=============================================================================
