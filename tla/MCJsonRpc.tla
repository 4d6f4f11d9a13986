----------------------------- MODULE MCJsonRpc -----------------------------
(* Instances of JsonRpc for TLC. *)
EXTENDS JsonRpc, TLC

\* Requests are interchangeable, and so are notifications but `exit`.
Symmetry == Permutations(Requests) \cup Permutations(Notifications \ {Exit})

=============================================================================
