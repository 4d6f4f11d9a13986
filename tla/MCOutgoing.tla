----------------------------- MODULE MCOutgoing -----------------------------
(* Instances of Outgoing for TLC. *)
EXTENDS Outgoing

=============================================================================
