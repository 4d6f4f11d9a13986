---------------------------- MODULE MCServerLoop ----------------------------
(* Instances of ServerLoop for TLC. *)
EXTENDS ServerLoop

=============================================================================
