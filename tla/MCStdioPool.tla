---------------------------- MODULE MCStdioPool ----------------------------
(* Instances of StdioPool for TLC. *)
EXTENDS StdioPool

=============================================================================
