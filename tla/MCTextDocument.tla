--------------------------- MODULE MCTextDocument ---------------------------
(* Instances of TextDocument for TLC. *)
EXTENDS TextDocument

=============================================================================
