--------------------------- MODULE MCChildProcess ---------------------------
(* A small instance of ChildProcess: a command and one descendant. *)
EXTENDS ChildProcess

CONSTANT k1
=============================================================================
