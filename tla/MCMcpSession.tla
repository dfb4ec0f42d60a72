---------------------------- MODULE MCMcpSession ----------------------------
(* A small instance of McpSession: two ids, so that they are used again. *)
EXTENDS McpSession

CONSTANTS id1, id2
=============================================================================
