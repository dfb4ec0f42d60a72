----------------------------- MODULE MCIdentity -----------------------------
(* A small instance of Identity: hosts within hosts, three deep. *)
EXTENDS Identity, TLC

CONSTANTS codex, h1, h2, node, t1, t2

Alike == Permutations({h1, h2}) \cup Permutations(Threads)
=============================================================================
