-------------------------- MODULE MCContextReminder --------------------------
(* Small instances of ContextReminder. *)
EXTENDS ContextReminder, TLC

CONSTANTS h1, h2, h3

HookSymmetry == Permutations(Hooks)
=============================================================================
