----------------------------- MODULE MCRegistry -----------------------------
(* A small instance of Registry.  The name of one session is the pid of    *)
(* another, and a thread is named like a session.                          *)
EXTENDS Registry, TLC

CONSTANTS p1, p2, s1, s2, t1, name, short

Names == (s1 :> name) @@ (s2 :> p1) @@ (t1 :> name)
Short == (t1 :> short)

Question(kind, of, everything) == [kind |-> kind, of |-> of, all |-> everything]

Asked ==
    {Question("list", None, TRUE),
     Question("address", Address("claude", p1), FALSE),
     Question("address", Address("codex", t1), FALSE)} \cup
    {Question("name", n, FALSE) : n \in {name, short, p1}}
=============================================================================
