----------------------------- MODULE MCDelivery -----------------------------
(* Small instances of Delivery: the agents, readers and drafts of each run. *)
EXTENDS Delivery, TLC

CONSTANTS codex, claude, other, m1, m2, m3, r1, r2, r3

Symmetric == Permutations(Msgs)

Send1(f, t, k, p, d) == [from |-> f, to |-> t, kind |-> k, reply_to |-> p,
                         delivery |-> d]

(* A request, which advertises its sender, and a message that may use that. *)
RoutingDrafts ==
    {Send1(claude, codex, "request", None, "inbox"),
     Send1(codex, claude, "inform", None, "auto")}

(* Everything to one recipient through the inbox. *)
InboxDrafts == {Send1(claude, codex, "inform", None, "inbox")}

(* A native route to each runtime, and a draft addressed to its sender. *)
NativeDrafts ==
    {Send1(claude, codex, "inform", None, "auto"),
     Send1(codex, codex, "event", None, "auto")}

(* Both routes to one recipient. *)
MixedDrafts == InboxDrafts \cup {Send1(claude, codex, "inform", None, "auto")}

(* An opening, and answers to any message there is, the ones that do not   *)
(* fit their parent included: in either direction between the two that     *)
(* began, passed on to a third agent, and from that one to either of them. *)
Answer(f, t) == {Send1(f, t, "reply", p, "inbox") : p \in Msgs}

ReplyDrafts ==
    {Send1(claude, codex, "event", None, "inbox")} \cup
    Answer(codex, claude) \cup Answer(claude, codex) \cup
    Answer(codex, other) \cup Answer(other, claude) \cup Answer(other, codex)

(* Readers of one address are alike. *)
SymmetricReaders == Permutations(Msgs) \cup Permutations(Readers)

ReadersOfBoth == (r1 :> codex) @@ (r2 :> claude)
ReadersOfCodex == (r1 :> codex) @@ (r2 :> codex)
ReaderOfClaude == (r1 :> claude)
ReaderOfCodex == (r1 :> codex)
=============================================================================
