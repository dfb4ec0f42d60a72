------------------------------ MODULE Mailbox ------------------------------
(***************************************************************************)
(* What Telephone promises of a message, whatever its processes do and     *)
(* whenever they die (SECURITY.md, "Delivery"): it is journaled before it  *)
(* goes anywhere; it goes to the recipient's inbox or to a native channel, *)
(* never to both, or it stays in the journal; from the inbox it is taken   *)
(* only by a read that has shown it, and never before an older message     *)
(* that was waiting for the same recipient when it was journaled.  There   *)
(* are no processes, locks or transactions here.                           *)
(***************************************************************************)
CONSTANTS
    Msgs,       \* message ids
    Agents,     \* recipients
    None        \* no recipient yet

VARIABLES
    status,     \* where each message is
    recipient,  \* whom it is for
    older,      \* what was in an inbox when it was journaled
    seen        \* messages a complete inbox response has carried

mailboxVars == <<status, recipient, older, seen>>

Unread(a) == {m \in Msgs : status[m] = "waiting" /\ recipient[m] = a}

Init ==
    /\ status = [m \in Msgs |-> "new"]
    /\ recipient = [m \in Msgs |-> None]
    /\ older = [m \in Msgs |-> {}]
    /\ seen = {}

Record(m, a) ==
    /\ status[m] = "new"
    /\ status' = [status EXCEPT ![m] = "journaled"]
    /\ recipient' = [recipient EXCEPT ![m] = a]
    /\ older' = [older EXCEPT ![m] = {x \in Msgs : status[x] \in {"waiting", "read"}}]
    /\ UNCHANGED seen

Deliver(m) ==
    /\ status[m] = "journaled"
    /\ \E s \in {"waiting", "native"} : status' = [status EXCEPT ![m] = s]
    /\ UNCHANGED <<recipient, older, seen>>

Show(a, S) ==
    /\ S \subseteq Unread(a)
    /\ seen' = seen \cup S
    /\ UNCHANGED <<status, recipient, older>>

Take(a, S) ==
    /\ S \subseteq Unread(a) \cap seen
    /\ \A m \in S : older[m] \cap Unread(a) \subseteq S
    /\ status' = [m \in Msgs |-> IF m \in S THEN "read" ELSE status[m]]
    /\ UNCHANGED <<recipient, older, seen>>

Next ==
    \/ \E m \in Msgs : Deliver(m) \/ \E a \in Agents : Record(m, a)
    \/ \E a \in Agents : \E S \in SUBSET Msgs : Show(a, S) \/ Take(a, S)

Spec == Init /\ [][Next]_mailboxVars
=============================================================================
