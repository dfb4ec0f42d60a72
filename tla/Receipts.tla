------------------------------ MODULE Receipts ------------------------------
(***************************************************************************)
(* What an MCP session promises of the inbox reads it makes for its client *)
(* (SECURITY.md:56-68): a request makes at most one, and one is open at a  *)
(* time; it is committed by the last byte of its response, and only if it  *)
(* was not cancelled before; every other end leaves the inbox unread, and  *)
(* then the request never reads again.  A request is answered once.  There *)
(* are no threads, frames or queues here.                                  *)
(***************************************************************************)
CONSTANT
    Serials     \* requests

VARIABLES
    receipt,    \* of each request: "to come", "open", "committed" or "over"
    answered,   \* requests whose whole response was written
    cancelled   \* requests cancelled before

receiptVars == <<receipt, answered, cancelled>>

Init ==
    /\ receipt = [s \in Serials |-> "to come"]
    /\ answered = {}
    /\ cancelled = {}

Open(s) ==
    /\ receipt[s] = "to come" /\ \A t \in Serials : receipt[t] # "open"
    /\ receipt' = [receipt EXCEPT ![s] = "open"]
    /\ UNCHANGED <<answered, cancelled>>

Commit(s) ==
    /\ receipt[s] = "open" /\ s \notin answered \cup cancelled
    /\ receipt' = [receipt EXCEPT ![s] = "committed"]
    /\ answered' = answered \cup {s}
    /\ UNCHANGED cancelled

(* A response of a request that reads nothing, or whose COMMIT failed. *)
Answer(s) ==
    /\ receipt[s] \in {"open", "over"} /\ s \notin answered
    /\ receipt' = [receipt EXCEPT ![s] = "over"]
    /\ answered' = answered \cup {s}
    /\ UNCHANGED cancelled

Cancel(s) ==
    /\ s \notin answered
    /\ cancelled' = cancelled \cup {s}
    /\ \/ UNCHANGED receipt
       \/ receipt[s] = "open" /\ receipt' = [receipt EXCEPT ![s] = "over"]
    /\ UNCHANGED answered

(* A rollback, or a call that reads no inbox. *)
Release(S) ==
    /\ \A s \in S : receipt[s] \in {"to come", "open"}
    /\ receipt' = [s \in Serials |-> IF s \in S THEN "over" ELSE receipt[s]]
    /\ UNCHANGED <<answered, cancelled>>

Next ==
    \/ \E s \in Serials : Open(s) \/ Commit(s) \/ Answer(s) \/ Cancel(s)
    \/ \E S \in SUBSET Serials : Release(S)

Spec == Init /\ [][Next]_receiptVars
=============================================================================
