----------------------------- MODULE Directory -----------------------------
(***************************************************************************)
(* What a lookup of a recipient promises (README.md, "Native identity";    *)
(* SECURITY.md, "Discovery"), while sessions start and end as it runs.     *)
(* `live' are the sessions of this machine that answer to what was asked,  *)
(* `listed' those and the ones whose traces still do.                      *)
(***************************************************************************)
CONSTANT
    Ids         \* sessions and threads

VARIABLES
    phase,      \* of the lookup
    live, listed,
    steady,     \* live since the lookup began
    ever,       \* listed at some time since then
    ran,        \* live at some time since then
    answer      \* outcome, ids of the sessions in it, the verified ones

directoryVars == <<phase, live, listed, steady, ever, ran, answer>>

NoAnswer == [outcome |-> "none", ids |-> {}, verified |-> {}]

Init ==
    /\ phase = "idle" /\ answer = NoAnswer
    /\ live = {} /\ listed = {} /\ steady = {} /\ ever = {} /\ ran = {}

Ask ==
    /\ phase = "idle" /\ phase' = "asked"
    /\ live' \in SUBSET Ids /\ listed' \in SUBSET Ids
    /\ steady' = live' /\ ever' = listed' /\ ran' = live'
    /\ UNCHANGED answer

World ==
    /\ phase # "idle"
    /\ live' \in SUBSET Ids /\ listed' \in SUBSET Ids
    /\ steady' = steady \cap live'
    /\ ever' = ever \cup listed'
    /\ ran' = ran \cup live'
    /\ UNCHANGED <<phase, answer>>

(* What is reported was there, and what is said to be verified was running. *)
Reply(outcome, ids) ==
    /\ phase = "asked" /\ phase' = "answered"
    /\ ids \subseteq ever
    /\ \E verified \in SUBSET (ids \cap ran) :
         answer' = [outcome |-> outcome, ids |-> ids, verified |-> verified]
    /\ UNCHANGED <<live, listed, steady, ever, ran>>

(* One session is found: no other one that was live all the time answers.   *)
Found == \E id \in ever : steady \subseteq {id} /\ Reply("found", {id})

Absent == steady = {} /\ Reply("absent", {})

Refuse == Reply("refused", {}) \/ Reply("ambiguous", {})

List == \E ids \in SUBSET ever :
            \/ steady \subseteq ids /\ Reply("listed", ids)
            \/ Reply("partly listed", ids)

Forget ==
    /\ phase = "answered" /\ phase' = "idle" /\ answer' = NoAnswer
    /\ live' = {} /\ listed' = {} /\ steady' = {} /\ ever' = {} /\ ran' = {}

Next == Ask \/ World \/ Found \/ Absent \/ Refuse \/ List \/ Forget

Spec == Init /\ [][Next]_directoryVars
=============================================================================
