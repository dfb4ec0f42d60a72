----------------------------- MODULE Discovery -----------------------------
(***************************************************************************)
(* Reports of a bounded discovery (discovery.rs), and the state of the one *)
(* lookup that the adapters' scans (ClaudeSessions, CodexThreads) and the  *)
(* registry (Registry) work on.  Warnings are kept as what they do to the  *)
(* report: it is no longer complete.                                       *)
(***************************************************************************)
EXTENDS Integers, FiniteSets

CONSTANTS
    None,
    NameOf,     \* the name of a session or thread
    MAX_AGENTS  \* agents in one adapter's report

ASSUME DiscoveryAssumption == MAX_AGENTS \in Nat \ {0}

VARIABLES
    pc,         \* where the lookup is
    exact,      \* the id find_exact is looking for, None in discover
    all,        \* discover_all: no recency window
    part        \* the report of the scan that runs

scan == <<pc, exact, all, part>>

EmptyReport == [agents |-> {}, complete |-> TRUE]

Warn(report) == [report EXCEPT !.complete = FALSE]

Merge(report, other) ==
    [agents |-> report.agents \cup other.agents,
     complete |-> report.complete /\ other.complete]

(* Mutant: an agent more than the limit. *)
PushUnlimited(report, agent) ==
    IF Cardinality(report.agents) > MAX_AGENTS THEN Warn(report)
    ELSE [report EXCEPT !.agents = @ \cup {agent}]

(* Of two records of one address the newer stays. *)
Push(report, agent) ==
    LET old == {a \in report.agents : a.addr = agent.addr}
    IN  CASE old # {} /\ (\A a \in old : a.seen < agent.seen) ->
                 [report EXCEPT !.agents = (@ \ old) \cup {agent}]
          [] old # {} /\ ~(\A a \in old : a.seen < agent.seen) -> report
          [] old = {} /\ Cardinality(report.agents) = MAX_AGENTS -> Warn(report)
          [] OTHER -> [report EXCEPT !.agents = @ \cup {agent}]

(* A scan of a directory that holds the entries `there': all of them, or,  *)
(* with a warning, some, when an entry or the directory cannot be read,    *)
(* there are too many or the budget runs out.                              *)
Files(there, files) ==
    \/ files = there /\ UNCHANGED part
    \/ files \in SUBSET there /\ part' = Warn(part)

(* Budget::check fails between two steps of a scan.  After the first time   *)
(* the report is already incomplete.                                        *)
Exhaust == part' = Warn(part)

(* Where a finished scan returns to the registry. *)
Return == pc' = "merge"
=============================================================================
