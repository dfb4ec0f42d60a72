------------------------------ MODULE Registry ------------------------------
(***************************************************************************)
(* One lookup of a recipient, or one listing (registry.rs: discover_with,  *)
(* resolve; send.rs and main.rs call them): the adapters' scans one after  *)
(* the other, then the answer, while sessions and threads come and go.     *)
(***************************************************************************)
EXTENDS ClaudeSessions, CodexThreads

CONSTANTS
    Queries,    \* records: kind "list", "address" or "name"; of; all
    MaxChanges  \* bound: changes of the world

Addresses == {"claude"} \X Pids \cup {"codex"} \X Threads

ASSUME RegistryAssumption ==
    /\ MaxChanges \in Nat
    /\ Sessions \cap Threads = {}
    /\ None \notin Queries
    /\ \A q \in Queries : /\ q.kind \in {"list", "address", "name"} /\ q.all \in BOOLEAN
                          /\ q.kind = "address" => q.of \in Addresses

VARIABLES
    query,      \* what was asked, None before
    stage,      \* whose scan it is: claude, codex, or an exact search
    report,     \* discover_with's report
    answer,
    steady, ever, ran,  \* history: see Directory
    changes             \* history: changes of the world so far

history == <<steady, ever, ran, changes>>
world == <<claudeWorld, codexWorld>>
lookup == <<scan, claudeScan, codexScan, query, stage, report, answer>>
vars == <<world, lookup, history>>

Ids == Sessions \cup Threads
NoAnswer == [outcome |-> "none", ids |-> {}, verified |-> {}]

-----------------------------------------------------------------------------
(* What there is to be found. *)
Answers(q, addr, names) ==
    CASE q.kind = "list" -> TRUE
      [] q.kind = "address" -> addr = q.of
      [] q.kind = "name" -> q.of \in names

Recorded(q) ==
    {record[p].session : p \in {p \in Pids : record[p] # None
        /\ Answers(q, Address("claude", p), {NameOf[record[p].session], p})}}

Running(q) == Recorded(q) \cap {process[p].by : p \in {p \in Pids : Owns(p)}}

(* A name is looked for among the threads of the window only. *)
Kept(q) == {t \in Threads : thread[t] # "absent" /\ Answers(q, Address("codex", t), NamesOf(t))}
Open(q) ==
    {t \in Kept(q) : \/ thread[t] = "recent"
                     \/ thread[t] = "quiet" /\ (q.all \/ q.kind = "address")}

Listed(q) == IF q = None THEN {} ELSE Recorded(q) \cup Kept(q)
Live(q) == IF q = None THEN {} ELSE Running(q) \cup Open(q)

Observe ==
    /\ steady' = steady \cap Live(query)'
    /\ ever' = ever \cup Listed(query)'
    /\ ran' = ran \cup Live(query)'

(* Sessions come and go during the scan that looks for them.  What they do  *)
(* at another time of the lookup only makes them less steady.               *)
World ==
    /\ \/ ClaudeWorld /\ ClaudeScanning /\ UNCHANGED codexWorld
       \/ CodexWorld /\ CodexScanning /\ UNCHANGED claudeWorld
    /\ changes < MaxChanges /\ changes' = changes + 1
    /\ UNCHANGED lookup
    /\ Observe

-----------------------------------------------------------------------------
(* The lookup. *)
Init ==
    /\ ClaudeInit /\ CodexInit
    /\ pc = "idle" /\ exact = None /\ all = FALSE
    /\ part = EmptyReport
    /\ query = None /\ stage = "none" /\ report = EmptyReport /\ answer = NoAnswer
    /\ steady = {} /\ ever = {} /\ ran = {} /\ changes = 0

(* An adapter begins with a report and a budget of its own. *)
BeginScan(runtime, id, everything) ==
    /\ pc' = runtime /\ exact' = id /\ all' = everything
    /\ part' = EmptyReport
    /\ UNCHANGED <<claudeScan, codexScan>>

Ask(q) ==
    /\ pc = "idle"
    /\ query' = q /\ stage' = "claude"
    /\ BeginScan("claude", None, q.all)
    /\ steady' = Live(q) /\ ever' = Listed(q) /\ ran' = Live(q)
    /\ UNCHANGED <<report, answer, changes>>

(* discover_with *)
ThenCodex ==
    /\ pc = "merge" /\ stage = "claude"
    /\ report' = Merge(report, part) /\ stage' = "codex"
    /\ BeginScan("codex", None, all)
    /\ UNCHANGED <<query, answer>>

Discovered ==
    /\ pc = "merge" /\ stage = "codex"
    /\ report' = Merge(report, part) /\ stage' = "resolve"
    /\ pc' = "resolve" /\ part' = EmptyReport
    /\ UNCHANGED <<exact, all, claudeScan, codexScan, query, answer>>

Reply(outcome, agents) ==
    /\ pc' = "done" /\ stage' = "done" /\ part' = EmptyReport
    /\ exact' = None /\ all' = FALSE
    /\ answer' = [outcome |-> outcome, ids |-> {a.id : a \in agents},
                  verified |-> {a.id : a \in {a \in agents : a.verified}}]
    /\ UNCHANGED <<claudeScan, codexScan, query>>

ReplyListing ==
    /\ pc = "resolve" /\ query.kind = "list"
    /\ Reply(IF report.complete THEN "listed" ELSE "partly listed", report.agents)
    /\ UNCHANGED report

(* resolve, for an address.  One that is not in the report is looked for    *)
(* by its adapter.                                                          *)
At(agents, addr) == {a \in agents : a.addr = addr}

ResolveListed ==
    /\ pc = "resolve" /\ query.kind = "address"
    /\ \E a \in At(report.agents, query.of) : Reply("found", {a})
    /\ UNCHANGED report

FindExact ==
    /\ pc = "resolve" /\ query.kind = "address"
    /\ At(report.agents, query.of) = {}
    /\ stage' = "exact"
    /\ BeginScan(query.of[1], query.of[2], TRUE)
    /\ UNCHANGED <<query, report, answer>>

ResolveExact ==
    /\ pc = "merge" /\ stage = "exact"
    /\ LET hits == At(part.agents, query.of)
       IN  Reply(CASE hits # {} -> "found"
                   [] hits = {} /\ part.complete -> "absent"
                   [] OTHER -> "refused", hits)
    /\ report' = Merge(report, part)

(* resolve, for a name or the id half of an address. *)
ResolveName ==
    /\ pc = "resolve" /\ query.kind = "name"
    /\ LET hits == {a \in report.agents : query.of \in a.names}
       IN  CASE ~report.complete -> Reply("refused", {})
             [] report.complete /\ hits = {} -> Reply("absent", {})
             [] report.complete /\ Cardinality(hits) = 1 -> Reply("found", hits)
             [] OTHER -> Reply("ambiguous", {})
    /\ UNCHANGED report

Forget ==
    /\ pc = "done" /\ pc' = "idle"
    /\ query' = None /\ stage' = "none" /\ report' = EmptyReport /\ answer' = NoAnswer
    /\ steady' = {} /\ ever' = {} /\ ran' = {}
    /\ UNCHANGED <<exact, all, part, claudeScan, codexScan, changes>>

Lookup ==
    \/ /\ \/ ClaudeStep /\ UNCHANGED codexScan
          \/ CodexStep /\ UNCHANGED claudeScan
       /\ UNCHANGED <<query, stage, report, answer>>
    \/ ThenCodex \/ Discovered
    \/ ReplyListing \/ ResolveListed \/ FindExact \/ ResolveExact \/ ResolveName

Next ==
    \/ World
    \/ Lookup /\ UNCHANGED <<world, history>>
    \/ Forget /\ UNCHANGED world
    \/ \E q \in Queries : Ask(q) /\ UNCHANGED world

Spec == Init /\ [][Next]_vars

-----------------------------------------------------------------------------
TypeOK ==
    /\ part.agents \cup report.agents \subseteq
           [addr : Addresses, id : Ids,
            names : SUBSET (Pids \cup Threads \cup {NameOf[x] : x \in Ids}
                                \cup {ShortName[t] : t \in Threads}),
            seen : {0, 1}, key : BOOLEAN, verified : BOOLEAN]
    /\ Cardinality(part.agents) <= MAX_AGENTS
    /\ Cardinality(report.agents) <= 3 * MAX_AGENTS
    /\ steady \subseteq ever /\ ran \subseteq Ids
    /\ answer.verified \subseteq answer.ids

(* A Claude session is said to be verified, or has a key that later reads   *)
(* of its inbox are matched with, only if it ran at some time during the    *)
(* lookup: not when its record outlived it and its pid is another           *)
(* process's, whenever that process started (proc.rs:1-6, 101-106).         *)
NoImpostor ==
    \A a \in report.agents \cup part.agents :
        /\ a.id \in Sessions /\ (a.verified \/ a.key)
        /\ Answers(query, a.addr, a.names)
        => a.id \in ran

Promise == INSTANCE Directory WITH
    phase <- CASE pc = "idle" -> "idle" [] pc = "done" -> "answered" [] OTHER -> "asked",
    live <- Live(query), listed <- Listed(query)

(* Whatever comes and goes during a lookup, and whatever of it fails: one   *)
(* that is found was there, a short name goes to no session while another   *)
(* one that was there all the time answers to it, and what is said to be    *)
(* absent, or left out of a complete listing, was not there all the time    *)
(* (SECURITY.md:79-84, registry.rs:202-250).                                *)
ImplementsDirectory == Promise!Spec
=============================================================================
