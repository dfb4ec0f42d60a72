---------------------------- MODULE CodexThreads ----------------------------
(***************************************************************************)
(* Codex's threads, and the adapter's bounded search for them (codex.rs:   *)
(* discover_since): in the newest state database, or, if there is none or  *)
(* it cannot be used, in the rollout logs.                                 *)
(***************************************************************************)
EXTENDS Discovery

CONSTANTS
    Threads,
    ShortName   \* the name of a thread without a nickname: "codex-<short id>"

ASSUME ThreadsAssumption == IsFiniteSet(Threads) /\ None \notin Threads

VARIABLES
    thread,     \* absent, quiet (outside the window), recent or archived
    database,   \* has this Codex a state database?
    rollouts    \* logs the scan has still to read

codexWorld == <<thread, database>>
codexScan == <<rollouts>>

CodexInit ==
    /\ thread \in [Threads -> {"absent", "quiet", "recent"}]
    /\ database \in BOOLEAN
    /\ rollouts = {}

-----------------------------------------------------------------------------
(* Threads.  One that is in the window of a search stays in it. *)
Touch(t) ==
    /\ thread[t] \in {"absent", "quiet"}
    /\ thread' = [thread EXCEPT ![t] = "recent"]
    /\ UNCHANGED database

Archive(t) ==
    /\ thread[t] \in {"quiet", "recent"}
    /\ thread' = [thread EXCEPT ![t] = "archived"]
    /\ UNCHANGED database

CodexWorld == \E t \in Threads : Touch(t) \/ Archive(t)

-----------------------------------------------------------------------------
(* discover_since *)

(* The names a thread answers to.  Only the database knows nicknames.      *)
NamesOf(t) == {t, IF database THEN NameOf[t] ELSE ShortName[t]}

Agent(t, name) ==
    [addr |-> <<"codex", t>>, id |-> t, names |-> {t, name},
     seen |-> IF thread[t] = "recent" THEN 1 ELSE 0, key |-> TRUE, verified |-> FALSE]

(* The rows a query asks for. *)
Wanted(t) ==
    /\ thread[t] \in {"quiet", "recent"}
    /\ IF exact # None THEN t = exact ELSE all \/ thread[t] = "recent"

(* discover fails: the directory cannot be checked, or the window's setting *)
(* is none.                                                                 *)
CodexFails ==
    /\ pc = "codex" /\ exact = None /\ ~all
    /\ part' = Warn(part)
    /\ Return
    /\ UNCHANGED <<exact, all, rollouts>>

(* The query reads one snapshot.  All its rows come, or, with a warning,    *)
(* some: it is interrupted, there are more than MAX_AGENTS, a row is bad.   *)
Query ==
    /\ pc = "codex" /\ database
    /\ LET rows == {t \in Threads : Wanted(t)}
       IN  \E got \in SUBSET rows : \E partial \in BOOLEAN :
             /\ Cardinality(got) <= MAX_AGENTS
             /\ partial \/ got = rows
             /\ part' = [agents |-> {Agent(t, NameOf[t]) : t \in got}, complete |-> ~partial]
    /\ Return
    /\ UNCHANGED <<exact, all, rollouts>>

(* Mutant: the fallback is not warned of. *)
DatabaseFailsQuietly ==
    /\ pc = "codex" /\ pc' = "rollouts"
    /\ UNCHANGED <<exact, all, part, rollouts>>

(* The directory scan for the newest database was incomplete, or the       *)
(* database cannot be opened or queried: the rollouts are read instead,    *)
(* and no nicknames will be known.                                         *)
DatabaseFails ==
    /\ pc = "codex" /\ pc' = "rollouts"
    /\ part' = Warn(part)
    /\ UNCHANGED <<exact, all, rollouts>>

NoDatabase ==
    /\ pc = "codex" /\ pc' = "rollouts" /\ ~database
    /\ UNCHANGED <<exact, all, part, rollouts>>

ListRollouts ==
    LET there == {t \in Threads : thread[t] # "absent"}
    IN  /\ pc = "rollouts" /\ pc' = "logs"
        /\ \E files \in SUBSET there : Files(there, files) /\ rollouts' = files
        /\ UNCHANGED <<exact, all>>

(* A log is opened and its first line read: it may be gone, too old, of    *)
(* another thread, or damaged.  Archived ones may still be there.          *)
ReadRollout(t) ==
    /\ pc = "logs" /\ t \in rollouts
    /\ \/ part' = Warn(part)
       \/ /\ Wanted(t) \/ (thread[t] = "archived" /\ exact \in {None, t})
          /\ part' = Push(part, Agent(t, ShortName[t]))
       \/ ~Wanted(t) /\ UNCHANGED part
    /\ rollouts' = rollouts \ {t}
    /\ UNCHANGED <<pc, exact, all>>

StopRollouts ==
    /\ pc = "logs" /\ rollouts # {}
    /\ Exhaust
    /\ rollouts' = {}
    /\ UNCHANGED <<pc, exact, all>>

RolloutsDone ==
    /\ pc = "logs" /\ rollouts = {}
    /\ Return
    /\ UNCHANGED <<exact, all, part, rollouts>>

CodexScanning == pc \in {"codex", "rollouts", "logs"}

CodexStep ==
    \/ CodexFails \/ Query \/ DatabaseFails \/ NoDatabase
    \/ ListRollouts \/ StopRollouts \/ RolloutsDone
    \/ \E t \in Threads : ReadRollout(t)
=============================================================================
