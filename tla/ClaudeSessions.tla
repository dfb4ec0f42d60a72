--------------------------- MODULE ClaudeSessions ---------------------------
(***************************************************************************)
(* Claude Code's session records (<pid>.json) and the adapter's scan of    *)
(* them (claude_code.rs: discover_paths; proc.rs).  A record may outlive   *)
(* its process and a pid may be used again, so the scan asks the system,   *)
(* step by step, while sessions start, end and rewrite their records.      *)
(***************************************************************************)
EXTENDS Discovery

CONSTANTS
    Pids, Sessions,
    Unstamped,      \* sessions whose record has no startedAt
    Other,          \* a process that is no session
    RecordDelay,    \* a session writes its record within this time
    PsDelay,        \* between ps's view of the processes and the clock's
    START_TOLERANCE_MILLIS,
    ReuseAfter,     \* a pid is not used again sooner after its last start
    MaxTime         \* bound: how far time goes

ASSUME SessionsAssumption ==
    /\ None \notin Pids \cup Sessions \cup {Other} \cup Int /\ Other \notin Sessions
    /\ None \notin [session : Sessions, started : Int \cup {None}]
    /\ START_TOLERANCE_MILLIS \in Nat
    /\ RecordDelay \in 0..START_TOLERANCE_MILLIS
    /\ PsDelay \in 0..START_TOLERANCE_MILLIS
    /\ ReuseAfter \in Nat /\ ReuseAfter > START_TOLERANCE_MILLIS + RecordDelay

VARIABLES
    now,
    process,    \* who has each pid, since when
    record,     \* the record file of each pid
    paths,      \* records the scan has still to read
    found,      \* records whose process was alive: pid, session, start
    starts,     \* start times from ps, None for a process it did not show
    hand,       \* the record that becomes an agent
    key         \* and whether it has a session_key

claudeWorld == <<now, process, record>>
claudeScan == <<paths, found, starts, hand, key>>

RecordOf(s, start) ==
    [session |-> s, started |-> IF s \in Unstamped THEN None ELSE start]

(* A machine that has run for a while: a pid may be a session's that has    *)
(* written its record, or free, and then an older session may have left its *)
(* record.                                                                  *)
ClaudeInit ==
    /\ now = 0
    /\ \E by \in [Pids -> {None} \cup Sessions] : \E of \in [Pids -> {None} \cup Sessions] :
         /\ \A p, q \in Pids : p # q /\ of[p] \in Sessions => of[p] # of[q]
         /\ \A p \in Pids : by[p] \in Sessions => of[p] = by[p]
         /\ process = [p \in Pids |-> [by |-> by[p], start |-> -ReuseAfter]]
         /\ record = [p \in Pids |->
                IF of[p] = None THEN None
                ELSE RecordOf(of[p], (IF by[p] = of[p] THEN -1 ELSE -2) * ReuseAfter)]
    /\ paths = {} /\ found = {} /\ hand = None /\ key = FALSE
    /\ starts = [p \in Pids |-> None]

-----------------------------------------------------------------------------
(* Sessions. *)
RecordedAt(p, s) == record[p] # None /\ record[p].session = s

Owns(p) == process[p].by # None /\ RecordedAt(p, process[p].by)

Start(p, s) ==
    /\ process[p].by = None /\ now >= process[p].start + ReuseAfter
    /\ s # Other => \A q \in Pids : process[q].by # s /\ ~RecordedAt(q, s)
    /\ process' = [process EXCEPT ![p] = [by |-> s, start |-> now]]
    /\ UNCHANGED <<now, record>>

WriteRecord(p) ==
    /\ process[p].by \in Sessions /\ ~Owns(p)
    /\ record' = [record EXCEPT ![p] = RecordOf(process[p].by, now)]
    /\ UNCHANGED <<now, process>>

(* A session that ends removes its record, unless it crashes. *)
End(p) ==
    /\ process[p].by # None
    /\ process' = [process EXCEPT ![p].by = None]
    /\ record' \in {record} \cup
            (IF Owns(p) THEN {[record EXCEPT ![p] = None]} ELSE {})
    /\ UNCHANGED now

Tick ==
    /\ now < MaxTime
    /\ \A p \in Pids : process[p].by \in Sessions /\ ~Owns(p)
                            => now < process[p].start + RecordDelay
    /\ now' = now + 1
    /\ UNCHANGED <<process, record>>

ClaudeWorld ==
    \/ \E p \in Pids : \E s \in Sessions \cup {Other} : Start(p, s)
    \/ \E p \in Pids : WriteRecord(p) \/ End(p)
    \/ Tick

-----------------------------------------------------------------------------
(* The kernel's and ps's word on a process. *)

(* A probe the sandbox denies shows that the process is there. *)
IsAlive(p) == process[p].by # None

(* The results of a probe that must be allowed to count. *)
PositivelyAlive(p) == IF process[p].by # None THEN BOOLEAN ELSE {FALSE}

AbsDiff(a, b) == IF a < b THEN b - a ELSE a - b

(* Mutant: an old record is good enough. *)
StartTimeVerifiedLoose(session, start) == session # None

StartTimeVerified(session, start) ==
    /\ session # None /\ start # None
    /\ AbsDiff(session, start) <= START_TOLERANCE_MILLIS

StartTimeMatches(session, start) ==
    session # None /\ start # None => AbsDiff(session, start) <= START_TOLERANCE_MILLIS

-----------------------------------------------------------------------------
(* discover_paths *)

(* A directory scan, or one stat. *)
ClaudeList ==
    LET there == {p \in Pids : record[p] # None}
    IN  /\ pc = "claude" /\ pc' = "records"
        /\ IF exact = None
           THEN \E files \in SUBSET there : Files(there, files) /\ paths' = files
           ELSE \/ paths' = there \cap {exact} /\ UNCHANGED part
                \/ paths' = {} /\ part' = Warn(part)
        /\ UNCHANGED <<exact, all, found, starts, hand, key>>

(* Mutant: a record that cannot be read is passed over in silence. *)
UnreadableQuiet(p) ==
    /\ pc = "records" /\ p \in paths
    /\ paths' = paths \ {p}
    /\ UNCHANGED <<scan, found, starts, hand, key>>

(* The record has gone, is being rewritten, or cannot be read or parsed. *)
Unreadable(p) ==
    /\ pc = "records" /\ p \in paths
    /\ paths' = paths \ {p}
    /\ part' = Warn(part)
    /\ UNCHANGED <<pc, exact, all, found, starts, hand, key>>

(* The record is kept while its process is probed. *)
ReadRecord(p) ==
    /\ pc = "records" /\ p \in paths
    /\ record[p] # None
    /\ found' = found \cup {[pid |-> p, session |-> record[p].session,
                             started |-> record[p].started]}
    /\ pc' = "probe"
    /\ UNCHANGED <<exact, all, part, paths, starts, hand, key>>

Probe ==
    /\ pc = "probe" /\ pc' = "records"
    /\ found' = {r \in found : r.pid \in paths => IsAlive(r.pid)}
    /\ paths' = paths \ {r.pid : r \in found}
    /\ UNCHANGED <<exact, all, part, starts, hand, key>>

StopReading ==
    /\ pc = "records" /\ paths # {}
    /\ Exhaust
    /\ paths' = {}
    /\ UNCHANGED <<pc, exact, all, found, starts, hand, key>>

(* One ps for all of them, and the clock after it: what it adds to the     *)
(* start times.  Or ps fails, and shows no process at all.                 *)
StartTimes ==
    /\ pc = "records" /\ paths = {}
    /\ \E shown \in {{}, {r \in found : IsAlive(r.pid)}} : \E delay \in 0..PsDelay :
         starts' = [p \in Pids |-> IF \E r \in shown : r.pid = p
                                   THEN process[p].start + delay ELSE None]
    /\ pc' = "agents"
    /\ UNCHANGED <<exact, all, part, paths, found, hand, key>>

(* Somebody else has the pid now. *)
Recycled(r) ==
    /\ pc = "agents" /\ r \in found
    /\ ~StartTimeMatches(r.started, starts[r.pid])
    /\ found' = found \ {r}
    /\ UNCHANGED <<scan, paths, starts, hand, key>>

TakeKey(r) ==
    /\ pc = "agents" /\ r \in found
    /\ StartTimeMatches(r.started, starts[r.pid])
    /\ UNCHANGED part \/ Exhaust
    /\ \E alive \in PositivelyAlive(r.pid) :
         key' = (alive /\ StartTimeVerified(r.started, starts[r.pid]))
    /\ found' = found \ {r}
    /\ hand' = r
    /\ pc' = "liveness"
    /\ UNCHANGED <<exact, all, paths, starts>>

Address(runtime, id) == <<runtime, id>>

(* The process is probed once more for the agent's liveness. *)
PushSession ==
    /\ pc = "liveness" /\ pc' = "agents"
    /\ \E alive \in PositivelyAlive(hand.pid) :
         part' = Push(part,
            [addr |-> Address("claude", hand.pid), id |-> hand.session,
             names |-> {NameOf[hand.session], hand.pid}, seen |-> 0, key |-> key,
             verified |-> alive /\ StartTimeVerified(hand.started, starts[hand.pid])])
    /\ hand' = None /\ key' = FALSE
    /\ UNCHANGED <<exact, all, paths, found, starts>>

SessionsDone ==
    /\ pc = "agents" /\ found = {}
    /\ starts' = [p \in Pids |-> None]
    /\ Return
    /\ UNCHANGED <<exact, all, part, paths, found, hand, key>>

ClaudeScanning == pc \in {"claude", "records", "probe", "agents", "liveness"}

ClaudeStep ==
    \/ ClaudeList \/ Probe \/ StopReading \/ StartTimes \/ PushSession \/ SessionsDone
    \/ \E p \in Pids : Unreadable(p) \/ ReadRecord(p)
    \/ \E r \in found : Recycled(r) \/ TakeKey(r)
=============================================================================
