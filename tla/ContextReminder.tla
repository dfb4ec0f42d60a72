--------------------------- MODULE ContextReminder ---------------------------
(***************************************************************************)
(* The Claude Code context hook (context.rs, store/context.rs).  Every run *)
(* of the hook is a process of its own: it reads the latest usage from the *)
(* transcript, claims the reminder for the level it saw in one SQLite      *)
(* statement, and prints it if it won the claim.  The session goes on      *)
(* meanwhile: its context grows, shrinks and is compacted, its transcript  *)
(* follows some time later, and other tool calls run other hooks.          *)
(***************************************************************************)
EXTENDS Usage

CONSTANTS
    Hooks,          \* hook processes that may run at the same time
    Sizes,          \* context sizes a request may report
    MaxCrossings,   \* bound: how often the context grows over a threshold
    MaxLag          \* bound: lines the transcript is behind the session

ASSUME ReminderAssumption ==
    MaxCrossings \in Nat /\ MaxLag \in Nat /\ Sizes \subseteq 1..MaxU64

VARIABLES
    transcript, \* the lines at its end that a hook may still read
    cut,        \* is it longer than MAX_BYTES?
    pending,    \* what changed the context and is not in the transcript yet
    context,    \* the true size of the context, 0 after a compaction
    written,    \* history: its size after the last change that is in the transcript
    stored,     \* context_reminders.level of the session, 0 without a row
    pc,         \* where each hook is
    saw,        \* the level it computed from the transcript
    crossings,  \* history: times the context grew into level 1, level 2
    reminders,  \* history: reminders won for a level
    armed       \* history: levels won since the row was last deleted

hookVars == <<stored, pc, saw, reminders, armed>>
session == <<transcript, cut, pending, context, written, crossings>>
vars == <<session, stored, pc, saw, reminders, armed>>

Levels == 0..2

Init ==
    /\ transcript = <<>> /\ cut = FALSE /\ pending = <<>>
    /\ context = 0 /\ written = 0
    /\ stored = 0
    /\ pc = [h \in Hooks |-> "idle"]
    /\ saw = [h \in Hooks |-> 0]
    /\ crossings = [l \in {1, 2} |-> 0]
    /\ reminders = [l \in {1, 2} |-> 0]
    /\ armed = [l \in {1, 2} |-> 0]

-----------------------------------------------------------------------------
(* What the runtime writes.  A record of one request has the counters of    *)
(* its context; one of several has an entry for each, and aggregates that   *)
(* are zero or their sum.                                                   *)
Assistant(own, usage) ==
    [kind |-> "assistant", own |-> own, usage |-> usage, size |-> 1]
Other(kind, own, size) == [kind |-> kind, own |-> own, usage |-> Missing, size |-> size]

Cached(n) == [input |-> 0, rest |-> n]
Request(n) == [message |-> TRUE, counters |-> Cached(n)]
Zero == [input |-> 0, rest |-> 0]

Told(n) ==
    {[counters |-> Cached(n), iterations |-> <<>>]} \cup
    {[counters |-> c, iterations |-> <<Request(1), Request(n)>>] : c \in {Zero, Cached(n + 1)}}

(* Usage from which the size of the context cannot be told. *)
Untold ==
    {[counters |-> c, iterations |-> <<>>] :
        c \in {[input |-> MaxU64, rest |-> 1], [input |-> 1, rest |-> -1]}} \cup
    {[counters |-> Cached(COMPACT_AT), iterations |-> <<[message |-> FALSE, counters |-> Zero]>>]}

(* A usage record is not a missing one. *)
ASSUME MissingAssumption ==
    Missing \notin Untold /\ \A n \in Sizes : Missing \notin Told(n)

(* What the lines in the transcript can be about.  A hidden change is one   *)
(* whose line is damaged or of a form the hook does not know.               *)
Events ==
    [of : {"request"}, size : Sizes] \cup [of : {"hidden"}, size : Sizes \cup {0}]
        \cup [of : {"boundary"}, size : {0}]

LinesOf(e) ==
    CASE e.of = "request" -> {Assistant(TRUE, usage) : usage \in Told(e.size)}
      [] e.of = "boundary" -> {Other("boundary", TRUE, 1)}
      [] e.of = "hidden" -> {Other("damaged", FALSE, 1)}
                                \cup {Assistant(TRUE, usage) : usage \in Untold}

(* Lines that say nothing of the context: synthetic zero usage, no usage, a *)
(* line of another session, a long tool result.                             *)
Unrelated ==
    {Assistant(TRUE, [counters |-> Zero, iterations |-> <<>>]),
     Assistant(TRUE, Missing),
     Assistant(FALSE, [counters |-> Cached(COMPACT_AT), iterations |-> <<>>]),
     Other("boundary", FALSE, 1), Other("user", TRUE, MAX_BYTES)}

Write(line) ==
    LET lines == Append(transcript, line)
    IN  /\ cut' = (cut \/ BytesFrom(lines, 1) > MAX_BYTES)
        /\ transcript' = IF cut' THEN Window(lines) ELSE lines
        /\ UNCHANGED <<context, crossings, hookVars>>

Resize(n) ==
    /\ context' = n
    /\ crossings' = [l \in {1, 2} |->
            IF LevelOf(context) < l /\ l <= LevelOf(n) THEN crossings[l] + 1 ELSE crossings[l]]
    /\ \A l \in {1, 2} : crossings'[l] <= MaxCrossings
    /\ UNCHANGED <<transcript, cut, written, hookVars>>

(* A request ends and leaves a context of its size, the context is          *)
(* compacted, or it changes in a way that its line will not tell.           *)
Change(e) ==
    /\ Len(pending) < MaxLag
    /\ pending' = Append(pending, e)
    /\ Resize(e.size)

(* No line tells of this change, or one that the hook passes over.          *)
SilentChange == \E n \in Sizes \cup {0} : Resize(n) /\ UNCHANGED pending

(* The transcript is written asynchronously, in the order of the changes.   *)
WriteChange ==
    /\ pending # <<>>
    /\ \E line \in LinesOf(Head(pending)) : Write(line)
    /\ written' = Head(pending).size
    /\ pending' = Tail(pending)

WriteUnrelated == (\E line \in Unrelated : Write(line)) /\ UNCHANGED <<pending, written>>

-----------------------------------------------------------------------------
Exit(h) == pc' = [pc EXCEPT ![h] = "idle"]

Reading == LatestUsage(transcript)

(* read_usage; a hook that cannot tell the usage has nothing to do. *)
ReadUsage(h) ==
    /\ pc[h] = "idle"
    /\ Reading # None
    /\ saw' = [saw EXCEPT ![h] = LevelOf(Reading)]
    /\ pc' = [pc EXCEPT ![h] = "claim"]
    /\ UNCHANGED <<session, stored, reminders, armed>>

(* claim_context_reminder at level 0: the row goes, the thresholds are      *)
(* armed again.                                                             *)
Rearm(h) ==
    /\ pc[h] = "claim" /\ saw[h] = 0
    /\ stored' = 0
    /\ armed' = [l \in {1, 2} |-> 0]
    /\ Exit(h)
    /\ UNCHANGED <<session, saw, reminders>>

(* Mutant: the upsert's condition lets the same level through. *)
ClaimableAgain(l) == stored <= l

Claimable(l) == stored < l

(* Mutant: the upsert adds the levels up. *)
ClaimAdds(h) ==
    /\ pc[h] = "claim" /\ saw[h] # 0
    /\ Claimable(saw[h])
    /\ stored' = stored + saw[h]
    /\ reminders' = [reminders EXCEPT ![saw[h]] = @ + 1]
    /\ armed' = [armed EXCEPT ![saw[h]] = @ + 1]
    /\ pc' = [pc EXCEPT ![h] = "print"]
    /\ UNCHANGED <<session, saw>>

(* The upsert changed the row: this hook has the reminder. *)
Claim(h) ==
    /\ pc[h] = "claim" /\ saw[h] # 0
    /\ Claimable(saw[h])
    /\ stored' = saw[h]
    /\ reminders' = [reminders EXCEPT ![saw[h]] = @ + 1]
    /\ armed' = [armed EXCEPT ![saw[h]] = @ + 1]
    /\ pc' = [pc EXCEPT ![h] = "print"]
    /\ UNCHANGED <<session, saw>>

(* Somebody had it before, or the journal failed. *)
NoClaim(h) ==
    /\ pc[h] = "claim"
    /\ Exit(h)
    /\ UNCHANGED <<session, stored, saw, reminders, armed>>

(* The reminder is printed, or the output fails: the claim stays. *)
PrintReminder(h) ==
    /\ pc[h] = "print"
    /\ Exit(h)
    /\ UNCHANGED <<session, stored, saw, reminders, armed>>

Next ==
    \/ \E e \in Events : Change(e)
    \/ SilentChange \/ WriteChange \/ WriteUnrelated
    \/ \E h \in Hooks : ReadUsage(h) \/ Rearm(h) \/ Claim(h) \/ NoClaim(h)
                        \/ PrintReminder(h)

Spec == Init /\ [][Next]_vars

-----------------------------------------------------------------------------
TypeOK ==
    /\ Len(transcript) <= MAX_BYTES /\ cut \in BOOLEAN
    /\ pending \in Seq(Events) /\ Len(pending) <= MaxLag
    /\ context \in 0..MaxU64 /\ written \in 0..MaxU64
    /\ stored \in Levels
    /\ pc \in [Hooks -> {"idle", "claim", "print"}]
    /\ saw \in [Hooks -> Levels]
    /\ crossings \in [{1, 2} -> Nat]
    /\ reminders \in [{1, 2} -> Nat]
    /\ armed \in [{1, 2} -> Nat]

(* A hook's reading may lag behind the context, for the transcript does,    *)
(* but it never goes behind the transcript: what it reads from the tail is  *)
(* the size after the last change that a line was written about, or         *)
(* nothing, whatever the runtime zeroes, sums, damages or pushes out of the *)
(* window (context.rs:115-172).                                             *)
ReadingIsLatest == Reading \in {None, written}

(* However many hooks read the same usage at once, one of them wins a      *)
(* level between two re-armings, and a lower level is not won after a      *)
(* higher one (the claim is one conditional upsert).                       *)
OneWinnerPerLevel ==
    /\ \A l \in {1, 2} : armed[l] <= 1
    /\ armed[2] = 1 => stored = 2

(* At most one reminder per threshold crossing, including concurrent hook  *)
(* calls (store/context.rs:1).                                             *)
AtMostOncePerCrossing == \A l \in {1, 2} : reminders[l] <= crossings[l]
=============================================================================
