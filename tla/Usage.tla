-------------------------------- MODULE Usage --------------------------------
(***************************************************************************)
(* How a hook tells the size of a session's context from the tail of its   *)
(* transcript (context.rs: read_usage, latest_usage, usage_tokens).  A     *)
(* transcript only grows, by lines.  A last line without its newline is    *)
(* not read, so a read that overlaps an append sees the transcript before  *)
(* or after it.                                                            *)
(***************************************************************************)
EXTENDS Integers, Sequences, FiniteSets, FiniteSetsExt

CONSTANTS
    None,       \* no usage can be told
    Missing,    \* a field that is not there
    MAX_BYTES,  \* how much of the transcript's end is read
    MaxU64,     \* u64::MAX
    REMIND_AT, COMPACT_AT  \* thresholds, in tokens

ASSUME UsageAssumption ==
    /\ MAX_BYTES \in Nat \ {0} /\ MaxU64 \in Nat
    /\ REMIND_AT \in 1..MaxU64 /\ COMPACT_AT \in REMIND_AT + 1 .. MaxU64

(* `input' stands for input_tokens, which must be there, `rest' for the    *)
(* three counters that may be missing.  A counter that is no u64 is -1.    *)
Counter == -1..MaxU64
Counters == [input : Counter, rest : Counter]

(* The sum of the counters, checked for overflow; a zero total proves      *)
(* nothing.                                                                *)
Total(c) ==
    IF c.input # -1 /\ c.rest # -1 /\ c.input + c.rest \in 1..MaxU64
    THEN c.input + c.rest
    ELSE None

(* The counters of the last iteration if there is one, and only if it is a *)
(* message; else the aggregate ones.                                       *)
UsageTokens(usage) ==
    IF usage.iterations = <<>> THEN Total(usage.counters)
    ELSE LET last == usage.iterations[Len(usage.iterations)]
         IN  IF last.message THEN Total(last.counters) ELSE None

(* Mutant: a line that cannot be parsed is skipped. *)
DecisiveIfParsed(line) ==
    /\ line.kind # "damaged" /\ line.own
    /\ line.kind = "boundary" \/ (line.kind = "assistant" /\ line.usage # Missing)

(* The lines that end the search from the back: one that does not parse,   *)
(* and, of this session, a compaction boundary and a usage record.         *)
Decisive(line) ==
    \/ line.kind = "damaged"
    \/ /\ line.own
       /\ line.kind = "boundary" \/ (line.kind = "assistant" /\ line.usage # Missing)

ReadLine(line) ==
    CASE line.kind = "damaged" -> None
      [] line.kind = "boundary" -> 0
      [] line.kind = "assistant" -> UsageTokens(line.usage)

LatestUsage(lines) ==
    LET decisive == {i \in DOMAIN lines : Decisive(lines[i])}
    IN  IF decisive = {} THEN None ELSE ReadLine(lines[Max(decisive)])

BytesFrom(lines, first) ==
    MapThenSumSet(LAMBDA i : lines[i].size, first..Len(lines))

(* Does line i survive in a transcript longer than MAX_BYTES?  The line     *)
(* with the first byte of the window goes, even if all of it is there.      *)
InWindow(lines, i) == BytesFrom(lines, i) < MAX_BYTES

Window(lines) ==
    LET first == Len(lines) + 1 - Cardinality({i \in DOMAIN lines : InWindow(lines, i)})
    IN  SubSeq(lines, first, Len(lines))

LevelOf(tokens) ==
    IF tokens >= COMPACT_AT THEN 2 ELSE IF tokens >= REMIND_AT THEN 1 ELSE 0
=============================================================================
