---------------------------- MODULE RegistryProofs ----------------------------
(***************************************************************************)
(* Lookups, proved for any sessions, pids, threads, names, limits, clocks  *)
(* and questions: what is in a report, and that it keeps the promise of    *)
(* Directory while sessions and threads come and go.                       *)
(***************************************************************************)
EXTENDS Registry, FiniteSetTheorems, TLAPS

Stamps == Int \cup {None}

(* When the process of a pid was a session's whose record has its stamp:   *)
(* not before it started, and soon after.  A record that outlived its      *)
(* session is older than the process that has the pid now by more than the *)
(* tolerance.                                                              *)
Outlived(p, stamp) ==
    IF process[p].by = None THEN stamp <= process[p].start + RecordDelay
    ELSE stamp + START_TOLERANCE_MILLIS < process[p].start

ClaudeTypes ==
    /\ now \in Int
    /\ process \in [Pids -> [by : {None, Other} \cup Sessions, start : Int]]
    /\ record \in [Pids -> {None} \cup [session : Sessions, started : Stamps]]

(* A session has one pid, and so has its record.                           *)
Unique ==
    \A p, q \in Pids : \A s \in Sessions :
        /\ process[p].by = s /\ process[q].by = s => p = q
        /\ RecordedAt(p, s) /\ RecordedAt(q, s) => p = q
        /\ process[p].by = s /\ RecordedAt(q, s) => p = q

ClockInv ==
    \A p \in Pids :
        /\ process[p].start <= now
        /\ process[p].by \in Sessions /\ ~Owns(p) => now <= process[p].start + RecordDelay
        /\ record[p] # None /\ record[p].started # None =>
              IF Owns(p) THEN record[p].started \in
                                  process[p].start..(process[p].start + RecordDelay)
              ELSE Outlived(p, record[p].started)

CodexTypes ==
    /\ thread \in [Threads -> {"absent", "quiet", "recent", "archived"}]
    /\ database \in BOOLEAN

WorldInv == ClaudeTypes /\ Unique /\ ClockInv /\ CodexTypes

-----------------------------------------------------------------------------
(* Where a lookup is, and what each part of its state is there. *)
Reading == {"records", "probe"}
Judging == {"agents", "liveness"}

AgentType ==
    [addr : Addresses, id : Ids,
     names : SUBSET (Pids \cup Threads \cup {NameOf[x] : x \in Ids}
                         \cup {ShortName[t] : t \in Threads}),
     seen : {0, 1}, key : BOOLEAN, verified : BOOLEAN]

ReportType == [agents : SUBSET AgentType, complete : BOOLEAN]

ScanTypes ==
    /\ paths \in SUBSET Pids
    /\ starts \in [Pids -> Stamps]
    /\ key \in BOOLEAN
    /\ rollouts \in SUBSET Threads

StageInv ==
    /\ query \in Queries \cup {None}
    /\ query = None <=> stage = "none"
    /\ CASE stage = "none" -> pc = "idle"
         [] stage = "claude" -> ClaudeScanning \/ pc = "merge"
         [] stage = "codex" -> CodexScanning \/ pc = "merge"
         [] stage = "resolve" -> pc = "resolve"
         [] stage = "exact" -> ClaudeScanning \/ CodexScanning \/ pc = "merge"
         [] stage = "done" -> pc = "done"
         [] OTHER -> FALSE
    /\ stage \in {"claude", "codex"} => exact = None /\ all = query.all
    /\ stage = "resolve" => query.all \in BOOLEAN
    /\ stage = "exact" => /\ query.kind = "address"
                          /\ exact = query.of[2]
                          /\ ClaudeScanning => query.of[1] = "claude"
                          /\ CodexScanning => query.of[1] = "codex"

(* Nothing is left over of an earlier scan, or of an earlier step of this  *)
(* one.                                                                    *)
CleanInv ==
    /\ pc \notin Reading => paths = {}
    /\ pc \notin Reading \cup Judging => found = {}
    /\ pc \notin Judging => \A p \in Pids : starts[p] = None
    /\ pc # "liveness" => ~key
    /\ pc # "logs" => rollouts = {}
    /\ stage = "none" => answer = NoAnswer /\ report = EmptyReport
    /\ stage \in {"none", "resolve", "done"} => part = EmptyReport
    /\ answer.verified \subseteq answer.ids

HistoryInv ==
    /\ steady \subseteq Live(query) /\ Live(query) \subseteq ran
    /\ Listed(query) \subseteq ever /\ steady \subseteq ever
    /\ ran \subseteq Ids
    /\ query = None => steady = {} /\ ever = {} /\ ran = {}

-----------------------------------------------------------------------------
(* The records and agents of a lookup. *)
Read == found \cup (IF pc = "liveness" THEN {hand} ELSE {})

(* This pid is of a session that answered all the time since the question. *)
Steady(p) == Owns(p) /\ process[p].by \in steady

Matches(r) == Answers(query, Address("claude", r.pid), {NameOf[r.session], r.pid})

(* A record that was read: of a session that ran meanwhile, or an old one, *)
(* and then the process that was seen is another one.                      *)
RecordType == [pid : Pids, session : Sessions, started : Stamps]

GoodRecord(r) ==
    /\ Matches(r) => r.session \in ever
    /\ Steady(r.pid) => /\ r.session = process[r.pid].by
                        /\ r.started = record[r.pid].started
    /\ Matches(r) /\ r.started # None /\ r.session \notin ran =>
           /\ Outlived(r.pid, r.started)
           /\ starts[r.pid] # None => r.started + START_TOLERANCE_MILLIS < starts[r.pid]

RecordInv == \A r \in Read : r \in RecordType /\ GoodRecord(r)

StartsInv ==
    /\ \A p \in Pids : Steady(p) /\ starts[p] # None =>
           starts[p] \in process[p].start..(process[p].start + PsDelay)
    /\ key /\ Matches(hand) => hand.session \in ran

ClaudeAgent(p, s, k, v) ==
    [addr |-> Address("claude", p), id |-> s, names |-> {NameOf[s], p},
     seen |-> 0, key |-> k, verified |-> v]

CodexAgent(t, name, n) ==
    [addr |-> Address("codex", t), id |-> t, names |-> {t, name},
     seen |-> n, key |-> TRUE, verified |-> FALSE]

FromSource(a) ==
    \/ \E p \in Pids, s \in Sessions : \E k, v \in BOOLEAN : a = ClaudeAgent(p, s, k, v)
    \/ \E t \in Threads : \E name \in {NameOf[t], ShortName[t]} : \E n \in {0, 1} :
           a = CodexAgent(t, name, n)

(* This agent goes by the names it answers to: it is not of a rollout that *)
(* was read although there is a database.                                  *)
Named(a) == \A t \in Threads : a.addr = Address("codex", t) => a.names = NamesOf(t)

Agents == part.agents \cup report.agents

GoodAgent(a) ==
    /\ Answers(query, a.addr, a.names) /\ (query.kind = "name" => Named(a))
          => a.id \in ever
    /\ a.id \in Sessions /\ (a.verified \/ a.key) /\ Answers(query, a.addr, a.names)
          => a.id \in ran
    /\ \A p \in Pids : Steady(p) /\ a.addr = Address("claude", p) => a.id = process[p].by

AgentInv == \A a \in Agents : FromSource(a) /\ GoodAgent(a)

(* Nicknames that are not known have been warned of.                       *)
NamedInv ==
    /\ part.complete => \A a \in part.agents : Named(a)
    /\ report.complete => \A a \in report.agents : Named(a)
    /\ database /\ pc \in {"rollouts", "logs"} => ~part.complete

-----------------------------------------------------------------------------
(* What a scan without a warning has not missed. *)
Sought(p) == stage = "claude" \/ (stage = "exact" /\ query.of = Address("claude", p))

SoughtThread(t) ==
    \/ stage = "codex" /\ query.kind # "address"
    \/ stage = "exact" /\ query.of = Address("codex", t)

Reached(p) ==
    \/ p \in paths
    \/ \E r \in Read : r.pid = p
    \/ At(part.agents, Address("claude", p)) # {}

ReachedThread(t) == t \in rollouts \/ At(part.agents, Address("codex", t)) # {}

CompleteInv ==
    /\ part.complete =>
        /\ pc \in Reading \cup Judging \cup {"merge"} =>
               \A p \in Pids : Steady(p) /\ Sought(p) => Reached(p)
        /\ pc \in {"logs", "merge"} =>
               \A t \in Threads \cap steady : SoughtThread(t) => ReachedThread(t)
    /\ report.complete =>
        /\ stage \in {"codex", "resolve"} =>
               \A p \in Pids : Steady(p) => At(report.agents, Address("claude", p)) # {}
        /\ stage = "resolve" /\ query.kind # "address" =>
               \A t \in Threads \cap steady : At(report.agents, Address("codex", t)) # {}

(* How many agents there can be, and one of an address in a scan's report. *)
Reports ==
    CASE stage \in {"none", "claude"} -> 0
      [] stage = "codex" -> 1
      [] stage \in {"resolve", "exact"} -> 2
      [] OTHER -> 3

CountInv ==
    /\ IsFiniteSet(part.agents) /\ Cardinality(part.agents) <= MAX_AGENTS
    /\ IsFiniteSet(report.agents) /\ Cardinality(report.agents) <= Reports * MAX_AGENTS
    /\ \A a, b \in part.agents : a.addr = b.addr => a = b

ControlInv == StageInv /\ CleanInv

ReportsInv ==
    /\ part \in ReportType /\ report \in ReportType
    /\ AgentInv /\ CountInv

RegistryInv ==
    /\ WorldInv /\ ControlInv /\ ScanTypes /\ HistoryInv
    /\ RecordInv /\ StartsInv /\ ReportsInv /\ NamedInv /\ CompleteInv

-----------------------------------------------------------------------------
(* Sessions, threads and their records. *)

LEMMA ConstantFacts ==
    /\ RecordDelay \in Int /\ 0 <= RecordDelay /\ RecordDelay <= START_TOLERANCE_MILLIS
    /\ PsDelay \in Int /\ 0 <= PsDelay /\ PsDelay <= START_TOLERANCE_MILLIS
    /\ START_TOLERANCE_MILLIS \in Int
    /\ ReuseAfter \in Int /\ ReuseAfter > START_TOLERANCE_MILLIS + RecordDelay
    /\ None \notin Sessions /\ None # Other /\ Other \notin Sessions /\ None \notin Int
    /\ None \notin [session : Sessions, started : Stamps]
BY SessionsAssumption DEF Stamps

(* Each change of the world, pid by pid. *)
LEMMA StartChanges ==
    ASSUME WorldInv, NEW p \in Pids, NEW s \in Sessions \cup {Other}, Start(p, s)
    PROVE  /\ process'[p].by = s /\ process'[p].start = now
           /\ \A q \in Pids \ {p} : process'[q] = process[q]
           /\ record' = record /\ now' = now
           /\ ~Owns(p) /\ ~Owns(p)'
           /\ s \in Sessions => \A q \in Pids : process[q].by # s /\ ~RecordedAt(q, s)
BY ConstantFacts DEF WorldInv, ClaudeTypes, Start, Owns, RecordedAt

LEMMA WriteRecordChanges ==
    ASSUME WorldInv, NEW p \in Pids, WriteRecord(p)
    PROVE  /\ process[p].by \in Sessions /\ ~Owns(p) /\ Owns(p)'
           /\ record'[p].session = process[p].by /\ record'[p].started \in {None, now}
           /\ record'[p] \in [session : Sessions, started : Stamps]
           /\ \A q \in Pids \ {p} : record'[q] = record[q]
           /\ process' = process /\ now' = now
<1>1. RecordOf(process[p].by, now) \in [session : Sessions, started : Stamps]
  BY DEF WorldInv, ClaudeTypes, WriteRecord, RecordOf, Stamps
<1> QED
  BY <1>1, ConstantFacts DEF WorldInv, ClaudeTypes, WriteRecord, Owns, RecordedAt, RecordOf

LEMMA EndChanges ==
    ASSUME WorldInv, NEW p \in Pids, End(p)
    PROVE  /\ process'[p].by = None /\ process'[p].start = process[p].start
           /\ process'[p] \in [by : {None, Other} \cup Sessions, start : Int]
           /\ \A q \in Pids \ {p} : process'[q] = process[q]
           /\ process[p].by # None
           /\ record'[p] \in {None, record[p]}
           /\ \A q \in Pids \ {p} : record'[q] = record[q]
           /\ record' \in [Pids -> {None} \cup [session : Sessions, started : Stamps]]
           /\ ~Owns(p)' /\ now' = now
BY DEF WorldInv, ClaudeTypes, End, Owns

(* Who has a pid depends on its process and record alone. *)
LEMMA SameOwner ==
    ASSUME NEW q \in Pids, process'[q] = process[q], record'[q] = record[q]
    PROVE  Owns(q)' = Owns(q) /\ \A s : RecordedAt(q, s)' = RecordedAt(q, s)
BY DEF Owns, RecordedAt

LEMMA StartKeeps ==
    ASSUME WorldInv, NEW p \in Pids, NEW s \in Sessions \cup {Other}, Start(p, s)
    PROVE  ClaudeTypes' /\ Unique' /\ ClockInv'
<1>1. ClaudeTypes'
  BY DEF WorldInv, ClaudeTypes, Start
<1>2. ASSUME NEW q \in Pids, NEW w \in Sessions
      PROVE  /\ process'[q].by = w <=> (q # p /\ process[q].by = w) \/ (q = p /\ s = w)
             /\ RecordedAt(q, w)' <=> RecordedAt(q, w)
  BY StartChanges DEF RecordedAt
<1>3. ASSUME NEW q \in Pids
      PROVE  /\ process'[q].start <= now'
             /\ process'[q].by \in Sessions /\ ~Owns(q)'
                    => now' <= process'[q].start + RecordDelay
             /\ record'[q] # None /\ record'[q].started # None =>
                   IF Owns(q)' THEN record'[q].started \in
                                  process'[q].start..(process'[q].start + RecordDelay)
                   ELSE Outlived(q, record[q].started)'
  <2>1. CASE q # p
    <3>1. process'[q] = process[q] /\ record'[q] = record[q] /\ now' = now
      BY <2>1, StartChanges
    <3>2. Owns(q)' = Owns(q)
      BY <3>1, SameOwner
    <3> QED
      BY <3>1, <3>2 DEF WorldInv, ClockInv, Outlived
  <2>2. CASE q = p
    <3>1. process'[p].start = now /\ process'[p].by = s /\ record' = record /\ now' = now
      BY StartChanges
    <3>2. ~Owns(p) /\ ~Owns(p)' /\ process[p].by = None /\ now >= process[p].start + ReuseAfter
      BY StartChanges DEF Start
    <3>3. now \in Int /\ process[p].start \in Int /\ s # None
      BY ConstantFacts DEF WorldInv, ClaudeTypes
    <3>4. ASSUME record[p] # None, record[p].started # None
          PROVE  record[p].started + START_TOLERANCE_MILLIS < now
      <4>1. record[p].started <= process[p].start + RecordDelay
        BY <3>2, <3>4 DEF WorldInv, ClockInv, Outlived
      <4>2. record[p].started \in Int
        BY <3>4 DEF WorldInv, ClaudeTypes, Stamps
      <4> QED
        BY <3>2, <3>3, <4>1, <4>2, ConstantFacts
    <3> QED
      BY <2>2, <3>1, <3>2, <3>3, <3>4, ConstantFacts DEF Outlived
  <2> QED
    BY <2>1, <2>2
<1>4. Unique'
  BY <1>2, StartChanges DEF WorldInv, Unique
<1> QED
  BY <1>1, <1>3, <1>4 DEF ClockInv, Outlived

LEMMA WriteRecordKeeps ==
    ASSUME WorldInv, NEW p \in Pids, WriteRecord(p)
    PROVE  ClaudeTypes' /\ Unique' /\ ClockInv'
<1>1. ClaudeTypes'
  BY WriteRecordChanges DEF WorldInv, ClaudeTypes, WriteRecord
<1>2. Unique'
  BY WriteRecordChanges DEF WorldInv, Unique, RecordedAt
<1>3. ASSUME NEW q \in Pids
      PROVE  /\ process'[q].start <= now'
             /\ process'[q].by \in Sessions /\ ~Owns(q)'
                    => now' <= process'[q].start + RecordDelay
             /\ record'[q] # None /\ record'[q].started # None =>
                   IF Owns(q)' THEN record'[q].started \in
                                  process'[q].start..(process'[q].start + RecordDelay)
                   ELSE Outlived(q, record[q].started)'
  <2>1. CASE q # p
    <3>1. process'[q] = process[q] /\ record'[q] = record[q] /\ now' = now
      BY <2>1, WriteRecordChanges
    <3>2. Owns(q)' = Owns(q)
      BY <3>1, SameOwner
    <3> QED
      BY <3>1, <3>2 DEF WorldInv, ClockInv, Outlived
  <2>2. CASE q = p
    <3>1. process[p].start <= now /\ now <= process[p].start + RecordDelay
      BY WriteRecordChanges DEF WorldInv, ClockInv
    <3>2. record'[p].started \in {None, now}
      BY WriteRecordChanges
    <3>3. now \in Int /\ process[p].start \in Int
      BY DEF WorldInv, ClaudeTypes
    <3> QED
      BY <2>2, <3>1, <3>2, <3>3, WriteRecordChanges, ConstantFacts
  <2> QED
    BY <2>1, <2>2
<1> QED
  BY <1>1, <1>2, <1>3 DEF ClockInv, Outlived

LEMMA EndKeeps ==
    ASSUME WorldInv, NEW p \in Pids, End(p)
    PROVE  ClaudeTypes' /\ Unique' /\ ClockInv'
<1>1. ClaudeTypes'
  BY EndChanges DEF WorldInv, ClaudeTypes, End
<1>2. Unique'
  BY EndChanges, ConstantFacts DEF WorldInv, Unique, RecordedAt
<1>3. ASSUME NEW q \in Pids
      PROVE  /\ process'[q].start <= now'
             /\ process'[q].by \in Sessions /\ ~Owns(q)'
                    => now' <= process'[q].start + RecordDelay
             /\ record'[q] # None /\ record'[q].started # None =>
                   IF Owns(q)' THEN record'[q].started \in
                                  process'[q].start..(process'[q].start + RecordDelay)
                   ELSE Outlived(q, record[q].started)'
  <2>1. CASE q # p
    <3>1. process'[q] = process[q] /\ record'[q] = record[q] /\ now' = now
      BY <2>1, EndChanges
    <3>2. Owns(q)' = Owns(q)
      BY <3>1, SameOwner
    <3> QED
      BY <3>1, <3>2 DEF WorldInv, ClockInv, Outlived
  <2>2. CASE q = p
    <3>1. process'[p].by = None /\ process'[p].start = process[p].start
          /\ ~Owns(p)' /\ record'[p] \in {None, record[p]} /\ now' = now
          /\ process[p].by # None
      BY EndChanges
    <3>2. ASSUME record[p] # None, record[p].started # None
          PROVE  record[p].started <= process[p].start + RecordDelay
      <4>1. record[p].started \in Int /\ process[p].start \in Int
        BY <3>2 DEF WorldInv, ClaudeTypes, Stamps
      <4> QED
        BY <3>1, <3>2, <4>1, ConstantFacts DEF WorldInv, ClockInv, Outlived
    <3> QED
      BY <2>2, <3>1, <3>2, ConstantFacts DEF WorldInv, ClockInv, Outlived
  <2> QED
    BY <2>1, <2>2
<1> QED
  BY <1>1, <1>2, <1>3 DEF ClockInv, Outlived

LEMMA TickKeeps ==
    ASSUME WorldInv, Tick
    PROVE  ClaudeTypes' /\ Unique' /\ ClockInv'
<1>1. ClaudeTypes'
  BY DEF WorldInv, ClaudeTypes, Tick
<1>2. Unique'
  BY DEF WorldInv, Unique, RecordedAt, Tick
<1>3. ASSUME NEW q \in Pids
      PROVE  /\ process[q].start <= now'
             /\ process[q].by \in Sessions /\ ~Owns(q) => now' <= process[q].start + RecordDelay
  <2>1. now \in Int /\ process[q].start \in Int
    BY DEF WorldInv, ClaudeTypes
  <2> QED
    BY <2>1, ConstantFacts DEF WorldInv, ClockInv, Tick
<1>4. \A q \in Pids : process'[q] = process[q] /\ record'[q] = record[q]
  BY DEF Tick
<1> QED
  BY <1>1, <1>2, <1>3, <1>4, SameOwner DEF WorldInv, ClockInv, Outlived

LEMMA WorldInit == Init => WorldInv
<1> SUFFICES ASSUME Init PROVE WorldInv
  OBVIOUS
<1>1. CodexTypes
  BY DEF Init, CodexInit, CodexTypes
<1>2. PICK by \in [Pids -> {None} \cup Sessions], of \in [Pids -> {None} \cup Sessions] :
         /\ \A p, q \in Pids : p # q /\ of[p] \in Sessions => of[p] # of[q]
         /\ \A p \in Pids : by[p] \in Sessions => of[p] = by[p]
         /\ process = [p \in Pids |-> [by |-> by[p], start |-> -ReuseAfter]]
         /\ record = [p \in Pids |->
                IF of[p] = None THEN None
                ELSE RecordOf(of[p], (IF by[p] = of[p] THEN -1 ELSE -2) * ReuseAfter)]
  BY DEF Init, ClaudeInit
<1>3. now = 0
  BY DEF Init, ClaudeInit
<1>4. ASSUME NEW p \in Pids
      PROVE  /\ process[p].by = by[p] /\ process[p].start = -ReuseAfter
             /\ of[p] = None => record[p] = None
             /\ of[p] # None => /\ record[p].session = of[p]
                                /\ record[p] \in [session : Sessions, started : Stamps]
                                /\ record[p].started # None => record[p].started =
                                      IF by[p] = of[p] THEN -ReuseAfter ELSE -2 * ReuseAfter
             /\ by[p] \in Sessions => of[p] = by[p]
  <2>1. /\ by[p] \in {None} \cup Sessions /\ of[p] \in {None} \cup Sessions
        /\ process[p] = [by |-> by[p], start |-> -ReuseAfter]
        /\ record[p] = IF of[p] = None THEN None
                ELSE RecordOf(of[p], (IF by[p] = of[p] THEN -1 ELSE -2) * ReuseAfter)
    BY <1>2
  <2> DEFINE start == (IF by[p] = of[p] THEN -1 ELSE -2) * ReuseAfter
  <2>2. start \in Int /\ start = IF by[p] = of[p] THEN -ReuseAfter ELSE -2 * ReuseAfter
    <3>1. (-1) * ReuseAfter = -ReuseAfter /\ (-2) * ReuseAfter = -2 * ReuseAfter
      BY ConstantFacts
    <3> QED
      BY <3>1, ConstantFacts
  <2>3. of[p] # None => /\ record[p].session = of[p]
                        /\ record[p].started \in {None, start}
                        /\ record[p] \in [session : Sessions, started : Stamps]
    <3> HIDE DEF start
    <3>1. of[p] # None => record[p] = RecordOf(of[p], start)
      BY <2>1 DEF start
    <3> QED
      BY <2>1, <2>2, <3>1 DEF RecordOf, Stamps
  <2> QED
    BY <1>2, <2>1, <2>2, <2>3
<1>5. ClaudeTypes
  <2>1. process \in [Pids -> [by : {None, Other} \cup Sessions, start : Int]]
    BY <1>2, ConstantFacts
  <2>2. record = [p \in Pids |-> record[p]]
    BY <1>2
  <2>3. \A p \in Pids : record[p] \in {None} \cup [session : Sessions, started : Stamps]
    BY <1>4
  <2> QED
    BY <1>3, <2>1, <2>2, <2>3 DEF ClaudeTypes
<1>6. \A p \in Pids : \A s \in Sessions : RecordedAt(p, s) <=> of[p] = s
  BY <1>2, <1>4, ConstantFacts DEF RecordedAt
<1>7. Unique
  <2>1. \A p, q \in Pids : \A s \in Sessions : of[p] = s /\ of[q] = s => p = q
    BY <1>2
  <2> QED
    BY <1>4, <1>6, <2>1 DEF Unique
<1>8. ASSUME NEW p \in Pids
      PROVE  /\ process[p].start <= now
             /\ process[p].by \in Sessions => Owns(p)
             /\ record[p] # None /\ record[p].started # None =>
                  IF Owns(p) THEN record[p].started \in
                                      process[p].start..(process[p].start + RecordDelay)
                  ELSE Outlived(p, record[p].started)
  <2>1. process[p].start <= now
    BY <1>3, <1>4, ConstantFacts
  <2>2. by[p] \in {None} \cup Sessions
    BY <1>2
  <2>3. process[p].by \in Sessions => Owns(p)
    BY <1>4, <1>6, ConstantFacts DEF Owns
  <2>4. ASSUME record[p] # None, record[p].started # None
        PROVE  /\ by[p] \in Sessions => record[p].started = -ReuseAfter
               /\ by[p] = None => record[p].started = -2 * ReuseAfter
    BY <1>4, <2>4, ConstantFacts
  <2>5. by[p] = None => ~Owns(p)
    BY <1>4 DEF Owns
  <2> QED
    BY <1>4, <2>1, <2>2, <2>3, <2>4, <2>5, ConstantFacts DEF Outlived
<1> QED
  BY <1>1, <1>5, <1>7, <1>8 DEF WorldInv, ClockInv

(* The sessions and threads of the machine stay as WorldInv says.          *)
LEMMA WorldKeeps ==
    ASSUME WorldInv, [Next]_vars
    PROVE  WorldInv'
<1>1. ASSUME UNCHANGED world PROVE WorldInv'
  BY <1>1 DEF world, claudeWorld, codexWorld, WorldInv, ClaudeTypes, CodexTypes, Unique,
              ClockInv, Outlived, Owns, RecordedAt
<1>2. ASSUME World PROVE WorldInv'
  <2>1. ASSUME ClaudeWorld, UNCHANGED codexWorld PROVE WorldInv'
    <3>1. CodexTypes'
      BY <2>1 DEF codexWorld, WorldInv, CodexTypes
    <3>2. ClaudeTypes' /\ Unique' /\ ClockInv'
      BY <2>1, StartKeeps, WriteRecordKeeps, EndKeeps, TickKeeps DEF ClaudeWorld
    <3> QED
      BY <3>1, <3>2 DEF WorldInv
  <2>2. ASSUME CodexWorld, UNCHANGED claudeWorld PROVE WorldInv'
    <3>1. CodexTypes'
      BY <2>2 DEF CodexWorld, Touch, Archive, WorldInv, CodexTypes
    <3>2. ClaudeTypes' /\ Unique' /\ ClockInv'
      BY <2>2 DEF claudeWorld, WorldInv, ClaudeTypes, Unique, ClockInv, Outlived, Owns,
                  RecordedAt
    <3> QED
      BY <3>1, <3>2 DEF WorldInv
  <2> QED
    BY <1>2, <2>1, <2>2 DEF World
<1> QED
  BY <1>1, <1>2 DEF Next, vars

-----------------------------------------------------------------------------
(* Reports. *)

LEMMA WarnProperties ==
    ASSUME NEW S, NEW rep \in [agents : SUBSET S, complete : BOOLEAN]
    PROVE  /\ Warn(rep) \in [agents : SUBSET S, complete : BOOLEAN]
           /\ Warn(rep).agents = rep.agents /\ ~Warn(rep).complete
BY DEF Warn

(* A pushed agent is there, or is warned about, and no address is lost.    *)
LEMMA PushProperties ==
    ASSUME NEW S, NEW rep \in [agents : SUBSET S, complete : BOOLEAN], NEW agent \in S
    PROVE  LET new == Push(rep, agent)
           IN  /\ new \in [agents : SUBSET S, complete : BOOLEAN]
               /\ new.complete => rep.complete
               /\ new.agents \subseteq rep.agents \cup {agent}
               /\ \A addr : At(rep.agents, addr) # {} => At(new.agents, addr) # {}
               /\ new.complete => At(new.agents, agent.addr) # {}
<1> DEFINE old == {a \in rep.agents : a.addr = agent.addr}
           new == Push(rep, agent)
<1>1. CASE old # {} /\ (\A a \in old : a.seen < agent.seen)
  <2>1. /\ new \in [agents : SUBSET S, complete : BOOLEAN]
        /\ new.agents = (rep.agents \ old) \cup {agent} /\ new.complete = rep.complete
    BY <1>1 DEF Push
  <2> QED
    BY <2>1 DEF At
<1>2. CASE old # {} /\ ~(\A a \in old : a.seen < agent.seen)
  <2>1. new = rep
    BY <1>2 DEF Push
  <2> QED
    BY <1>2, <2>1 DEF At
<1>3. CASE old = {} /\ Cardinality(rep.agents) = MAX_AGENTS
  <2>1. new = Warn(rep)
    BY <1>3 DEF Push
  <2> QED
    BY <2>1, WarnProperties DEF At
<1>4. CASE old = {} /\ Cardinality(rep.agents) # MAX_AGENTS
  <2>1. /\ new \in [agents : SUBSET S, complete : BOOLEAN]
        /\ new.agents = rep.agents \cup {agent} /\ new.complete = rep.complete
    BY <1>4 DEF Push
  <2> QED
    BY <2>1 DEF At
<1> QED
  BY <1>1, <1>2, <1>3, <1>4

(* An address has one agent, and there are no more than MAX_AGENTS.        *)
LEMMA PushCount ==
    ASSUME NEW S, NEW rep \in [agents : SUBSET S, complete : BOOLEAN], NEW agent,
           IsFiniteSet(rep.agents), Cardinality(rep.agents) <= MAX_AGENTS,
           \A a, b \in rep.agents : a.addr = b.addr => a = b
    PROVE  LET new == Push(rep, agent)
           IN  /\ IsFiniteSet(new.agents) /\ Cardinality(new.agents) <= MAX_AGENTS
               /\ \A a, b \in new.agents : a.addr = b.addr => a = b
<1> DEFINE old == {a \in rep.agents : a.addr = agent.addr}
           new == Push(rep, agent)
<1>0. Cardinality(rep.agents) \in Nat /\ MAX_AGENTS \in Nat
  BY FS_CardinalityType, DiscoveryAssumption
<1>1. CASE old # {} /\ (\A a \in old : a.seen < agent.seen)
  <2>1. new.agents = (rep.agents \ old) \cup {agent}
    BY <1>1 DEF Push
  <2>2. PICK a \in rep.agents : old = {a}
    BY <1>1
  <2>3. /\ IsFiniteSet(rep.agents \ {a})
        /\ Cardinality(rep.agents \ {a}) = Cardinality(rep.agents) - 1
    BY <2>2, FS_RemoveElement
  <2>4. /\ IsFiniteSet((rep.agents \ {a}) \cup {agent})
        /\ Cardinality((rep.agents \ {a}) \cup {agent}) <= Cardinality(rep.agents)
    <3> DEFINE base == rep.agents \ {a}
    <3> HIDE DEF base
    <3>1. IsFiniteSet(base) /\ Cardinality(base) = Cardinality(rep.agents) - 1
      BY <2>3 DEF base
    <3>2. /\ IsFiniteSet(base \cup {agent})
          /\ Cardinality(base \cup {agent}) =
                IF agent \in base THEN Cardinality(base) ELSE Cardinality(base) + 1
      BY <3>1, FS_AddElement, Zenon
    <3>3. Cardinality(base \cup {agent}) <= Cardinality(rep.agents)
      BY <1>0, <3>1, <3>2
    <3> QED
      BY <3>2, <3>3 DEF base
  <2>. DEFINE after == (rep.agents \ {a}) \cup {agent}
  <2>5. Cardinality(after) \in Nat
    BY <2>4, FS_CardinalityType
  <2>6. Cardinality(after) <= MAX_AGENTS /\ IsFiniteSet(after)
    <3> HIDE DEF after
    <3> QED
      BY <1>0, <2>4, <2>5 DEF after
  <2>7. \A z \in rep.agents \ {a} : z.addr # agent.addr
    BY <2>2
  <2>8. ASSUME NEW x \in after, NEW y \in after, x.addr = y.addr PROVE x = y
    BY <2>7, <2>8
  <2>9. new.agents = after
    BY <2>1, <2>2
  <2> HIDE DEF new, after
  <2> QED
    BY <2>6, <2>8, <2>9 DEF new
<1>2. CASE old # {} /\ ~(\A a \in old : a.seen < agent.seen)
  <2>1. new = rep
    BY <1>2 DEF Push
  <2> QED
    BY <2>1
<1>3. CASE old = {} /\ Cardinality(rep.agents) = MAX_AGENTS
  <2>1. new = Warn(rep)
    BY <1>3 DEF Push
  <2> QED
    BY <2>1, WarnProperties
<1>4. CASE old = {} /\ Cardinality(rep.agents) # MAX_AGENTS
  <2>1. new.agents = rep.agents \cup {agent}
    BY <1>4 DEF Push
  <2>2. /\ IsFiniteSet(rep.agents \cup {agent})
        /\ Cardinality(rep.agents \cup {agent}) <= Cardinality(rep.agents) + 1
    BY <1>0, FS_AddElement
  <2>3. Cardinality(rep.agents \cup {agent}) \in Nat
    BY <2>2, FS_CardinalityType
  <2> QED
    BY <1>0, <1>4, <2>1, <2>2, <2>3
<1> QED
  BY <1>1, <1>2, <1>3, <1>4

-----------------------------------------------------------------------------
(* Where a lookup is. *)
LEMMA QueryFacts ==
    ASSUME NEW q \in Queries
    PROVE  /\ q # None /\ q.kind \in {"list", "address", "name"} /\ q.all \in BOOLEAN
           /\ q.kind = "address" => /\ q.of[1] \in {"claude", "codex"}
                                    /\ q.of = Address(q.of[1], q.of[2])
                                    /\ q.of[1] = "claude" => q.of[2] \in Pids
                                    /\ q.of[1] = "codex" => q.of[2] \in Threads
BY RegistryAssumption DEF Addresses, Address

LEMMA ClaudeStepControl ==
    ASSUME ControlInv, ClaudeStep, UNCHANGED <<codexScan, query, stage, report, answer>>
    PROVE  ControlInv'
<1> USE DEF ControlInv, StageInv, CleanInv, ClaudeScanning, CodexScanning, Reading, Judging,
            codexScan
<1>1. ASSUME ClaudeList PROVE ControlInv'
  BY <1>1 DEF ClaudeList
<1>2. ASSUME NEW p \in Pids, Unreadable(p) \/ ReadRecord(p) PROVE ControlInv'
  BY <1>2 DEF Unreadable, ReadRecord
<1>3. ASSUME Probe \/ StopReading PROVE ControlInv'
  BY <1>3 DEF Probe, StopReading
<1>4. ASSUME StartTimes PROVE ControlInv'
  BY <1>4 DEF StartTimes
<1>5. ASSUME NEW r \in found, Recycled(r) \/ TakeKey(r) PROVE ControlInv'
  BY <1>5 DEF Recycled, TakeKey, scan
<1>6. ASSUME PushSession PROVE ControlInv'
  BY <1>6 DEF PushSession
<1>7. ASSUME SessionsDone PROVE ControlInv'
  BY <1>7 DEF SessionsDone, Return
<1> QED
  BY <1>1, <1>2, <1>3, <1>4, <1>5, <1>6, <1>7 DEF ClaudeStep

LEMMA CodexStepControl ==
    ASSUME ControlInv, CodexStep, UNCHANGED <<claudeScan, query, stage, report, answer>>
    PROVE  ControlInv'
<1> USE DEF ControlInv, StageInv, CleanInv, ClaudeScanning, CodexScanning, Reading, Judging,
            claudeScan
<1>1. ASSUME CodexFails \/ Query PROVE ControlInv'
  BY <1>1 DEF CodexFails, Query, Return
<1>2. ASSUME DatabaseFails \/ NoDatabase PROVE ControlInv'
  BY <1>2 DEF DatabaseFails, NoDatabase
<1>3. ASSUME ListRollouts \/ StopRollouts PROVE ControlInv'
  BY <1>3 DEF ListRollouts, StopRollouts
<1>4. ASSUME NEW t \in Threads, ReadRollout(t) PROVE ControlInv'
  BY <1>4 DEF ReadRollout
<1>5. ASSUME RolloutsDone PROVE ControlInv'
  BY <1>5 DEF RolloutsDone, Return
<1> QED
  BY <1>1, <1>2, <1>3, <1>4, <1>5 DEF CodexStep

LEMMA ReplyControl ==
    ASSUME ControlInv, NEW outcome, NEW agents, Reply(outcome, agents),
           stage \in {"resolve", "exact"}, pc \in {"resolve", "merge"}
    PROVE  ControlInv'
<1>1. /\ stage' = "done" /\ pc' = "done" /\ part' = EmptyReport
      /\ UNCHANGED <<query, paths, found, starts, key, rollouts>>
      /\ answer'.verified \subseteq answer'.ids
  BY DEF Reply, claudeScan, codexScan
<1> QED
  BY <1>1 DEF ControlInv, StageInv, CleanInv, Reading, Judging, ClaudeScanning, CodexScanning

LEMMA AnswerControl ==
    ASSUME ControlInv,
           ThenCodex \/ Discovered \/ ReplyListing \/ ResolveListed \/ FindExact
               \/ ResolveExact \/ ResolveName
    PROVE  ControlInv'
<1>1. ASSUME ThenCodex PROVE ControlInv'
  BY <1>1 DEF ThenCodex, BeginScan, claudeScan, codexScan, ControlInv, StageInv, CleanInv,
              ClaudeScanning, CodexScanning, Reading, Judging
<1>2. ASSUME Discovered PROVE ControlInv'
  BY <1>2, QueryFacts DEF Discovered, claudeScan, codexScan, ControlInv, StageInv, CleanInv,
              ClaudeScanning, CodexScanning, Reading, Judging
<1>3. ASSUME ReplyListing PROVE ControlInv'
  BY <1>3, ReplyControl DEF ReplyListing, ControlInv, StageInv, ClaudeScanning, CodexScanning
<1>4. ASSUME ResolveListed PROVE ControlInv'
  BY <1>4, ReplyControl DEF ResolveListed, ControlInv, StageInv, ClaudeScanning, CodexScanning
<1>5. ASSUME FindExact PROVE ControlInv'
  BY <1>5, QueryFacts DEF FindExact, BeginScan, claudeScan, codexScan, ControlInv, StageInv,
              CleanInv, ClaudeScanning, CodexScanning, Reading, Judging
<1>6. ASSUME ResolveExact PROVE ControlInv'
  BY <1>6, ReplyControl DEF ResolveExact
<1>7. ASSUME ResolveName PROVE ControlInv'
  <2>1. pc = "resolve" /\ stage = "resolve"
    BY <1>7 DEF ResolveName, ControlInv, StageInv, ClaudeScanning, CodexScanning
  <2>2. \E outcome, agents : Reply(outcome, agents)
    BY <1>7 DEF ResolveName
  <2> QED
    BY <2>1, <2>2, ReplyControl
<1> QED
  BY <1>1, <1>2, <1>3, <1>4, <1>5, <1>6, <1>7

LEMMA ControlKeeps ==
    ASSUME ControlInv, [Next]_vars
    PROVE  ControlInv'
<1>1. ASSUME UNCHANGED lookup PROVE ControlInv'
  BY <1>1 DEF lookup, scan, claudeScan, codexScan, ControlInv, StageInv, CleanInv,
              ClaudeScanning, CodexScanning
<1>2. ASSUME NEW q \in Queries, Ask(q) PROVE ControlInv'
  BY <1>2, QueryFacts DEF Ask, BeginScan, claudeScan, codexScan, ControlInv, StageInv,
              CleanInv, ClaudeScanning, CodexScanning, Reading, Judging
<1>3. ASSUME Forget PROVE ControlInv'
  BY <1>3 DEF Forget, claudeScan, codexScan, ControlInv, StageInv, CleanInv, NoAnswer,
              ClaudeScanning, CodexScanning, Reading, Judging
<1>4. ASSUME Lookup PROVE ControlInv'
  BY <1>4, ClaudeStepControl, CodexStepControl, AnswerControl DEF Lookup
<1> QED
  BY <1>1, <1>2, <1>3, <1>4 DEF Next, World, vars

LEMMA ControlInit == Init => ControlInv
BY DEF Init, ClaudeInit, CodexInit, NoAnswer, ControlInv, StageInv, CleanInv, Reading, Judging

-----------------------------------------------------------------------------
(* What there was to be found. *)

LEMMA LiveIsListed ==
    ASSUME WorldInv, NEW q
    PROVE  /\ Live(q) \subseteq Listed(q) /\ Listed(q) \subseteq Ids
           /\ Recorded(q) \subseteq Sessions
BY DEF WorldInv, ClaudeTypes, Live, Listed, Running, Open, Recorded, Kept, Ids

LEMMA SameWorld ==
    ASSUME UNCHANGED world
    PROVE  /\ \A q : Live(q)' = Live(q) /\ Listed(q)' = Listed(q)
           /\ \A p : Owns(p)' = Owns(p)
<1> USE DEF world, claudeWorld, codexWorld
<1>1. \A p : Owns(p)' = Owns(p)
  BY DEF Owns, RecordedAt
<1>2. \A q : Recorded(q)' = Recorded(q)
  BY DEF Recorded
<1>3. \A q : Running(q)' = Running(q)
  BY <1>1, <1>2 DEF Running
<1>4. \A q : Kept(q)' = Kept(q)
  BY DEF Kept, NamesOf
<1>5. \A q : Open(q)' = Open(q)
  BY <1>4 DEF Open
<1> QED
  BY <1>1, <1>2, <1>3, <1>4, <1>5 DEF Live, Listed

LEMMA HistoryKeeps ==
    ASSUME WorldInv, ControlInv, HistoryInv, [Next]_vars
    PROVE  HistoryInv'
<1>1. WorldInv'
  BY WorldKeeps
<1>2. ASSUME UNCHANGED <<world, history, query>> PROVE HistoryInv'
  <2>1. Live(query)' = Live(query) /\ Listed(query)' = Listed(query)
    BY <1>2, SameWorld
  <2> QED
    BY <1>2, <2>1 DEF HistoryInv, history
<1>3. ASSUME World PROVE HistoryInv'
  <2>1. /\ steady' = steady \cap Live(query)'
        /\ ever' = ever \cup Listed(query)'
        /\ ran' = ran \cup Live(query)'
        /\ query' = query /\ query # None
    BY <1>3 DEF World, Observe, lookup, ControlInv, StageInv, ClaudeScanning, CodexScanning
  <2>2. Live(query)' \subseteq Listed(query)' /\ Listed(query)' \subseteq Ids
    <3>1. Recorded(query)' \subseteq Sessions
      <4>1. \A p \in Pids : record'[p] # None => record'[p].session \in Sessions
        BY <1>1 DEF WorldInv, ClaudeTypes
      <4> QED
        BY <4>1 DEF Recorded
    <3>2. Running(query)' \subseteq Recorded(query)'
      BY DEF Running
    <3>3. Open(query)' \subseteq Kept(query)' /\ Kept(query)' \subseteq Threads
      BY DEF Open, Kept
    <3> QED
      BY <3>1, <3>2, <3>3 DEF Live, Listed, Ids
  <2> QED
    BY <2>1, <2>2 DEF HistoryInv
<1>4. ASSUME NEW q \in Queries, Ask(q), UNCHANGED world PROVE HistoryInv'
  <2>1. query' = q /\ steady' = Live(q) /\ ever' = Listed(q) /\ ran' = Live(q)
    BY <1>4 DEF Ask
  <2>2. Live(query)' = Live(q) /\ Listed(query)' = Listed(q)
    <3>1. Live(q)' = Live(q) /\ Listed(q)' = Listed(q)
      BY <1>4, SameWorld
    <3> QED
      BY <2>1, <3>1
  <2>3. Live(q) \subseteq Listed(q) /\ Listed(q) \subseteq Ids
    BY LiveIsListed
  <2> QED
    BY <2>1, <2>2, <2>3, QueryFacts DEF HistoryInv
<1>5. ASSUME Forget, UNCHANGED world PROVE HistoryInv'
  BY <1>5 DEF Forget, HistoryInv, Live, Listed
<1>6. Lookup => UNCHANGED query
  BY DEF Lookup, ThenCodex, Discovered, ReplyListing, ResolveListed, FindExact,
         ResolveExact, ResolveName, Reply
<1> QED
  BY <1>2, <1>3, <1>4, <1>5, <1>6 DEF Next, vars, lookup

(* Every session that was there all the time has a pid, and its record     *)
(* answers to the question; a thread is one that a query asks for.         *)
LEMMA SteadySession ==
    ASSUME WorldInv, HistoryInv, NEW x \in steady, x \in Sessions
    PROVE  \E p \in Pids : /\ Steady(p) /\ process[p].by = x
                           /\ Answers(query, Address("claude", p), {NameOf[x], p})
<1>1. x \in Live(query) /\ query # None
  BY DEF HistoryInv
<1>2. x \notin Threads
  BY RegistryAssumption
<1>3. x \in Recorded(query) /\ \E p \in Pids : Owns(p) /\ process[p].by = x
  BY <1>1, <1>2 DEF Live, Running, Open, Kept
<1>4. PICK p \in Pids : Owns(p) /\ process[p].by = x
  BY <1>3
<1>5. PICK q \in Pids : /\ RecordedAt(q, x)
                        /\ Answers(query, Address("claude", q), {NameOf[x], q})
  BY <1>3 DEF Recorded, RecordedAt
<1>6. p = q
  BY <1>4, <1>5 DEF WorldInv, Unique
<1> QED
  BY <1>4, <1>5, <1>6 DEF Steady

LEMMA SteadyThread ==
    ASSUME WorldInv, HistoryInv, NEW t \in steady, t \in Threads
    PROVE  t \in Open(query)
<1>1. t \in Live(query) /\ query # None
  BY DEF HistoryInv
<1>2. Running(query) \subseteq Sessions /\ t \notin Sessions
  BY LiveIsListed, RegistryAssumption DEF Running
<1> QED
  BY <1>1, <1>2 DEF Live

LEMMA SteadyKinds ==
    ASSUME WorldInv, HistoryInv, NEW x \in steady
    PROVE  x \in Sessions \/ x \in Threads
BY LiveIsListed DEF HistoryInv, Ids

(* A pid that is of a steady session after a change was so before it.      *)
LEMMA SteadyStays ==
    ASSUME WorldInv, HistoryInv, World, NEW p \in Pids, Steady(p)'
    PROVE  Steady(p) /\ process'[p] = process[p] /\ record'[p] = record[p]
<1>1. steady' \subseteq steady /\ Owns(p)' /\ process'[p].by \in steady
  BY DEF World, Observe, Steady
<1>2. SUFFICES ASSUME ~(process'[p] = process[p] /\ record'[p] = record[p]) PROVE FALSE
  BY <1>1, SameOwner DEF Steady
<1>3. ClaudeWorld
  BY <1>2 DEF World, claudeWorld
<1>4. ASSUME NEW q \in Pids, NEW s \in Sessions \cup {Other}, Start(q, s) PROVE FALSE
  BY <1>1, <1>2, <1>4, StartChanges
<1>5. ASSUME NEW q \in Pids, WriteRecord(q) PROVE FALSE
  <2>1. q = p
    BY <1>2, <1>5, WriteRecordChanges
  <2>2. process[p].by \in steady /\ process[p].by \in Sessions /\ ~Owns(p)
    BY <1>1, <1>5, <2>1, WriteRecordChanges
  <2>3. PICK w \in Pids : Steady(w) /\ process[w].by = process[p].by
    BY <2>2, SteadySession
  <2>4. w = p
    BY <2>2, <2>3 DEF WorldInv, Unique
  <2> QED
    BY <2>2, <2>3, <2>4 DEF Steady
<1>6. ASSUME NEW q \in Pids, End(q) PROVE FALSE
  BY <1>1, <1>2, <1>6, EndChanges
<1>7. ASSUME Tick PROVE FALSE
  BY <1>2, <1>7 DEF Tick
<1> QED
  BY <1>3, <1>4, <1>5, <1>6, <1>7 DEF ClaudeWorld

-----------------------------------------------------------------------------
(* What was read stays true while the world changes. *)

LEMMA OutlivedStays ==
    ASSUME WorldInv, World, NEW p \in Pids, NEW stamp \in Int, Outlived(p, stamp)
    PROVE  Outlived(p, stamp)'
<1>1. process[p].start \in Int /\ now \in Int
  BY DEF WorldInv, ClaudeTypes
<1>2. ASSUME process'[p] = process[p] PROVE Outlived(p, stamp)'
  BY <1>2 DEF Outlived
<1>3. ASSUME ClaudeWorld PROVE Outlived(p, stamp)'
  <2>1. ASSUME NEW q \in Pids, NEW s \in Sessions \cup {Other}, Start(q, s)
        PROVE  Outlived(p, stamp)'
    <3>1. CASE q = p
      <4>1. process[p].by = None /\ now >= process[p].start + ReuseAfter
        BY <2>1, <3>1 DEF Start
      <4>2. process'[p].by # None /\ process'[p].start = now
        BY <2>1, <3>1, StartChanges, ConstantFacts
      <4> QED
        BY <1>1, <4>1, <4>2, ConstantFacts DEF Outlived
    <3> QED
      BY <1>2, <2>1, <3>1, StartChanges
  <2>2. ASSUME NEW q \in Pids, WriteRecord(q) PROVE Outlived(p, stamp)'
    BY <1>2, <2>2, WriteRecordChanges
  <2>3. ASSUME NEW q \in Pids, End(q) PROVE Outlived(p, stamp)'
    <3>1. CASE q = p
      BY <1>1, <2>3, <3>1, EndChanges, ConstantFacts DEF Outlived
    <3> QED
      BY <1>2, <2>3, <3>1, EndChanges
  <2>4. ASSUME Tick PROVE Outlived(p, stamp)'
    BY <1>2, <2>4 DEF Tick
  <2> QED
    BY <1>3, <2>1, <2>2, <2>3, <2>4 DEF ClaudeWorld
<1> QED
  BY <1>2, <1>3 DEF World, claudeWorld

LEMMA GoodRecordStays ==
    ASSUME WorldInv, HistoryInv, World, NEW r \in RecordType, GoodRecord(r)
    PROVE  GoodRecord(r)'
<1>1. query' = query /\ starts' = starts /\ ever \subseteq ever' /\ ran \subseteq ran'
  BY DEF World, Observe, lookup, claudeScan
<1>2. r.pid \in Pids /\ r.started \in Stamps
  BY DEF RecordType
<1>3. Matches(r)' = Matches(r)
  BY <1>1 DEF Matches
<1>4. Steady(r.pid)' => /\ r.session = process'[r.pid].by
                        /\ r.started = record'[r.pid].started
  BY <1>2, SteadyStays DEF GoodRecord
<1>5. ASSUME Matches(r), r.started # None, r.session \notin ran'
      PROVE  /\ Outlived(r.pid, r.started)'
             /\ starts'[r.pid] # None => r.started + START_TOLERANCE_MILLIS < starts'[r.pid]
  <2>1. r.started \in Int
    BY <1>2, <1>5 DEF Stamps
  <2> QED
    BY <1>1, <1>2, <1>5, <2>1, OutlivedStays DEF GoodRecord
<1> QED
  BY <1>1, <1>3, <1>4, <1>5 DEF GoodRecord

LEMMA StartsStay ==
    ASSUME WorldInv, HistoryInv, World, StartsInv
    PROVE  StartsInv'
<1>1. query' = query /\ UNCHANGED <<starts, key, hand>> /\ ran \subseteq ran'
  BY DEF World, Observe, lookup, claudeScan
<1>2. Matches(hand)' = Matches(hand)
  BY <1>1 DEF Matches
<1> QED
  BY <1>1, <1>2, SteadyStays DEF StartsInv

LEMMA GoodAgentStays ==
    ASSUME WorldInv, HistoryInv, World, NEW a, GoodAgent(a)
    PROVE  GoodAgent(a)'
<1>1. query' = query /\ ever \subseteq ever' /\ ran \subseteq ran'
  BY DEF World, Observe, lookup
<1>2. Named(a)' = Named(a)
  BY DEF World, CodexWorld, Touch, Archive, codexWorld, Named, NamesOf
<1> QED
  BY <1>1, <1>2, SteadyStays DEF GoodAgent

LEMMA FromSourceStays ==
    ASSUME NEW a, FromSource(a)
    PROVE  FromSource(a)'
BY DEF FromSource, ClaudeAgent, CodexAgent

-----------------------------------------------------------------------------
(* The scan of the session records. *)

LEMMA SameFacts ==
    ASSUME UNCHANGED <<world, history, query>>
    PROVE  /\ \A p : Steady(p)' = Steady(p)
           /\ \A r : Matches(r)' = Matches(r)
           /\ \A p, stamp : Outlived(p, stamp)' = Outlived(p, stamp)
           /\ \A a : GoodAgent(a)' = GoodAgent(a) /\ FromSource(a)' = FromSource(a)
           /\ \A a : Named(a)' = Named(a)
<1>0. \A a : Named(a)' = Named(a)
  BY DEF Named, NamesOf, world, codexWorld
<1>1. \A p : Steady(p)' = Steady(p)
  BY SameWorld DEF Steady, world, claudeWorld, history
<1>2. \A a : GoodAgent(a)' = GoodAgent(a)
  BY <1>0, <1>1 DEF GoodAgent, world, claudeWorld, history
<1>3. \A a : FromSource(a)' = FromSource(a)
  BY DEF FromSource, CodexAgent, ClaudeAgent
<1> QED
  BY <1>0, <1>1, <1>2, <1>3 DEF Matches, Outlived, world, claudeWorld

LEMMA SameRecords ==
    ASSUME UNCHANGED <<world, history, query, starts>>
    PROVE  \A r : GoodRecord(r)' = GoodRecord(r)
BY SameFacts DEF GoodRecord, world, claudeWorld, history

(* Nothing new was read. *)
LEMMA FewerRecords ==
    ASSUME RecordInv, StartsInv, UNCHANGED <<world, history, query, starts>>,
           Read' \subseteq Read, UNCHANGED hand \/ ~key', key' => key
    PROVE  RecordInv' /\ StartsInv'
<1>1. RecordInv'
  BY SameRecords DEF RecordInv
<1>2. StartsInv'
  BY SameFacts DEF StartsInv, world, claudeWorld, history
<1> QED
  BY <1>1, <1>2

LEMMA ReadRecordIsGood ==
    ASSUME WorldInv, ControlInv, HistoryInv, ScanTypes, NEW p \in Pids, ReadRecord(p)
    PROVE  LET r == [pid |-> p, session |-> record[p].session, started |-> record[p].started]
           IN  r \in RecordType /\ GoodRecord(r)
<1> DEFINE r == [pid |-> p, session |-> record[p].session, started |-> record[p].started]
<1>1. record[p] \in [session : Sessions, started : Stamps] /\ record[p] # None
  BY DEF ReadRecord, WorldInv, ClaudeTypes
<1>2. r \in RecordType
  BY <1>1 DEF RecordType
<1>3. query # None /\ starts[p] = None
  BY DEF ReadRecord, ControlInv, StageInv, CleanInv, ClaudeScanning, CodexScanning, Judging
<1>4. Steady(p) => record[p].session = process[p].by
  BY DEF Steady, Owns, RecordedAt
<1>5. ASSUME Matches(r) PROVE record[p].session \in Recorded(query)
  <2>1. Answers(query, Address("claude", p), {NameOf[record[p].session], p})
    BY <1>5 DEF Matches
  <2> QED
    BY <1>1, <2>1 DEF Recorded
<1>6. Recorded(query) \subseteq ever
  BY <1>3 DEF HistoryInv, Listed
<1>7. ASSUME Matches(r), record[p].started # None, record[p].session \notin ran
      PROVE  Outlived(p, record[p].started)
  <2>1. ~Owns(p)
    <3>1. SUFFICES ASSUME Owns(p) PROVE record[p].session \in Running(query)
      BY <1>3, <1>7 DEF HistoryInv, Live
    <3>2. record[p].session = process[p].by
      BY <3>1 DEF Owns, RecordedAt
    <3> QED
      BY <1>5, <1>7, <3>1, <3>2 DEF Running
  <2> QED
    BY <1>1, <1>7, <2>1 DEF WorldInv, ClockInv
<1>8. r.pid = p /\ r.session = record[p].session /\ r.started = record[p].started
  OBVIOUS
<1> HIDE DEF r
<1>9. GoodRecord(r)
  BY <1>3, <1>4, <1>5, <1>6, <1>7, <1>8 DEF GoodRecord
<1> QED
  BY <1>2, <1>9 DEF r

(* ps shows the process that has the pid, and this one started later than  *)
(* what is in a record that outlived its session.                          *)
LEMMA StartTimesAreGood ==
    ASSUME WorldInv, ControlInv, ScanTypes, RecordInv, StartTimes,
           UNCHANGED <<world, history, query>>
    PROVE  /\ starts' \in [Pids -> Stamps]
           /\ \A r \in found : GoodRecord(r)'
           /\ \A p \in Pids : Steady(p) /\ starts'[p] # None =>
                  starts'[p] \in process[p].start..(process[p].start + PsDelay)
<1>1. PICK shown \in {{}, {r \in found : IsAlive(r.pid)}}, delay \in 0..PsDelay :
         starts' = [p \in Pids |-> IF \E r \in shown : r.pid = p
                                   THEN process[p].start + delay ELSE None]
  BY DEF StartTimes
<1>2. delay \in Int /\ 0 <= delay /\ delay <= PsDelay
  BY <1>1, ConstantFacts
<1>3. ASSUME NEW p \in Pids
      PROVE  /\ process[p].start \in Int
             /\ starts'[p] # None => /\ starts'[p] = process[p].start + delay
                                     /\ process[p].by # None
             /\ starts'[p] \in Stamps
  <2>1. starts'[p] = IF \E r \in shown : r.pid = p THEN process[p].start + delay ELSE None
    BY <1>1
  <2>2. process[p].start \in Int
    BY DEF WorldInv, ClaudeTypes
  <2>3. (\E r \in shown : r.pid = p) => process[p].by # None
    BY <1>1 DEF IsAlive
  <2> QED
    BY <1>2, <2>1, <2>2, <2>3 DEF Stamps
<1>4. starts' \in [Pids -> Stamps]
  BY <1>1, <1>3
<1>5. ASSUME NEW r \in found PROVE GoodRecord(r)'
  <2>1. r \in RecordType /\ GoodRecord(r)
    BY DEF RecordInv, Read
  <2>2. r.pid \in Pids /\ r.started \in Stamps
    BY <2>1 DEF RecordType
  <2>3. ASSUME Matches(r), r.started # None, r.session \notin ran, starts'[r.pid] # None
        PROVE  r.started + START_TOLERANCE_MILLIS < starts'[r.pid]
    <3>1. Outlived(r.pid, r.started) /\ process[r.pid].by # None
      BY <1>3, <2>1, <2>2, <2>3 DEF GoodRecord
    <3>2. /\ r.started + START_TOLERANCE_MILLIS < process[r.pid].start
          /\ starts'[r.pid] = process[r.pid].start + delay /\ process[r.pid].start \in Int
          /\ r.started \in Int
      BY <1>3, <2>2, <2>3, <3>1 DEF Outlived, Stamps
    <3> QED
      BY <1>2, <3>2, ConstantFacts
  <2> QED
    BY <2>1, <2>3, SameFacts DEF GoodRecord, world, claudeWorld, history
<1>6. ASSUME NEW p \in Pids, starts'[p] # None
      PROVE  starts'[p] \in process[p].start..(process[p].start + PsDelay)
  BY <1>2, <1>3, <1>6, ConstantFacts
<1> QED
  BY <1>4, <1>5, <1>6

(* A process that started when the record says is the session's.           *)
LEMMA VerifiedRan ==
    ASSUME NEW r \in RecordType, GoodRecord(r), Matches(r), starts[r.pid] \in Stamps,
           StartTimeVerified(r.started, starts[r.pid])
    PROVE  r.session \in ran
<1>1. r.started \in Int /\ starts[r.pid] \in Int /\ r.started # None /\ starts[r.pid] # None
  BY ConstantFacts DEF RecordType, Stamps, StartTimeVerified
<1>2. AbsDiff(r.started, starts[r.pid]) <= START_TOLERANCE_MILLIS
  BY DEF StartTimeVerified
<1>3. ~(r.started + START_TOLERANCE_MILLIS < starts[r.pid])
  BY <1>1, <1>2, ConstantFacts DEF AbsDiff
<1> QED
  BY <1>1, <1>3 DEF GoodRecord

LEMMA ClaudeStepRecords ==
    ASSUME WorldInv, ControlInv, HistoryInv, ScanTypes, RecordInv, StartsInv,
           ClaudeStep, UNCHANGED <<world, history, query>>
    PROVE  RecordInv' /\ StartsInv'
<1>1. ASSUME ClaudeList PROVE RecordInv' /\ StartsInv'
  BY <1>1, FewerRecords DEF ClaudeList, Read
<1>2. ASSUME NEW p \in Pids, Unreadable(p) PROVE RecordInv' /\ StartsInv'
  BY <1>2, FewerRecords DEF Unreadable, Read
<1>3. ASSUME NEW p \in Pids, ReadRecord(p) PROVE RecordInv' /\ StartsInv'
  <2> DEFINE r == [pid |-> p, session |-> record[p].session, started |-> record[p].started]
  <2>1. Read' = found \cup {r} /\ UNCHANGED <<starts, hand, key>>
    BY <1>3 DEF ReadRecord, Read
  <2>2. r \in RecordType /\ GoodRecord(r)
    BY <1>3, ReadRecordIsGood
  <2> HIDE DEF r
  <2>3. RecordInv'
    BY <2>1, <2>2, SameRecords DEF RecordInv, Read
  <2>4. StartsInv'
    BY <2>1, SameFacts DEF StartsInv, world, claudeWorld, history
  <2> QED
    BY <2>3, <2>4
<1>4. ASSUME Probe \/ StopReading PROVE RecordInv' /\ StartsInv'
  BY <1>4, FewerRecords DEF Probe, StopReading, Read
<1>5. ASSUME StartTimes PROVE RecordInv' /\ StartsInv'
  <2>1. Read' = found /\ ~key' /\ found \subseteq Read
    BY <1>5 DEF StartTimes, ControlInv, CleanInv, Judging, Read
  <2>2. RecordInv'
    BY <1>5, <2>1, StartTimesAreGood DEF RecordInv
  <2>3. \A p \in Pids : Steady(p)' /\ starts'[p] # None =>
            starts'[p] \in process'[p].start..(process'[p].start + PsDelay)
    BY <1>5, StartTimesAreGood, SameFacts DEF world, claudeWorld
  <2> QED
    BY <2>1, <2>2, <2>3 DEF StartsInv
<1>6. ASSUME NEW r \in found, Recycled(r) PROVE RecordInv' /\ StartsInv'
  BY <1>6, FewerRecords DEF Recycled, Read, scan
<1>7. ASSUME NEW r \in found, TakeKey(r) PROVE RecordInv' /\ StartsInv'
  <2>1. Read' = found /\ hand' = r /\ UNCHANGED starts /\ found \subseteq Read
    BY <1>7 DEF TakeKey, Read
  <2>2. RecordInv'
    BY <2>1, SameRecords DEF RecordInv
  <2>3. r \in RecordType /\ GoodRecord(r)
    BY <2>1 DEF RecordInv
  <2>4. starts[r.pid] \in Stamps
    BY <2>3 DEF RecordType, ScanTypes
  <2>5. key' => StartTimeVerified(r.started, starts[r.pid])
    BY <1>7 DEF TakeKey
  <2>6. key' /\ Matches(r) => r.session \in ran
    BY <2>3, <2>4, <2>5, VerifiedRan
  <2>7. key' /\ Matches(hand)' => hand'.session \in ran'
    BY <2>1, <2>6, SameFacts DEF history
  <2>8. \A p \in Pids : Steady(p)' /\ starts'[p] # None =>
            starts'[p] \in process'[p].start..(process'[p].start + PsDelay)
    BY <2>1, SameFacts DEF StartsInv, world, claudeWorld
  <2> QED
    BY <2>2, <2>7, <2>8 DEF StartsInv
<1>8. ASSUME PushSession PROVE RecordInv' /\ StartsInv'
  BY <1>8, FewerRecords DEF PushSession, Read
<1>9. ASSUME SessionsDone PROVE RecordInv' /\ StartsInv'
  BY <1>9 DEF SessionsDone, Read, Return, RecordInv, StartsInv, ControlInv, CleanInv
<1> QED
  BY <1>1, <1>2, <1>3, <1>4, <1>5, <1>6, <1>7, <1>8, <1>9 DEF ClaudeStep

-----------------------------------------------------------------------------
(* The agents of the reports. *)

LEMMA SourceTypes ==
    ASSUME NEW a, FromSource(a)
    PROVE  a \in AgentType
<1>1. ASSUME NEW p \in Pids, NEW s \in Sessions, NEW k \in BOOLEAN, NEW v \in BOOLEAN
      PROVE  ClaudeAgent(p, s, k, v) \in AgentType
  BY DEF ClaudeAgent, AgentType, Address, Addresses, Ids
<1>2. ASSUME NEW t \in Threads, NEW n \in {0, 1}, NEW name \in {NameOf[t], ShortName[t]}
      PROVE  CodexAgent(t, name, n) \in AgentType
  <2>1. {t, name} \in SUBSET (Pids \cup Threads \cup {NameOf[x] : x \in Ids}
                                   \cup {ShortName[u] : u \in Threads})
    BY DEF Ids
  <2>2. Address("codex", t) \in Addresses /\ t \in Ids
    BY DEF Address, Addresses, Ids
  <2> QED
    BY <2>1, <2>2 DEF CodexAgent, AgentType
<1> QED
  BY <1>1, <1>2 DEF FromSource

LEMMA QuietReports ==
    ASSUME ReportsInv, UNCHANGED <<world, history, query, stage, report>>,
           part' = part \/ part' = Warn(part)
    PROVE  ReportsInv'
<1>1. part' \in ReportType /\ part'.agents = part.agents
  BY WarnProperties DEF ReportsInv, ReportType
<1>2. AgentInv'
  BY <1>1, SameFacts DEF ReportsInv, AgentInv, Agents
<1>3. CountInv'
  BY <1>1 DEF ReportsInv, CountInv, Reports
<1> QED
  BY <1>1, <1>2, <1>3 DEF ReportsInv

LEMMA PushReports ==
    ASSUME ReportsInv, UNCHANGED <<world, history, query, stage, report>>,
           NEW a, FromSource(a), GoodAgent(a), part' = Push(part, a)
    PROVE  ReportsInv'
<1>1. /\ part' \in ReportType
      /\ part'.agents \subseteq part.agents \cup {a}
  BY SourceTypes, PushProperties DEF ReportsInv, ReportType
<1>2. AgentInv'
  BY <1>1, SameFacts DEF ReportsInv, AgentInv, Agents
<1>3. /\ IsFiniteSet(part'.agents) /\ Cardinality(part'.agents) <= MAX_AGENTS
      /\ \A x, y \in part'.agents : x.addr = y.addr => x = y
  BY PushCount DEF ReportsInv, ReportType, CountInv
<1>4. CountInv'
  BY <1>3 DEF ReportsInv, CountInv, Reports
<1> QED
  BY <1>1, <1>2, <1>4 DEF ReportsInv

LEMMA SessionIsGood ==
    ASSUME ScanTypes, RecordInv, StartsInv, pc = "liveness",
           NEW v \in BOOLEAN, v => StartTimeVerified(hand.started, starts[hand.pid])
    PROVE  LET a == ClaudeAgent(hand.pid, hand.session, key, v)
           IN  FromSource(a) /\ GoodAgent(a)
<1> DEFINE a == ClaudeAgent(hand.pid, hand.session, key, v)
<1>1. hand \in RecordType /\ GoodRecord(hand)
  BY DEF RecordInv, Read
<1>2. /\ hand.pid \in Pids /\ hand.session \in Sessions /\ key \in BOOLEAN
      /\ starts[hand.pid] \in Stamps
  BY <1>1 DEF RecordType, ScanTypes
<1>3. FromSource(a)
  BY <1>2 DEF FromSource
<1>4. /\ a.addr = Address("claude", hand.pid) /\ a.id = hand.session
      /\ a.names = {NameOf[hand.session], hand.pid} /\ a.key = key /\ a.verified = v
  BY DEF ClaudeAgent
<1> HIDE DEF a
<1>5. Answers(query, a.addr, a.names) <=> Matches(hand)
  BY <1>4 DEF Matches
<1>6. Matches(hand) /\ (key \/ v) => hand.session \in ran
  BY <1>1, <1>2, VerifiedRan DEF StartsInv
<1>7. ASSUME NEW p \in Pids, Steady(p), a.addr = Address("claude", p)
      PROVE  a.id = process[p].by
  <2>1. p = hand.pid
    BY <1>4, <1>7 DEF Address
  <2> QED
    BY <1>1, <1>4, <1>7, <2>1 DEF GoodRecord
<1>8. GoodAgent(a)
  BY <1>1, <1>4, <1>5, <1>6, <1>7 DEF GoodAgent, GoodRecord
<1> QED
  BY <1>3, <1>8 DEF a

LEMMA ClaudeStepReports ==
    ASSUME ScanTypes, RecordInv, StartsInv, ReportsInv, ClaudeStep,
           UNCHANGED <<world, history, query, stage, report>>
    PROVE  ReportsInv'
<1>1. ASSUME ClaudeList PROVE ReportsInv'
  BY <1>1, QuietReports DEF ClaudeList, Files
<1>2. ASSUME NEW p \in Pids, Unreadable(p) \/ ReadRecord(p) PROVE ReportsInv'
  BY <1>2, QuietReports DEF Unreadable, ReadRecord
<1>3. ASSUME Probe \/ StopReading \/ StartTimes PROVE ReportsInv'
  BY <1>3, QuietReports DEF Probe, StopReading, StartTimes, Exhaust
<1>4. ASSUME NEW r \in found, Recycled(r) \/ TakeKey(r) PROVE ReportsInv'
  BY <1>4, QuietReports DEF Recycled, TakeKey, Exhaust, scan
<1>5. ASSUME PushSession PROVE ReportsInv'
  <2>1. PICK alive \in PositivelyAlive(hand.pid) :
           part' = Push(part, ClaudeAgent(hand.pid, hand.session, key,
                       alive /\ StartTimeVerified(hand.started, starts[hand.pid])))
    BY <1>5 DEF PushSession, ClaudeAgent
  <2> DEFINE v == alive /\ StartTimeVerified(hand.started, starts[hand.pid])
  <2>2. v \in BOOLEAN /\ (v => StartTimeVerified(hand.started, starts[hand.pid]))
    BY DEF StartTimeVerified
  <2> HIDE DEF v
  <2>3. /\ FromSource(ClaudeAgent(hand.pid, hand.session, key, v))
        /\ GoodAgent(ClaudeAgent(hand.pid, hand.session, key, v))
    BY <1>5, <2>2, SessionIsGood DEF PushSession
  <2> QED
    BY <2>1, <2>3, PushReports DEF v
<1>6. ASSUME SessionsDone PROVE ReportsInv'
  BY <1>6, QuietReports DEF SessionsDone
<1> QED
  BY <1>1, <1>2, <1>3, <1>4, <1>5, <1>6 DEF ClaudeStep

LEMMA ThreadIsGood ==
    ASSUME WorldInv, ControlInv, HistoryInv, query # None,
           NEW t \in Threads, thread[t] # "absent",
           NEW name \in {NameOf[t], ShortName[t]}
    PROVE  FromSource(Agent(t, name)) /\ GoodAgent(Agent(t, name))
<1> DEFINE a == Agent(t, name)
<1>1. /\ a.addr = Address("codex", t) /\ a.id = t /\ ~a.verified
      /\ \E n \in {0, 1} : a = CodexAgent(t, name, n)
  BY DEF Agent, CodexAgent, Address
<1> HIDE DEF a
<1>2. ASSUME Answers(query, a.addr, a.names), query.kind = "name" => Named(a)
      PROVE  t \in Kept(query)
  <2>1. query \in Queries /\ query.kind \in {"list", "address", "name"}
    BY QueryFacts DEF ControlInv, StageInv
  <2>2. Answers(query, Address("codex", t), NamesOf(t))
    BY <1>1, <1>2, <2>1 DEF Named, Answers
  <2> QED
    BY <2>2 DEF Kept
<1>3. t \notin Sessions
  BY RegistryAssumption
<1>4. Kept(query) \subseteq ever
  BY DEF HistoryInv, Listed
<1>5. \A p : a.addr # Address("claude", p)
  BY <1>1 DEF Address
<1> QED
  BY <1>1, <1>2, <1>3, <1>4, <1>5 DEF FromSource, GoodAgent, a

LEMMA QueryReports ==
    ASSUME WorldInv, ControlInv, HistoryInv, ReportsInv, Query,
           UNCHANGED <<world, history, query, stage, report>>
    PROVE  ReportsInv'
<1>1. PICK got \in SUBSET {t \in Threads : Wanted(t)}, partial \in BOOLEAN :
         /\ Cardinality(got) <= MAX_AGENTS
         /\ part' = [agents |-> {Agent(t, NameOf[t]) : t \in got}, complete |-> ~partial]
  BY DEF Query
<1> DEFINE image == {Agent(t, NameOf[t]) : t \in got}
           f == [t \in got |-> Agent(t, NameOf[t])]
<1>2. query # None
  BY DEF Query, ControlInv, StageInv, ClaudeScanning, CodexScanning
<1>3. ASSUME NEW a \in image PROVE FromSource(a) /\ GoodAgent(a) /\ a \in AgentType
  <2>1. PICK t \in got : a = Agent(t, NameOf[t])
    OBVIOUS
  <2>2. t \in Threads /\ thread[t] # "absent"
    BY DEF Wanted
  <2>3. FromSource(a) /\ GoodAgent(a)
    BY <1>2, <2>1, <2>2, ThreadIsGood
  <2> QED
    BY <2>3, SourceTypes
<1>4. IsFiniteSet(got) /\ Cardinality(got) \in Nat
  <2>1. got \subseteq Threads
    OBVIOUS
  <2> QED
    BY <2>1, ThreadsAssumption, FS_Subset, FS_CardinalityType
<1>5. IsFiniteSet(image) /\ Cardinality(image) <= MAX_AGENTS
  <2>1. f \in Surjection(got, image)
    BY DEF Surjection
  <2> HIDE DEF f, image
  <2>2. IsFiniteSet(image) /\ Cardinality(image) <= Cardinality(got)
    BY <1>4, <2>1, FS_Surjection
  <2>3. Cardinality(image) \in Nat /\ MAX_AGENTS \in Nat
    BY <2>2, FS_CardinalityType, DiscoveryAssumption
  <2> QED
    BY <1>1, <1>4, <2>2, <2>3
<1>6. \A a, b \in image : a.addr = b.addr => a = b
  <2>1. \A t, u, m, n : Agent(t, m).addr = Agent(u, n).addr => t = u
    BY DEF Agent
  <2> QED
    BY <2>1
<1>7. part'.agents = image /\ part' \in ReportType
  BY <1>1, <1>3 DEF ReportType
<1> HIDE DEF image
<1>8. AgentInv'
  BY <1>3, <1>7, SameFacts DEF ReportsInv, AgentInv, Agents
<1>9. CountInv'
  BY <1>5, <1>6, <1>7 DEF ReportsInv, CountInv, Reports
<1> QED
  BY <1>7, <1>8, <1>9 DEF ReportsInv

LEMMA CodexStepReports ==
    ASSUME WorldInv, ControlInv, HistoryInv, ReportsInv, CodexStep,
           UNCHANGED <<world, history, query, stage, report>>
    PROVE  ReportsInv'
<1>1. ASSUME CodexFails \/ DatabaseFails \/ NoDatabase PROVE ReportsInv'
  BY <1>1, QuietReports DEF CodexFails, DatabaseFails, NoDatabase
<1>2. ASSUME Query PROVE ReportsInv'
  BY <1>2, QueryReports
<1>3. ASSUME ListRollouts \/ StopRollouts \/ RolloutsDone PROVE ReportsInv'
  BY <1>3, QuietReports DEF ListRollouts, StopRollouts, RolloutsDone, Files, Exhaust
<1>4. ASSUME NEW t \in Threads, ReadRollout(t) PROVE ReportsInv'
  <2>1. query # None
    BY <1>4 DEF ReadRollout, ControlInv, StageInv, ClaudeScanning, CodexScanning
  <2>2. \/ part' = part \/ part' = Warn(part)
        \/ part' = Push(part, Agent(t, ShortName[t])) /\ thread[t] # "absent"
    BY <1>4 DEF ReadRollout, Wanted
  <2> QED
    BY <2>1, <2>2, ThreadIsGood, PushReports, QuietReports
<1> QED
  BY <1>1, <1>2, <1>3, <1>4 DEF CodexStep

LEMMA FewerAgents ==
    ASSUME AgentInv, UNCHANGED <<world, history, query>>, Agents' \subseteq Agents
    PROVE  AgentInv'
BY SameFacts DEF AgentInv

LEMMA EmptyReportFacts ==
    /\ EmptyReport \in ReportType /\ EmptyReport.agents = {} /\ EmptyReport.complete
    /\ IsFiniteSet(EmptyReport.agents) /\ Cardinality(EmptyReport.agents) = 0
BY FS_EmptySet DEF EmptyReport, ReportType

LEMMA MergeProperties ==
    ASSUME NEW rep \in ReportType, NEW other \in ReportType, NEW n \in {0, 1, 2},
           IsFiniteSet(rep.agents), Cardinality(rep.agents) <= n * MAX_AGENTS,
           IsFiniteSet(other.agents), Cardinality(other.agents) <= MAX_AGENTS
    PROVE  /\ Merge(rep, other) \in ReportType
           /\ Merge(rep, other).agents = rep.agents \cup other.agents
           /\ Merge(rep, other).complete = (rep.complete /\ other.complete)
           /\ IsFiniteSet(Merge(rep, other).agents)
           /\ Cardinality(Merge(rep, other).agents) <= (n + 1) * MAX_AGENTS
<1>1. /\ Merge(rep, other) \in ReportType
      /\ Merge(rep, other).agents = rep.agents \cup other.agents
      /\ Merge(rep, other).complete = (rep.complete /\ other.complete)
  BY DEF Merge, ReportType
<1> DEFINE R == rep.agents
           O == other.agents
<1> HIDE DEF R, O
<1>2. /\ IsFiniteSet(R \cup O)
      /\ Cardinality(R \cup O) = Cardinality(R) + Cardinality(O) - Cardinality(R \cap O)
      /\ IsFiniteSet(R \cap O)
  BY FS_Union, FS_Intersection DEF R, O
<1>3. /\ Cardinality(R) \in Nat /\ Cardinality(O) \in Nat /\ Cardinality(R \cap O) \in Nat
      /\ MAX_AGENTS \in Nat
  BY <1>2, FS_CardinalityType, DiscoveryAssumption DEF R, O
<1>4. Cardinality(R) <= n * MAX_AGENTS /\ Cardinality(O) <= MAX_AGENTS
  BY DEF R, O
<1>5. Cardinality(R \cup O) <= (n + 1) * MAX_AGENTS
  BY <1>2, <1>3, <1>4
<1> QED
  BY <1>1, <1>2, <1>5 DEF R, O

(* A scan's report becomes part of the lookup's. *)
LEMMA MergeReports ==
    ASSUME ReportsInv, UNCHANGED <<world, history, query>>,
           report' = Merge(report, part), part' = EmptyReport,
           \/ stage = "claude" /\ stage' = "codex"
           \/ stage = "codex" /\ stage' = "resolve"
           \/ stage = "exact" /\ stage' = "done"
    PROVE  ReportsInv'
<1>1. PICK n \in {0, 1, 2} : Reports = n /\ Reports' = n + 1
  BY DEF Reports
<1>2. /\ Merge(report, part) \in ReportType
      /\ Merge(report, part).agents = report.agents \cup part.agents
      /\ IsFiniteSet(Merge(report, part).agents)
      /\ Cardinality(Merge(report, part).agents) <= (n + 1) * MAX_AGENTS
  BY <1>1, MergeProperties DEF ReportsInv, CountInv
<1>3. AgentInv'
  BY <1>2, FewerAgents, EmptyReportFacts DEF ReportsInv, Agents
<1>4. CountInv'
  BY <1>1, <1>2, EmptyReportFacts, DiscoveryAssumption DEF CountInv
<1> QED
  BY <1>2, <1>3, <1>4, EmptyReportFacts DEF ReportsInv

LEMMA KeptReports ==
    ASSUME ReportsInv, UNCHANGED <<world, history, query, report>>, part' = EmptyReport,
           stage = "resolve", stage' \in {"exact", "done"}
    PROVE  ReportsInv'
<1>1. AgentInv'
  BY FewerAgents, EmptyReportFacts DEF ReportsInv, Agents
<1>2. Cardinality(report.agents) \in Nat /\ Cardinality(report.agents) <= 2 * MAX_AGENTS
  BY FS_CardinalityType DEF ReportsInv, CountInv, Reports
<1>3. Cardinality(report.agents) <= Reports' * MAX_AGENTS
  <2>1. Reports' \in {2, 3} /\ MAX_AGENTS \in Nat
    BY DiscoveryAssumption DEF Reports
  <2> QED
    BY <1>2, <2>1
<1>4. CountInv'
  BY <1>3, EmptyReportFacts, DiscoveryAssumption DEF ReportsInv, CountInv
<1> QED
  BY <1>1, <1>4, EmptyReportFacts DEF ReportsInv

LEMMA AnswerReports ==
    ASSUME ControlInv, ReportsInv, UNCHANGED <<world, history>>,
           ThenCodex \/ Discovered \/ ReplyListing \/ ResolveListed \/ FindExact
               \/ ResolveExact \/ ResolveName
    PROVE  ReportsInv'
<1>1. ASSUME ThenCodex \/ Discovered PROVE ReportsInv'
  BY <1>1, MergeReports DEF ThenCodex, Discovered, BeginScan
<1>2. ASSUME ResolveExact PROVE ReportsInv'
  BY <1>2, MergeReports DEF ResolveExact, Reply
<1>3. pc = "resolve" => stage = "resolve"
  BY DEF ControlInv, StageInv, ClaudeScanning, CodexScanning
<1>4. ASSUME ReplyListing \/ ResolveListed PROVE ReportsInv'
  BY <1>3, <1>4, KeptReports DEF ReplyListing, ResolveListed, Reply
<1>5. ASSUME FindExact PROVE ReportsInv'
  BY <1>3, <1>5, KeptReports DEF FindExact, BeginScan
<1>6. ASSUME ResolveName PROVE ReportsInv'
  <2>1. \E outcome, agents : Reply(outcome, agents)
    BY <1>6 DEF ResolveName
  <2>2. part' = EmptyReport /\ stage' = "done" /\ UNCHANGED <<query, report>>
    BY <1>6, <2>1 DEF Reply, ResolveName
  <2> QED
    BY <1>3, <1>6, <2>2, KeptReports DEF ResolveName
<1> QED
  BY <1>1, <1>2, <1>4, <1>5, <1>6

-----------------------------------------------------------------------------
(* Every step. *)

LEMMA LookupStages == Lookup => UNCHANGED query
BY DEF Lookup, ThenCodex, Discovered, ReplyListing, ResolveListed, FindExact,
       ResolveExact, ResolveName, Reply

LEMMA ReportsKeep ==
    ASSUME WorldInv, ControlInv, HistoryInv, ScanTypes, RecordInv, StartsInv, ReportsInv,
           [Next]_vars
    PROVE  ReportsInv'
<1>1. ASSUME UNCHANGED vars PROVE ReportsInv'
  BY <1>1, QuietReports DEF vars, lookup, scan
<1>2. ASSUME World PROVE ReportsInv'
  <2>1. UNCHANGED <<part, report, stage, query>>
    BY <1>2 DEF World, lookup, scan
  <2>2. AgentInv'
    BY <1>2, <2>1, GoodAgentStays, FromSourceStays DEF ReportsInv, AgentInv, Agents
  <2>3. CountInv'
    BY <2>1 DEF ReportsInv, CountInv, Reports
  <2> QED
    BY <2>1, <2>2, <2>3 DEF ReportsInv
<1>3. ASSUME NEW q \in Queries, Ask(q) PROVE ReportsInv'
  <2>1. stage = "none" /\ report = EmptyReport
    BY <1>3 DEF Ask, ControlInv, StageInv, CleanInv, ClaudeScanning, CodexScanning
  <2>2. report' = EmptyReport /\ part' = EmptyReport /\ stage' = "claude"
    BY <1>3, <2>1 DEF Ask, BeginScan
  <2>3. AgentInv' /\ CountInv'
    BY <2>2, EmptyReportFacts, DiscoveryAssumption DEF AgentInv, Agents, CountInv, Reports
  <2> QED
    BY <2>2, <2>3, EmptyReportFacts DEF ReportsInv
<1>4. ASSUME Forget PROVE ReportsInv'
  <2>1. part = EmptyReport
    BY <1>4 DEF Forget, ControlInv, StageInv, CleanInv, ClaudeScanning, CodexScanning
  <2>2. report' = EmptyReport /\ part' = EmptyReport /\ stage' = "none"
    BY <1>4, <2>1 DEF Forget
  <2>3. AgentInv' /\ CountInv'
    BY <2>2, EmptyReportFacts, DiscoveryAssumption DEF AgentInv, Agents, CountInv, Reports
  <2> QED
    BY <2>2, <2>3, EmptyReportFacts DEF ReportsInv
<1>5. ASSUME Lookup, UNCHANGED <<world, history>> PROVE ReportsInv'
  BY <1>5, LookupStages, ClaudeStepReports, CodexStepReports, AnswerReports DEF Lookup
<1> QED
  BY <1>1, <1>2, <1>3, <1>4, <1>5 DEF Next

(* The names a scan has found so far. *)
LEMMA ClaudeStepNames ==
    ASSUME ScanTypes, RecordInv, StartsInv, ReportsInv, ClaudeStep,
           UNCHANGED <<world, history, query, stage, report>>,
           NamedInv, part'.complete
    PROVE  \A a \in part'.agents : Named(a)
<1>1. part \in [agents : SUBSET AgentType, complete : BOOLEAN]
  BY DEF ReportsInv, ReportType
<1>2. part' # Warn(part)
  BY <1>1, WarnProperties
<1>3. ASSUME part' = part PROVE \A a \in part'.agents : Named(a)
  BY <1>3 DEF NamedInv
<1>4. ASSUME PushSession PROVE \A a \in part'.agents : Named(a)
  <2>1. PICK alive \in PositivelyAlive(hand.pid) :
           part' = Push(part, ClaudeAgent(hand.pid, hand.session, key,
                       alive /\ StartTimeVerified(hand.started, starts[hand.pid])))
    BY <1>4 DEF PushSession, ClaudeAgent
  <2> DEFINE v == alive /\ StartTimeVerified(hand.started, starts[hand.pid])
             agent == ClaudeAgent(hand.pid, hand.session, key, v)
  <2>2. v \in BOOLEAN /\ (v => StartTimeVerified(hand.started, starts[hand.pid]))
    BY DEF StartTimeVerified
  <2>3. agent.addr = Address("claude", hand.pid)
    BY DEF ClaudeAgent
  <2>4. Named(agent)
    BY <2>3 DEF Named, Address
  <2> HIDE DEF v
  <2>5. agent \in AgentType
    BY <1>4, <2>2, SessionIsGood, SourceTypes DEF PushSession
  <2>6. part' = Push(part, agent)
    BY <2>1 DEF v
  <2> HIDE DEF agent
  <2>7. /\ Push(part, agent).complete => part.complete
        /\ Push(part, agent).agents \subseteq part.agents \cup {agent}
    BY <1>1, <2>5, PushProperties
  <2> QED
    BY <2>4, <2>6, <2>7 DEF NamedInv
<1> QED
  BY <1>2, <1>3, <1>4 DEF ClaudeStep, ClaudeList, Files, Unreadable, ReadRecord, Probe,
     StopReading, StartTimes, Recycled, TakeKey, SessionsDone, Exhaust, scan

LEMMA CodexStepNames ==
    ASSUME WorldInv, ReportsInv, NamedInv, CodexStep,
           UNCHANGED <<world, history, query, stage, report>>
    PROVE  /\ part'.complete => \A a \in part'.agents : Named(a)
           /\ database /\ pc' \in {"rollouts", "logs"} => ~part'.complete
<1>1. part \in [agents : SUBSET AgentType, complete : BOOLEAN]
  BY DEF ReportsInv, ReportType
<1>2. ~Warn(part).complete
  BY <1>1, WarnProperties
<1>3. ASSUME CodexFails \/ DatabaseFails \/ NoDatabase
      PROVE  /\ part'.complete => \A a \in part'.agents : Named(a)
             /\ database /\ pc' \in {"rollouts", "logs"} => ~part'.complete
  BY <1>2, <1>3 DEF CodexFails, DatabaseFails, NoDatabase, Return, NamedInv
<1>4. ASSUME Query
      PROVE  /\ part'.complete => \A a \in part'.agents : Named(a)
             /\ pc' = "merge"
  <2>1. database /\ pc' = "merge"
    BY <1>4 DEF Query, Return
  <2>2. ASSUME NEW a \in part'.agents PROVE Named(a)
    <3>1. PICK t \in Threads : a = Agent(t, NameOf[t])
      BY <1>4 DEF Query
    <3>2. a.addr = Address("codex", t) /\ a.names = {t, NameOf[t]}
      BY <3>1 DEF Agent, Address
    <3> QED
      BY <2>1, <3>2 DEF Named, NamesOf, Address
  <2> QED
    BY <2>1, <2>2
<1>5. ASSUME ListRollouts \/ StopRollouts \/ RolloutsDone
      PROVE  /\ part'.complete => \A a \in part'.agents : Named(a)
             /\ database /\ pc' \in {"rollouts", "logs"} => ~part'.complete
  <2>1. part' = part \/ part' = Warn(part)
    BY <1>5 DEF ListRollouts, StopRollouts, RolloutsDone, Files, Exhaust
  <2>2. pc' \in {"rollouts", "logs"} => pc \in {"rollouts", "logs"}
    BY <1>5 DEF ListRollouts, StopRollouts, RolloutsDone, Return
  <2> QED
    BY <1>2, <2>1, <2>2 DEF NamedInv
<1>6. ASSUME NEW t \in Threads, ReadRollout(t)
      PROVE  /\ part'.complete => \A a \in part'.agents : Named(a)
             /\ database /\ pc' \in {"rollouts", "logs"} => ~part'.complete
  <2> DEFINE agent == Agent(t, ShortName[t])
  <2>1. pc = "logs"
    BY <1>6 DEF ReadRollout
  <2>2. CASE part' = part \/ part' = Warn(part)
    BY <1>2, <2>1, <2>2 DEF NamedInv
  <2>3. CASE part' = Push(part, agent)
    <3> DEFINE n == IF thread[t] = "recent" THEN 1 ELSE 0
    <3>1. agent = CodexAgent(t, ShortName[t], n) /\ n \in {0, 1}
      BY DEF Agent, CodexAgent, Address
    <3> HIDE DEF n
    <3>2. agent \in AgentType
      <4>1. FromSource(CodexAgent(t, ShortName[t], n))
        BY <3>1 DEF FromSource
      <4> QED
        BY <3>1, <4>1, SourceTypes
    <3>3. ~database => Named(agent)
      <4>1. agent.addr = Address("codex", t) /\ agent.names = {t, ShortName[t]}
        BY DEF Agent, Address
      <4> QED
        BY <4>1 DEF Named, NamesOf, Address
    <3> HIDE DEF agent
    <3>4. /\ Push(part, agent).complete => part.complete
          /\ Push(part, agent).agents \subseteq part.agents \cup {agent}
      BY <1>1, <3>2, PushProperties
    <3>5. database => ~part'.complete
      BY <2>1, <2>3, <3>4 DEF NamedInv
    <3> QED
      BY <2>3, <3>3, <3>4, <3>5 DEF NamedInv
  <2> QED
    BY <1>6, <2>2, <2>3 DEF ReadRollout
<1> QED
  BY <1>3, <1>4, <1>5, <1>6 DEF CodexStep

LEMMA NamedKeeps ==
    ASSUME WorldInv, ControlInv, ScanTypes, RecordInv, StartsInv, ReportsInv, NamedInv,
           [Next]_vars
    PROVE  NamedInv'
<1>1. ASSUME UNCHANGED <<database, part, report, pc>> PROVE NamedInv'
  BY <1>1 DEF NamedInv, Named, NamesOf
<1>2. EmptyReport.agents = {}
  BY EmptyReportFacts
<1>3. ASSUME World PROVE NamedInv'
  BY <1>1, <1>3 DEF World, lookup, scan, CodexWorld, Touch, Archive, codexWorld
<1>4. ASSUME NEW q \in Queries, Ask(q) PROVE NamedInv'
  <2>1. report' = EmptyReport /\ part' = EmptyReport /\ pc' = "claude"
    BY <1>4 DEF Ask, BeginScan, ControlInv, StageInv, CleanInv, ClaudeScanning, CodexScanning
  <2> QED
    BY <1>2, <2>1 DEF NamedInv
<1>5. ASSUME Forget PROVE NamedInv'
  <2>1. report' = EmptyReport /\ part' = EmptyReport /\ pc' = "idle"
    BY <1>5 DEF Forget, ControlInv, StageInv, CleanInv, ClaudeScanning, CodexScanning
  <2> QED
    BY <1>2, <2>1 DEF NamedInv
<1>6. ASSUME ClaudeStep \/ CodexStep, UNCHANGED <<query, stage, report>>,
             UNCHANGED <<world, history>>
      PROVE  NamedInv'
  <2>1. /\ part'.complete => \A a \in part'.agents : Named(a)
        /\ report'.complete => \A a \in report'.agents : Named(a)
    BY <1>6, ClaudeStepNames, CodexStepNames DEF NamedInv
  <2>2. database /\ pc' \in {"rollouts", "logs"} => ~part'.complete
    <3>1. ASSUME ClaudeStep PROVE pc' \notin {"rollouts", "logs"}
      BY <3>1 DEF ClaudeStep, ClaudeList, Unreadable, ReadRecord, Probe, StopReading,
         StartTimes, Recycled, TakeKey, PushSession, SessionsDone, Return, scan
    <3> QED
      BY <1>6, <3>1, CodexStepNames
  <2> QED
    BY <1>6, <2>1, <2>2, SameFacts DEF NamedInv, world, codexWorld
<1>7. ASSUME ThenCodex \/ Discovered \/ ReplyListing \/ ResolveListed \/ FindExact
                 \/ ResolveExact \/ ResolveName,
             UNCHANGED <<world, history>>
      PROVE  NamedInv'
  <2>1. /\ Merge(report, part).agents = report.agents \cup part.agents
        /\ Merge(report, part).complete = (report.complete /\ part.complete)
    BY DEF Merge
  <2>2. part' = EmptyReport /\ (report' = report \/ report' = Merge(report, part))
    BY <1>7 DEF ThenCodex, Discovered, ReplyListing, ResolveListed, FindExact, ResolveExact,
       ResolveName, Reply, BeginScan
  <2>3. ASSUME FindExact PROVE pc' \in {"claude", "codex"}
    BY <2>3, QueryFacts DEF FindExact, BeginScan, ControlInv, StageInv, ClaudeScanning,
                CodexScanning
  <2>4. pc' \notin {"rollouts", "logs"}
    BY <1>7, <2>3 DEF ThenCodex, Discovered, ReplyListing, ResolveListed, ResolveExact,
       ResolveName, Reply, BeginScan
  <2>5. \A a : Named(a)' = Named(a)
    BY <1>7 DEF Named, NamesOf, world, codexWorld
  <2> QED
    BY <1>2, <2>1, <2>2, <2>4, <2>5 DEF NamedInv
<1>8. ASSUME UNCHANGED vars PROVE NamedInv'
  BY <1>1, <1>8 DEF vars, lookup, scan, world, codexWorld
<1> QED
  BY <1>3, <1>4, <1>5, <1>6, <1>7, <1>8 DEF Next, Lookup

LEMMA RecordsKeep ==
    ASSUME WorldInv, ControlInv, HistoryInv, ScanTypes, RecordInv, StartsInv, [Next]_vars
    PROVE  RecordInv' /\ StartsInv'
<1>1. ControlInv'
  BY ControlKeeps
<1>2. ASSUME UNCHANGED <<world, history, query, starts, found, hand, key>>, Read' \subseteq Read
      PROVE  RecordInv' /\ StartsInv'
  BY <1>2, FewerRecords
<1>3. ASSUME World PROVE RecordInv' /\ StartsInv'
  <2>1. Read' = Read
    BY <1>3 DEF World, lookup, scan, claudeScan, Read
  <2> QED
    BY <1>3, <2>1, GoodRecordStays, StartsStay DEF RecordInv
<1>4. ASSUME pc' \notin Reading \cup Judging PROVE RecordInv' /\ StartsInv'
  <2>1. found' = {} /\ ~key' /\ Read' = {} /\ \A p \in Pids : starts'[p] = None
    BY <1>1, <1>4 DEF ControlInv, CleanInv, Read, Reading, Judging
  <2> QED
    BY <2>1 DEF RecordInv, StartsInv
<1>5. ASSUME CodexStep, UNCHANGED claudeScan, UNCHANGED <<world, history, query>>
      PROVE  RecordInv' /\ StartsInv'
  <2>1. pc' \notin Reading \cup Judging
    BY <1>5 DEF CodexStep, CodexFails, Query, DatabaseFails, NoDatabase, ListRollouts,
                StopRollouts, RolloutsDone, ReadRollout, Return, Reading, Judging
  <2> QED
    BY <1>4, <2>1
<1>6. ASSUME ThenCodex \/ Discovered \/ ReplyListing \/ ResolveListed \/ FindExact
                 \/ ResolveExact \/ ResolveName
      PROVE  RecordInv' /\ StartsInv'
  <2>1. ASSUME FindExact PROVE pc' \in {"claude", "codex"}
    BY <2>1, QueryFacts DEF FindExact, BeginScan, ControlInv, StageInv, ClaudeScanning,
                CodexScanning
  <2>2. pc' \notin Reading \cup Judging
    BY <1>6, <2>1 DEF ThenCodex, Discovered, ReplyListing, ResolveListed, ResolveExact,
                ResolveName, Reply, BeginScan, Reading, Judging
  <2> QED
    BY <1>4, <2>2
<1>7. ASSUME Lookup, UNCHANGED <<world, history>> PROVE RecordInv' /\ StartsInv'
  BY <1>5, <1>6, <1>7, LookupStages, ClaudeStepRecords DEF Lookup
<1>8. ASSUME NEW q \in Queries, Ask(q) PROVE RecordInv' /\ StartsInv'
  BY <1>4, <1>8 DEF Ask, BeginScan, Reading, Judging
<1>9. ASSUME Forget PROVE RecordInv' /\ StartsInv'
  BY <1>4, <1>9 DEF Forget, Reading, Judging
<1>10. ASSUME UNCHANGED vars PROVE RecordInv' /\ StartsInv'
  BY <1>2, <1>10 DEF vars, lookup, scan, claudeScan, Read
<1> QED
  BY <1>3, <1>7, <1>8, <1>9, <1>10 DEF Next

LEMMA ScanTypesKeep ==
    ASSUME WorldInv, ControlInv, HistoryInv, ScanTypes, RecordInv, StartsInv, ReportsInv,
           [Next]_vars
    PROVE  ScanTypes'
<1>1. part' \in ReportType /\ report' \in ReportType
  BY ReportsKeep DEF ReportsInv
<1>2. ASSUME UNCHANGED <<claudeScan, codexScan>> PROVE ScanTypes'
  BY <1>1, <1>2 DEF ScanTypes, claudeScan, codexScan
<1>3. ASSUME ClaudeStep, UNCHANGED codexScan, UNCHANGED <<world, history, query>>
      PROVE  ScanTypes'
  <2>1. ASSUME StartTimes PROVE starts' \in [Pids -> Stamps]
    BY <1>3, <2>1, StartTimesAreGood
  <2>2. starts' \in [Pids -> Stamps]
    BY <1>3, <2>1 DEF ScanTypes, Stamps, ClaudeStep, ClaudeList, Unreadable, ReadRecord, Probe,
          StopReading, Recycled, TakeKey, PushSession, SessionsDone
  <2>3. paths' \in SUBSET Pids
    BY <1>3 DEF ScanTypes, ClaudeStep, ClaudeList, Unreadable, ReadRecord, Probe, Files,
          StopReading, StartTimes, Recycled, TakeKey, PushSession, SessionsDone
  <2>4. key' \in BOOLEAN
    BY <1>3 DEF ScanTypes, ClaudeStep, ClaudeList, Unreadable, ReadRecord, Probe,
          StopReading, StartTimes, Recycled, TakeKey, PushSession, SessionsDone
  <2> QED
    BY <1>1, <1>3, <2>2, <2>3, <2>4 DEF ScanTypes, codexScan
<1>4. ASSUME CodexStep, UNCHANGED claudeScan PROVE ScanTypes'
  <2>1. rollouts' \in SUBSET Threads
    BY <1>4 DEF ScanTypes, CodexStep, CodexFails, Query, DatabaseFails, NoDatabase, Files,
          ListRollouts, StopRollouts, RolloutsDone, ReadRollout
  <2> QED
    BY <1>1, <1>4, <2>1 DEF ScanTypes, claudeScan
<1>5. ASSUME ThenCodex \/ Discovered \/ ReplyListing \/ ResolveListed \/ FindExact
                 \/ ResolveExact \/ ResolveName
      PROVE  UNCHANGED <<claudeScan, codexScan>>
  BY <1>5 DEF ThenCodex, Discovered, ReplyListing, ResolveListed, FindExact, ResolveExact,
          ResolveName, Reply, BeginScan
<1>6. ASSUME Lookup, UNCHANGED <<world, history>> PROVE ScanTypes'
  BY <1>2, <1>3, <1>4, <1>5, <1>6, LookupStages DEF Lookup
<1> QED
  BY <1>2, <1>6 DEF Next, vars, lookup, World, Ask, BeginScan, Forget

-----------------------------------------------------------------------------
(* Nothing is missed without a warning. *)

(* The start that ps tells of a steady session's process is within the     *)
(* tolerance of its record's stamp.                                        *)
LEMMA SteadyMatches ==
    ASSUME WorldInv, ScanTypes, RecordInv, StartsInv, NEW r \in found, Steady(r.pid)
    PROVE  StartTimeMatches(r.started, starts[r.pid])
<1>1. r \in RecordType /\ GoodRecord(r)
  BY DEF RecordInv, Read
<1>2. r.pid \in Pids /\ Owns(r.pid) /\ r.started = record[r.pid].started
  BY <1>1 DEF RecordType, GoodRecord, Steady
<1>3. SUFFICES ASSUME r.started # None, starts[r.pid] # None
      PROVE  AbsDiff(r.started, starts[r.pid]) <= START_TOLERANCE_MILLIS
  BY DEF StartTimeMatches
<1>4. process[r.pid].start \in Int /\ r.started \in Int /\ starts[r.pid] \in Int
  BY <1>1, <1>2, <1>3 DEF WorldInv, ClaudeTypes, RecordType, ScanTypes, Stamps
<1>5. r.started \in process[r.pid].start..(process[r.pid].start + RecordDelay)
  BY <1>2, <1>3 DEF WorldInv, ClockInv, Owns, RecordedAt
<1>6. starts[r.pid] \in process[r.pid].start..(process[r.pid].start + PsDelay)
  BY <1>2, <1>3 DEF StartsInv
<1> QED
  BY <1>4, <1>5, <1>6, ConstantFacts DEF AbsDiff

LEMMA ClaudeStepReaches ==
    ASSUME WorldInv, ControlInv, ScanTypes, RecordInv, StartsInv, ReportsInv, CompleteInv,
           ClaudeStep,
           UNCHANGED <<world, history, query, stage, report>>,
           part'.complete, NEW p \in Pids, Steady(p), Sought(p)
    PROVE  Reached(p)'
<1>1. part \in [agents : SUBSET AgentType, complete : BOOLEAN]
  BY DEF ReportsInv, ReportType
<1>2. part' # Warn(part)
  BY <1>1, WarnProperties
<1>3. Owns(p) /\ process[p].by # None /\ record[p] # None
  BY DEF Steady, Owns, RecordedAt
<1>4. part.complete /\ pc \in Reading \cup Judging => Reached(p)
  BY DEF CompleteInv
<1>5. ASSUME ClaudeList PROVE Reached(p)'
  <2>1. stage \in {"claude", "exact"} /\ (stage = "claude" => exact = None)
    BY <1>5 DEF ClaudeList, ControlInv, StageInv, ClaudeScanning, CodexScanning
  <2>2. exact = None \/ exact = p
    BY <2>1 DEF Sought, ControlInv, StageInv, Address
  <2>3. p \in paths'
    <3> DEFINE there == {q \in Pids : record[q] # None}
    <3>1. IF exact = None THEN \E files \in SUBSET there : Files(there, files) /\ paths' = files
          ELSE paths' = there \cap {exact} \/ part' = Warn(part)
      BY <1>5 DEF ClaudeList
    <3>2. CASE exact = None
      <4>1. PICK files \in SUBSET there : Files(there, files) /\ paths' = files
        BY <3>1, <3>2
      <4>2. files = there
        BY <1>2, <4>1 DEF Files
      <4> QED
        BY <1>3, <4>1, <4>2
    <3>3. CASE exact # None
      BY <1>2, <1>3, <2>2, <3>1, <3>3
    <3> QED
      BY <3>2, <3>3
  <2> QED
    BY <2>3 DEF Reached
<1>6. ASSUME NEW q \in Pids, Unreadable(q) PROVE Reached(p)'
  BY <1>2, <1>6 DEF Unreadable
<1>7. ASSUME NEW q \in Pids, ReadRecord(q) PROVE Reached(p)'
  BY <1>4, <1>7 DEF ReadRecord, Reached, Read, Reading, Judging
<1>8. ASSUME Probe PROVE Reached(p)'
  <2>1. p \in paths \/ (\E r \in found : r.pid = p) \/ At(part.agents, Address("claude", p)) # {}
    BY <1>4, <1>8 DEF Probe, Reached, Read, Reading, Judging
  <2>2. \A r \in found : r.pid = p => r \in found'
    BY <1>3, <1>8 DEF Probe, IsAlive
  <2>3. pc' = "records" /\ part' = part /\ paths' = paths \ {r.pid : r \in found}
    BY <1>8 DEF Probe
  <2> QED
    BY <2>1, <2>2, <2>3 DEF Reached, Read
<1>9. ASSUME StopReading PROVE Reached(p)'
  BY <1>2, <1>9 DEF StopReading, Exhaust
<1>10. ASSUME StartTimes PROVE Reached(p)'
  BY <1>4, <1>10 DEF StartTimes, Reached, Read, Reading, Judging
<1>11. ASSUME NEW r \in found, Recycled(r) PROVE Reached(p)'
  <2>1. r.pid # p
    BY <1>11, SteadyMatches DEF Recycled
  <2> QED
    BY <1>4, <1>11, <2>1 DEF Recycled, scan, Reached, Read, Reading, Judging
<1>12. ASSUME NEW r \in found, TakeKey(r) PROVE Reached(p)'
  <2>1. /\ pc = "agents" /\ pc' = "liveness" /\ part' = part /\ paths' = paths
        /\ found' = found \ {r} /\ hand' = r
    BY <1>2, <1>12 DEF TakeKey, Exhaust
  <2>2. Read = found /\ Read' = found
    BY <2>1 DEF Read
  <2> QED
    BY <1>4, <2>1, <2>2 DEF Reached, Judging
<1>13. ASSUME PushSession PROVE Reached(p)'
  <2>1. PICK agent : /\ part' = Push(part, agent) /\ agent.addr = Address("claude", hand.pid)
                     /\ agent \in AgentType
    <3>1. PICK alive \in PositivelyAlive(hand.pid) :
             part' = Push(part, ClaudeAgent(hand.pid, hand.session, key,
                         alive /\ StartTimeVerified(hand.started, starts[hand.pid])))
      BY <1>13 DEF PushSession, ClaudeAgent
    <3> DEFINE v == alive /\ StartTimeVerified(hand.started, starts[hand.pid])
    <3>2. v \in BOOLEAN /\ (v => StartTimeVerified(hand.started, starts[hand.pid]))
      BY DEF StartTimeVerified
    <3> HIDE DEF v
    <3>3. FromSource(ClaudeAgent(hand.pid, hand.session, key, v))
      BY <1>13, <3>2, SessionIsGood DEF PushSession
    <3>4. ClaudeAgent(hand.pid, hand.session, key, v) \in AgentType
      BY <3>3, SourceTypes
    <3>5. ClaudeAgent(hand.pid, hand.session, key, v).addr = Address("claude", hand.pid)
      BY DEF ClaudeAgent
    <3> QED
      BY <3>1, <3>4, <3>5 DEF v
  <2>2. /\ part.complete
        /\ \A addr : At(part.agents, addr) # {} => At(part'.agents, addr) # {}
        /\ At(part'.agents, Address("claude", hand.pid)) # {}
    <3> DEFINE new == Push(part, agent)
    <3>1. /\ new.complete => part.complete
          /\ \A addr : At(part.agents, addr) # {} => At(new.agents, addr) # {}
          /\ new.complete => At(new.agents, agent.addr) # {}
      BY <1>1, <2>1, PushProperties
    <3> QED
      BY <2>1, <3>1
  <2>3. pc = "liveness" /\ found' = found /\ paths' = paths
    BY <1>13 DEF PushSession
  <2>4. \/ p \in paths \/ \E r \in found : r.pid = p
        \/ p = hand.pid \/ At(part.agents, Address("claude", p)) # {}
    BY <1>4, <2>2, <2>3 DEF Reached, Read, Judging
  <2> QED
    BY <2>2, <2>3, <2>4 DEF Reached, Read
<1>14. ASSUME SessionsDone PROVE Reached(p)'
  BY <1>4, <1>14 DEF SessionsDone, Return, Reached, Read, Judging
<1> QED
  BY <1>5, <1>6, <1>7, <1>8, <1>9, <1>10, <1>11, <1>12, <1>13, <1>14 DEF ClaudeStep

LEMMA ClaudeStepComplete ==
    ASSUME WorldInv, ControlInv, ScanTypes, RecordInv, StartsInv, ReportsInv, CompleteInv,
           ClaudeStep,
           UNCHANGED <<world, history, query, stage, report>>
    PROVE  CompleteInv'
<1>1. stage \in {"claude", "exact"}
  BY DEF ControlInv, StageInv, ClaudeScanning, CodexScanning, ClaudeStep, ClaudeList,
         Unreadable, ReadRecord, Probe, StopReading, StartTimes, Recycled, TakeKey,
         PushSession, SessionsDone
<1>2. \A p \in Pids : Steady(p)' = Steady(p) /\ Sought(p)' = Sought(p)
  BY SameFacts DEF Sought
<1>3. part'.complete => \A p \in Pids : Steady(p)' /\ Sought(p)' => Reached(p)'
  BY <1>2, ClaudeStepReaches
<1>4. \A t \in Threads : ~SoughtThread(t)'
  <2>1. stage = "exact" => query.of[1] = "claude"
    BY DEF ControlInv, StageInv, ClaudeScanning, ClaudeStep, ClaudeList,
           Unreadable, ReadRecord, Probe, StopReading, StartTimes, Recycled, TakeKey,
           PushSession, SessionsDone
  <2> QED
    BY <1>1, <2>1 DEF SoughtThread, Address
<1> QED
  BY <1>1, <1>3, <1>4 DEF CompleteInv

LEMMA CodexStepReaches ==
    ASSUME WorldInv, ControlInv, HistoryInv, ReportsInv, CompleteInv, CodexStep,
           UNCHANGED <<world, history, query, stage, report>>,
           part'.complete, pc' \in {"logs", "merge"},
           NEW t \in Threads \cap steady, SoughtThread(t)
    PROVE  ReachedThread(t)'
<1>1. part \in [agents : SUBSET AgentType, complete : BOOLEAN]
  BY DEF ReportsInv, ReportType
<1>2. part' # Warn(part)
  BY <1>1, WarnProperties
<1>3. part.complete /\ pc = "logs" => ReachedThread(t)
  BY DEF CompleteInv
<1>4. /\ exact = None => all = query.all
      /\ IF exact = None THEN query.kind # "address" ELSE exact = t
  <2>1. ASSUME stage = "codex" /\ query.kind # "address"
        PROVE  exact = None /\ all = query.all
    BY <2>1 DEF ControlInv, StageInv
  <2>2. ASSUME stage = "exact" /\ query.of = Address("codex", t)
        PROVE  exact = t
    BY <2>2 DEF ControlInv, StageInv, Address
  <2> QED
    BY <2>1, <2>2, ThreadsAssumption DEF SoughtThread
<1>5. Wanted(t) /\ thread[t] # "absent"
  <2>1. t \in Open(query)
    BY SteadyThread
  <2>2. thread[t] = "recent" \/ (thread[t] = "quiet" /\ (query.all \/ query.kind = "address"))
    BY <2>1 DEF Open
  <2> QED
    BY <1>4, <2>2 DEF Wanted
<1>6. ASSUME CodexFails PROVE FALSE
  BY <1>2, <1>6 DEF CodexFails
<1>7. ASSUME Query PROVE ReachedThread(t)'
  <2>1. PICK got \in SUBSET {u \in Threads : Wanted(u)}, partial \in BOOLEAN :
           /\ partial \/ got = {u \in Threads : Wanted(u)}
           /\ part' = [agents |-> {Agent(u, NameOf[u]) : u \in got}, complete |-> ~partial]
    BY <1>7 DEF Query
  <2>2. Agent(t, NameOf[t]) \in part'.agents
    BY <1>5, <2>1
  <2>3. Agent(t, NameOf[t]).addr = Address("codex", t)
    BY DEF Agent, Address
  <2> QED
    BY <2>2, <2>3 DEF ReachedThread, At
<1>8. ASSUME DatabaseFails \/ NoDatabase PROVE FALSE
  BY <1>8 DEF DatabaseFails, NoDatabase
<1>9. ASSUME ListRollouts PROVE ReachedThread(t)'
  <2> DEFINE there == {u \in Threads : thread[u] # "absent"}
  <2>1. PICK files \in SUBSET there : Files(there, files) /\ rollouts' = files
    BY <1>9 DEF ListRollouts
  <2>2. files = there
    BY <1>2, <2>1 DEF Files
  <2> QED
    BY <1>5, <2>1, <2>2 DEF ReachedThread
<1>10. ASSUME NEW u \in Threads, ReadRollout(u) PROVE ReachedThread(t)'
  <2>1. pc = "logs" /\ rollouts' = rollouts \ {u}
    BY <1>10 DEF ReadRollout
  <2>2. CASE part' = Push(part, Agent(u, ShortName[u]))
    <3> DEFINE n == IF thread[u] = "recent" THEN 1 ELSE 0
    <3>1. Agent(u, ShortName[u]) = CodexAgent(u, ShortName[u], n) /\ n \in {0, 1}
      BY DEF Agent, CodexAgent, Address
    <3> HIDE DEF n
    <3>2. FromSource(CodexAgent(u, ShortName[u], n))
      BY <3>1 DEF FromSource
    <3>3. PICK agent \in AgentType : agent = CodexAgent(u, ShortName[u], n)
      BY <3>2, SourceTypes
    <3>4. part' = Push(part, agent) /\ agent.addr = Address("codex", u)
      BY <2>2, <3>1, <3>3 DEF CodexAgent
    <3> DEFINE new == Push(part, agent)
    <3>5. /\ new.complete => part.complete
          /\ \A addr : At(part.agents, addr) # {} => At(new.agents, addr) # {}
          /\ new.complete => At(new.agents, agent.addr) # {}
      BY <1>1, PushProperties
    <3> HIDE DEF new
    <3>6. part' = new
      BY <3>4 DEF new
    <3> QED
      BY <1>3, <2>1, <3>4, <3>5, <3>6 DEF ReachedThread
  <2>3. CASE ~Wanted(u) /\ part' = part
    BY <1>3, <1>5, <2>1, <2>3 DEF ReachedThread
  <2> QED
    BY <1>2, <1>10, <2>2, <2>3 DEF ReadRollout
<1>11. ASSUME StopRollouts PROVE FALSE
  BY <1>2, <1>11 DEF StopRollouts, Exhaust
<1>12. ASSUME RolloutsDone PROVE ReachedThread(t)'
  BY <1>3, <1>12 DEF RolloutsDone, ReachedThread
<1> QED
  BY <1>6, <1>7, <1>8, <1>9, <1>10, <1>11, <1>12 DEF CodexStep

LEMMA CodexStepComplete ==
    ASSUME WorldInv, ControlInv, HistoryInv, ReportsInv, CompleteInv, CodexStep,
           UNCHANGED <<world, history, query, stage, report>>
    PROVE  CompleteInv'
<1>1. CodexScanning
  BY DEF CodexScanning, CodexStep, CodexFails, Query, DatabaseFails, NoDatabase,
         ListRollouts, StopRollouts, RolloutsDone, ReadRollout
<1>2. stage \in {"codex", "exact"} /\ (stage = "exact" => query.of[1] = "codex")
  BY <1>1 DEF ControlInv, StageInv, ClaudeScanning, CodexScanning
<1>3. \A p \in Pids : ~Sought(p)'
  BY <1>2 DEF Sought, Address
<1>4. \A p \in Pids : Steady(p)' = Steady(p)
  BY SameFacts
<1>5. \A t \in Threads : SoughtThread(t)' = SoughtThread(t)
  BY DEF SoughtThread
<1>6. steady' = steady
  BY DEF history
<1>7. part'.complete /\ pc' \in {"logs", "merge"} =>
          \A t \in Threads \cap steady' : SoughtThread(t)' => ReachedThread(t)'
  BY <1>5, <1>6, CodexStepReaches
<1>8. report'.complete /\ stage' \in {"codex", "resolve"} =>
          \A p \in Pids : Steady(p)' => At(report'.agents, Address("claude", p)) # {}
  BY <1>4 DEF CompleteInv
<1> QED
  BY <1>2, <1>3, <1>7, <1>8 DEF CompleteInv

LEMMA AnswerComplete ==
    ASSUME ControlInv, ScanTypes, ReportsInv, CompleteInv, UNCHANGED <<world, history>>,
           ThenCodex \/ Discovered \/ ReplyListing \/ ResolveListed \/ FindExact
               \/ ResolveExact \/ ResolveName
    PROVE  CompleteInv'
<1>1. /\ Merge(report, part).agents = report.agents \cup part.agents
      /\ Merge(report, part).complete = (report.complete /\ part.complete)
  BY DEF Merge
<1>2. pc = "merge" => paths = {} /\ Read = {} /\ rollouts = {}
  BY DEF ControlInv, CleanInv, Read, Reading, Judging
<1>3. ASSUME pc' \notin Reading \cup Judging \cup {"logs", "merge"},
             stage' \notin {"codex", "resolve"}
      PROVE  CompleteInv'
  BY <1>3 DEF CompleteInv
<1>4. \A p : Steady(p)' = Steady(p)
  <2>1. UNCHANGED query
    BY LookupStages DEF Lookup
  <2> QED
    BY <2>1, SameFacts
<1>5. ASSUME ThenCodex PROVE CompleteInv'
  <2>1. /\ pc = "merge" /\ stage = "claude" /\ pc' = "codex" /\ stage' = "codex"
        /\ report' = Merge(report, part)
    BY <1>5 DEF ThenCodex, BeginScan
  <2>2. ASSUME report'.complete, NEW p \in Pids, Steady(p)
        PROVE  At(report'.agents, Address("claude", p)) # {}
    <3>1. part.complete /\ Sought(p)
      BY <1>1, <2>1, <2>2 DEF Sought
    <3>2. Reached(p)
      BY <2>1, <2>2, <3>1 DEF CompleteInv
    <3>3. At(part.agents, Address("claude", p)) # {}
      BY <1>2, <2>1, <3>2 DEF Reached
    <3> QED
      BY <1>1, <2>1, <3>3 DEF At
  <2> QED
    BY <1>4, <2>1, <2>2 DEF CompleteInv, Reading, Judging
<1>6. ASSUME Discovered PROVE CompleteInv'
  <2>1. /\ pc = "merge" /\ stage = "codex" /\ pc' = "resolve" /\ stage' = "resolve"
        /\ report' = Merge(report, part) /\ query' = query /\ steady' = steady
    BY <1>6 DEF Discovered, history
  <2>2. ASSUME report'.complete PROVE report.complete /\ part.complete
    BY <1>1, <2>1, <2>2
  <2>3. ASSUME report'.complete, NEW p \in Pids, Steady(p)
        PROVE  At(report'.agents, Address("claude", p)) # {}
    <3>1. At(report.agents, Address("claude", p)) # {}
      BY <2>1, <2>2, <2>3 DEF CompleteInv
    <3> QED
      BY <1>1, <2>1, <3>1 DEF At
  <2>4. ASSUME report'.complete, query.kind # "address", NEW t \in Threads \cap steady
        PROVE  At(report'.agents, Address("codex", t)) # {}
    <3>1. SoughtThread(t)
      BY <2>1, <2>4 DEF SoughtThread
    <3>2. ReachedThread(t)
      BY <2>1, <2>2, <2>4, <3>1 DEF CompleteInv
    <3>3. At(part.agents, Address("codex", t)) # {}
      BY <1>2, <2>1, <3>2 DEF ReachedThread
    <3> QED
      BY <1>1, <2>1, <3>3 DEF At
  <2> QED
    BY <1>4, <2>1, <2>3, <2>4 DEF CompleteInv, Reading, Judging
<1>7. ASSUME FindExact PROVE CompleteInv'
  <2>1. pc' \in {"claude", "codex"} /\ stage' = "exact"
    BY <1>7, QueryFacts DEF FindExact, BeginScan, ControlInv, StageInv, ClaudeScanning,
                CodexScanning
  <2> QED
    BY <1>3, <2>1 DEF Reading, Judging
<1>8. ASSUME ReplyListing \/ ResolveListed \/ ResolveExact \/ ResolveName PROVE CompleteInv'
  <2>1. \E outcome, agents : Reply(outcome, agents)
    BY <1>8 DEF ReplyListing, ResolveListed, ResolveExact, ResolveName
  <2>2. pc' = "done" /\ stage' = "done"
    BY <2>1 DEF Reply
  <2> QED
    BY <1>3, <2>2 DEF Reading, Judging
<1> QED
  BY <1>5, <1>6, <1>7, <1>8

LEMMA CompleteKeeps ==
    ASSUME RegistryInv, [Next]_vars
    PROVE  CompleteInv'
<1> USE DEF RegistryInv
<1>1. ASSUME UNCHANGED lookup, steady' \subseteq steady,
             \A p \in Pids : Steady(p)' => Steady(p)
      PROVE  CompleteInv'
  <2>1. /\ UNCHANGED <<pc, part, report, stage, query>>
        /\ \A p : Sought(p)' = Sought(p) /\ Reached(p)' = Reached(p)
        /\ \A t : SoughtThread(t)' = SoughtThread(t) /\ ReachedThread(t)' = ReachedThread(t)
    BY <1>1 DEF lookup, scan, claudeScan, codexScan, Sought, Reached, Read, SoughtThread,
                ReachedThread
  <2> QED
    BY <1>1, <2>1 DEF CompleteInv
<1>2. ASSUME World PROVE CompleteInv'
  BY <1>1, <1>2, SteadyStays DEF World, Observe
<1>3. ASSUME UNCHANGED vars PROVE CompleteInv'
  BY <1>1, <1>3, SameFacts DEF vars, lookup, history
<1>4. ASSUME Lookup, UNCHANGED <<world, history>> PROVE CompleteInv'
  BY <1>4, LookupStages, ClaudeStepComplete, CodexStepComplete, AnswerComplete DEF Lookup
<1>5. ASSUME NEW q \in Queries, Ask(q) PROVE CompleteInv'
  BY <1>5 DEF Ask, BeginScan, CompleteInv, Reading, Judging
<1>6. ASSUME Forget PROVE CompleteInv'
  BY <1>6 DEF Forget, CompleteInv, Reading, Judging
<1> QED
  BY <1>2, <1>3, <1>4, <1>5, <1>6 DEF Next

-----------------------------------------------------------------------------
LEMMA RegistryInit == Init => RegistryInv
<1> SUFFICES ASSUME Init PROVE RegistryInv
  OBVIOUS
<1>1. WorldInv /\ ControlInv
  BY WorldInit, ControlInit
<1>2. /\ pc = "idle" /\ part = EmptyReport /\ report = EmptyReport /\ query = None
      /\ stage = "none" /\ steady = {} /\ ever = {} /\ ran = {}
      /\ paths = {} /\ found = {} /\ key = FALSE /\ rollouts = {}
      /\ starts = [p \in Pids |-> None]
  BY DEF Init, ClaudeInit, CodexInit
<1>3. ScanTypes /\ HistoryInv
  BY <1>2 DEF ScanTypes, HistoryInv, Stamps, Live, Listed
<1>4. RecordInv /\ StartsInv
  BY <1>2 DEF RecordInv, StartsInv, Read
<1>5. ReportsInv
  BY <1>2, EmptyReportFacts, DiscoveryAssumption DEF ReportsInv, AgentInv, Agents, CountInv,
              Reports
<1>6. CompleteInv
  BY <1>2 DEF CompleteInv, Reading, Judging
<1>7. NamedInv
  BY <1>2, EmptyReportFacts DEF NamedInv
<1> QED
  BY <1>1, <1>3, <1>4, <1>5, <1>6, <1>7 DEF RegistryInv

LEMMA RegistryStep ==
    ASSUME RegistryInv, [Next]_vars
    PROVE  RegistryInv'
<1>1. WorldInv' /\ ControlInv' /\ HistoryInv'
  BY WorldKeeps, ControlKeeps, HistoryKeeps DEF RegistryInv
<1>2. ScanTypes' /\ RecordInv' /\ StartsInv' /\ ReportsInv'
  BY ScanTypesKeep, RecordsKeep, ReportsKeep DEF RegistryInv
<1>3. NamedInv'
  BY NamedKeeps DEF RegistryInv
<1> QED
  BY <1>1, <1>2, <1>3, CompleteKeeps DEF RegistryInv

THEOREM RegistryInvariant == Spec => []RegistryInv
BY RegistryInit, RegistryStep, PTL DEF Spec

(* What is in a report has the form of an agent, and each report and the   *)
(* lookup's has no more of them than the limits allow; a session that was  *)
(* there all the time was there at some time (discovery.rs: MAX_AGENTS).   *)
THEOREM TypeCorrect == Spec => []TypeOK
<1>1. RegistryInv => TypeOK
  <2> SUFFICES ASSUME RegistryInv PROVE TypeOK
    OBVIOUS
  <2>1. part.agents \subseteq AgentType /\ report.agents \subseteq AgentType
    BY DEF RegistryInv, ReportsInv, ReportType
  <2>2. Cardinality(part.agents) <= MAX_AGENTS
    BY DEF RegistryInv, ReportsInv, CountInv
  <2>3. Cardinality(report.agents) <= 3 * MAX_AGENTS
    <3>1. Cardinality(report.agents) <= Reports * MAX_AGENTS /\ IsFiniteSet(report.agents)
      BY DEF RegistryInv, ReportsInv, CountInv
    <3>2. Reports \in {0, 1, 2, 3} /\ MAX_AGENTS \in Nat /\ Cardinality(report.agents) \in Nat
      BY <3>1, FS_CardinalityType, DiscoveryAssumption DEF Reports
    <3> QED
      BY <3>1, <3>2
  <2>4. steady \subseteq ever /\ ran \subseteq Ids
    BY DEF RegistryInv, HistoryInv
  <2>5. answer.verified \subseteq answer.ids
    BY DEF RegistryInv, ControlInv, CleanInv
  <2> QED
    BY <2>1, <2>2, <2>3, <2>4, <2>5 DEF TypeOK, AgentType
<1> QED
  BY <1>1, RegistryInvariant, PTL

(* No session is said to be verified, and no key is kept for one, that did *)
(* not run during the lookup, however pids are used again.                 *)
THEOREM NoImpostorTheorem == Spec => []NoImpostor
<1>1. RegistryInv => NoImpostor
  BY DEF RegistryInv, ReportsInv, AgentInv, Agents, GoodAgent, NoImpostor
<1> QED
  BY <1>1, RegistryInvariant, PTL

-----------------------------------------------------------------------------
(* The promise of Directory. *)

LEMMA SourceFacts ==
    ASSUME NEW a, FromSource(a)
    PROVE  /\ \A p : a.addr = Address("claude", p) => a.names = {NameOf[a.id], p}
           /\ \A t : a.addr = Address("codex", t) => a.id = t
           /\ a.verified => a.id \in Sessions
BY DEF FromSource, ClaudeAgent, CodexAgent, Address

(* What a complete report of a listing, or of a search for a name, cannot  *)
(* lack.                                                                   *)
LEMMA ListedSteady ==
    ASSUME RegistryInv, stage = "resolve", query.kind # "address", report.complete,
           NEW x \in steady
    PROVE  \E a \in report.agents : a.id = x /\ Answers(query, a.addr, a.names)
<1> USE DEF RegistryInv
<1>1. CASE x \in Sessions
  <2>1. PICK p \in Pids : /\ Steady(p) /\ process[p].by = x
                          /\ Answers(query, Address("claude", p), {NameOf[x], p})
    BY <1>1, SteadySession
  <2>2. PICK a \in report.agents : a.addr = Address("claude", p)
    BY <2>1 DEF CompleteInv, At
  <2>3. FromSource(a) /\ GoodAgent(a)
    BY DEF ReportsInv, AgentInv, Agents
  <2>4. a.id = x
    BY <2>1, <2>2, <2>3 DEF GoodAgent
  <2>5. a.names = {NameOf[x], p}
    BY <2>2, <2>3, <2>4, SourceFacts
  <2> QED
    BY <2>1, <2>2, <2>4, <2>5
<1>2. CASE x \in Threads
  <2>1. Answers(query, Address("codex", x), NamesOf(x))
    BY <1>2, SteadyThread DEF Open, Kept
  <2>2. PICK a \in report.agents : a.addr = Address("codex", x)
    BY <1>2 DEF CompleteInv, At
  <2>3. FromSource(a)
    BY DEF ReportsInv, AgentInv, Agents
  <2>4. a.id = x
    BY <2>2, <2>3, SourceFacts
  <2>5. a.names = NamesOf(x)
    BY <1>2, <2>2 DEF NamedInv, Named
  <2> QED
    BY <2>1, <2>2, <2>4, <2>5
<1> QED
  BY <1>1, <1>2, SteadyKinds

(* What is live at an address is at that pid, or is that thread.           *)
LEMMA AddressSteady ==
    ASSUME RegistryInv, query.kind = "address", NEW x \in steady
    PROVE  \/ \E p \in Pids : /\ Steady(p) /\ process[p].by = x
                              /\ query.of = Address("claude", p)
           \/ x \in Threads /\ query.of = Address("codex", x)
<1> USE DEF RegistryInv
<1>1. \A addr, names : Answers(query, addr, names) <=> addr = query.of
  BY DEF Answers
<1>2. CASE x \in Sessions
  <2>1. PICK p \in Pids : /\ Steady(p) /\ process[p].by = x
                          /\ Answers(query, Address("claude", p), {NameOf[x], p})
    BY <1>2, SteadySession
  <2>2. query.of = Address("claude", p)
    BY <1>1, <2>1
  <2> QED
    BY <2>1, <2>2
<1>3. CASE x \in Threads
  BY <1>1, <1>3, SteadyThread DEF Open, Kept
<1> QED
  BY <1>2, <1>3, SteadyKinds

LEMMA AddressIsSteady ==
    ASSUME RegistryInv, query.kind = "address", NEW a \in Agents, a.addr = query.of
    PROVE  steady \subseteq {a.id} /\ Answers(query, a.addr, a.names)
<1>1. FromSource(a) /\ GoodAgent(a)
  BY DEF RegistryInv, ReportsInv, AgentInv
<1>2. Answers(query, a.addr, a.names)
  BY DEF Answers
<1>3. ASSUME NEW x \in steady PROVE x = a.id
  <2>1. ASSUME NEW p \in Pids, Steady(p), process[p].by = x, query.of = Address("claude", p)
        PROVE  x = a.id
    BY <1>1, <2>1 DEF GoodAgent
  <2>2. ASSUME x \in Threads, query.of = Address("codex", x) PROVE x = a.id
    BY <1>1, <2>2, SourceFacts
  <2> QED
    BY <2>1, <2>2, AddressSteady
<1> QED
  BY <1>2, <1>3

LEMMA ExactSteady ==
    ASSUME RegistryInv, pc = "merge", stage = "exact", part.complete,
           At(part.agents, query.of) = {}
    PROVE  steady = {}
<1> USE DEF RegistryInv
<1>1. SUFFICES ASSUME NEW x \in steady PROVE FALSE
  OBVIOUS
<1>2. query.kind = "address" /\ paths = {} /\ Read = {} /\ rollouts = {}
  BY DEF ControlInv, StageInv, CleanInv, Read, Reading, Judging
<1>3. ASSUME NEW p \in Pids, Steady(p), query.of = Address("claude", p) PROVE FALSE
  <2>1. Sought(p)
    BY <1>3 DEF Sought
  <2>2. Reached(p)
    BY <1>3, <2>1 DEF CompleteInv
  <2> QED
    BY <1>2, <1>3, <2>2 DEF Reached
<1>4. ASSUME x \in Threads, query.of = Address("codex", x) PROVE FALSE
  <2>1. SoughtThread(x)
    BY <1>4 DEF SoughtThread
  <2>2. ReachedThread(x)
    BY <1>4, <2>1 DEF CompleteInv
  <2> QED
    BY <1>2, <1>4, <2>2 DEF ReachedThread
<1> QED
  BY <1>2, <1>3, <1>4, AddressSteady

(* What is reported was there, and what is verified ran.                   *)
LEMMA ReplyMaps ==
    ASSUME RegistryInv, pc \in {"resolve", "merge"}, UNCHANGED <<world, history>>,
           NEW outcome, NEW agents \in SUBSET Agents, Reply(outcome, agents),
           \A a \in agents : /\ Answers(query, a.addr, a.names)
                             /\ query.kind = "name" => Named(a)
    PROVE  Promise!Reply(outcome, {a.id : a \in agents})
<1> DEFINE ids == {a.id : a \in agents}
           verified == {a.id : a \in {a \in agents : a.verified}}
<1>1. ids \subseteq ever /\ verified \subseteq ids \cap ran
  BY SourceFacts DEF RegistryInv, ReportsInv, AgentInv, GoodAgent
<1>2. /\ pc' = "done" /\ UNCHANGED query
      /\ answer' = [outcome |-> outcome, ids |-> ids, verified |-> verified]
  BY DEF Reply
<1>3. Live(query)' = Live(query) /\ Listed(query)' = Listed(query)
  BY <1>2, SameWorld
<1> HIDE DEF ids, verified
<1>4. verified \in SUBSET (ids \cap ran)
  BY <1>1
<1>5. Promise!Reply(outcome, ids)
  BY <1>1, <1>2, <1>3, <1>4 DEF Promise!Reply, history
<1> QED
  BY <1>5 DEF ids

LEMMA FoundMaps ==
    ASSUME RegistryInv, pc \in {"resolve", "merge"}, UNCHANGED <<world, history>>,
           NEW a \in Agents, Reply("found", {a}),
           Answers(query, a.addr, a.names), query.kind = "name" => Named(a),
           steady \subseteq {a.id}
    PROVE  Promise!Next
<1>1. Promise!Reply("found", {b.id : b \in {a}})
  BY ReplyMaps
<1>2. {b.id : b \in {a}} = {a.id}
  OBVIOUS
<1>3. a.id \in ever
  BY DEF RegistryInv, ReportsInv, AgentInv, GoodAgent
<1> QED
  BY <1>1, <1>2, <1>3 DEF Promise!Next, Promise!Found

(* An answer without a session. *)
LEMMA NoneMaps ==
    ASSUME RegistryInv, pc \in {"resolve", "merge"}, UNCHANGED <<world, history>>,
           NEW outcome \in {"absent", "refused", "ambiguous"}, Reply(outcome, {}),
           outcome = "absent" => steady = {}
    PROVE  Promise!Next
<1>1. Promise!Reply(outcome, {b.id : b \in {}})
  BY ReplyMaps
<1>2. {b.id : b \in {}} = {}
  OBVIOUS
<1> QED
  BY <1>1, <1>2 DEF Promise!Next, Promise!Absent, Promise!Refuse

LEMMA ListingMaps ==
    ASSUME RegistryInv, UNCHANGED <<world, history>>, ReplyListing
    PROVE  Promise!Next
<1> USE DEF RegistryInv
<1>1. pc = "resolve" /\ stage = "resolve" /\ query.kind = "list"
  BY DEF ReplyListing, ControlInv, StageInv, ClaudeScanning, CodexScanning
<1>2. \A addr, names : Answers(query, addr, names)
  BY <1>1 DEF Answers
<1> DEFINE ids == {a.id : a \in report.agents}
           outcome == IF report.complete THEN "listed" ELSE "partly listed"
<1>3. Reply(outcome, report.agents) /\ report.agents \in SUBSET Agents
  BY DEF ReplyListing, Agents
<1> HIDE DEF outcome
<1>4. Promise!Reply(outcome, ids)
  BY <1>1, <1>2, <1>3, ReplyMaps
<1>5. ids \in SUBSET ever
  BY <1>1, <1>2 DEF ReportsInv, AgentInv, Agents, GoodAgent
<1>6. report.complete => steady \subseteq ids
  BY <1>1, ListedSteady
<1>7. Promise!List
  <2> HIDE DEF ids
  <2> QED
    BY <1>4, <1>5, <1>6 DEF Promise!List, outcome
<1> QED
  BY <1>7 DEF Promise!Next

LEMMA ExactMaps ==
    ASSUME RegistryInv, UNCHANGED <<world, history>>, ResolveExact
    PROVE  Promise!Next
<1> USE DEF RegistryInv
<1> DEFINE hits == At(part.agents, query.of)
<1>1. pc = "merge" /\ stage = "exact" /\ query.kind = "address"
  BY DEF ResolveExact, ControlInv, StageInv
<1>2. CASE hits # {}
  <2>1. PICK a \in hits : TRUE
    BY <1>2
  <2>2. a \in Agents /\ a \in part.agents /\ a.addr = query.of
    BY DEF At, Agents
  <2>3. hits = {a}
    BY <2>2 DEF At, ReportsInv, CountInv
  <2>4. Reply("found", {a})
    BY <1>2, <2>3 DEF ResolveExact
  <2> QED
    BY <1>1, <2>2, <2>4, AddressIsSteady, FoundMaps
<1>3. CASE hits = {} /\ part.complete
  <2>1. Reply("absent", {})
    BY <1>3 DEF ResolveExact
  <2>2. steady = {}
    BY <1>1, <1>3, ExactSteady
  <2> QED
    BY <1>1, <2>1, <2>2, NoneMaps
<1>4. CASE hits = {} /\ ~part.complete
  <2>1. Reply("refused", {})
    BY <1>4 DEF ResolveExact
  <2> QED
    BY <1>1, <2>1, NoneMaps
<1> QED
  BY <1>2, <1>3, <1>4

LEMMA NameMaps ==
    ASSUME RegistryInv, UNCHANGED <<world, history>>, ResolveName
    PROVE  Promise!Next
<1> USE DEF RegistryInv
<1> DEFINE hits == {a \in report.agents : query.of \in a.names}
<1>1. pc = "resolve" /\ stage = "resolve" /\ query.kind = "name"
  BY DEF ResolveName, ControlInv, StageInv, ClaudeScanning, CodexScanning
<1>2. \A addr, names : Answers(query, addr, names) <=> query.of \in names
  BY <1>1 DEF Answers
<1>3. ASSUME report.complete, NEW x \in steady PROVE \E a \in hits : a.id = x
  BY <1>1, <1>2, <1>3, ListedSteady
<1>4. CASE ~report.complete
  <2>1. Reply("refused", {})
    BY <1>4 DEF ResolveName
  <2> QED
    BY <1>1, <2>1, NoneMaps
<1>5. CASE report.complete /\ hits = {}
  <2>0. Cardinality(hits) # 1
    <3> HIDE DEF hits
    <3>1. Cardinality({}) = 0
      BY FS_EmptySet
    <3> QED
      BY <1>5, <3>1
  <2>1. Reply("absent", {})
    BY <1>5, <2>0 DEF ResolveName
  <2>2. steady = {}
    BY <1>3, <1>5
  <2> QED
    BY <1>1, <2>1, <2>2, NoneMaps
<1>6. CASE report.complete /\ hits # {} /\ Cardinality(hits) = 1
  <2>1. IsFiniteSet(hits)
    BY FS_Subset DEF ReportsInv, CountInv
  <2>2. PICK a : hits = {a}
    <3> HIDE DEF hits
    <3> QED
      BY <1>6, <2>1, FS_Singleton
  <2>3. Reply("found", {a})
    BY <1>6, <2>2 DEF ResolveName
  <2>4. a \in Agents /\ Answers(query, a.addr, a.names) /\ Named(a)
    <3>1. a \in hits
      BY <2>2
    <3> QED
      BY <1>2, <1>6, <3>1 DEF Agents, NamedInv
  <2>5. steady \subseteq {a.id}
    BY <1>3, <1>6, <2>2
  <2> QED
    BY <1>1, <2>3, <2>4, <2>5, FoundMaps
<1>7. CASE report.complete /\ hits # {} /\ Cardinality(hits) # 1
  <2>1. Reply("ambiguous", {})
    BY <1>7 DEF ResolveName
  <2> QED
    BY <1>1, <2>1, NoneMaps
<1> QED
  BY <1>4, <1>5, <1>6, <1>7

LEMMA AnswerMaps ==
    ASSUME RegistryInv, UNCHANGED <<world, history>>,
           ReplyListing \/ ResolveListed \/ ResolveExact \/ ResolveName
    PROVE  Promise!Next
<1>1. ASSUME ResolveListed PROVE Promise!Next
  <2>1. PICK a \in At(report.agents, query.of) : Reply("found", {a})
    BY <1>1 DEF ResolveListed
  <2>2. a \in Agents /\ a.addr = query.of
    BY DEF At, Agents
  <2>3. query.kind = "address" /\ pc = "resolve"
    BY <1>1 DEF ResolveListed
  <2> QED
    BY <2>1, <2>2, <2>3, AddressIsSteady, FoundMaps
<1> QED
  BY <1>1, ListingMaps, ExactMaps, NameMaps

LEMMA DirectoryStutters ==
    ASSUME UNCHANGED <<world, history, query, answer>>,
           pc' = pc \/ (pc \notin {"idle", "done"} /\ pc' \notin {"idle", "done"})
    PROVE  UNCHANGED Promise!directoryVars
<1>1. Live(query)' = Live(query) /\ Listed(query)' = Listed(query)
  BY SameWorld
<1>2. (CASE pc = "idle" -> "idle" [] pc = "done" -> "answered" [] OTHER -> "asked")' =
      (CASE pc = "idle" -> "idle" [] pc = "done" -> "answered" [] OTHER -> "asked")
  OBVIOUS
<1> QED
  BY <1>1, <1>2 DEF Promise!directoryVars, history

LEMMA ScanStutters ==
    ASSUME RegistryInv, Lookup, UNCHANGED <<world, history>>,
           ~(ReplyListing \/ ResolveListed \/ ResolveExact \/ ResolveName)
    PROVE  UNCHANGED Promise!directoryVars
<1>1. UNCHANGED <<query, answer>>
  BY LookupStages DEF Lookup, ThenCodex, Discovered, FindExact
<1>2. ASSUME ClaudeStep \/ CodexStep
      PROVE  pc \notin {"idle", "done"} /\ pc' \notin {"idle", "done"}
  BY <1>2 DEF ClaudeStep, ClaudeList, Unreadable, ReadRecord, Probe, StopReading, StartTimes,
     Recycled, TakeKey, PushSession, SessionsDone, CodexStep, CodexFails, Query, DatabaseFails,
     NoDatabase, ListRollouts, StopRollouts, RolloutsDone, ReadRollout, Return, scan
<1>3. ASSUME ThenCodex \/ Discovered \/ FindExact
      PROVE  pc \notin {"idle", "done"} /\ pc' \notin {"idle", "done"}
  BY <1>3, QueryFacts DEF ThenCodex, Discovered, FindExact, BeginScan, RegistryInv, ControlInv,
     StageInv, ClaudeScanning, CodexScanning
<1> QED
  BY <1>1, <1>2, <1>3, DirectoryStutters DEF Lookup

LEMMA WorldMaps ==
    ASSUME RegistryInv, RegistryInv', World
    PROVE  Promise!Next
<1>1. /\ UNCHANGED <<pc, query, answer>>
      /\ pc \notin {"idle", "done"} /\ query # None
  BY DEF World, lookup, scan, ClaudeScanning, CodexScanning, RegistryInv, ControlInv, StageInv
<1>2. Live(query)' \subseteq Ids /\ Listed(query)' \subseteq Ids
  <2>1. Live(query)' \subseteq ran' /\ ran' \subseteq Ids
    BY DEF RegistryInv, HistoryInv
  <2>2. Listed(query)' \subseteq Ids
    <3>1. \A p \in Pids : record'[p] # None => record'[p].session \in Sessions
      BY DEF RegistryInv, WorldInv, ClaudeTypes
    <3>2. Recorded(query)' \subseteq Sessions
      BY <3>1 DEF Recorded
    <3>3. Kept(query)' \subseteq Threads
      BY DEF Kept
    <3> QED
      BY <3>2, <3>3 DEF Listed, Ids
  <2> QED
    BY <2>1, <2>2
<1>3. Promise!World
  BY <1>1, <1>2 DEF Promise!World, World, Observe
<1> QED
  BY <1>3 DEF Promise!Next

LEMMA AskMaps ==
    ASSUME RegistryInv, NEW q \in Queries, Ask(q), UNCHANGED world
    PROVE  Promise!Next
<1>1. /\ pc = "idle" /\ pc' = "claude" /\ query' = q /\ UNCHANGED answer
      /\ steady' = Live(q) /\ ever' = Listed(q) /\ ran' = Live(q)
  BY DEF Ask, BeginScan
<1>2. Live(query)' = Live(q) /\ Listed(query)' = Listed(q)
  <2>1. Live(q)' = Live(q) /\ Listed(q)' = Listed(q)
    BY SameWorld
  <2> QED
    BY <1>1, <2>1
<1>3. Live(q) \subseteq Ids /\ Listed(q) \subseteq Ids
  BY LiveIsListed DEF RegistryInv
<1>4. Promise!Ask
  BY <1>1, <1>2, <1>3 DEF Promise!Ask
<1> QED
  BY <1>4 DEF Promise!Next

LEMMA ForgetMaps ==
    ASSUME Forget, UNCHANGED world
    PROVE  Promise!Next
<1>1. Promise!Forget
  BY DEF Forget, Promise!Forget, Live, Listed, NoAnswer, Promise!NoAnswer
<1> QED
  BY <1>1 DEF Promise!Next

LEMMA DirectoryInit == Init => Promise!Init
BY DEF Init, Promise!Init, Live, Listed, NoAnswer, Promise!NoAnswer

(* Whatever comes and goes during a lookup, and whatever of it fails, the  *)
(* answer is one that Directory allows (registry.rs: discover_with,        *)
(* resolve).                                                               *)
THEOREM Implements == Spec => ImplementsDirectory
<1>1. ASSUME RegistryInv, RegistryInv', [Next]_vars
      PROVE  [Promise!Next]_Promise!directoryVars
  <2>1. ASSUME UNCHANGED vars PROVE UNCHANGED Promise!directoryVars
    BY <2>1, DirectoryStutters DEF vars, lookup, scan
  <2>2. ASSUME Lookup, UNCHANGED <<world, history>>
        PROVE  Promise!Next \/ UNCHANGED Promise!directoryVars
    BY <1>1, <2>2, AnswerMaps, ScanStutters
  <2> QED
    BY <1>1, <2>1, <2>2, WorldMaps, AskMaps, ForgetMaps DEF Next
<1> QED
  BY <1>1, DirectoryInit, RegistryInvariant, PTL DEF Spec, ImplementsDirectory, Promise!Spec
=============================================================================
