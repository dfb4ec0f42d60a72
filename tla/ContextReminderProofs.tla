------------------------ MODULE ContextReminderProofs ------------------------
(***************************************************************************)
(* What hooks read is the latest that was written, and one of them wins a  *)
(* level, proved for any number of hooks, any sizes and thresholds, and any *)
(* lag of the transcript.                                                  *)
(***************************************************************************)
EXTENDS ContextReminder, FiniteSetTheorems, SequenceTheorems, TLAPS

(* The stored level never falls while the thresholds are armed: it is at   *)
(* least every level that was won.                                         *)
ClaimInv ==
    /\ stored \in Levels
    /\ saw \in [Hooks -> Levels]
    /\ armed \in [{1, 2} -> Nat]
    /\ \A l \in {1, 2} : armed[l] <= 1 /\ (armed[l] = 1 => stored >= l)

(* Any usage has a level. *)
LEMMA LevelType == ASSUME NEW tokens PROVE LevelOf(tokens) \in Levels
BY DEF LevelOf, Levels

LEMMA InitClaimInv == Init => ClaimInv
BY DEF Init, ClaimInv, Levels

(* What the runtime writes is no business of the reminder table. *)
LEMMA SessionClaimInv ==
    ASSUME ClaimInv,
           \/ \E e \in Events : Change(e)
           \/ SilentChange \/ WriteChange \/ WriteUnrelated \/ UNCHANGED vars
    PROVE  ClaimInv'
<1>1. UNCHANGED <<stored, saw, armed>>
  BY DEF Change, SilentChange, WriteChange, WriteUnrelated, Write, Resize, vars, hookVars
<1> QED
  BY <1>1 DEF ClaimInv

LEMMA HookClaimInv ==
    ASSUME ClaimInv, NEW h \in Hooks,
           ReadUsage(h) \/ Rearm(h) \/ Claim(h) \/ NoClaim(h) \/ PrintReminder(h)
    PROVE  ClaimInv'
<1> USE DEF ClaimInv
<1>1. CASE ReadUsage(h)
  BY <1>1, LevelType DEF ReadUsage
<1>2. CASE Rearm(h)
  BY <1>2 DEF Rearm, Levels
<1>3. CASE Claim(h)
  <2>1. /\ saw[h] \in {1, 2} /\ stored < saw[h]
        /\ stored' = saw[h] /\ saw' = saw
        /\ armed' = [armed EXCEPT ![saw[h]] = @ + 1]
    BY <1>3 DEF Claim, Claimable, Levels
  <2>2. armed[saw[h]] = 0
    BY <2>1 DEF Levels
  <2>3. armed' \in [{1, 2} -> Nat] /\ stored' \in Levels
    BY <2>1, <2>2 DEF Levels
  <2>4. ASSUME NEW l \in {1, 2}
        PROVE  armed'[l] <= 1 /\ (armed'[l] = 1 => stored' >= l)
    <3>1. CASE l = saw[h]
      BY <2>1, <2>2, <3>1
    <3>2. CASE l # saw[h]
      BY <2>1, <3>2 DEF Levels
    <3> QED
      BY <3>1, <3>2
  <2> QED
    BY <2>1, <2>3, <2>4
<1>4. CASE NoClaim(h) \/ PrintReminder(h)
  BY <1>4 DEF NoClaim, PrintReminder
<1> QED
  BY <1>1, <1>2, <1>3, <1>4

(* Between two re-armings a level is won once, and a lower one is not won  *)
(* after a higher one, whatever number of hooks claim at the same time and *)
(* whatever each of them has read (claim_context_reminder's one upsert).   *)
THEOREM OneWinnerPerLevelTheorem == Spec => []OneWinnerPerLevel
<1>1. ClaimInv /\ [Next]_vars => ClaimInv'
  BY SessionClaimInv, HookClaimInv DEF Next
<1>2. ClaimInv => OneWinnerPerLevel
  BY DEF ClaimInv, OneWinnerPerLevel, Levels
<1> QED
  BY <1>1, <1>2, InitClaimInv, PTL DEF Spec

-----------------------------------------------------------------------------
(* Numbers and sums *)

(* A set of numbers has a least one, which serves where an induction does. *)
LEMMA Least ==
    ASSUME NEW S \in SUBSET Nat, S # {}
    PROVE  \E x \in S : \A y \in S : x <= y
<1>1. PICK x \in S : \A y \in S : ~(<<y, x>> \in OpToRel(<, Nat))
  BY NatLessThanWellFounded, WFMin
<1>2. ASSUME NEW y \in S PROVE x <= y
  <2>1. SUFFICES ASSUME y < x PROVE FALSE
    OBVIOUS
  <2>2. <<y, x>> \in OpToRel(<, Nat)
    BY <2>1 DEF OpToRel
  <2> QED
    BY <1>1, <2>2
<1> QED
  BY <1>2

LEMMA MaxProperties ==
    ASSUME NEW n \in Nat, NEW S \in SUBSET (1..n), S # {}
    PROVE  Max(S) \in S /\ \A y \in S : y <= Max(S)
<1> DEFINE T == {k \in Nat : n - k \in S}
<1>1. T # {}
  <2>1. PICK x \in S : TRUE
    OBVIOUS
  <2>2. n - x \in T
    BY <2>1
  <2> QED
    BY <2>2
<1>2. PICK k \in T : \A j \in T : k <= j
  BY <1>1, Least
<1>3. ASSUME NEW y \in S PROVE y <= n - k
  <2>1. y \in 1..n /\ n - y \in Nat /\ n - (n - y) = y
    OBVIOUS
  <2>2. n - y \in T
    BY <2>1
  <2>3. k \in Nat /\ k <= n - y
    BY <1>2, <2>2
  <2> QED
    BY <2>1, <2>3
<1>4. n - k \in S
  BY <1>2
<1> QED
  BY <1>3, <1>4 DEF Max

LEMMA IntervalSize ==
    ASSUME NEW a \in Int, NEW b \in Int, a <= b + 1
    PROVE  IsFiniteSet(a..b) /\ Cardinality(a..b) = b + 1 - a
<1>1. /\ IsFiniteSet(a..b)
      /\ Cardinality(a..b) = IF a > b THEN 0 ELSE b - a + 1
  BY FS_Interval
<1> QED
  BY <1>1

(* The fold that BytesFrom is, by the equation it is chosen for.           *)
First(s) == CHOOSE x \in s : TRUE

Sums(lines, D, sum) ==
    sum = [s \in SUBSET D |->
              IF s = {} THEN 0 ELSE lines[First(s)].size + sum[s \ {First(s)}]]

LEMMA BytesFromDef ==
    ASSUME NEW lines, NEW first
    PROVE  BytesFrom(lines, first) =
              (CHOOSE sum : Sums(lines, first..Len(lines), sum))[first..Len(lines)]
BY DEF BytesFrom, MapThenSumSet, MapThenFoldSet, Sums, First

(* Taking elements away one by one ends, and so there is a sum.            *)
LEMMA RemoveFirst ==
    ASSUME NEW s, IsFiniteSet(s), s # {}
    PROVE  /\ First(s) \in s /\ IsFiniteSet(s \ {First(s)})
           /\ Cardinality(s) \in Nat \ {0}
           /\ Cardinality(s \ {First(s)}) = Cardinality(s) - 1
<1>1. First(s) \in s
  BY DEF First
<1> QED
  BY <1>1, FS_RemoveElement, FS_CardinalityType, FS_EmptySet

LEMMA SumExists ==
    ASSUME NEW lines, NEW D, IsFiniteSet(D)
    PROVE  \E sum : Sums(lines, D, sum)
<1> DEFINE Small(n) == {s \in SUBSET D : Cardinality(s) <= n}
           Step(g, s) == IF s = {} THEN 0 ELSE lines[First(s)].size + g[s \ {First(s)}]
           Partial(n) == \E g : g = [s \in Small(n) |-> Step(g, s)]
           Bad == {n \in Nat : ~Partial(n)}
<1>1. \A s \in SUBSET D : IsFiniteSet(s) /\ Cardinality(s) \in Nat /\ Cardinality(s) <= Cardinality(D)
  BY FS_Subset, FS_CardinalityType
<1>2. Partial(0)
  <2> DEFINE g == [s \in Small(0) |-> 0]
  <2>1. ASSUME NEW s \in Small(0) PROVE s = {}
    BY <1>1, FS_EmptySet
  <2>2. g = [s \in Small(0) |-> Step(g, s)]
    BY <2>1
  <2> QED
    BY <2>2
<1>3. ASSUME NEW n \in Nat, Partial(n) PROVE Partial(n + 1)
  <2>1. PICK g : g = [s \in Small(n) |-> Step(g, s)]
    BY <1>3
  <2> DEFINE h == [s \in Small(n + 1) |-> Step(g, s)]
  <2>2. ASSUME NEW s \in Small(n + 1), s # {}
        PROVE  h[s \ {First(s)}] = g[s \ {First(s)}]
    <3> DEFINE r == s \ {First(s)}
    <3>1. r \in SUBSET D /\ Cardinality(r) <= n
      BY <1>1, <2>2, RemoveFirst
    <3>2. r \in Small(n) /\ r \in Small(n + 1)
      BY <1>1, <3>1
    <3> QED
      BY <2>1, <3>2
  <2>3. \A s \in Small(n + 1) : Step(g, s) = Step(h, s)
    BY <2>2
  <2>4. h = [s \in Small(n + 1) |-> Step(h, s)]
    BY <2>3
  <2> QED
    BY <2>4
<1>4. Bad = {}
  <2> SUFFICES ASSUME Bad # {} PROVE FALSE
    OBVIOUS
  <2> HIDE DEF Partial
  <2>1. PICK n \in Bad : \A k \in Bad : n <= k
    BY Least
  <2>2. n \in Nat /\ n # 0
    BY <1>2
  <2>3. n - 1 \in Nat /\ n - 1 \notin Bad
    BY <2>1, <2>2
  <2>4. Partial((n - 1) + 1)
    BY <1>3, <2>3
  <2> QED
    BY <2>2, <2>4
<1>5. Cardinality(D) \in Nat /\ Small(Cardinality(D)) = SUBSET D
  BY <1>1, FS_CardinalityType
<1>6. Partial(Cardinality(D))
  BY <1>4, <1>5
<1> QED
  BY <1>5, <1>6 DEF Sums

(* A sum of sizes is at least as large as the number of lines.             *)
LEMMA SumBounds ==
    ASSUME NEW lines, NEW D, IsFiniteSet(D), NEW sum, Sums(lines, D, sum),
           \A i \in D : lines[i].size \in Nat \ {0}
    PROVE  \A s \in SUBSET D : sum[s] \in Nat /\ sum[s] >= Cardinality(s)
<1> DEFINE Holds(s) == sum[s] \in Nat /\ sum[s] >= Cardinality(s)
           Bad == {n \in Nat : \E s \in SUBSET D : Cardinality(s) = n /\ ~Holds(s)}
<1>1. \A s \in SUBSET D : IsFiniteSet(s) /\ Cardinality(s) \in Nat
  BY FS_Subset, FS_CardinalityType
<1>2. ASSUME NEW s \in SUBSET D, s # {}, Holds(s \ {First(s)}) PROVE Holds(s)
  <2>1. /\ First(s) \in D /\ Cardinality(s \ {First(s)}) = Cardinality(s) - 1
    BY <1>1, <1>2, RemoveFirst
  <2>2. sum[s] = lines[First(s)].size + sum[s \ {First(s)}]
    BY <1>2 DEF Sums
  <2> QED
    BY <1>1, <1>2, <2>1, <2>2
<1>3. Holds({})
  BY FS_EmptySet DEF Sums
<1> HIDE DEF Holds
<1>4. Bad = {}
  <2> SUFFICES ASSUME Bad # {} PROVE FALSE
    OBVIOUS
  <2>1. PICK n \in Bad : \A k \in Bad : n <= k
    BY Least
  <2>2. PICK s \in SUBSET D : Cardinality(s) = n /\ ~Holds(s)
    OBVIOUS
  <2>3. s # {}
    BY <1>3, <2>2
  <2>4. ~Holds(s \ {First(s)})
    BY <1>2, <2>2, <2>3
  <2>5. n \in Nat \ {0} /\ Cardinality(s \ {First(s)}) = n - 1
    BY <1>1, <2>2, <2>3, RemoveFirst
  <2>6. n - 1 \in Bad
    BY <2>4, <2>5
  <2> QED
    BY <2>1, <2>5, <2>6
<1>5. ASSUME NEW s \in SUBSET D PROVE Holds(s)
  BY <1>1, <1>4
<1> QED
  BY <1>5 DEF Holds

-----------------------------------------------------------------------------
(* Lines and windows *)

Usages ==
    (UNION {Told(n) : n \in Sizes}) \cup Untold \cup
    {Missing, [counters |-> Zero, iterations |-> <<>>],
     [counters |-> Cached(COMPACT_AT), iterations |-> <<>>]}

Line ==
    [kind : {"assistant", "boundary", "damaged", "user"}, own : BOOLEAN, usage : Usages,
     size : Nat \ {0}]

LEMMA BytesBounds ==
    ASSUME NEW lines \in Seq(Line), NEW first \in 1..(Len(lines) + 1)
    PROVE  BytesFrom(lines, first) \in Nat /\ BytesFrom(lines, first) >= Len(lines) + 1 - first
<1> DEFINE D == first..Len(lines)
           sum == CHOOSE sum : Sums(lines, D, sum)
<1>1. /\ Len(lines) \in Nat /\ first \in Nat /\ first <= Len(lines) + 1
      /\ D \subseteq 1..Len(lines)
  OBVIOUS
<1>2. IsFiniteSet(D) /\ Cardinality(D) = Len(lines) + 1 - first
  <2>1. first \in Int /\ Len(lines) \in Int
    BY <1>1
  <2> QED
    BY <1>1, <2>1, IntervalSize
<1>3. Sums(lines, D, sum)
  BY <1>2, SumExists
<1>4. ASSUME NEW i \in D PROVE lines[i].size \in Nat \ {0}
  <2>1. lines[i] \in Line
    BY <1>1
  <2> QED
    BY <2>1 DEF Line
<1>5. sum[D] \in Nat /\ sum[D] >= Cardinality(D)
  <2> HIDE DEF sum, D
  <2> QED
    BY <1>2, <1>3, <1>4, SumBounds
<1> QED
  BY <1>2, <1>5, BytesFromDef

(* A window is an end of the lines, shorter than its bytes. *)
LEMMA WindowIsSuffix ==
    ASSUME NEW lines \in Seq(Line)
    PROVE  \E first \in 1..(Len(lines) + 1) :
               /\ Window(lines) = SubSeq(lines, first, Len(lines))
               /\ Len(lines) + 1 - first <= MAX_BYTES
<1> DEFINE In == {i \in DOMAIN lines : InWindow(lines, i)}
           n == Len(lines)
<1>1. n \in Nat /\ DOMAIN lines = 1..n /\ MAX_BYTES \in Nat
  BY UsageAssumption
<1>2. IsFiniteSet(1..n) /\ Cardinality(1..n) = n
  BY <1>1, FS_Interval
<1>3. Cardinality(In) \in Nat /\ Cardinality(In) <= n
  BY <1>1, <1>2, FS_Subset, FS_CardinalityType
<1>4. Cardinality(In) <= MAX_BYTES
  <2> DEFINE a == n + 1 - MAX_BYTES
             Last == a..n
  <2>1. IsFiniteSet(Last) /\ Cardinality(Last) = MAX_BYTES
    <3>1. a \in Int /\ n \in Int /\ a <= n + 1 /\ n + 1 - a = MAX_BYTES
      BY <1>1
    <3> HIDE DEF a, n
    <3>2. IsFiniteSet(a..n) /\ Cardinality(a..n) = n + 1 - a
      BY <3>1, IntervalSize
    <3> QED
      BY <3>1, <3>2
  <2>2. ASSUME NEW i \in In PROVE i \in Last
    <3>1. i \in 1..n /\ BytesFrom(lines, i) < MAX_BYTES
      BY <1>1 DEF InWindow
    <3>2. BytesFrom(lines, i) \in Nat /\ BytesFrom(lines, i) >= n + 1 - i
      BY <1>1, <3>1, BytesBounds
    <3> QED
      BY <1>1, <3>1, <3>2
  <2>3. In \in SUBSET Last
    BY <2>2
  <2> QED
    BY <2>1, <2>3, FS_Subset
<1> DEFINE first == n + 1 - Cardinality(In)
<1>5. first \in 1..(n + 1) /\ n + 1 - first <= MAX_BYTES
  BY <1>1, <1>3, <1>4
<1>6. Window(lines) = SubSeq(lines, first, n)
  BY DEF Window
<1> QED
  BY <1>5, <1>6

(* What is written is added at the end, and the front may go. *)
LEMMA WriteChanges ==
    ASSUME transcript \in Seq(Line), Len(transcript) <= MAX_BYTES, cut \in BOOLEAN,
           NEW line \in Line, Write(line)
    PROVE  /\ transcript' \in Seq(Line) /\ Len(transcript') <= MAX_BYTES /\ cut' \in BOOLEAN
           /\ \E first \in 1..(Len(Append(transcript, line)) + 1) :
                 transcript' = SubSeq(Append(transcript, line), first,
                                      Len(Append(transcript, line)))
<1> DEFINE lines == Append(transcript, line)
           n == Len(lines)
<1>1. lines \in Seq(Line) /\ n \in Nat /\ MAX_BYTES \in Nat
  BY UsageAssumption
<1>2. /\ cut' = (cut \/ BytesFrom(lines, 1) > MAX_BYTES)
      /\ transcript' = IF cut' THEN Window(lines) ELSE lines
  BY DEF Write
<1> HIDE DEF lines
<1>3. PICK first \in 1..(n + 1) :
        /\ transcript' = SubSeq(lines, first, n)
        /\ n + 1 - first <= MAX_BYTES
  <2>1. CASE cut'
    BY <1>1, <1>2, <2>1, WindowIsSuffix
  <2>2. CASE ~cut'
    <3>1. BytesFrom(lines, 1) \in Nat /\ BytesFrom(lines, 1) >= n
      BY <1>1, BytesBounds
    <3>2. n <= MAX_BYTES
      <4>1. ~(BytesFrom(lines, 1) > MAX_BYTES)
        BY <1>2, <2>2, Zenon
      <4> QED
        BY <1>1, <3>1, <4>1
    <3>3. lines = SubSeq(lines, 1, n)
      <4>1. \A i \in 1..n : lines[i] \in Line
        BY <1>1
      <4>2. /\ SubSeq(lines, 1, n) \in Seq(Line)
            /\ Len(SubSeq(lines, 1, n)) = n
            /\ \A i \in 1..n : SubSeq(lines, 1, n)[i] = lines[i]
        BY <1>1, <4>1, SubSeqProperties
      <4> QED
        BY <1>1, <4>2, SeqEqual
    <3> QED
      BY <1>1, <1>2, <2>2, <3>2, <3>3
  <2> QED
    BY <2>1, <2>2
<1>4. SubSeq(lines, first, n) \in Seq(Line) /\ Len(SubSeq(lines, first, n)) = n + 1 - first
  BY <1>1, <1>3, SubSeqProperties
<1> QED
  BY <1>1, <1>2, <1>3, <1>4 DEF lines

-----------------------------------------------------------------------------
(* What a hook reads *)

DecisiveIn(lines) == {i \in DOMAIN lines : Decisive(lines[i])}

(* The last decisive line decides. *)
LEMMA LastDecides ==
    ASSUME NEW lines \in Seq(Line), NEW m \in DecisiveIn(lines),
           \A i \in DecisiveIn(lines) : i <= m
    PROVE  LatestUsage(lines) = ReadLine(lines[m])
<1>1. Len(lines) \in Nat /\ DecisiveIn(lines) \subseteq 1..Len(lines)
  BY DEF DecisiveIn
<1>2. Max(DecisiveIn(lines)) \in DecisiveIn(lines)
      /\ \A i \in DecisiveIn(lines) : i <= Max(DecisiveIn(lines))
  BY <1>1, MaxProperties
<1>3. m \in Nat /\ Max(DecisiveIn(lines)) \in Nat
  BY <1>1, <1>2
<1>4. m <= Max(DecisiveIn(lines)) /\ Max(DecisiveIn(lines)) <= m
  BY <1>2
<1>5. Max(DecisiveIn(lines)) = m
  BY <1>3, <1>4
<1>6. LatestUsage(lines) = ReadLine(lines[Max(DecisiveIn(lines))])
  BY DEF LatestUsage, DecisiveIn
<1> QED
  BY <1>5, <1>6

LEMMA NothingDecides ==
    ASSUME NEW lines, DecisiveIn(lines) = {}
    PROVE  LatestUsage(lines) = None
BY DEF LatestUsage, DecisiveIn

(* A line that is written is what is read, or changes nothing. *)
LEMMA LatestAppended ==
    ASSUME NEW lines \in Seq(Line), NEW line \in Line
    PROVE  LatestUsage(Append(lines, line)) =
              IF Decisive(line) THEN ReadLine(line) ELSE LatestUsage(lines)
<1> DEFINE longer == Append(lines, line)
           n == Len(lines)
<1>1. /\ longer \in Seq(Line) /\ n \in Nat /\ Len(longer) = n + 1
      /\ longer[n + 1] = line /\ \A i \in 1..n : longer[i] = lines[i]
      /\ DOMAIN lines = 1..n /\ DOMAIN longer = 1..(n + 1)
  OBVIOUS
<1> HIDE DEF longer
<1>2. CASE Decisive(line)
  <2>1. n + 1 \in DecisiveIn(longer) /\ \A i \in DecisiveIn(longer) : i <= n + 1
    BY <1>1, <1>2 DEF DecisiveIn
  <2> QED
    BY <1>1, <1>2, <2>1, LastDecides DEF longer
<1>3. CASE ~Decisive(line)
  <2>1. DecisiveIn(longer) = DecisiveIn(lines)
    BY <1>1, <1>3 DEF DecisiveIn
  <2>2. CASE DecisiveIn(lines) = {}
    BY <1>3, <2>1, <2>2, NothingDecides DEF longer
  <2>3. CASE DecisiveIn(lines) # {}
    <3>1. PICK m \in DecisiveIn(lines) : \A i \in DecisiveIn(lines) : i <= m
      BY <1>1, <2>3, MaxProperties DEF DecisiveIn
    <3>2. LatestUsage(lines) = ReadLine(lines[m]) /\ LatestUsage(longer) = ReadLine(longer[m])
      BY <1>1, <2>1, <3>1, LastDecides
    <3>3. longer[m] = lines[m]
      BY <1>1 DEF DecisiveIn
    <3> QED
      BY <1>3, <3>2, <3>3 DEF longer
  <2> QED
    BY <2>2, <2>3
<1> QED
  BY <1>2, <1>3

(* The end of a transcript says what all of it does, or nothing. *)
LEMMA LatestOfSuffix ==
    ASSUME NEW lines \in Seq(Line), NEW first \in 1..(Len(lines) + 1)
    PROVE  LatestUsage(SubSeq(lines, first, Len(lines))) \in {None, LatestUsage(lines)}
<1> DEFINE n == Len(lines)
           end == SubSeq(lines, first, n)
<1>1. n \in Nat /\ first \in Int /\ n \in Int /\ DOMAIN lines = 1..n
  OBVIOUS
<1>2. \A i \in first..n : lines[i] \in Line
  BY <1>1
<1>3. /\ end \in Seq(Line) /\ Len(end) = n + 1 - first
      /\ \A i \in 1..(n - first + 1) : end[i] = lines[first + i - 1]
  BY <1>1, <1>2, SubSeqProperties
<1> HIDE DEF end
<1>4. CASE DecisiveIn(end) = {}
  BY <1>4, NothingDecides DEF end
<1>5. CASE DecisiveIn(end) # {}
  <2>1. Len(end) \in Nat /\ DecisiveIn(end) \subseteq 1..Len(end)
    BY <1>3 DEF DecisiveIn
  <2>2. PICK m \in DecisiveIn(end) : \A i \in DecisiveIn(end) : i <= m
    BY <1>5, <2>1, MaxProperties
  <2>3. m \in 1..(n + 1 - first) /\ Decisive(end[m])
    BY <1>3, <2>1 DEF DecisiveIn
  <2> DEFINE k == first + m - 1
  <2>4. k \in 1..n /\ end[m] = lines[k] /\ k \in DecisiveIn(lines)
    BY <1>1, <1>3, <2>3 DEF DecisiveIn
  <2>5. ASSUME NEW i \in DecisiveIn(lines) PROVE i <= k
    <3> SUFFICES ASSUME i > k PROVE FALSE
      BY <1>1, <2>4 DEF DecisiveIn
    <3>1. i \in 1..n /\ i - first + 1 \in 1..(n - first + 1) /\ i - first + 1 > m
      BY <1>1, <2>3 DEF DecisiveIn
    <3>2. end[i - first + 1] = lines[i]
      BY <1>1, <1>3, <3>1
    <3>3. i - first + 1 \in DecisiveIn(end)
      BY <1>3, <3>1, <3>2 DEF DecisiveIn
    <3> QED
      BY <2>2, <2>3, <3>1, <3>3
  <2>6. LatestUsage(end) = ReadLine(lines[k]) /\ LatestUsage(lines) = ReadLine(lines[k])
    <3> HIDE DEF k
    <3> QED
      BY <1>3, <2>2, <2>4, <2>5, LastDecides
  <2> QED
    BY <2>6 DEF end
<1> QED
  BY <1>4, <1>5

LEMMA ToldTokens ==
    ASSUME NEW n \in Sizes, NEW usage \in Told(n)
    PROVE  UsageTokens(usage) = n
<1>1. n \in 1..MaxU64 /\ MaxU64 \in Nat
  BY UsageAssumption, ReminderAssumption
<1>2. Total(Cached(n)) = n
  BY <1>1 DEF Total, Cached
<1>3. CASE usage = [counters |-> Cached(n), iterations |-> <<>>]
  BY <1>2, <1>3 DEF UsageTokens
<1>4. ASSUME NEW c, usage = [counters |-> c, iterations |-> <<Request(1), Request(n)>>]
      PROVE  UsageTokens(usage) = n
  <2>1. usage.iterations[Len(usage.iterations)] = Request(n) /\ usage.iterations # <<>>
    BY <1>4
  <2> QED
    BY <1>2, <2>1 DEF UsageTokens, Request
<1> QED
  BY <1>3, <1>4 DEF Told

LEMMA UntoldTokens ==
    ASSUME NEW usage \in Untold
    PROVE  UsageTokens(usage) = None
<1>1. MaxU64 \in Nat
  BY UsageAssumption
<1>2. CASE usage = [counters |-> [input |-> MaxU64, rest |-> 1], iterations |-> <<>>]
  BY <1>1, <1>2 DEF UsageTokens, Total
<1>3. CASE usage = [counters |-> [input |-> 1, rest |-> -1], iterations |-> <<>>]
  BY <1>1, <1>3 DEF UsageTokens, Total
<1>4. CASE usage = [counters |-> Cached(COMPACT_AT),
                    iterations |-> <<[message |-> FALSE, counters |-> Zero]>>]
  BY <1>4 DEF UsageTokens
<1> QED
  BY <1>2, <1>3, <1>4 DEF Untold

TranscriptInv ==
    /\ transcript \in Seq(Line) /\ Len(transcript) <= MAX_BYTES /\ cut \in BOOLEAN
    /\ pending \in Seq(Events) /\ Len(pending) <= MaxLag
    /\ context \in 0..MaxU64 /\ written \in 0..MaxU64
    /\ ReadingIsLatest

(* A line that decides tells the size that it is about or nothing, and one *)
(* that is passed over is about no change.                                 *)
LEMMA WriteInv ==
    ASSUME TranscriptInv, NEW line \in Line, Write(line),
           IF Decisive(line) THEN ReadLine(line) \in {None, written'}
                             ELSE written' = written
    PROVE  /\ transcript' \in Seq(Line) /\ Len(transcript') <= MAX_BYTES /\ cut' \in BOOLEAN
           /\ context' \in 0..MaxU64
           /\ ReadingIsLatest'
<1> DEFINE lines == Append(transcript, line)
<1>1. lines \in Seq(Line) /\ LatestUsage(lines) \in {None, written'}
  BY LatestAppended DEF TranscriptInv, ReadingIsLatest, Reading
<1>2. PICK first \in 1..(Len(lines) + 1) : transcript' = SubSeq(lines, first, Len(lines))
  BY WriteChanges DEF TranscriptInv
<1>3. LatestUsage(transcript') \in {None, LatestUsage(lines)}
  <2> HIDE DEF lines
  <2> QED
    BY <1>1, <1>2, LatestOfSuffix
<1>4. Reading' \in {None, written'}
  BY <1>1, <1>3 DEF Reading
<1>5. context' \in 0..MaxU64
  BY DEF Write, TranscriptInv
<1> QED
  BY <1>4, <1>5, WriteChanges DEF TranscriptInv, ReadingIsLatest

LEMMA AssistantLine ==
    ASSUME NEW usage \in Usages, NEW own \in BOOLEAN
    PROVE  /\ Assistant(own, usage) \in Line
           /\ Decisive(Assistant(own, usage)) <=> own /\ usage # Missing
           /\ ReadLine(Assistant(own, usage)) = UsageTokens(usage)
<1> DEFINE line == Assistant(own, usage)
<1>1. line = [kind |-> "assistant", own |-> own, usage |-> usage, size |-> 1]
  BY DEF Assistant
<1>2. line \in Line
  BY <1>1 DEF Line
<1>3. Decisive(line) <=> own /\ usage # Missing
  BY <1>1 DEF Decisive
<1>4. ReadLine(line) = UsageTokens(usage)
  BY <1>1 DEF ReadLine
<1> QED
  BY <1>2, <1>3, <1>4

LEMMA OtherLine ==
    ASSUME NEW kind \in {"boundary", "damaged", "user"}, NEW own \in BOOLEAN,
           NEW size \in Nat \ {0}
    PROVE  /\ Other(kind, own, size) \in Line
           /\ Decisive(Other(kind, own, size)) <=>
                  kind = "damaged" \/ (kind = "boundary" /\ own)
           /\ kind = "damaged" => ReadLine(Other(kind, own, size)) = None
           /\ kind = "boundary" => ReadLine(Other(kind, own, size)) = 0
<1> DEFINE line == Other(kind, own, size)
<1>1. line = [kind |-> kind, own |-> own, usage |-> Missing, size |-> size]
  BY DEF Other
<1>2. Missing \in Usages
  BY DEF Usages
<1>3. line \in Line
  BY <1>1, <1>2 DEF Line
<1>4. Decisive(line) <=> kind = "damaged" \/ (kind = "boundary" /\ own)
  BY <1>1 DEF Decisive
<1>5. /\ kind = "damaged" => ReadLine(line) = None
      /\ kind = "boundary" => ReadLine(line) = 0
  BY <1>1 DEF ReadLine
<1> QED
  BY <1>3, <1>4, <1>5

LEMMA EventType ==
    ASSUME NEW e \in Events
    PROVE  /\ e.of \in {"request", "boundary", "hidden"} /\ e.size \in 0..MaxU64
           /\ e.of = "request" => e.size \in Sizes
           /\ e.of = "boundary" => e.size = 0
<1>1. MaxU64 \in Nat /\ Sizes \subseteq 1..MaxU64
  BY UsageAssumption, ReminderAssumption
<1>2. 0 \in 0..MaxU64 /\ \A n \in Sizes : n \in 0..MaxU64
  BY <1>1
<1>3. CASE e \in [of : {"request"}, size : Sizes]
  BY <1>2, <1>3
<1>4. CASE e \in [of : {"hidden"}, size : Sizes \cup {0}]
  BY <1>2, <1>4
<1>5. CASE e \in [of : {"boundary"}, size : {0}]
  BY <1>2, <1>5
<1> QED
  BY <1>3, <1>4, <1>5 DEF Events

(* The line about a change tells its size or nothing. *)
LEMMA EventLine ==
    ASSUME NEW e \in Events, NEW line \in LinesOf(e)
    PROVE  /\ line \in Line /\ Decisive(line) /\ ReadLine(line) \in {None, e.size}
           /\ e.size \in 0..MaxU64
<1>1. MaxU64 \in Nat /\ 1 \in Nat \ {0} /\ Sizes \subseteq 1..MaxU64
  BY UsageAssumption, ReminderAssumption
<1>2. e.of \in {"request", "boundary", "hidden"} /\ e.size \in 0..MaxU64
  BY EventType
<1>3. CASE e.of = "request"
  <2>1. PICK usage \in Told(e.size) : line = Assistant(TRUE, usage)
    BY <1>3 DEF LinesOf
  <2>2. e.size \in Sizes
    BY <1>3, EventType
  <2>3. usage \in Usages /\ usage # Missing
    BY <2>2, MissingAssumption DEF Usages
  <2> QED
    BY <1>2, <2>1, <2>2, <2>3, AssistantLine, ToldTokens
<1>4. CASE e.of = "boundary"
  <2>1. line = Other("boundary", TRUE, 1)
    BY <1>4 DEF LinesOf
  <2>2. e.size = 0
    BY <1>4, EventType
  <2>3. line \in Line /\ Decisive(line) /\ ReadLine(line) = 0
    BY <1>1, <2>1, OtherLine
  <2> QED
    BY <1>2, <2>2, <2>3
<1>5. CASE e.of = "hidden"
  <2>1. \/ line = Other("damaged", FALSE, 1)
        \/ \E usage \in Untold : line = Assistant(TRUE, usage)
    BY <1>5 DEF LinesOf
  <2>2. CASE line = Other("damaged", FALSE, 1)
    <3>1. line \in Line /\ Decisive(line) /\ ReadLine(line) = None
      BY <1>1, <2>2, OtherLine
    <3> QED
      BY <1>2, <3>1
  <2>3. CASE \E usage \in Untold : line = Assistant(TRUE, usage)
    <3>1. PICK usage \in Untold : line = Assistant(TRUE, usage)
      BY <2>3
    <3>2. usage \in Usages /\ usage # Missing
      BY MissingAssumption DEF Usages
    <3> QED
      BY <1>2, <3>1, <3>2, AssistantLine, UntoldTokens
  <2> QED
    BY <2>1, <2>2, <2>3
<1> QED
  BY <1>2, <1>3, <1>4, <1>5

(* A line that is about no change is passed over, or tells nothing. *)
LEMMA UnrelatedLine ==
    ASSUME NEW line \in Unrelated
    PROVE  line \in Line /\ (Decisive(line) => ReadLine(line) = None)
<1> DEFINE zero == [counters |-> Zero, iterations |-> <<>>]
           full == [counters |-> Cached(COMPACT_AT), iterations |-> <<>>]
<1>1. MAX_BYTES \in Nat \ {0} /\ 1 \in Nat \ {0}
  BY UsageAssumption
<1>2. line \in {Assistant(TRUE, zero), Assistant(TRUE, Missing), Assistant(FALSE, full),
                Other("boundary", FALSE, 1), Other("user", TRUE, MAX_BYTES)}
  BY DEF Unrelated
<1>3. zero \in Usages /\ full \in Usages /\ Missing \in Usages /\ UsageTokens(zero) = None
  BY DEF Usages, UsageTokens, Total, Zero
<1> HIDE DEF zero, full
<1>4. CASE line \in {Assistant(TRUE, zero), Assistant(TRUE, Missing), Assistant(FALSE, full)}
  BY <1>3, <1>4, AssistantLine
<1>5. CASE line \in {Other("boundary", FALSE, 1), Other("user", TRUE, MAX_BYTES)}
  BY <1>1, <1>5, OtherLine
<1> QED
  BY <1>2, <1>4, <1>5

LEMMA ResizeInv ==
    ASSUME TranscriptInv, NEW n \in 0..MaxU64, Resize(n),
           pending' \in Seq(Events), Len(pending') <= MaxLag
    PROVE  TranscriptInv'
<1>1. context' = n /\ UNCHANGED <<transcript, cut, written>>
  BY DEF Resize
<1> QED
  BY <1>1 DEF TranscriptInv, ReadingIsLatest, Reading

LEMMA NextTranscriptInv ==
    ASSUME TranscriptInv, [Next]_vars
    PROVE  TranscriptInv'
<1>1. MaxU64 \in Nat /\ MaxLag \in Nat /\ Sizes \subseteq 1..MaxU64
  BY UsageAssumption, ReminderAssumption
<1>2. ASSUME NEW e \in Events, Change(e) PROVE TranscriptInv'
  <2>1. pending \in Seq(Events) /\ Len(pending) < MaxLag /\ pending' = Append(pending, e)
    BY <1>2 DEF Change, TranscriptInv
  <2>2. pending' \in Seq(Events) /\ Len(pending') = Len(pending) + 1
    BY <2>1, AppendProperties
  <2>3. Len(pending') <= MaxLag
    BY <1>1, <2>1, <2>2
  <2>4. e.size \in 0..MaxU64 /\ Resize(e.size)
    BY <1>2, EventType DEF Change
  <2> QED
    BY <2>2, <2>3, <2>4, ResizeInv
<1>3. CASE SilentChange
  <2>1. PICK n \in Sizes \cup {0} : Resize(n) /\ pending' = pending
    BY <1>3 DEF SilentChange
  <2>2. n \in 0..MaxU64
    BY <1>1
  <2> QED
    BY <2>1, <2>2, ResizeInv DEF TranscriptInv
<1>4. CASE WriteChange
  <2>1. /\ pending \in Seq(Events) /\ pending # <<>> /\ Len(pending) <= MaxLag
        /\ pending' = Tail(pending)
    BY <1>4 DEF WriteChange, TranscriptInv
  <2>2. /\ Head(pending) \in Events /\ pending' \in Seq(Events)
        /\ Len(pending') = Len(pending) - 1
    BY <2>1, HeadTailProperties
  <2>3. Len(pending') <= MaxLag
    BY <1>1, <2>1, <2>2
  <2>4. PICK line \in LinesOf(Head(pending)) : Write(line)
    BY <1>4 DEF WriteChange
  <2>5. written' = Head(pending).size
    BY <1>4 DEF WriteChange
  <2>6. /\ line \in Line /\ Decisive(line) /\ ReadLine(line) \in {None, written'}
        /\ written' \in 0..MaxU64
    BY <2>2, <2>5, EventLine
  <2> QED
    BY <2>2, <2>3, <2>4, <2>6, WriteInv DEF TranscriptInv
<1>5. CASE WriteUnrelated
  <2>1. PICK line \in Unrelated : Write(line)
    BY <1>5 DEF WriteUnrelated
  <2>2. UNCHANGED <<pending, written>>
    BY <1>5 DEF WriteUnrelated
  <2>3. line \in Line /\ (Decisive(line) => ReadLine(line) = None)
    BY UnrelatedLine
  <2> QED
    BY <2>1, <2>2, <2>3, WriteInv DEF TranscriptInv
<1>6. CASE \/ UNCHANGED vars
           \/ \E h \in Hooks : \/ ReadUsage(h) \/ Rearm(h) \/ Claim(h) \/ NoClaim(h)
                               \/ PrintReminder(h)
  <2>1. UNCHANGED <<transcript, cut, pending, context, written>>
    BY <1>6 DEF ReadUsage, Rearm, Claim, NoClaim, PrintReminder, vars, session
  <2> QED
    BY <2>1 DEF TranscriptInv, ReadingIsLatest, Reading
<1> QED
  BY <1>2, <1>3, <1>4, <1>5, <1>6 DEF Next

LEMMA InitTranscriptInv == Init => TranscriptInv
<1> SUFFICES ASSUME Init PROVE TranscriptInv
  OBVIOUS
<1>1. transcript = <<>> /\ transcript \in Seq(Line) /\ Len(transcript) = 0
  BY DEF Init
<1>2. DecisiveIn(transcript) = {}
  BY <1>1 DEF DecisiveIn
<1>3. Reading = None
  BY <1>2, NothingDecides DEF Reading
<1>4. Len(transcript) <= MAX_BYTES /\ 0 \in 0..MaxU64 /\ 0 <= MaxLag
  BY <1>1, UsageAssumption, ReminderAssumption
<1>5. context = 0 /\ written = 0 /\ cut = FALSE
  BY DEF Init
<1>6. pending \in Seq(Events) /\ Len(pending) <= MaxLag
  <2>1. pending = <<>>
    BY DEF Init
  <2> QED
    BY <1>4, <2>1
<1> QED
  BY <1>1, <1>3, <1>4, <1>5, <1>6 DEF TranscriptInv, ReadingIsLatest

(* However far the transcript lags behind the context, what a hook reads   *)
(* from its tail is the size after the last change that a line was written *)
(* about, or nothing: for any sizes, thresholds and window, whatever is    *)
(* written (context.rs: read_usage, latest_usage, usage_tokens).           *)
THEOREM ReadingIsLatestTheorem == Spec => []ReadingIsLatest
<1>1. TranscriptInv => ReadingIsLatest
  BY DEF TranscriptInv
<1> QED
  BY <1>1, InitTranscriptInv, NextTranscriptInv, PTL DEF Spec

CountersInv ==
    /\ pc \in [Hooks -> {"idle", "claim", "print"}]
    /\ crossings \in [{1, 2} -> Nat]
    /\ reminders \in [{1, 2} -> Nat]

LEMMA NextCountersInv ==
    ASSUME CountersInv, ClaimInv, [Next]_vars
    PROVE  CountersInv'
<1> USE DEF CountersInv
<1>1. ASSUME (\E n : Resize(n)) \/ (\E line : Write(line)) PROVE CountersInv'
  BY <1>1 DEF Resize, Write, hookVars
<1>2. ASSUME NEW h \in Hooks,
             ReadUsage(h) \/ Rearm(h) \/ Claim(h) \/ NoClaim(h) \/ PrintReminder(h)
      PROVE  CountersInv'
  <2>1. CASE ReadUsage(h) \/ Rearm(h) \/ NoClaim(h) \/ PrintReminder(h)
    BY <2>1 DEF ReadUsage, Rearm, NoClaim, PrintReminder, Exit, session
  <2>2. CASE Claim(h)
    BY <2>2 DEF Claim, session, ClaimInv, Levels
  <2> QED
    BY <1>2, <2>1, <2>2
<1>3. CASE UNCHANGED vars
  BY <1>3 DEF vars, session
<1> QED
  BY <1>1, <1>2, <1>3 DEF Next, Change, SilentChange, WriteChange, WriteUnrelated

(* The transcript never outgrows its window, and every variable keeps its  *)
(* type, for any number of hooks.                                          *)
THEOREM TypeCorrect == Spec => []TypeOK
<1>1. Init => CountersInv
  BY DEF Init, CountersInv
<1>2. ClaimInv /\ [Next]_vars => ClaimInv'
  BY SessionClaimInv, HookClaimInv DEF Next
<1>3. TranscriptInv /\ ClaimInv /\ CountersInv => TypeOK
  BY DEF TranscriptInv, ClaimInv, CountersInv, TypeOK
<1> QED
  BY <1>1, <1>2, <1>3, InitTranscriptInv, NextTranscriptInv, InitClaimInv,
     NextCountersInv, PTL DEF Spec
=============================================================================
