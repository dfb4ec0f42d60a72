---------------------------- MODULE IdentityProofs ----------------------------
(***************************************************************************)
(* Who is calling, proved for any hosts, threads, length of the line of    *)
(* processes and number of ancestors looked at.                            *)
(***************************************************************************)
EXTENDS Identity, SequenceTheorems, WellFoundedInduction, TLAPS

Processes ==
    [host : Codex \cup Claude \cup {None},
     record : {"none", "stale", "damaged", "matching"}]

TypeInv ==
    /\ chain \in Seq(Processes)
    /\ env \in [addr : Claude \cup Threads \cup {None}, claude : Claude \cup {None},
                codex : Threads \cup {None}]
    /\ role \in {"shell", "host", "answered"}
    /\ caller \in Claude \cup Threads \cup {None}
    /\ verified \in SUBSET Matching

(* Only a Claude host has a matching record. *)
RecordInv == \A i \in Matching : chain[i].host \in Claude

(* Process i is the nearest host. *)
NearestAt(i) == chain[i].host # None /\ \A j \in 1..(i - 1) : chain[j].host = None

(* A host is at the front.  Below it the variables of the caller's runtime *)
(* name the caller, whatever those of the other one still hold.            *)
CallerInv ==
    /\ role = "host" => /\ chain # <<>> /\ chain[1].host # None
                        /\ chain[1].host \in Claude => caller = chain[1].host
    /\ role = "shell" =>
        /\ caller = None => env.claude = None /\ env.codex = None
        /\ caller \in Claude => env.claude = caller
        /\ caller \in Threads => env.codex = caller
        /\ \A i \in DOMAIN chain : NearestAt(i) =>
               /\ chain[i].host \in Claude => caller = chain[i].host
               /\ chain[i].host \in Codex => caller \in Threads

AnswerInv ==
    IF role = "answered" THEN NearestHost ELSE verified = {} /\ answer = "none"

IdentityInv == TypeInv /\ RecordInv /\ CallerInv /\ AnswerInv

-----------------------------------------------------------------------------
(* The line of processes *)

(* The least of some numbers. *)
LEMMA MinProperties ==
    ASSUME NEW S \in SUBSET Nat, S # {}
    PROVE  Min(S) \in S /\ \A y \in S : Min(S) <= y
<1>1. PICK x \in S : \A y \in S : ~(<<y, x>> \in OpToRel(<, Nat))
  BY NatLessThanWellFounded, WFMin
<1>2. ASSUME NEW y \in S PROVE x <= y
  <2>1. SUFFICES ASSUME y < x PROVE FALSE
    OBVIOUS
  <2>2. <<y, x>> \in OpToRel(<, Nat)
    BY <2>1 DEF OpToRel
  <2> QED
    BY <1>1, <2>2
<1> QED
  BY <1>2 DEF Min

(* A new process is in front of the others. *)
LEMMA PrependChanges ==
    ASSUME chain \in Seq(Processes), NEW p \in Processes, Prepend(p)
    PROVE  /\ chain' \in Seq(Processes) /\ chain' # <<>>
           /\ Len(chain) \in Nat /\ DOMAIN chain = 1..Len(chain)
           /\ DOMAIN chain' = 1..(Len(chain) + 1)
           /\ chain'[1] = p
           /\ \A i \in 1..Len(chain) : chain'[i + 1] = chain[i]
<1>1. <<p>> \in Seq(Processes) /\ chain' = <<p>> \o chain
  BY DEF Prepend
<1>2. /\ chain' \in Seq(Processes) /\ Len(chain') = Len(chain) + 1
      /\ \A i \in 1..(Len(chain) + 1) :
            chain'[i] = IF i <= 1 THEN p ELSE chain[i - 1]
  BY <1>1, ConcatProperties, LenProperties
<1> QED
  BY <1>2

LEMMA RecordsOf ==
    ASSUME TypeInv, RecordInv, NEW p \in Processes, Prepend(p),
           p.record = "matching" => p.host \in Claude
    PROVE  RecordInv'
<1>1. chain \in Seq(Processes)
  BY DEF TypeInv
<1>2. ASSUME NEW i \in DOMAIN chain'
      PROVE  chain'[i].record = "matching" => chain'[i].host \in Claude
  <2>1. CASE i = 1
    BY <2>1, <1>1, PrependChanges
  <2>2. CASE i # 1
    <3>1. i - 1 \in DOMAIN chain /\ chain'[i] = chain[i - 1]
      BY <1>1, <1>2, <2>2, PrependChanges
    <3> QED
      BY <3>1 DEF RecordInv, Matching
  <2> QED
    BY <2>1, <2>2
<1> QED
  BY <1>2 DEF RecordInv, Matching

(* What is no host leaves the nearest host the nearest. *)
LEMMA NearestOf ==
    ASSUME TypeInv, NEW p \in Processes, Prepend(p), p.host = None,
           NEW i \in DOMAIN chain', NearestAt(i)'
    PROVE  \E j \in DOMAIN chain : NearestAt(j) /\ chain'[i] = chain[j]
<1>1. chain \in Seq(Processes)
  BY DEF TypeInv
<1>2. i \in 1..(Len(chain) + 1) /\ i # 1
  BY <1>1, PrependChanges DEF NearestAt
<1>3. i - 1 \in DOMAIN chain /\ chain'[i] = chain[i - 1]
  BY <1>1, <1>2, PrependChanges
<1>4. ASSUME NEW j \in 1..(i - 2) PROVE chain[j].host = None
  <2>1. j + 1 \in 1..(i - 1) /\ j \in 1..Len(chain)
    BY <1>1, <1>2, PrependChanges
  <2>2. chain'[j + 1].host = None /\ chain'[j + 1] = chain[j]
    BY <1>1, <2>1, PrependChanges DEF NearestAt
  <2> QED
    BY <2>2
<1>5. NearestAt(i - 1)
  BY <1>2, <1>3, <1>4 DEF NearestAt
<1> QED
  BY <1>3, <1>5

-----------------------------------------------------------------------------
(* The answers *)

(* An index of the chain that tells, and none before it, decides.          *)
LEMMA Decides ==
    ASSUME NEW known, NEW m \in Telling(known), \A j \in Telling(known) : m <= j,
           chain \in Seq(Processes)
    PROVE  Min(Telling(known)) = m
<1> DEFINE T == Telling(known)
<1>1. T \in SUBSET Nat
  BY DEF Telling
<1>2. T # {}
  OBVIOUS
<1> HIDE DEF T
<1>3. Min(T) \in T /\ \A y \in T : Min(T) <= y
  BY <1>1, <1>2, MinProperties
<1>4. m \in Nat /\ Min(T) \in Nat
  BY <1>1, <1>3 DEF T
<1>5. m <= Min(T) /\ Min(T) <= m
  BY <1>3 DEF T
<1> QED
  BY <1>4, <1>5 DEF T

LEMMA WalkProperties ==
    ASSUME chain \in Seq(Processes)
    PROVE  /\ Walk \in 0..Len(chain)
           /\ NamedHosts # {} => Walk \in NamedHosts
           /\ \A i \in NamedHosts : Walk <= i
           /\ NamedHosts = {} => Walk = Len(chain)
<1>1. Len(chain) \in Nat /\ NamedHosts \subseteq 1..Len(chain)
  BY DEF NamedHosts
<1>2. CASE NamedHosts = {}
  BY <1>1, <1>2 DEF Walk
<1>3. CASE NamedHosts # {}
  <2>1. Walk = Min(NamedHosts)
    BY <1>3, Zenon DEF Walk
  <2>2. NamedHosts \in SUBSET Nat
    BY <1>1
  <2>3. Walk \in NamedHosts /\ \A i \in NamedHosts : Walk <= i
    BY <1>3, <2>1, <2>2, MinProperties
  <2>4. Walk \in 1..Len(chain)
    BY <1>1, <2>3
  <2> QED
    BY <1>1, <1>3, <2>3, <2>4
<1> QED
  BY <1>2, <1>3

(* Process i may be passed by: it is no host, or neither its name nor its   *)
(* record shows that it is one.                                             *)
Passed(i, known) == chain[i].host \in Disguised \cup {None} /\ i \notin known

(* A process that was looked at and told nothing.                          *)
LEMMA SilentIsPassed ==
    ASSUME TypeInv, NEW known, NEW j \in 1..Walk, j \notin Telling(known)
    PROVE  j \in DOMAIN chain /\ Passed(j, known)
<1>1. chain \in Seq(Processes) /\ j \in DOMAIN chain
  BY WalkProperties DEF TypeInv
<1>2. chain[j] \in Processes
  BY <1>1
<1>3. ~RecordTells(j, known) /\ ~Named(chain[j], Codex \cup Claude)
  BY DEF Telling
<1>4. chain[j].host \in Disguised \cup {None}
  BY <1>2, <1>3 DEF Named, Processes
<1>5. ~Named(chain[j], Codex)
  BY <1>3 DEF Named
<1> QED
  BY <1>1, <1>3, <1>4, <1>5 DEF RecordTells, Passed

LEMMA NobodyTells ==
    ASSUME TypeInv, NEW known, Telling(known) = {}
    PROVE  \A j \in DOMAIN chain : Passed(j, known)
<1>1. chain \in Seq(Processes) /\ Len(chain) \in Nat /\ DOMAIN chain = 1..Len(chain)
  BY DEF TypeInv
<1>2. NamedHosts = {}
  <2> SUFFICES ASSUME NamedHosts # {} PROVE FALSE
    OBVIOUS
  <2>1. Walk \in NamedHosts /\ Walk \in 0..Len(chain)
    BY <1>1, WalkProperties
  <2>2. Walk \in 1..Walk /\ Named(chain[Walk], Codex \cup Claude)
    BY <1>1, <2>1 DEF NamedHosts
  <2> QED
    BY <2>2 DEF Telling
<1>3. Walk = Len(chain)
  BY <1>1, <1>2, WalkProperties
<1> QED
  BY <1>1, <1>3, SilentIsPassed

(* The first process that tells is a host with none before it but those    *)
(* passed by, or it gives no answer.                                       *)
LEMMA FirstTells ==
    ASSUME TypeInv, RecordInv, NEW known \in SUBSET Matching, Telling(known) # {}
    PROVE  \/ FromAncestor(Min(Telling(known)), known) = "refused"
           \/ \E m \in DOMAIN chain :
                /\ \A j \in 1..(m - 1) : Passed(j, known)
                /\ \/ /\ chain[m].host \in Claude
                      /\ FromAncestor(Min(Telling(known)), known) = chain[m].host
                   \/ /\ chain[m].host \in Codex
                      /\ FromAncestor(Min(Telling(known)), known) = env.codex
<1> DEFINE T == Telling(known)
           m == Min(T)
<1>1. chain \in Seq(Processes) /\ Walk \in Nat /\ 1..Walk \subseteq DOMAIN chain
  BY WalkProperties DEF TypeInv
<1>2. T \in SUBSET Nat /\ T \subseteq 1..Walk
  BY DEF Telling
<1> HIDE DEF T
<1>3. m \in T /\ \A j \in T : m <= j
  BY <1>2, MinProperties DEF T
<1> HIDE DEF m
<1>4. m \in 1..Walk /\ m \in DOMAIN chain
  BY <1>1, <1>2, <1>3
<1>5. ASSUME NEW j \in 1..(m - 1) PROVE Passed(j, known)
  <2>1. j \in 1..Walk /\ j \notin T
    BY <1>1, <1>2, <1>3, <1>4
  <2> QED
    BY <2>1, SilentIsPassed DEF T
<1>6. CASE Named(chain[m], Codex)
  <2>1. chain[m].host \in Codex
    BY <1>6 DEF Named
  <2>2. FromAncestor(m, known) \in {"refused", env.codex}
    BY <1>6 DEF FromAncestor
  <2> QED
    BY <1>4, <1>5, <2>1, <2>2 DEF m, T
<1>7. CASE ~Named(chain[m], Codex) /\ m \in known
  <2>1. chain[m].host \in Claude
    BY <1>7 DEF RecordInv
  <2>2. FromAncestor(m, known) = chain[m].host
    BY <1>7 DEF FromAncestor
  <2> QED
    BY <1>4, <1>5, <2>1, <2>2 DEF m, T
<1>8. CASE ~Named(chain[m], Codex) /\ m \notin known
  <2>1. FromAncestor(m, known) = "refused"
    BY <1>8 DEF FromAncestor
  <2> QED
    BY <2>1 DEF m, T
<1> QED
  BY <1>6, <1>7, <1>8

(* The nearest host is what the ancestors tell, if it can be verified and  *)
(* no record before it is damaged.                                         *)
LEMMA NearestTells ==
    ASSUME TypeInv, RecordInv, env.addr = None, Walk <= MAX_ANCESTORS,
           NEW known \in SUBSET Matching,
           NEW m \in DOMAIN chain, NearestAt(m),
           \A i \in 1..m : chain[i].record # "damaged",
           chain[m].host \in Claude => m \in known
    PROVE  /\ m \in 1..Walk
           /\ Whoami(known) = FromAncestor(m, known)
<1>1. /\ chain \in Seq(Processes) /\ m \in 1..Len(chain) /\ Len(chain) \in Nat
      /\ DOMAIN chain = 1..Len(chain)
  BY DEF TypeInv
<1>2. \A i \in DOMAIN chain : Named(chain[i], Codex \cup Claude) => m <= i
  <2> SUFFICES ASSUME NEW i \in DOMAIN chain, Named(chain[i], Codex \cup Claude), i < m
               PROVE  FALSE
    BY <1>1
  <2>1. chain[i].host = None
    BY <1>1 DEF NearestAt
  <2> QED
    BY <2>1, IdentityAssumption DEF Named
<1>3. m \in 1..Walk
  <2>1. CASE NamedHosts = {}
    BY <1>1, <2>1, WalkProperties
  <2>2. CASE NamedHosts # {}
    <3>1. Walk \in NamedHosts
      BY <1>1, <2>2, WalkProperties
    <3> QED
      BY <1>1, <1>2, <3>1 DEF NamedHosts
  <2> QED
    BY <2>1, <2>2
<1>4. m \in Telling(known)
  <2>1. chain[m] \in Processes /\ chain[m].host # None
    BY <1>1 DEF NearestAt
  <2>2. RecordTells(m, known) \/ Named(chain[m], Codex \cup Claude)
    BY <2>1, IdentityAssumption DEF Processes, RecordTells, Named
  <2> QED
    BY <1>3, <2>2 DEF Telling
<1>5. \A j \in Telling(known) : m <= j
  <2> SUFFICES ASSUME NEW j \in Telling(known), j < m PROVE FALSE
    BY <1>1 DEF Telling
  <2>1. j \in 1..(m - 1) /\ j \in DOMAIN chain /\ j \in 1..m
    BY <1>1 DEF Telling
  <2>2. chain[j].host = None /\ chain[j].record # "damaged"
    BY <2>1 DEF NearestAt
  <2>3. j \notin known /\ chain[j].host \notin Codex \cup Claude
    BY <2>1, <2>2, IdentityAssumption DEF RecordInv
  <2> QED
    BY <2>2, <2>3 DEF Telling, RecordTells, Named
<1>6. Min(Telling(known)) = m
  BY <1>1, <1>4, <1>5, Decides
<1>7. Whoami(known) = FromAncestor(Min(Telling(known)), known)
  BY <1>4, <1>3, WalkProperties, <1>1, IdentityAssumption DEF Whoami
<1> QED
  BY <1>3, <1>6, <1>7

-----------------------------------------------------------------------------
(* The steps *)

(* A process that is prepended keeps the types and the records; nobody has *)
(* answered.                                                               *)
LEMMA PrependInv ==
    ASSUME IdentityInv, NEW h \in Codex \cup Claude \cup {None},
           NEW r \in {"none", "stale", "damaged", "matching"}, Prepend(Process(h, r)),
           r = "matching" => h \in Claude,
           verified = {}, UNCHANGED <<env, verified, answer>>, role = "shell",
           role' \in {"shell", "host"}, caller' \in Claude \cup Threads \cup {None}
    PROVE  TypeInv' /\ RecordInv' /\ AnswerInv'
<1> DEFINE p == Process(h, r)
<1>1. p \in Processes /\ p.host = h /\ p.record = r
  BY DEF Process, Processes
<1> HIDE DEF p
<1>2. chain' \in Seq(Processes) /\ RecordInv'
  BY <1>1, PrependChanges, RecordsOf DEF IdentityInv, TypeInv, p
<1> QED
  BY <1>2 DEF IdentityInv, TypeInv, AnswerInv

LEMMA SubprocessInv ==
    ASSUME IdentityInv, Subprocess
    PROVE  IdentityInv'
<1>1. PICK r \in {"none", "stale", "damaged"} : Prepend(Process(None, r))
  BY DEF Subprocess
<1>2. UNCHANGED <<env, role, caller, verified, answer>> /\ role = "shell" /\ verified = {}
  BY DEF Subprocess, IdentityInv, AnswerInv
<1>3. Process(None, r) \in Processes /\ Process(None, r).host = None
  BY DEF Process, Processes
<1>4. TypeInv' /\ RecordInv' /\ AnswerInv'
  BY <1>1, <1>2, PrependInv, IdentityAssumption DEF IdentityInv, TypeInv
<1>5. ASSUME NEW i \in DOMAIN chain', NearestAt(i)'
      PROVE  \E j \in DOMAIN chain : NearestAt(j) /\ chain'[i] = chain[j]
  BY <1>1, <1>3, <1>5, NearestOf DEF IdentityInv
<1>6. CallerInv'
  BY <1>2, <1>5 DEF IdentityInv, CallerInv
<1> QED
  BY <1>4, <1>6 DEF IdentityInv

LEMMA LaunchInv ==
    ASSUME IdentityInv, NEW h \in Codex \cup Claude,
           \/ h \in Codex /\ LaunchCodex(h)
           \/ h \in Claude /\ LaunchClaude(h)
    PROVE  IdentityInv'
<1>1. PICK r \in {"none", "stale", "damaged", "matching"} :
        /\ Prepend(Process(h, r))
        /\ r = "matching" => h \in Claude
  BY IdentityAssumption DEF LaunchCodex, LaunchClaude
<1>2. /\ UNCHANGED <<env, verified, answer>> /\ role = "shell" /\ role' = "host"
      /\ h \in Claude => caller' = h
      /\ caller' \in Claude \cup Threads \cup {None}
      /\ verified = {}
  BY IdentityAssumption DEF LaunchCodex, LaunchClaude, IdentityInv, AnswerInv
<1>3. TypeInv' /\ RecordInv' /\ AnswerInv'
  BY <1>1, <1>2, PrependInv
<1>4. Process(h, r) \in Processes /\ Process(h, r).host = h
  BY DEF Process, Processes
<1>5. chain' # <<>> /\ chain'[1] = Process(h, r)
  BY <1>1, <1>4, PrependChanges DEF IdentityInv, TypeInv
<1>6. CallerInv'
  BY <1>2, <1>4, <1>5, IdentityAssumption DEF CallerInv
<1> QED
  BY <1>3, <1>6 DEF IdentityInv

LEMMA RunToolInv ==
    ASSUME IdentityInv, RunTool
    PROVE  IdentityInv'
<1> USE IdentityAssumption DEF IdentityInv
<1>1. /\ role = "host" /\ role' = "shell" /\ UNCHANGED <<chain, verified, answer>>
      /\ chain \in Seq(Processes) /\ chain # <<>> /\ 1 \in DOMAIN chain
  BY DEF RunTool, TypeInv, CallerInv
<1>2. \A i \in DOMAIN chain : NearestAt(i) => i = 1
  BY <1>1 DEF NearestAt, CallerInv
<1>3. TypeInv'
  BY <1>1 DEF RunTool, TypeInv, Matching
<1>4. RecordInv' /\ AnswerInv'
  BY <1>1 DEF RecordInv, Matching, AnswerInv
<1>5. CallerInv'
  <2>1. CASE chain[1].host \in Claude /\ env' = [env EXCEPT !.claude = chain[1].host]
             /\ UNCHANGED caller
    BY <1>1, <1>2, <2>1 DEF CallerInv, TypeInv, NearestAt
  <2>2. ASSUME chain[1].host \in Codex, NEW t \in Threads,
               env' = [env EXCEPT !.codex = t], caller' = t
        PROVE  CallerInv'
    BY <1>1, <1>2, <2>2 DEF CallerInv, TypeInv, NearestAt
  <2> QED
    BY <2>1, <2>2 DEF RunTool
<1> QED
  BY <1>3, <1>4, <1>5

LEMMA OverrideOrphanInv ==
    ASSUME IdentityInv, Override \/ Orphan
    PROVE  IdentityInv'
<1> USE DEF IdentityInv
<1>1. CASE Override
  BY <1>1 DEF Override, TypeInv, RecordInv, Matching, CallerInv, NearestAt, AnswerInv
<1>2. CASE Orphan
  BY <1>2 DEF Orphan, TypeInv, RecordInv, Matching, CallerInv, NearestAt, AnswerInv
<1> QED
  BY <1>1, <1>2

(* The nearest host is one of those passed by. *)
Missed(known) ==
    HostAt # {} /\ chain[Nearest].host \in Disguised /\ Nearest \notin known

(* If only passed processes are before a host, it is the nearest one unless *)
(* that was missed.                                                         *)
LEMMA NearestOrMissed ==
    ASSUME TypeInv, NEW known, NEW m \in DOMAIN chain,
           chain[m].host # None, \A j \in 1..(m - 1) : Passed(j, known)
    PROVE  NearestAt(m) \/ Missed(known)
<1>1. /\ chain \in Seq(Processes) /\ m \in 1..Len(chain) /\ Len(chain) \in Nat
      /\ DOMAIN chain = 1..Len(chain)
  BY DEF TypeInv
<1>2. SUFFICES ASSUME NEW j \in 1..(m - 1), chain[j].host # None
               PROVE  Missed(known)
  BY DEF NearestAt
<1>3. HostAt \in SUBSET Nat /\ j \in HostAt
  BY <1>1, <1>2 DEF HostAt
<1>4. Nearest \in HostAt /\ Nearest <= j
  BY <1>3, MinProperties DEF Nearest
<1>5. Nearest \in 1..(m - 1) /\ chain[Nearest].host # None
  BY <1>1, <1>4 DEF HostAt
<1>6. Passed(Nearest, known)
  BY <1>5
<1> QED
  BY <1>3, <1>5, <1>6 DEF Passed, Missed

(* Without an answer from the ancestors, one variable alone is the         *)
(* caller's own.                                                           *)
LEMMA ShellAnswer ==
    ASSUME IdentityInv, role = "shell", NEW known \in SUBSET Matching,
           Whoami(known) \in Claude \cup Threads
    PROVE  Whoami(known) \in {caller, env.addr} \/ Missed(known)
<1> USE IdentityAssumption DEF IdentityInv
<1>1. CASE env.addr # None
  BY <1>1 DEF Whoami
<1>2. CASE env.addr = None /\ Walk <= MAX_ANCESTORS /\ Telling(known) # {}
  <2>1. Whoami(known) = FromAncestor(Min(Telling(known)), known)
    BY <1>2 DEF Whoami
  <2>2. PICK m \in DOMAIN chain :
          /\ \A j \in 1..(m - 1) : Passed(j, known)
          /\ \/ chain[m].host \in Claude /\ Whoami(known) = chain[m].host
             \/ chain[m].host \in Codex /\ Whoami(known) = env.codex
    BY <1>2, <2>1, FirstTells
  <2>3. NearestAt(m) \/ Missed(known)
    BY <2>2, NearestOrMissed
  <2> QED
    BY <2>2, <2>3 DEF CallerInv
<1>3. CASE env.addr = None /\ Whoami(known) = FromVariables
  <2>1. \/ env.claude # None /\ env.codex = None /\ Whoami(known) = env.claude
        \/ env.claude = None /\ env.codex # None /\ Whoami(known) = env.codex
    BY <1>3 DEF FromVariables
  <2> QED
    BY <2>1 DEF CallerInv, TypeInv
<1> QED
  BY <1>1, <1>2, <1>3 DEF Whoami

(* A host is the first of its line. *)
LEMMA HostWalk ==
    ASSUME IdentityInv, role = "host"
    PROVE  /\ 1 \in DOMAIN chain /\ chain[1] \in Processes /\ NearestAt(1)
           /\ \A m \in DOMAIN chain : NearestAt(m) => m = 1
BY DEF IdentityInv, TypeInv, CallerInv, NearestAt

LEMMA HostAnswer ==
    ASSUME IdentityInv, role = "host", NEW known \in SUBSET Matching,
           Whoami(known) \in Claude \cup Threads
    PROVE  \/ Whoami(known) = env.addr
           \/ chain[1].host \in Claude /\ Whoami(known) = caller
           \/ chain[1].host \in Codex /\ Whoami(known) \in Threads
           \/ Missed(known)
<1> USE IdentityAssumption DEF IdentityInv
<1>1. CASE env.addr # None
  BY <1>1 DEF Whoami
<1>2. CASE env.addr = None /\ Walk <= MAX_ANCESTORS /\ Telling(known) # {}
  <2>1. Whoami(known) = FromAncestor(Min(Telling(known)), known)
    BY <1>2 DEF Whoami
  <2>2. PICK m \in DOMAIN chain :
          /\ \A j \in 1..(m - 1) : Passed(j, known)
          /\ \/ chain[m].host \in Claude /\ Whoami(known) = chain[m].host
             \/ chain[m].host \in Codex /\ Whoami(known) = env.codex
    BY <1>2, <2>1, FirstTells
  <2>3. NearestAt(m) \/ Missed(known)
    BY <2>2, NearestOrMissed
  <2>4. m = 1 \/ Missed(known)
    BY <2>3, HostWalk
  <2> QED
    BY <2>2, <2>4 DEF CallerInv, TypeInv
<1>3. CASE Telling(known) = {}
  <2>1. Passed(1, known) /\ chain[1].host # None /\ 1 \in DOMAIN chain
    BY <1>3, HostWalk, NobodyTells DEF NearestAt
  <2>2. HostAt \in SUBSET Nat /\ 1 \in HostAt /\ \A i \in HostAt : i >= 1
    BY <2>1 DEF HostAt, TypeInv
  <2>3. Nearest \in HostAt /\ Nearest <= 1
    BY <2>2, MinProperties DEF Nearest
  <2>4. Nearest = 1
    BY <2>2, <2>3
  <2> QED
    BY <2>1, <2>2, <2>4 DEF Passed, Missed
<1>4. Walk \in Nat /\ MAX_ANCESTORS \in Nat
  BY WalkProperties DEF TypeInv
<1>5. CASE env.addr = None /\ Walk > MAX_ANCESTORS
  <2>1. Whoami(known) = "refused"
    BY <1>4, <1>5 DEF Whoami
  <2> QED
    BY <2>1
<1> QED
  BY <1>1, <1>2, <1>3, <1>4, <1>5

LEMMA CallInv ==
    ASSUME IdentityInv, CliCall \/ McpCall
    PROVE  IdentityInv'
<1> USE IdentityAssumption DEF IdentityInv
<1>1. verified' \in SUBSET Matching
  BY DEF CliCall, McpCall
<1>2. ASSUME NEW who \in Claude \cup Threads \cup {None}, NEW a, Answered(who, a),
             a \in Claude \cup Threads => a \in {who, env.addr} \/ Missed(verified')
      PROVE  IdentityInv'
  <2>1. TypeInv' /\ RecordInv' /\ CallerInv'
    BY <1>1, <1>2 DEF Answered, TypeInv, RecordInv, Matching, CallerInv
  <2>2. Missed(verified') => Unrecognised'
    BY <1>2 DEF Answered, Missed, Unrecognised, HostAt, Nearest
  <2>3. AnswerInv'
    BY <1>2, <2>2 DEF Answered, AnswerInv, NearestHost
  <2> QED
    BY <2>1, <2>3
<1>3. CASE CliCall
  <2>1. Whoami(verified') \in Claude \cup Threads =>
            Whoami(verified') \in {caller, env.addr} \/ Missed(verified')
    BY <1>1, <1>3, ShellAnswer DEF CliCall
  <2> QED
    BY <1>2, <1>3, <2>1 DEF CliCall, TypeInv
<1>4. CASE McpCall /\ chain[1].host \in Claude /\ Answered(caller, ForCall(None, verified'))
  <2>1. role = "host"
    BY <1>4 DEF McpCall
  <2>2. ForCall(None, verified') \in Claude \cup Threads =>
            ForCall(None, verified') \in {caller, env.addr} \/ Missed(verified')
    BY <1>1, <1>4, <2>1, HostAnswer DEF ForCall
  <2> QED
    BY <1>2, <1>4, <2>2 DEF TypeInv
<1>5. ASSUME McpCall, chain[1].host \in Codex, NEW t \in Threads,
             NEW thread \in {t, None}, Answered(t, ForCall(thread, verified'))
      PROVE  IdentityInv'
  <2>1. role = "host"
    BY <1>5 DEF McpCall
  <2>2. ForCall(t, verified') \in {"refused", t}
    BY DEF ForCall
  <2>3. ForCall(None, verified') \in Claude \cup Threads =>
            ForCall(None, verified') = env.addr \/ Missed(verified')
    BY <1>1, <1>5, <2>1, HostAnswer DEF ForCall, Whoami
  <2> QED
    BY <1>2, <1>5, <2>2, <2>3
<1> QED
  BY <1>3, <1>4, <1>5 DEF McpCall

(* Types, records, caller and answer are as they should be in every        *)
(* reachable state.                                                        *)
THEOREM IdentityInvariant == Spec => []IdentityInv
<1>1. Init => IdentityInv
  <2> SUFFICES ASSUME Init PROVE IdentityInv
    OBVIOUS
  <2>1. chain = <<>> /\ chain \in Seq(Processes) /\ DOMAIN chain = {}
    BY DEF Init
  <2>2. Matching = {}
    BY <2>1 DEF Matching
  <2> QED
    BY <2>1, <2>2, IdentityAssumption
       DEF Init, IdentityInv, TypeInv, RecordInv, CallerInv, AnswerInv
<1>2. IdentityInv /\ [Next]_vars => IdentityInv'
  <2> SUFFICES ASSUME IdentityInv, [Next]_vars PROVE IdentityInv'
    OBVIOUS
  <2>1. CASE UNCHANGED vars
    BY <2>1 DEF vars, IdentityInv, TypeInv, RecordInv, Matching, CallerInv, NearestAt,
                AnswerInv, NearestHost, Unrecognised, HostAt, Nearest
  <2>2. ASSUME NEW h \in Codex, LaunchCodex(h) PROVE IdentityInv'
    BY <2>2, LaunchInv
  <2>3. ASSUME NEW h \in Claude, LaunchClaude(h) PROVE IdentityInv'
    BY <2>3, LaunchInv
  <2>4. CASE Override \/ Orphan
    BY <2>4, OverrideOrphanInv
  <2>5. CASE Subprocess
    BY <2>5, SubprocessInv
  <2>6. CASE RunTool
    BY <2>6, RunToolInv
  <2>7. CASE CliCall \/ McpCall
    BY <2>7, CallInv
  <2> QED
    BY <2>1, <2>2, <2>3, <2>4, <2>5, <2>6, <2>7, Zenon DEF Next
<1> QED
  BY <1>1, <1>2, PTL DEF Spec

(* Whatever hosts started one another, however deep, and whichever records *)
(* ps lets verify, the answer is the caller itself or what the user said,  *)
(* never another session or thread: unless the caller's own host is        *)
(* recognised neither by its name nor by its record.                       *)
THEOREM NearestHostTheorem == Spec => []NearestHost
<1>1. IdentityInv => NearestHost
  BY IdentityAssumption DEF IdentityInv, AnswerInv, NearestHost
<1> QED
  BY <1>1, IdentityInvariant, PTL

(* A caller whose nearest host can be verified is recognised, whatever the *)
(* runtimes further out left in its environment.                           *)
THEOREM InheritedIgnoredTheorem == Spec => []InheritedIgnored
<1>1. IdentityInv => InheritedIgnored
  <2> DEFINE m == Nearest
             host == chain[m].host
  <2> SUFFICES ASSUME IdentityInv, env.addr = None, HostAt # {}, Walk <= MAX_ANCESTORS,
                      \A i \in 1..m : chain[i].record # "damaged",
                      NEW known \in SUBSET Matching
               PROVE  /\ role = "shell" /\ (host \in Claude => m \in known)
                            => Whoami(known) = caller
                      /\ role = "host" /\ host \in Claude /\ m \in known
                            => ForCall(None, known) = caller
                      /\ role = "host" /\ host \in Codex
                            => \A t \in Threads : ForCall(t, known) = t
    BY DEF InheritedIgnored
  <2> USE IdentityAssumption DEF IdentityInv
  <2>1. chain \in Seq(Processes) /\ HostAt \in SUBSET Nat
    BY DEF TypeInv, HostAt
  <2>2. m \in HostAt /\ \A i \in HostAt : m <= i
    BY <2>1, MinProperties DEF Nearest
  <2> HIDE DEF m
  <2>3. m \in DOMAIN chain /\ chain[m] \in Processes /\ chain[m].host # None
    BY <2>1, <2>2 DEF HostAt
  <2>4. NearestAt(m)
    <3> SUFFICES ASSUME NEW j \in 1..(m - 1), chain[j].host # None PROVE FALSE
      BY <2>3 DEF NearestAt
    <3>1. m \in 1..Len(chain) /\ Len(chain) \in Nat /\ DOMAIN chain = 1..Len(chain)
      BY <2>1, <2>3
    <3>2. j \in HostAt /\ j < m
      BY <3>1 DEF HostAt
    <3> QED
      BY <2>2, <3>1, <3>2
  <2>5. host \in Codex \cup Claude
    BY <2>3 DEF Processes
  <2>6. CASE host \in Claude /\ m \in known
    <3>1. Whoami(known) = host
      BY <2>3, <2>4, <2>6, NearestTells DEF FromAncestor, Named
    <3>2. role = "shell" => Whoami(known) = caller
      BY <2>3, <2>4, <2>6, <3>1 DEF CallerInv
    <3>3. role = "host" => Whoami(known) = caller
      BY <2>3, <2>4, <2>6, <3>1, HostWalk DEF CallerInv
    <3> QED
      BY <2>6, <3>1, <3>2, <3>3 DEF ForCall
  <2>7. CASE host \in Codex
    <3>1. m \in 1..Walk /\ Whoami(known) = FromAncestor(m, known) /\ Named(chain[m], Codex)
      BY <2>3, <2>4, <2>7, NearestTells DEF Named
    <3>2. role = "shell" => Whoami(known) = caller
      BY <2>3, <2>4, <2>7, <3>1 DEF CallerInv, FromAncestor
    <3>3. ASSUME role = "host", NEW t \in Threads PROVE ForCall(t, known) = t
      <4>1. m = 1 /\ 1 \in NamedHosts
        BY <2>3, <2>4, <3>1, <3>3, HostWalk DEF NamedHosts, Named
      <4>2. Walk = 1
        BY <2>1, <3>1, <4>1, WalkProperties
      <4>3. \A i \in 1..Walk : ~RecordTells(i, known)
        BY <3>1, <4>1, <4>2 DEF RecordTells
      <4> QED
        BY <4>2, <4>3 DEF ForCall
    <3> QED
      BY <2>7, <3>2, <3>3
  <2>8. CASE host \in Claude /\ m \notin known
    BY <2>8
  <2> QED
    BY <2>5, <2>6, <2>7, <2>8
<1> QED
  BY <1>1, IdentityInvariant, PTL
=============================================================================
