------------------------------ MODULE Identity ------------------------------
(***************************************************************************)
(* Who is calling (identity.rs; proc.rs: ancestors; claude_code.rs:        *)
(* address_for_pid).  Runtimes start one another from their tools' shells, *)
(* processes are left behind by their parents, and every process inherits  *)
(* the environment of the one that started it.  The state follows one such *)
(* line of processes down to a call of Telephone.                          *)
(***************************************************************************)
EXTENDS Naturals, Sequences, FiniteSetsExt

CONSTANTS
    Codex, Claude,  \* hosts: runtimes that may be started
    Threads,        \* threads of the Codex hosts
    Disguised,      \* hosts whose executable has another name
    None,
    MAX_ANCESTORS,  \* 16
    MaxChain        \* bound: processes in the line

(* Codex is recognised by its name, Claude Code by its name or its record. *)
(* No session or thread is named like an outcome.                          *)
ASSUME IdentityAssumption ==
    /\ Codex \cap Claude = {} /\ Threads \cap Claude = {}
    /\ Disguised \subseteq Claude
    /\ None \notin Codex \cup Claude \cup Threads
    /\ {"none", "refused", "unknown"} \cap (Claude \cup Threads) = {}
    /\ MAX_ANCESTORS \in Nat /\ MaxChain \in Nat

VARIABLES
    chain,      \* the present process and its ancestors, nearest first
    env,        \* its environment: TELEPHONE_ADDR, CLAUDE_PID, CODEX_THREAD_ID
    role,       \* shell (or any tool), host, or answered after the call
    caller,     \* the session or thread the present process works for
    verified,   \* in the call: processes whose session record was verified
    answer      \* of the call: a session or thread, refused or unknown

vars == <<chain, env, role, caller, verified, answer>>

Process(host, record) == [host |-> host, record |-> record]

Init ==
    /\ chain = <<>>
    /\ env = [addr |-> None, claude |-> None, codex |-> None]
    /\ role = "shell" /\ caller = None /\ verified = {} /\ answer = "none"

Prepend(p) == Len(chain) < MaxChain /\ chain' = <<p>> \o chain

-----------------------------------------------------------------------------
(* The line of processes. *)

(* The user exports TELEPHONE_ADDR. *)
Override ==
    /\ role = "shell" /\ env.addr = None
    /\ \E a \in Claude \cup Threads : env' = [env EXCEPT !.addr = a]
    /\ UNCHANGED <<chain, role, caller, verified, answer>>

(* A shell, or any program that is no host.  The record of a session that   *)
(* had its pid before may still be there.                                   *)
Subprocess ==
    /\ role = "shell"
    /\ \E r \in {"none", "stale", "damaged"} : Prepend(Process(None, r))
    /\ UNCHANGED <<env, role, caller, verified, answer>>

LaunchCodex(h) ==
    /\ role = "shell"
    /\ \E r \in {"none", "stale", "damaged"} : Prepend(Process(h, r))
    /\ role' = "host" /\ caller' = None
    /\ UNCHANGED <<env, verified, answer>>

(* Whether its record is written, matches and can be read is up to Claude. *)
LaunchClaude(h) ==
    /\ role = "shell"
    /\ \A i \in DOMAIN chain : chain[i].host # h
    /\ \E r \in {"matching", "none", "stale", "damaged"} : Prepend(Process(h, r))
    /\ role' = "host" /\ caller' = h
    /\ UNCHANGED <<env, verified, answer>>

(* A host runs a tool: Claude exports its pid, Codex the thread. *)
RunTool ==
    /\ role = "host" /\ role' = "shell"
    /\ \/ /\ chain[1].host \in Claude
          /\ env' = [env EXCEPT !.claude = chain[1].host]
          /\ UNCHANGED caller
       \/ /\ chain[1].host \in Codex
          /\ \E t \in Threads : env' = [env EXCEPT !.codex = t] /\ caller' = t
    /\ UNCHANGED <<chain, verified, answer>>

(* Its parent exits: the process is nobody's child any more. *)
Orphan ==
    /\ role = "shell" /\ chain # <<>>
    /\ chain' = <<>>
    /\ UNCHANGED <<env, role, caller, verified, answer>>

-----------------------------------------------------------------------------
(* identity.rs *)
Named(p, hosts) == p.host \in hosts \ Disguised

(* ps is asked for one process after the other, up to the first that is    *)
(* named like a host.                                                      *)
NamedHosts == {i \in DOMAIN chain : Named(chain[i], Codex \cup Claude)}
Walk == IF NamedHosts = {} THEN Len(chain) ELSE Min(NamedHosts)

(* A matching record is verified if ps gives the start of its process: each *)
(* record is compared by a ps of its own, and the failure of one is silent. *)
Matching == {i \in DOMAIN chain : chain[i].record = "matching"}

(* address_for_pid has an address or an error, for a process it is asked of. *)
RecordTells(i, known) ==
    (i \in known \/ chain[i].record = "damaged") /\ ~Named(chain[i], Codex)

(* What decides: such a record, or a host that is recognised by its name. *)
Telling(known) ==
    {i \in 1..Walk : RecordTells(i, known) \/ Named(chain[i], Codex \cup Claude)}

FromAncestor(i, known) ==
    CASE Named(chain[i], Codex) -> IF env.codex = None THEN "refused" ELSE env.codex
      [] ~Named(chain[i], Codex) /\ i \in known -> chain[i].host
      [] OTHER -> "refused"

(* Both variables may be inherited when runtimes start one another. *)
FromVariables ==
    CASE env.claude # None /\ env.codex # None -> "refused"
      [] env.claude # None /\ env.codex = None -> env.claude
      [] env.claude = None /\ env.codex # None -> env.codex
      [] OTHER -> "unknown"

(* Mutant: conflicting variables are refused before the ancestors are seen. *)
WhoamiConflictFirst(known) ==
    CASE env.addr # None -> env.addr
      [] env.addr = None /\ FromVariables = "refused" -> "refused"
      [] env.addr = None /\ FromVariables # "refused" /\ Telling(known) # {} ->
             FromAncestor(Min(Telling(known)), known)
      [] OTHER -> FromVariables

Whoami(known) ==
    CASE env.addr # None -> env.addr
      [] env.addr = None /\ Walk > MAX_ANCESTORS -> "refused"
      [] env.addr = None /\ Walk <= MAX_ANCESTORS /\ Telling(known) # {} ->
             FromAncestor(Min(Telling(known)), known)
      [] OTHER -> FromVariables

(* Mutant: without metadata an MCP call is anybody the process is. *)
ForCallInherits(thread, known) == IF thread = None THEN Whoami(known) ELSE thread

(* for_call: the thread the host names, unless the override or a verified   *)
(* Claude host nearer than any Codex contradicts; without one, nobody the   *)
(* environment only may have inherited.                                     *)
ForCall(thread, known) ==
    LET contradicted ==
            \/ env.addr \notin {None, thread}
            \/ Walk > MAX_ANCESTORS
            \/ \E i \in 1..Walk : RecordTells(i, known)
    IN  CASE thread # None -> IF contradicted THEN "refused" ELSE thread
          [] thread = None /\ env.addr = None /\ Whoami(known) \in Threads -> "refused"
          [] OTHER -> Whoami(known)

(* The ps of ancestors may fail or take too long, which is not silent, and  *)
(* a variable may be malformed.                                             *)
Answered(who, a) ==
    /\ role' = "answered" /\ caller' = who
    /\ answer' \in {a, "refused"}
    /\ UNCHANGED <<chain, env>>

CliCall ==
    /\ role = "shell"
    /\ verified' \in SUBSET Matching
    /\ Answered(caller, Whoami(verified'))

(* The MCP server has its host's environment.  A Codex host names the       *)
(* thread with each call, unless it is too old for that.                    *)
McpCall ==
    /\ role = "host"
    /\ verified' \in SUBSET Matching
    /\ \/ chain[1].host \in Claude /\ Answered(caller, ForCall(None, verified'))
       \/ /\ chain[1].host \in Codex
          /\ \E t \in Threads : \E thread \in {t, None} :
                Answered(t, ForCall(thread, verified'))

Next ==
    \/ Override \/ Subprocess \/ RunTool \/ Orphan \/ CliCall \/ McpCall
    \/ \E h \in Codex : LaunchCodex(h)
    \/ \E h \in Claude : LaunchClaude(h)

Spec == Init /\ [][Next]_vars

-----------------------------------------------------------------------------
(* The host the present process runs under. *)
HostAt == {i \in DOMAIN chain : chain[i].host # None}
Nearest == Min(HostAt)

(* The nearest host has another name and its record told nothing. *)
Unrecognised ==
    HostAt # {} /\ chain[Nearest].host \in Disguised /\ Nearest \notin verified

(* Whatever runtimes started one another and whatever was inherited, the   *)
(* answer is the caller itself, unless the user overrides it: never an     *)
(* outer session, never another thread (README.md:54-62, SECURITY.md:91).  *)
(* A host that neither its name nor its record shows is passed by, though  *)
(* docs/compatibility.md:51-52 says that such a call fails.                *)
NearestHost ==
    answer \in Claude \cup Threads => answer \in {caller, env.addr} \/ Unrecognised

(* A caller under a verified Claude host, or in a Codex thread's shell, is  *)
(* recognised, whatever outer runtimes left in its environment and whether  *)
(* their records are verified or not: what is inherited never makes it      *)
(* ambiguous (docs/compatibility.md:45-52).                                 *)
InheritedIgnored ==
    LET host == chain[Nearest].host
    IN  /\ env.addr = None /\ HostAt # {} /\ Walk <= MAX_ANCESTORS
        /\ \A i \in 1..Nearest : chain[i].record # "damaged"
        => \A known \in SUBSET Matching :
              /\ role = "shell" /\ (host \in Claude => Nearest \in known)
                     => Whoami(known) = caller
              /\ role = "host" /\ host \in Claude /\ Nearest \in known
                     => ForCall(None, known) = caller
              /\ role = "host" /\ host \in Codex
                     => \A t \in Threads : ForCall(t, known) = t
=============================================================================
