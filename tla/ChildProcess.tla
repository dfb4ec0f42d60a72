---------------------------- MODULE ChildProcess ----------------------------
(***************************************************************************)
(* process::run (process.rs): a command is started in a process group of   *)
(* its own, its two output streams are drained under a deadline and a size *)
(* limit, and whatever happens its group is killed and it is reaped before *)
(* run returns.  Beside the caller there are the command, the processes it *)
(* forks, which may leave the group or outlive it, and the kernel, which   *)
(* gives the pid of a reaped process to somebody else.  Every system call  *)
(* may fail.  A signalled process is dead at once.                         *)
(***************************************************************************)
EXTENDS Naturals, FiniteSets

CONSTANTS
    Child,          \* the process run starts
    Kids,           \* processes that descend from it
    MAX_OUTPUT,     \* reads a stream's output may fill
    MAX_READS       \* reads per poll of a stream

ASSUME ChildAssumption ==
    /\ Child \notin Kids
    /\ MAX_OUTPUT \in Nat
    /\ MAX_READS \in Nat \ {0}

VARIABLES
    phase,      \* where the caller is
    mode,       \* the finish that comes or goes on: of a completed command
                \* ("ok"), of the error path ("error"), of Drop ("drop")
    result,     \* what run returns
    clean,      \* no finish has reported an error that was not made good
    expired,    \* the deadline has passed
    at,         \* the stream being drained
    reads,      \* reads of it in this poll
    size,       \* output taken from each stream
    eof,        \* streams whose end was seen
    exited,     \* what finish saw of the child
    groupError, \* kill_group's error
    state,      \* of each process
    inGroup,    \* processes in the child's group
    holds,      \* streams a process has open for writing
    unread,     \* streams with output nobody has taken
    stranger,   \* the child's pid belongs to another process, group leader
    hit         \* history: a stranger was signalled

callVars == <<mode, result, clean, exited, groupError>>
drainVars == <<at, reads, size, eof>>
procVars == <<state, inGroup, holds, unread>>
pidVars == <<stranger, hit>>
vars == <<phase, callVars, expired, drainVars, procVars, pidVars>>

Streams == {"stdout", "stderr"}
Procs == Kids \cup {Child}

Init ==
    /\ phase = "setup"
    /\ mode = "ok"
    /\ result = "none"
    /\ clean = TRUE
    /\ expired = FALSE
    /\ at = "stdout"
    /\ reads = 0
    /\ size = [s \in Streams |-> 0]
    /\ eof = {}
    /\ exited = FALSE
    /\ groupError = FALSE
    /\ state = [p \in Procs |-> "unborn"]
    /\ inGroup = {}
    /\ holds = [p \in Procs |-> {}]
    /\ unread = {}
    /\ stranger = FALSE
    /\ hit = FALSE

Alive(p) == state[p] = "alive"

-----------------------------------------------------------------------------
(* The caller: set-up and the polling loop.                                *)

SetupFails ==
    /\ phase = "setup"
    /\ phase' = "returned"
    /\ result' = "before-start"
    /\ UNCHANGED <<mode, clean, exited, groupError, expired, drainVars, procVars,
                   pidVars>>

Spawn ==
    /\ phase = "setup"
    /\ phase' = "poll"
    /\ state' = [state EXCEPT ![Child] = "alive"]
    /\ inGroup' = {Child}
    /\ holds' = [holds EXCEPT ![Child] = Streams]
    /\ UNCHANGED <<callVars, expired, drainVars, unread, pidVars>>

(* An error in the loop: the error path has a finish of its own. *)
LoopFails ==
    /\ phase' = "finish"
    /\ mode' = "error"

CheckDeadline ==
    /\ phase = "poll"
    /\ \/ /\ expired
          /\ LoopFails
          /\ UNCHANGED <<at, reads>>
       \/ /\ ~expired
          /\ phase' = "drain"
          /\ at' = "stdout"
          /\ reads' = 0
          /\ UNCHANGED mode
    /\ UNCHANGED <<result, clean, exited, groupError, expired, size, eof, procVars,
                   pidVars>>

(* On to the other stream, or to the child's status. *)
Drained ==
    /\ reads' = 0
    /\ IF at = "stdout" THEN at' = "stderr" /\ UNCHANGED phase
                        ELSE phase' = "status" /\ UNCHANGED at

SkipDrain ==
    /\ phase = "drain" /\ at \in eof
    /\ Drained
    /\ UNCHANGED <<callVars, expired, size, eof, procVars, pidVars>>

Draining == phase = "drain" /\ at \notin eof

(* Mutant: one read too many. *)
FitsOneMore(s) == size[s] <= MAX_OUTPUT

Fits(s) == size[s] < MAX_OUTPUT

(* Some of what is there, or all of it; or nothing when interrupted. *)
ReadOutput ==
    /\ Draining
    /\ \/ /\ at \in unread
          /\ Fits(at)
          /\ size' = [size EXCEPT ![at] = @ + 1]
          /\ unread' \in {unread, unread \ {at}}
       \/ UNCHANGED <<size, unread>>
    /\ IF reads + 1 < MAX_READS THEN reads' = reads + 1 /\ UNCHANGED <<phase, at>>
                                ELSE Drained
    /\ UNCHANGED <<callVars, expired, eof, state, inGroup, holds, pidVars>>

Writers(s) == {p \in Procs : Alive(p) /\ s \in holds[p]}

WouldBlock ==
    /\ Draining
    /\ at \notin unread /\ Writers(at) # {}
    /\ Drained
    /\ UNCHANGED <<callVars, expired, size, eof, procVars, pidVars>>

EndOfStream ==
    /\ Draining
    /\ at \notin unread /\ Writers(at) = {}
    /\ eof' = eof \cup {at}
    /\ Drained
    /\ UNCHANGED <<callVars, expired, size, procVars, pidVars>>

(* A read error, or more output than MAX_OUTPUT. *)
DrainFails ==
    /\ Draining
    /\ LoopFails
    /\ UNCHANGED <<result, clean, exited, groupError, expired, drainVars, procVars,
                   pidVars>>

(* Mutant: the output of other processes than the child is not waited for. *)
CompletedWithoutEof == state[Child] = "zombie"

Completed == state[Child] = "zombie" /\ eof = Streams

(* Mutant: waitid without WNOWAIT reaps a child that has exited. *)
ObserveReaps ==
    /\ state[Child] # "reaped"
    /\ state' = [state EXCEPT ![Child] = IF @ = "zombie" THEN "reaped" ELSE @]

(* waitid with WNOWAIT: the zombie stays, and with it the pid. *)
Observe == state[Child] # "reaped" /\ UNCHANGED state

CheckStatus ==
    /\ phase = "status"
    /\ Observe
    /\ \/ Completed /\ phase' = "finish" /\ UNCHANGED mode
       \/ ~Completed /\ phase' = "poll" /\ UNCHANGED mode
       \/ LoopFails
    /\ UNCHANGED <<result, clean, exited, groupError, expired, drainVars, inGroup,
                   holds, unread, pidVars>>

-----------------------------------------------------------------------------
(* ChildGuard::finish.                                                     *)

Return(r) == phase' = "returned" /\ result' = r

(* What becomes of an error of finish, by the place it was called from.    *)
(* Once the child is reaped nobody calls finish again.                     *)
FinishFails(reaped) ==
    /\ clean' = FALSE
    /\ \/ /\ reaped \/ mode = "drop"
          /\ Return("after-start")
          /\ UNCHANGED mode
       \/ /\ ~reaped /\ mode = "ok"
          /\ phase' = "finish" /\ mode' = "error"
          /\ UNCHANGED result
       \/ /\ ~reaped /\ mode = "error"
          /\ phase' = "finish" /\ mode' = "drop"
          /\ UNCHANGED result

Look ==
    /\ phase = "finish"
    /\ exited' = (state[Child] # "alive")
    /\ Observe
    /\ phase' = "kill-group"
    /\ groupError' = FALSE
    /\ UNCHANGED <<mode, result, clean, expired, drainVars, inGroup, holds, unread,
                   pidVars>>

(* waitid, kill or wait fails. *)
SystemCallFails ==
    /\ phase \in {"finish", "kill-child", "wait"}
    /\ FinishFails(FALSE)
    /\ UNCHANGED <<exited, groupError, expired, drainVars, procVars, pidVars>>

(* SIGKILL: a descendant is gone, the child waits to be reaped. *)
Killed(S) ==
    state' = [p \in Procs |-> IF p \notin S \/ ~Alive(p) THEN state[p]
                              ELSE IF p = Child THEN "zombie" ELSE "gone"]

(* Mutant: kill is given the pid instead of the group. *)
ChildAlone == {Child}

Group == inGroup

(* The signal goes to the whole group, or the call fails.  That macOS      *)
(* reports EPERM for a group of zombies is no failure.                     *)
KillGroup ==
    /\ phase = "kill-group"
    /\ \/ /\ Killed(Group)
          /\ hit' = (hit \/ stranger)
          /\ UNCHANGED groupError
       \/ /\ groupError' = TRUE
          /\ UNCHANGED <<state, hit>>
    /\ phase' = IF exited THEN "wait" ELSE "kill-child"
    /\ UNCHANGED <<mode, result, clean, exited, expired, drainVars, inGroup, holds,
                   unread, stranger>>

(* Mutant: the signal to the group is thought to be enough. *)
KillChildSkipped ==
    /\ phase = "kill-child"
    /\ phase' = "wait"
    /\ UNCHANGED <<callVars, expired, drainVars, procVars, pidVars>>

(* The child may have left its group. *)
KillChild ==
    /\ phase = "kill-child"
    /\ Killed({Child})
    /\ hit' = (hit \/ stranger)
    /\ phase' = "wait"
    /\ UNCHANGED <<callVars, expired, drainVars, inGroup, holds, unread, stranger>>

(* wait, and with it the end of finish. *)
Reap ==
    /\ phase = "wait"
    /\ state[Child] # "alive"
    /\ state' = [state EXCEPT ![Child] = "reaped"]
    /\ \/ /\ groupError
          /\ FinishFails(TRUE)
       \/ /\ ~groupError
          /\ Return(IF mode = "ok" THEN "ok" ELSE "after-start")
          /\ clean' = (clean \/ mode = "error")
          /\ UNCHANGED mode
    /\ UNCHANGED <<exited, groupError, expired, drainVars, inGroup, holds, unread,
                   pidVars>>

Loop ==
    \/ SetupFails \/ Spawn \/ CheckDeadline \/ SkipDrain \/ ReadOutput
    \/ WouldBlock \/ EndOfStream \/ DrainFails \/ CheckStatus

Finish == Look \/ KillGroup \/ KillChild \/ Reap

-----------------------------------------------------------------------------
(* The command, its descendants, the kernel and the clock.                 *)

Fork(p, k) ==
    /\ Alive(p) /\ state[k] = "unborn"
    /\ state' = [state EXCEPT ![k] = "alive"]
    /\ inGroup' = IF p \in inGroup THEN inGroup \cup {k} ELSE inGroup
    /\ holds' = [holds EXCEPT ![k] = holds[p]]
    /\ UNCHANGED <<phase, callVars, expired, drainVars, unread, pidVars>>

LeaveGroup(p) ==
    /\ Alive(p) /\ p \in inGroup
    /\ inGroup' = inGroup \ {p}
    /\ UNCHANGED <<phase, callVars, expired, drainVars, state, holds, unread,
                   pidVars>>

Output(p, s) ==
    /\ p \in Writers(s)
    /\ unread' = unread \cup {s}
    /\ UNCHANGED <<phase, callVars, expired, drainVars, state, inGroup, holds,
                   pidVars>>

CloseStream(p, s) ==
    /\ p \in Writers(s)
    /\ holds' = [holds EXCEPT ![p] = @ \ {s}]
    /\ UNCHANGED <<phase, callVars, expired, drainVars, state, inGroup, unread,
                   pidVars>>

Exit(p) ==
    /\ Alive(p)
    /\ Killed({p})
    /\ UNCHANGED <<phase, callVars, expired, drainVars, inGroup, holds, unread,
                   pidVars>>

(* A pid is free when it is neither that of an unreaped process nor that of *)
(* a group with a member.                                                   *)
Recycle ==
    /\ state[Child] = "reaped"
    /\ \A p \in inGroup : ~Alive(p)
    /\ stranger' = TRUE
    /\ UNCHANGED <<phase, callVars, expired, drainVars, procVars, hit>>

Expire ==
    /\ expired' = TRUE
    /\ UNCHANGED <<phase, callVars, drainVars, procVars, pidVars>>

World ==
    \/ \E p \in Procs :
        \/ LeaveGroup(p) \/ Exit(p)
        \/ \E k \in Kids : Fork(p, k)
        \/ \E s \in Streams : Output(p, s) \/ CloseStream(p, s)
    \/ Recycle

Next == Loop \/ Finish \/ SystemCallFails \/ World \/ Expire

Spec == Init /\ [][Next]_vars

(* The caller runs, which a failing call does not stand for, and time       *)
(* passes.  Nothing is assumed of the processes.                            *)
Fairness == WF_vars(Loop) /\ WF_vars(Finish) /\ WF_vars(Expire)

FairSpec == Spec /\ Fairness

-----------------------------------------------------------------------------
TypeOK ==
    /\ phase \in {"setup", "poll", "drain", "status", "finish", "kill-group",
                  "kill-child", "wait", "returned"}
    /\ mode \in {"ok", "error", "drop"}
    /\ result \in {"none", "before-start", "ok", "after-start"}
    /\ clean \in BOOLEAN
    /\ expired \in BOOLEAN
    /\ at \in Streams
    /\ reads \in 0..MAX_READS
    /\ size \in [Streams -> 0..MAX_OUTPUT]
    /\ eof \subseteq Streams
    /\ exited \in BOOLEAN
    /\ groupError \in BOOLEAN
    /\ state \in [Procs -> {"unborn", "alive", "zombie", "reaped", "gone"}]
    /\ inGroup \subseteq Procs
    /\ holds \in [Procs -> SUBSET Streams]
    /\ unread \subseteq Streams
    /\ stranger \in BOOLEAN
    /\ hit \in BOOLEAN

(* No process but the command and its group is ever signalled, although    *)
(* finish may be called three times and pids are recycled: the group is    *)
(* only signalled while the unreaped child reserves its pid (WNOWAIT).     *)
KillsOnlyOwn == ~hit

(* When run returns and no cleanup error was reported, nothing it started  *)
(* is left: the child is reaped and its group has no living member, also   *)
(* after a success and also if the child had left the group.               *)
NothingLeft ==
    phase = "returned" /\ result # "before-start" /\ clean =>
        /\ state[Child] = "reaped"
        /\ \A p \in inGroup : ~Alive(p)

(* A successful result has the whole output: nothing was written that was  *)
(* not read, and no process can write any more.                            *)
CompleteOutput ==
    phase = "returned" /\ result = "ok" =>
        /\ unread = {}
        /\ \A s \in Streams : Writers(s) = {}

(* run returns, whatever the command and its descendants do: write without *)
(* end, hang, leave their group, or hold the streams open (the deadline,   *)
(* the bounded drain, and the signal to the child itself).                 *)
RunReturns == <>(phase = "returned")
=============================================================================
