------------------------- MODULE ChildProcessProofs -------------------------
(***************************************************************************)
(* The cleanup of a child process, proved for any number of descendants.   *)
(***************************************************************************)
EXTENDS ChildProcess, TLAPS

LEMMA InitTypeOK == Init => TypeOK
<1> SUFFICES ASSUME Init PROVE TypeOK
  OBVIOUS
<1> USE ChildAssumption DEF Init
<1>1. /\ reads \in 0..MAX_READS
      /\ size \in [Streams -> 0..MAX_OUTPUT]
  OBVIOUS
<1>2. /\ state \in [Procs -> {"unborn", "alive", "zombie", "reaped", "gone"}]
      /\ holds \in [Procs -> SUBSET Streams]
  OBVIOUS
<1> QED
  BY <1>1, <1>2 DEF TypeOK, Streams

(* Every variable keeps its type, whatever the number of descendants.      *)
THEOREM TypeCorrect == Spec => []TypeOK
<1> USE ChildAssumption DEF Streams, Procs
<1>1. TypeOK /\ [Next]_vars => TypeOK'
  <2> SUFFICES ASSUME TypeOK, [Next]_vars PROVE TypeOK'
    OBVIOUS
  <2> USE DEF TypeOK, callVars, drainVars, procVars, pidVars
  <2>1. CASE UNCHANGED vars
    BY <2>1 DEF vars
  <2>2. CASE Loop
    <3>1. CASE SetupFails
      BY <3>1 DEF SetupFails
    <3>2. CASE Spawn
      BY <3>2 DEF Spawn
    <3>3. CASE CheckDeadline
      BY <3>3 DEF CheckDeadline, LoopFails
    <3>4. CASE SkipDrain
      BY <3>4 DEF SkipDrain, Drained
    <3>5. CASE ReadOutput
      <4>1. size' \in [Streams -> 0..MAX_OUTPUT] /\ unread' \subseteq Streams
        <5>1. CASE UNCHANGED <<size, unread>>
          BY <5>1
        <5>2. CASE /\ Fits(at)
                   /\ size' = [size EXCEPT ![at] = @ + 1]
                   /\ unread' \in {unread, unread \ {at}}
          <6>1. size[at] + 1 \in 0..MAX_OUTPUT
            BY <5>2 DEF Fits
          <6> QED
            BY <5>2, <6>1
        <5> QED
          BY <3>5, <5>1, <5>2 DEF ReadOutput
      <4>2. CASE reads + 1 < MAX_READS
        BY <3>5, <4>1, <4>2 DEF ReadOutput
      <4>3. CASE ~(reads + 1 < MAX_READS)
        BY <3>5, <4>1, <4>3 DEF ReadOutput, Drained
      <4> QED
        BY <4>2, <4>3
    <3>6. CASE WouldBlock
      BY <3>6 DEF WouldBlock, Drained
    <3>7. CASE EndOfStream
      BY <3>7 DEF EndOfStream, Drained
    <3>8. CASE DrainFails
      BY <3>8 DEF DrainFails, LoopFails
    <3>9. CASE CheckStatus
      BY <3>9 DEF CheckStatus, Observe, LoopFails
    <3> QED
      BY <2>2, <3>1, <3>2, <3>3, <3>4, <3>5, <3>6, <3>7, <3>8, <3>9 DEF Loop
  <2>3. CASE Finish \/ SystemCallFails
    <3>1. CASE Look
      BY <3>1 DEF Look, Observe
    <3>2. CASE SystemCallFails
      BY <3>2 DEF SystemCallFails, FinishFails, Return
    <3>3. CASE KillGroup
      BY <3>3 DEF KillGroup, Killed, Group
    <3>4. CASE KillChild
      BY <3>4 DEF KillChild, Killed
    <3>5. CASE Reap
      BY <3>5 DEF Reap, FinishFails, Return
    <3> QED
      BY <2>3, <3>1, <3>2, <3>3, <3>4, <3>5 DEF Finish
  <2>4. CASE World
    <3>1. ASSUME NEW p \in Procs, LeaveGroup(p) PROVE TypeOK'
      BY <3>1 DEF LeaveGroup
    <3>2. ASSUME NEW p \in Procs, Exit(p) PROVE TypeOK'
      BY <3>2 DEF Exit, Killed
    <3>3. ASSUME NEW p \in Procs, NEW k \in Kids, Fork(p, k) PROVE TypeOK'
      BY <3>3 DEF Fork
    <3>4. ASSUME NEW p \in Procs, NEW s \in Streams, Output(p, s) PROVE TypeOK'
      BY <3>4 DEF Output
    <3>5. ASSUME NEW p \in Procs, NEW s \in Streams, CloseStream(p, s) PROVE TypeOK'
      BY <3>5 DEF CloseStream
    <3>6. CASE Recycle
      BY <3>6 DEF Recycle
    <3> QED
      BY <2>4, <3>1, <3>2, <3>3, <3>4, <3>5, <3>6 DEF World
  <2>5. CASE Expire
    BY <2>5 DEF Expire
  <2> QED
    BY <2>1, <2>2, <2>3, <2>4, <2>5 DEF Next
<1> QED
  BY <1>1, InitTypeOK, PTL DEF Spec

-----------------------------------------------------------------------------
(* The pid of the child is its own as long as run has not returned, and    *)
(* only a reaped child's pid is given away.                                *)
PidInv ==
    /\ stranger => state[Child] = "reaped"
    /\ phase # "returned" => state[Child] # "reaped"
    /\ ~hit

(* A group that was signalled stays empty: nobody is left in it to fork.   *)
NoMember == \A p \in inGroup : ~Alive(p)

GroupInv ==
    /\ \A p \in inGroup : state[p] # "unborn"
    /\ phase \in {"kill-child", "wait"} /\ ~groupError => NoMember
    /\ phase = "returned" /\ result # "before-start" /\ clean =>
            state[Child] = "reaped" /\ NoMember

CleanupInv == TypeOK /\ PidInv /\ GroupInv

LEMMA InitCleanupInv == Init => CleanupInv
<1> SUFFICES ASSUME Init PROVE CleanupInv
  OBVIOUS
<1>1. TypeOK
  BY InitTypeOK
<1>2. PidInv /\ GroupInv
  BY DEF Init, PidInv, GroupInv, Procs
<1> QED
  BY <1>1, <1>2 DEF CleanupInv

(* The loop neither reaps nor signals; it only starts a finish.            *)
LEMMA LoopCleanup ==
  ASSUME CleanupInv, Loop PROVE PidInv' /\ GroupInv'
<1> USE ChildAssumption
    DEF CleanupInv, TypeOK, PidInv, GroupInv, callVars, drainVars, procVars, pidVars
<1>1. CASE SetupFails
  BY <1>1 DEF SetupFails
<1>2. CASE Spawn
  BY <1>2 DEF Spawn, Procs
<1>3. CASE CheckDeadline
  BY <1>3 DEF CheckDeadline, LoopFails
<1>4. CASE SkipDrain
  BY <1>4 DEF SkipDrain, Drained
<1>5. CASE ReadOutput
  BY <1>5 DEF ReadOutput, Draining, Drained
<1>6. CASE WouldBlock
  BY <1>6 DEF WouldBlock, Draining, Drained
<1>7. CASE EndOfStream
  BY <1>7 DEF EndOfStream, Draining, Drained
<1>8. CASE DrainFails
  BY <1>8 DEF DrainFails, Draining, LoopFails
<1>9. CASE CheckStatus
  BY <1>9 DEF CheckStatus, Observe, LoopFails
<1> QED
  BY <1>1, <1>2, <1>3, <1>4, <1>5, <1>6, <1>7, <1>8, <1>9 DEF Loop

(* finish signals the group while the zombie or the living child reserves  *)
(* the pid, and returns only with a reaped child or an error.              *)
LEMMA FinishCleanup ==
  ASSUME CleanupInv, Finish \/ SystemCallFails PROVE PidInv' /\ GroupInv'
<1> USE ChildAssumption
    DEF CleanupInv, TypeOK, PidInv, GroupInv, callVars, drainVars, procVars, pidVars
<1>1. CASE Look
  BY <1>1 DEF Look, Observe
<1>2. CASE SystemCallFails
  BY <1>2 DEF SystemCallFails, FinishFails, Return
<1>3. CASE KillGroup
  BY <1>3 DEF KillGroup, Killed, Group, NoMember, Alive, Procs
<1>4. CASE KillChild
  BY <1>4 DEF KillChild, Killed, NoMember, Alive, Procs
<1>5. CASE Reap
  BY <1>5 DEF Reap, FinishFails, Return, NoMember, Alive, Procs
<1> QED
  BY <1>1, <1>2, <1>3, <1>4, <1>5 DEF Finish

(* The processes around cannot bring a member back into an empty group.    *)
LEMMA WorldCleanup ==
  ASSUME CleanupInv, World \/ Expire PROVE PidInv' /\ GroupInv'
<1> USE ChildAssumption
    DEF CleanupInv, TypeOK, PidInv, GroupInv, callVars, drainVars, procVars,
        pidVars, NoMember, Alive
<1>1. ASSUME NEW p \in Procs, LeaveGroup(p) PROVE PidInv' /\ GroupInv'
  BY <1>1 DEF LeaveGroup
<1>2. ASSUME NEW p \in Procs, Exit(p) PROVE PidInv' /\ GroupInv'
  BY <1>2 DEF Exit, Killed, Procs
<1>3. ASSUME NEW p \in Procs, NEW k \in Kids, Fork(p, k) PROVE PidInv' /\ GroupInv'
  BY <1>3 DEF Fork, Procs
<1>4. ASSUME NEW p \in Procs, NEW s \in Streams, Output(p, s)
      PROVE  PidInv' /\ GroupInv'
  BY <1>4 DEF Output
<1>5. ASSUME NEW p \in Procs, NEW s \in Streams, CloseStream(p, s)
      PROVE  PidInv' /\ GroupInv'
  BY <1>5 DEF CloseStream
<1>6. CASE Recycle
  BY <1>6 DEF Recycle
<1>7. CASE Expire
  BY <1>7 DEF Expire
<1> QED
  BY <1>1, <1>2, <1>3, <1>4, <1>5, <1>6, <1>7 DEF World

(* The pid and the group are safe in every reachable state.                *)
THEOREM CleanupInvariant == Spec => []CleanupInv
<1>1. CleanupInv /\ TypeOK' /\ [Next]_vars => CleanupInv'
  <2> SUFFICES ASSUME CleanupInv, TypeOK', [Next]_vars PROVE PidInv' /\ GroupInv'
    BY DEF CleanupInv
  <2>1. CASE UNCHANGED vars
    BY <2>1 DEF vars, callVars, procVars, pidVars, CleanupInv, PidInv, GroupInv,
                NoMember, Alive
  <2> QED
    BY <2>1, LoopCleanup, FinishCleanup, WorldCleanup DEF Next
<1> QED
  BY <1>1, InitCleanupInv, TypeCorrect, PTL DEF Spec

(* No process but the command and its group is ever signalled.             *)
THEOREM KillsOnlyOwnTheorem == Spec => []KillsOnlyOwn
<1>1. CleanupInv => KillsOnlyOwn
  BY DEF CleanupInv, PidInv, KillsOnlyOwn
<1> QED
  BY <1>1, CleanupInvariant, PTL

(* A return without a reported cleanup error leaves nothing behind.        *)
THEOREM NothingLeftTheorem == Spec => []NothingLeft
<1>1. CleanupInv => NothingLeft
  BY DEF CleanupInv, GroupInv, NoMember, NothingLeft
<1> QED
  BY <1>1, CleanupInvariant, PTL

-----------------------------------------------------------------------------
(* A stream whose end was seen stays empty: a process that could write to  *)
(* it would have inherited it from one that could.  Only the finish of a   *)
(* completed command has the mode "ok", and it has seen both ends.         *)
OutputInv ==
    /\ phase = "setup" => eof = {}
    /\ \A s \in eof : s \notin unread /\ Writers(s) = {}
    /\ phase \in {"finish", "kill-group", "kill-child", "wait"} /\ mode = "ok" =>
            eof = Streams
    /\ phase = "returned" /\ result = "ok" => eof = Streams

(* The loop marks a stream only at its end, and never reads it again.      *)
LEMMA LoopOutput ==
  ASSUME TypeOK, OutputInv, Loop PROVE OutputInv'
<1> USE ChildAssumption
    DEF TypeOK, OutputInv, callVars, drainVars, procVars, pidVars, Writers, Alive
<1>1. CASE SetupFails
  BY <1>1 DEF SetupFails
<1>2. CASE Spawn
  BY <1>2 DEF Spawn
<1>3. CASE CheckDeadline
  BY <1>3 DEF CheckDeadline, LoopFails
<1>4. CASE SkipDrain
  BY <1>4 DEF SkipDrain, Drained
<1>5. CASE ReadOutput
  BY <1>5 DEF ReadOutput, Draining, Drained
<1>6. CASE WouldBlock
  BY <1>6 DEF WouldBlock, Draining, Drained
<1>7. CASE EndOfStream
  BY <1>7 DEF EndOfStream, Draining, Drained
<1>8. CASE DrainFails
  BY <1>8 DEF DrainFails, Draining, LoopFails
<1>9. CASE CheckStatus
  BY <1>9 DEF CheckStatus, Observe, LoopFails, Completed
<1> QED
  BY <1>1, <1>2, <1>3, <1>4, <1>5, <1>6, <1>7, <1>8, <1>9 DEF Loop

(* An error of the finish gives the mode "ok" up; a signal ends writers.   *)
LEMMA FinishOutput ==
  ASSUME TypeOK, OutputInv, Finish \/ SystemCallFails PROVE OutputInv'
<1> USE ChildAssumption
    DEF TypeOK, OutputInv, callVars, drainVars, procVars, pidVars, Writers, Alive
<1>1. CASE Look
  BY <1>1 DEF Look, Observe
<1>2. CASE SystemCallFails
  BY <1>2 DEF SystemCallFails, FinishFails, Return
<1>3. CASE KillGroup
  BY <1>3 DEF KillGroup, Killed, Procs
<1>4. CASE KillChild
  BY <1>4 DEF KillChild, Killed, Procs
<1>5. CASE Reap
  BY <1>5 DEF Reap, FinishFails, Return, Procs
<1> QED
  BY <1>1, <1>2, <1>3, <1>4, <1>5 DEF Finish

(* A stream nobody can write to gets neither output nor a new writer.      *)
LEMMA WorldOutput ==
  ASSUME TypeOK, OutputInv, World \/ Expire PROVE OutputInv'
<1> USE ChildAssumption
    DEF TypeOK, OutputInv, callVars, drainVars, procVars, pidVars, Writers, Alive
<1>1. ASSUME NEW p \in Procs, LeaveGroup(p) PROVE OutputInv'
  BY <1>1 DEF LeaveGroup
<1>2. ASSUME NEW p \in Procs, Exit(p) PROVE OutputInv'
  BY <1>2 DEF Exit, Killed, Procs
<1>3. ASSUME NEW p \in Procs, NEW k \in Kids, Fork(p, k) PROVE OutputInv'
  BY <1>3 DEF Fork, Procs
<1>4. ASSUME NEW p \in Procs, NEW s \in Streams, Output(p, s) PROVE OutputInv'
  BY <1>4 DEF Output
<1>5. ASSUME NEW p \in Procs, NEW s \in Streams, CloseStream(p, s) PROVE OutputInv'
  BY <1>5 DEF CloseStream
<1>6. CASE Recycle
  BY <1>6 DEF Recycle
<1>7. CASE Expire
  BY <1>7 DEF Expire
<1> QED
  BY <1>1, <1>2, <1>3, <1>4, <1>5, <1>6, <1>7 DEF World

(* A successful result has all that was written and all that ever will be. *)
THEOREM CompleteOutputTheorem == Spec => []CompleteOutput
<1>1. Init => OutputInv
  BY DEF Init, OutputInv
<1>2. TypeOK /\ OutputInv /\ [Next]_vars => OutputInv'
  <2> SUFFICES ASSUME TypeOK, OutputInv, [Next]_vars PROVE OutputInv'
    OBVIOUS
  <2>1. CASE UNCHANGED vars
    BY <2>1 DEF vars, callVars, drainVars, procVars, OutputInv, Writers, Alive
  <2> QED
    BY <2>1, LoopOutput, FinishOutput, WorldOutput DEF Next
<1>3. TypeOK /\ OutputInv => CompleteOutput
  BY DEF TypeOK, OutputInv, CompleteOutput
<1> QED
  BY <1>1, <1>2, <1>3, TypeCorrect, PTL DEF Spec
=============================================================================
