------------------------------ MODULE Delivery ------------------------------
(***************************************************************************)
(* Concurrent Telephone processes over one journal: every send call        *)
(* (send.rs, with the two adapters' deliver), every inbox read (inbox.rs   *)
(* and its callers), the wall clock, the replacement of a Claude session   *)
(* behind a reused pid, and the death of any of these processes between    *)
(* any two steps.                                                          *)
(*                                                                         *)
(* A send call is named by the id of the message it creates.  A step that  *)
(* uses the journal is one SQLite transaction; it may fail instead, by the *)
(* 3 s busy timeout or a storage error, and then it has changed nothing.   *)
(***************************************************************************)
EXTENDS Journal

CONSTANTS
    Readers,        \* processes that read an inbox
    AddressOf,      \* the address each of them reads for
    Waiting,        \* those whose agent keeps checking its inbox
    Drafts,         \* what send calls are asked to send
    MaxTime,        \* bound: the wall clock runs over 0 .. MaxTime
    MaxSession,     \* bound: replacements of a Claude session
    MaxLost         \* bound: receipts lost per message after its output

(* What a send call is asked to do.  The kind and the draft's ancestry end *)
(* up in the envelope; delivery is the caller's route.                     *)
Draft == [from : Agents, to : Agents, kind : Kinds,
          reply_to : Msgs \cup {None}, delivery : {"auto", "inbox"}]

ASSUME DeliveryAssumption ==
    /\ Readers \cap Msgs = {}
    /\ None \notin Readers
    /\ None \notin Nat
    /\ AddressOf \in [Readers -> Agents]
    /\ Waiting \subseteq Readers
    /\ Drafts \subseteq Draft
    /\ None \notin Drafts
    /\ MaxTime \in Nat
    /\ MaxSession \in Nat
    /\ MaxLost \in Nat

VARIABLES
    pc,         \* where each send call is
    draft,      \* its arguments
    key,        \* the target's session key, captured when it was resolved
    result,     \* what it has found out about the delivery
    native,     \* messages a native queue or socket has taken
    poller,     \* the session key a process is about to advertise
    rpc,        \* where each reader is
    batch,      \* the messages in its open transaction
    notice,     \* the notice in its open transaction
    peek,       \* whether it only peeks
    now,        \* the wall clock
    session,    \* the session that lives at an address
    shown,      \* history: complete responses that carried a message
    lost,       \* history: those of them whose receipt was never committed
    polled,     \* history: the last poll of each session of each address
    ahead,      \* history: what was in an inbox when a message was journaled
    counted     \* history: native acceptances a committed notice has counted

sendVars == <<pc, draft, key, result, native>>
readVars == <<rpc, batch, notice, peek, shown, lost>>
worldVars == <<now, session>>
historyVars == <<polled, ahead, counted>>
vars == <<journalVars, sendVars, readVars, poller, worldVars, historyVars>>

Init ==
    /\ JournalInit
    /\ pc = [m \in Msgs |-> "idle"]
    /\ draft = [m \in Msgs |-> None]
    /\ key = [m \in Msgs |-> None]
    /\ result = [m \in Msgs |-> "none"]
    /\ native = {}
    /\ poller = [p \in Msgs \cup Readers |-> None]
    /\ rpc = [r \in Readers |-> "idle"]
    /\ batch = [r \in Readers |-> {}]
    /\ notice = [r \in Readers |-> None]
    /\ peek = [r \in Readers |-> FALSE]
    /\ now = 0
    /\ session = [a \in Agents |-> 0]
    /\ shown = [m \in Msgs |-> 0]
    /\ lost = [m \in Msgs |-> 0]
    /\ polled = [a \in Agents |-> [k \in 0..MaxSession |-> None]]
    /\ ahead = [m \in Msgs |-> {}]
    /\ counted = {}

Goto(m, label) == pc' = [pc EXCEPT ![m] = label]

(* session_key: a Claude session counts only when its process is verified. *)
SessionKeys(a) == {session[a]} \cup IF a \in Codex THEN {} ELSE {None}

(* advertise, first half: session_key of the own address.  Without a        *)
(* verified session there is nothing to advertise.                          *)
FindSession(p, a) == poller' = [poller EXCEPT ![p] = session[a]]

NoSession(a) == a \notin Codex /\ UNCHANGED poller

(* Second half: record_poll with the key that was found and the time it is  *)
(* now; the session may have been replaced in between.                      *)
Advertise(p, a) ==
    /\ RecordPollTx(a, poller[p], now)
    /\ polled' = [polled EXCEPT ![a][poller[p]] = now]
    /\ poller' = [poller EXCEPT ![p] = None]

-----------------------------------------------------------------------------
(* Send calls: send_as.                                                    *)

(* Discovery resolves the recipient and captures its session key; the      *)
(* draft envelope is made.                                                 *)
Resolve(m) ==
    /\ pc[m] = "idle"
    /\ \E d \in Drafts :
        /\ d.kind = "reply" => d.reply_to # None
        /\ draft' = [draft EXCEPT ![m] = d]
        /\ \E k \in SessionKeys(d.to) : key' = [key EXCEPT ![m] = k]
    /\ Goto(m, "resolved")
    /\ UNCHANGED <<journalVars, result, native, readVars, poller, worldVars,
                   historyVars>>

Prepare(m) ==
    /\ pc[m] = "resolved"
    /\ PrepareTx(m, draft[m])
    /\ ahead' = [ahead EXCEPT ![m] = {x \in Msgs : inbox[x] # "absent"}]
    /\ Goto(m, IF draft[m].kind = "request" THEN "advertise" ELSE "route")
    /\ UNCHANGED <<draft, key, result, native, readVars, poller, worldVars,
                   polled, counted>>

(* A request expects an answer: its sender is advertised as polling. *)
FindSender(m) ==
    /\ pc[m] = "advertise"
    /\ \/ FindSession(m, env[m].from) /\ Goto(m, "record")
       \/ NoSession(env[m].from) /\ Goto(m, "route")
    /\ UNCHANGED <<journalVars, draft, key, result, native, readVars, worldVars,
                   historyVars>>

AdvertiseSender(m) ==
    /\ pc[m] = "record"
    /\ Advertise(m, env[m].from)
    /\ Goto(m, "route")
    /\ UNCHANGED <<draft, key, result, native, readVars, worldVars, ahead,
                   counted>>

PollingTarget(m) ==
    key[m] # None /\ Receiving(env[m].to, key[m], now)

Route(m) ==
    /\ pc[m] = "route"
    /\ Goto(m, IF draft[m].delivery = "inbox" \/ PollingTarget(m)
               THEN "deposit" ELSE "native")
    /\ UNCHANGED <<journalVars, draft, key, result, native, readVars, poller,
                   worldVars, historyVars>>

(* The `?' early returns before a route is chosen.  After prepare they     *)
(* leave the row in the journal as it is.                                  *)
GiveUp(m) ==
    /\ pc[m] \in {"resolved", "advertise", "record", "route"}
    /\ Goto(m, "error")
    /\ UNCHANGED <<journalVars, draft, key, result, native, readVars, poller,
                   worldVars, historyVars>>

Deposit(m) ==
    /\ pc[m] = "deposit"
    /\ DepositTx(m)
    /\ result' = [result EXCEPT ![m] = "queued"]
    /\ Goto(m, "settle")
    /\ UNCHANGED <<draft, key, native, readVars, poller, worldVars,
                   historyVars>>

DepositFails(m) ==
    /\ pc[m] = "deposit"
    /\ result' = [result EXCEPT ![m] = "failed-or-uncertain"]
    /\ Goto(m, "settle")
    /\ UNCHANGED <<journalVars, draft, key, native, readVars, poller,
                   worldVars, historyVars>>

(* Both adapters: no connection, or no `codex queue', means nothing has    *)
(* been sent yet and the inbox is a safe fallback.                         *)
FallBack(m) ==
    /\ pc[m] = "native"
    /\ Goto(m, "deposit")
    /\ UNCHANGED <<journalVars, draft, key, result, native, readVars, poller,
                   worldVars, historyVars>>

StartNative(m) ==
    /\ pc[m] = "native"
    /\ Goto(m, "sending")
    /\ UNCHANGED <<journalVars, draft, key, result, native, readVars, poller,
                   worldVars, historyVars>>

(* send_uds wrote everything / `codex queue' exited with success. *)
NativeSent(m) ==
    /\ pc[m] = "sending"
    /\ native' = native \cup {m}
    /\ result' = [result EXCEPT
            ![m] = IF env[m].to \in Codex THEN "accepted" ELSE "unconfirmed"]
    /\ Goto(m, "settle")
    /\ UNCHANGED <<journalVars, draft, key, readVars, poller, worldVars,
                   historyVars>>

(* Mutant: an uncertain send falls back to the inbox. *)
NativeUncertainFallsBack(m) ==
    /\ pc[m] = "sending"
    /\ native' \in {native, native \cup {m}}
    /\ Goto(m, "deposit")
    /\ UNCHANGED <<journalVars, draft, key, result, readVars, poller, worldVars,
                   historyVars>>

(* Mutant: an uncertain send is reported as a successful one. *)
NativeUncertainAsSent(m) ==
    /\ pc[m] = "sending"
    /\ native' \in {native, native \cup {m}}
    /\ result' = [result EXCEPT
            ![m] = IF env[m].to \in Codex THEN "accepted" ELSE "unconfirmed"]
    /\ Goto(m, "settle")
    /\ UNCHANGED <<journalVars, draft, key, readVars, poller, worldVars,
                   historyVars>>

(* A deadline, a closed socket, a failing command: the peer may or may not *)
(* have the message.  No fallback, no retry.                               *)
NativeUncertain(m) ==
    /\ pc[m] = "sending"
    /\ native' \in {native, native \cup {m}}
    /\ result' = [result EXCEPT ![m] = "failed-or-uncertain"]
    /\ Goto(m, "settle")
    /\ UNCHANGED <<journalVars, draft, key, readVars, poller, worldVars,
                   historyVars>>

(* The outcome goes to the journal; the caller gets `result' either way.   *)
Settle(m) ==
    /\ pc[m] = "settle"
    /\ OutcomeTx(m, result[m])
    /\ Goto(m, "done")
    /\ UNCHANGED <<draft, key, result, native, readVars, poller, worldVars,
                   historyVars>>

SettleFails(m) ==
    /\ pc[m] = "settle"
    /\ Goto(m, "done")
    /\ UNCHANGED <<journalVars, draft, key, result, native, readVars, poller,
                   worldVars, historyVars>>

(* The process dies; what it was sending may have arrived. *)
SenderDies(m) ==
    /\ pc[m] \notin {"idle", "done", "error", "dead"}
    /\ native' \in {native} \cup IF pc[m] = "sending" THEN {native \cup {m}} ELSE {}
    /\ Goto(m, "dead")
    /\ UNCHANGED <<journalVars, draft, key, result, readVars, poller,
                   worldVars, historyVars>>

Send(m) ==
    \/ Resolve(m) \/ Prepare(m) \/ FindSender(m) \/ AdvertiseSender(m)
    \/ Route(m) \/ GiveUp(m) \/ Deposit(m) \/ DepositFails(m)
    \/ FallBack(m) \/ StartNative(m) \/ NativeSent(m) \/ NativeUncertain(m)
    \/ Settle(m) \/ SettleFails(m)

-----------------------------------------------------------------------------
(* Inbox reads: advertise, BEGIN IMMEDIATE, output, COMMIT.                *)

FindReader(r) ==
    /\ rpc[r] = "idle"
    /\ \/ /\ FindSession(r, AddressOf[r])
          /\ rpc' = [rpc EXCEPT ![r] = "found"]
       \/ /\ NoSession(AddressOf[r])
          /\ rpc' = [rpc EXCEPT ![r] = "polled"]
    /\ UNCHANGED <<journalVars, sendVars, batch, notice, peek, shown, lost,
                   worldVars, historyVars>>

Poll(r) ==
    /\ rpc[r] = "found"
    /\ Advertise(r, AddressOf[r])
    /\ rpc' = [rpc EXCEPT ![r] = "polled"]
    /\ UNCHANGED <<sendVars, batch, notice, peek, shown, lost, worldVars, ahead,
                   counted>>

ReadInbox(r, peeking) ==
    LET a == AddressOf[r] IN
    /\ rpc[r] = "polled"
    /\ BeginRead(r)
    /\ batch' = [batch EXCEPT ![r] = Batch(a)]
    /\ notice' = [notice EXCEPT
            ![r] = IF Batch(a) = {} THEN NativeQueueNotice(a, peeking) ELSE None]
    /\ peek' = [peek EXCEPT ![r] = peeking]
    /\ rpc' = [rpc EXCEPT ![r] = "output"]
    /\ UNCHANGED <<sendVars, shown, lost, poller, worldVars, historyVars>>

ReadFails(r) ==
    /\ rpc[r] \in {"found", "polled"}
    /\ rpc' = [rpc EXCEPT ![r] = "idle"]
    /\ poller' = [poller EXCEPT ![r] = None]
    /\ UNCHANGED <<journalVars, sendVars, batch, notice, peek, shown, lost,
                   worldVars, historyVars>>

Consumed(r) == IF peek[r] THEN {} ELSE batch[r]

(* The whole response has left the process. *)
Flush(r) ==
    /\ rpc[r] = "output"
    /\ shown' = [m \in Msgs |-> IF m \in Consumed(r) THEN shown[m] + 1 ELSE shown[m]]
    /\ rpc' = [rpc EXCEPT ![r] = "flushed"]
    /\ UNCHANGED <<journalVars, sendVars, batch, notice, peek, lost, poller,
                   worldVars, historyVars>>

Close(r) ==
    /\ batch' = [batch EXCEPT ![r] = {}]
    /\ notice' = [notice EXCEPT ![r] = None]
    /\ peek' = [peek EXCEPT ![r] = FALSE]
    /\ rpc' = [rpc EXCEPT ![r] = "idle"]

Acknowledge(r) ==
    /\ rpc[r] = "flushed"
    /\ CommitRead(r, AddressOf[r], Consumed(r), IF peek[r] THEN None ELSE notice[r])
    /\ Close(r)
    /\ counted' = counted \cup IF peek[r] \/ notice[r] = None THEN {}
                               ELSE NativeAccepted(AddressOf[r])
    /\ UNCHANGED <<sendVars, shown, lost, poller, worldVars, polled, ahead>>

(* Mutant: the read flags are committed whatever becomes of the output. *)
OutputFailsCommits(r) ==
    /\ rpc[r] = "output"
    /\ CommitRead(r, AddressOf[r], Consumed(r), notice[r])
    /\ Close(r)
    /\ UNCHANGED <<sendVars, shown, lost, poller, worldVars, historyVars>>

(* Rendering or writing fails, the call is cancelled, or the process dies  *)
(* before the response is complete: the batch is dropped.                  *)
OutputFails(r) ==
    /\ rpc[r] = "output"
    /\ DropBatch(r)
    /\ Close(r)
    /\ UNCHANGED <<sendVars, shown, lost, poller, worldVars, historyVars>>

(* The COMMIT fails, or the process dies between the output and the COMMIT. *)
ReceiptLost(r) ==
    /\ rpc[r] = "flushed"
    /\ \A m \in Consumed(r) : lost[m] < MaxLost
    /\ lost' = [m \in Msgs |-> IF m \in Consumed(r) THEN lost[m] + 1 ELSE lost[m]]
    /\ DropBatch(r)
    /\ Close(r)
    /\ UNCHANGED <<sendVars, shown, poller, worldVars, historyVars>>

Read(r) ==
    \/ FindReader(r) \/ Poll(r) \/ (\E p \in BOOLEAN : ReadInbox(r, p))
    \/ ReadFails(r) \/ Flush(r) \/ Acknowledge(r) \/ OutputFails(r) \/ ReceiptLost(r)

-----------------------------------------------------------------------------
(* The world around the processes.                                         *)

(* Wall-clock time passes, or is set back. *)
SetClock ==
    /\ \E t \in 0..MaxTime : now' = t
    /\ UNCHANGED <<journalVars, sendVars, readVars, poller, session,
                   historyVars>>

(* Another Claude session takes over a pid. *)
ReplaceSession(a) ==
    /\ a \notin Codex
    /\ session[a] < MaxSession
    /\ session' = [session EXCEPT ![a] = @ + 1]
    /\ UNCHANGED <<journalVars, sendVars, readVars, poller, now, historyVars>>

Next ==
    \/ \E m \in Msgs : Send(m) \/ SenderDies(m)
    \/ \E r \in Readers : Read(r)
    \/ SetClock
    \/ \E a \in Agents : ReplaceSession(a)

Spec == Init /\ [][Next]_vars

(* Every step of a send call ends by itself (busy timeout, 2 s connect, 5 s *)
(* write, 3 s probe, 8 s queue).  A read of an MCP session ends by the 5 s  *)
(* output deadline; one of the CLI has none, and its output is assumed to   *)
(* be taken or its process to end.  An agent that waits keeps polling       *)
(* without peeking, and its journal and its output do not fail for ever:    *)
(* SQLite's busy handler does not time out on it again and again.           *)
Fairness ==
    /\ \A m \in Msgs : WF_vars(Send(m) /\ pc[m] # "idle")
    /\ \A r \in Readers : WF_vars(Read(r) /\ writer = r)
    /\ \A r \in Waiting :
        /\ WF_vars(FindReader(r))
        /\ <>[][~ReadFails(r)]_vars
        /\ SF_vars(Poll(r))
        /\ SF_vars(ReadInbox(r, FALSE))
        /\ SF_vars(Flush(r) /\ ~peek[r])
        /\ SF_vars(Acknowledge(r) /\ ~peek[r])

FairSpec == Spec /\ Fairness

-----------------------------------------------------------------------------
SendLabels == {"idle", "resolved", "advertise", "record", "route", "deposit",
               "native", "sending", "settle", "done", "error", "dead"}

Results == {"none", "queued", "accepted", "unconfirmed", "failed-or-uncertain"}

(* Every variable holds a value of its kind; `writer' names the reader with *)
(* an open transaction.                                                     *)
TypeOK ==
    /\ JournalTypeOK
    /\ writer \in Readers \cup {None}
    /\ pc \in [Msgs -> SendLabels]
    /\ draft \in [Msgs -> Drafts \cup {None}]
    /\ key \in [Msgs -> (0..MaxSession) \cup {None}]
    /\ result \in [Msgs -> Results]
    /\ native \subseteq Msgs
    /\ poller \in [Msgs \cup Readers -> (0..MaxSession) \cup {None}]
    /\ rpc \in [Readers -> {"idle", "found", "polled", "output", "flushed"}]
    /\ batch \in [Readers -> SUBSET Msgs]
    /\ notice \in [Readers -> Msgs \cup {None}]
    /\ peek \in [Readers -> BOOLEAN]
    /\ now \in Nat
    /\ session \in [Agents -> 0..MaxSession]
    /\ shown \in [Msgs -> Nat]
    /\ lost \in [Msgs -> Nat]
    /\ polled \in [Agents -> [0..MaxSession -> Nat \cup {None}]]
    /\ ahead \in [Msgs -> SUBSET Msgs]
    /\ counted \subseteq Msgs

(* A message whose native sending has begun is never put in the inbox, and *)
(* one in the inbox is never sent natively: whatever fails, falls back or  *)
(* dies, there is one copy at most (deliver's `no fallback or retry').     *)
NeverMirrored ==
    \A m \in Msgs :
        inbox[m] # "absent" => m \notin native /\ pc[m] \notin {"native", "sending"}

(* Messages are journaled before any transport side effect: what an inbox  *)
(* or a native channel holds has a row with its envelope, even after the   *)
(* sender died halfway.                                                    *)
JournaledFirst ==
    \A m \in Msgs :
        m \in native \/ inbox[m] # "absent" \/ pc[m] = "sending"
            => m \in Journaled /\ outcome[m] # "none" /\ env[m].to = draft[m].to

(* What `value', an outcome, claims about m is so. *)
Truthful(m, value) ==
    /\ value = "queued" => inbox[m] # "absent"
    /\ value = "accepted" => m \in native /\ env[m].to \in Codex
    /\ value = "unconfirmed" => m \in native /\ env[m].to \notin Codex
    /\ value = "failed-or-uncertain" => inbox[m] = "absent"

(* Neither the journal nor the report to the caller ever claims a delivery *)
(* that did not happen, and a failure is never recorded for a message its  *)
(* recipient can read in the inbox; the two never contradict each other.   *)
TruthfulReports ==
    \A m \in Msgs :
        /\ Truthful(m, outcome[m])
        /\ Truthful(m, result[m])
        /\ outcome[m] \in {"none", "prepared", result[m]}

(* A complete response carried a message once for its committed receipt,   *)
(* once for each receipt lost after the output, and once more while its    *)
(* reader is about to commit.  So no message is marked read unseen, and    *)
(* none is seen twice, by one reader or by several, unless a receipt was   *)
(* lost (InboxBatch::acknowledge; Store::inbox holds the writer lock).     *)
ReceiptAccounting ==
    \A m \in Msgs :
        shown[m] = lost[m] + (IF inbox[m] = "read" THEN 1 ELSE 0)
                   + Cardinality({r \in Readers : rpc[r] = "flushed"
                                                   /\ m \in Consumed(r)})

(* A message that was already in an inbox when another one to the same     *)
(* recipient was journaled is never still unread when that one is read:    *)
(* sends made one after the other are read in that order, across batches   *)
(* and readers (Store::inbox orders and limits by rowid).                  *)
NoOvertaking ==
    \A m \in Msgs : \A x \in ahead[m] :
        inbox[m] = "read" /\ env[x].to = env[m].to => inbox[x] = "read"

(* The inbox is chosen without being asked for only on evidence that the   *)
(* session resolved for this send, not an earlier or later one behind the  *)
(* same address, polled within the last POLLING_TTL_MS (send_as reads the  *)
(* receiving table after prepare, record_poll replaces the whole row).     *)
FreshOwnEvidence ==
    [][\A m \in Msgs :
         pc[m] = "route" /\ pc'[m] = "deposit" /\ draft[m].delivery = "auto" =>
            LET at == polled[env[m].to][key[m]]
            IN  at # None /\ at <= now /\ now < at + POLLING_TTL_MS]_vars

(* Committed notices only move to later journal rows: an acceptance that   *)
(* has been reported as the latest one is never reported again             *)
(* (native_queue_notice runs inside the inbox transaction).                *)
NoticesAdvance ==
    [][\A a \in Agents :
         notices'[a] # notices[a] =>
            /\ notices'[a] \in native
            /\ notices[a] # None => row[notices'[a]] > row[notices[a]]]_vars

(* An empty inbox reports native queue acceptance once per newly observed  *)
(* acceptance (docs/codex-polling.md): a committed empty read leaves no    *)
(* acceptance in its window that no notice has counted.                    *)
EachAcceptanceReported ==
    [][\A r \in Readers :
         Acknowledge(r) /\ ~peek[r] /\ batch[r] = {} =>
            NativeAccepted(AddressOf[r]) \subseteq counted']_vars

(* What is in the inbox of an agent that keeps checking it is read in the  *)
(* end, however many other processes share the journal and its write lock, *)
(* and wherever they stop.                                                 *)
PendingIsRead ==
    \A m \in Msgs : \A r \in Waiting :
        inbox[m] = "unread" /\ env[m].to = AddressOf[r] ~> inbox[m] = "read"

-----------------------------------------------------------------------------
(* The journal as a mailbox: where a message is, told from its inbox row,  *)
(* what the native channels hold and its journal row.                      *)
Status(m) ==
    CASE inbox[m] = "read" -> "read"
      [] inbox[m] = "unread" -> "waiting"
      [] inbox[m] = "absent" /\ m \in native -> "native"
      [] inbox[m] = "absent" /\ m \notin native /\ m \in Journaled -> "journaled"
      [] OTHER -> "new"

Promise == INSTANCE Mailbox WITH
    status <- [m \in Msgs |-> Status(m)],
    recipient <- [m \in Msgs |-> IF m \in Journaled THEN env[m].to ELSE None],
    older <- ahead,
    seen <- {m \in Msgs : shown[m] > 0}

(* Every step of the processes is a step of the mailbox, or none of its    *)
(* business.                                                               *)
ImplementsMailbox == Promise!Spec
=============================================================================
