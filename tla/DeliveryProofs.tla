--------------------------- MODULE DeliveryProofs ---------------------------
(***************************************************************************)
(* The types and the safety of message delivery, proved for any agents,    *)
(* messages, readers and bounds.  The inductive invariant, SafetyInv, has  *)
(* three parts beside the types: where each send call is and what the      *)
(* journal and the channels hold of its message (SendInv), what an open    *)
(* inbox read has locked (LockInv, ReadInv), and the order of rows         *)
(* (OrderInv).                                                             *)
(***************************************************************************)
EXTENDS Delivery, FiniteSetTheorems, TLAPS

(* An envelope made by prepare is an envelope. *)
LEMMA PreparedType ==
    ASSUME TypeOK, NEW m \in Msgs, NEW d \in Draft, AncestryOK(d),
           d.reply_to # None => env[d.reply_to] \in Envelope
    PROVE  Prepared(m, d) \in Envelope
<1>1. d.reply_to # None => d.reply_to \in Msgs
  BY DEF Draft
<1>2. Inherited(d) \in Seq(Agents)
  BY <1>1 DEF Inherited, Envelope, Draft
<1>3. AddHop(Inherited(d), d.from) \in Seq(Agents)
  BY <1>2 DEF AddHop, Draft
<1>4. QED
  BY <1>1, <1>3 DEF Prepared, Envelope, Draft

-----------------------------------------------------------------------------
(* Type correctness.  An envelope inherits from its parent's, so that the  *)
(* rows of the journal must be known to hold envelopes.                    *)

TypeInv ==
    /\ TypeOK
    /\ \A m \in Journaled : env[m] \in Envelope
    /\ \A m \in Msgs :
        /\ pc[m] # "idle" => draft[m] \in Drafts
        /\ pc[m] \in {"advertise", "record", "route", "deposit", "native",
                      "sending", "settle", "done"} => m \in Journaled
        /\ pc[m] = "record" => poller[m] # None
    /\ \A r \in Readers : rpc[r] = "found" => poller[r] # None

LEMMA NoticeType ==
    ASSUME NEW a \in Agents, NEW p \in BOOLEAN
    PROVE  NativeQueueNotice(a, p) \in Msgs \cup {None}
BY DEF NativeQueueNotice, LatestAccepted, NativeAccepted, RecentDeliveries,
       NewestRows, To, Journaled

LEMMA InitTypeInv == Init => TypeInv
BY JournalAssumption, DeliveryAssumption
   DEF Init, JournalInit, TypeInv, TypeOK, JournalTypeOK, Journaled, Outcomes,
       SendLabels, Results

(* Polling evidence is recorded under a session key of the address. *)
LEMMA AdvertiseType ==
    ASSUME TypeOK, NEW a \in Agents, NEW p \in Msgs \cup Readers,
           poller[p] # None, Advertise(p, a)
    PROVE  /\ receiving' \in [Agents -> PollingEvidence \cup {None}]
           /\ polled' \in [Agents -> [0..MaxSession -> Nat \cup {None}]]
           /\ poller' = [poller EXCEPT ![p] = None]
           /\ UNCHANGED <<row, lastRow, env, outcome, inbox, notices, writer>>
<1>1. poller[p] \in 0..MaxSession /\ poller[p] \in Nat /\ now \in Nat
  BY DeliveryAssumption DEF TypeOK
<1>2. [session_key |-> poller[p], checked_at |-> now,
       expires_at |-> now + POLLING_TTL_MS] \in PollingEvidence
  BY <1>1, JournalAssumption DEF PollingEvidence
<1>3. receiving' \in [Agents -> PollingEvidence \cup {None}]
  BY <1>2 DEF Advertise, RecordPollTx, TypeOK, JournalTypeOK
<1>4. polled' \in [Agents -> [0..MaxSession -> Nat \cup {None}]]
  BY <1>1 DEF Advertise, TypeOK
<1>5. QED
  BY <1>3, <1>4 DEF Advertise, RecordPollTx

(* A send call keeps the types, and has journaled what it goes on with.    *)
LEMMA SendTypeInv ==
    ASSUME TypeInv, NEW m \in Msgs, Send(m) \/ SenderDies(m)
    PROVE  TypeInv'
<1> USE DeliveryAssumption, JournalAssumption
    DEF TypeInv, TypeOK, JournalTypeOK, Goto, SendLabels, Results
<1> USE DEF readVars, worldVars, historyVars, journalVars, Journaled
<1>1. CASE Resolve(m)
  <2>1. PICK d \in Drafts : /\ draft' = [draft EXCEPT ![m] = d]
                            /\ \E k \in SessionKeys(d.to) :
                                    key' = [key EXCEPT ![m] = k]
    BY <1>1 DEF Resolve
  <2>2. SessionKeys(d.to) \subseteq (0..MaxSession) \cup {None}
    BY DEF SessionKeys, Draft
  <2>3. /\ key' \in [Msgs -> (0..MaxSession) \cup {None}]
        /\ draft' \in [Msgs -> Drafts \cup {None}]
        /\ \A x \in Msgs : pc'[x] # "idle" => draft'[x] \in Drafts
    BY <1>1, <2>1, <2>2 DEF Resolve
  <2>4. QED
    BY <1>1, <2>3 DEF Resolve
<1>2. CASE Prepare(m)
  <2>1. draft[m] \in Draft
    BY <1>2 DEF Prepare
  <2>2. Prepared(m, draft[m]) \in Envelope
    BY <1>2, <2>1, PreparedType DEF Prepare, PrepareTx, AncestryOK
  <2>3. QED
    BY <1>2, <2>2 DEF Prepare, PrepareTx, Outcomes
<1>3. CASE AdvertiseSender(m)
  <2>1. /\ m \in Journaled
        /\ env[m].from \in Agents
        /\ poller[m] # None
        /\ m \in Msgs \cup Readers
    BY <1>3 DEF AdvertiseSender, Envelope
  <2>2. /\ receiving' \in [Agents -> PollingEvidence \cup {None}]
        /\ polled' \in [Agents -> [0..MaxSession -> Nat \cup {None}]]
        /\ poller' = [poller EXCEPT ![m] = None]
        /\ UNCHANGED <<row, lastRow, env, outcome, inbox, notices, writer>>
    <3> HIDE DEF TypeInv, TypeOK
    <3>1. TypeOK
      BY DEF TypeInv
    <3>2. Advertise(m, env[m].from)
      BY <1>3 DEF AdvertiseSender
    <3>3. QED
      BY <2>1, <3>1, <3>2, AdvertiseType
  <2>3. QED
    BY <1>3, <2>1, <2>2 DEF AdvertiseSender
<1>0. CASE FindSender(m)
  <2>1. m \in Journaled /\ env[m].from \in Agents
    BY <1>0 DEF FindSender, Envelope
  <2>2. session[env[m].from] \in 0..MaxSession /\ session[env[m].from] # None
    BY <2>1
  <2>3. CASE FindSession(m, env[m].from) /\ pc' = [pc EXCEPT ![m] = "record"]
    <3>1. /\ poller' \in [Msgs \cup Readers -> (0..MaxSession) \cup {None}]
          /\ poller'[m] # None
          /\ \A p \in Msgs \cup Readers : p # m => poller'[p] = poller[p]
      BY <2>2, <2>3 DEF FindSession
    <3>2. \A x \in Msgs : x # m => poller'[x] = poller[x] /\ pc'[x] = pc[x]
      BY <2>3, <3>1
    <3>3. \A r \in Readers : poller'[r] = poller[r]
      BY <3>1
    <3>4. QED
      BY <1>0, <2>1, <2>3, <3>1, <3>2, <3>3 DEF FindSender
  <2>4. CASE NoSession(env[m].from) /\ pc' = [pc EXCEPT ![m] = "route"]
    BY <1>0, <2>1, <2>4 DEF FindSender, NoSession
  <2>5. QED
    BY <1>0, <2>3, <2>4 DEF FindSender
<1>4. CASE Route(m)
  BY <1>4 DEF Route
<1>5. CASE GiveUp(m)
  BY <1>5 DEF GiveUp
<1>6. CASE Deposit(m)
  BY <1>6 DEF Deposit, DepositTx
<1>7. CASE DepositFails(m)
  BY <1>7 DEF DepositFails
<1>8. CASE FallBack(m)
  BY <1>8 DEF FallBack
<1>9. CASE StartNative(m)
  BY <1>9 DEF StartNative
<1>10. CASE NativeSent(m)
  BY <1>10 DEF NativeSent
<1>11. CASE NativeUncertain(m)
  BY <1>11 DEF NativeUncertain
<1>12. CASE Settle(m)
  BY <1>12 DEF Settle, OutcomeTx, Outcomes
<1>13. CASE SettleFails(m)
  BY <1>13 DEF SettleFails
<1>14. CASE SenderDies(m)
  BY <1>14 DEF SenderDies
<1>15. QED
  BY <1>0, <1>1, <1>2, <1>3, <1>4, <1>5, <1>6, <1>7, <1>8, <1>9, <1>10, <1>11,
     <1>12, <1>13, <1>14 DEF Send

LEMMA ReadTypeInv ==
    ASSUME TypeInv, NEW r \in Readers, Read(r)
    PROVE  TypeInv'
<1> USE DeliveryAssumption, JournalAssumption
    DEF TypeInv, TypeOK, JournalTypeOK, SendLabels, Results
<1> USE DEF sendVars, worldVars, historyVars, journalVars, Journaled
<1>a. AddressOf[r] \in Agents
  OBVIOUS
<1>b. Consumed(r) \subseteq Msgs
  BY DEF Consumed
<1>0. CASE FindReader(r)
  <2>1. session[AddressOf[r]] \in 0..MaxSession /\ session[AddressOf[r]] # None
    BY <1>a
  <2>2. CASE /\ FindSession(r, AddressOf[r])
             /\ rpc' = [rpc EXCEPT ![r] = "found"]
    <3>1. /\ poller' \in [Msgs \cup Readers -> (0..MaxSession) \cup {None}]
          /\ poller'[r] # None
          /\ \A p \in Msgs \cup Readers : p # r => poller'[p] = poller[p]
      BY <2>1, <2>2 DEF FindSession
    <3>2. \A m \in Msgs : poller'[m] = poller[m]
      BY <3>1
    <3>3. \A q \in Readers : q # r => poller'[q] = poller[q] /\ rpc'[q] = rpc[q]
      BY <2>2, <3>1
    <3>4. QED
      BY <1>0, <2>2, <3>1, <3>2, <3>3 DEF FindReader
  <2>3. CASE /\ NoSession(AddressOf[r])
             /\ rpc' = [rpc EXCEPT ![r] = "polled"]
    BY <1>0, <2>3 DEF FindReader, NoSession
  <2>4. QED
    BY <1>0, <2>2, <2>3 DEF FindReader
<1>1. CASE Poll(r)
  <2>1. /\ receiving' \in [Agents -> PollingEvidence \cup {None}]
        /\ polled' \in [Agents -> [0..MaxSession -> Nat \cup {None}]]
        /\ poller' = [poller EXCEPT ![r] = None]
        /\ UNCHANGED <<row, lastRow, env, outcome, inbox, notices, writer>>
    <3> HIDE DEF TypeInv, TypeOK
    <3>1. TypeOK
      BY DEF TypeInv
    <3>2. poller[r] # None /\ r \in Msgs \cup Readers
      BY <1>1 DEF Poll, TypeInv
    <3>3. Advertise(r, AddressOf[r])
      BY <1>1 DEF Poll
    <3>4. QED
      BY <1>a, <3>1, <3>2, <3>3, AdvertiseType
  <2>2. QED
    BY <1>1, <2>1 DEF Poll
<1>2. CASE \E p \in BOOLEAN : ReadInbox(r, p)
  <2>1. PICK p \in BOOLEAN : ReadInbox(r, p)
    BY <1>2
  <2>2. Batch(AddressOf[r]) \in SUBSET Msgs
    BY DEF Batch, OldestRows, Pending, To
  <2>3. NativeQueueNotice(AddressOf[r], p) \in Msgs \cup {None}
    BY <1>a, NoticeType
  <2>4. /\ batch' \in [Readers -> SUBSET Msgs]
        /\ notice' \in [Readers -> Msgs \cup {None}]
        /\ peek' \in [Readers -> BOOLEAN]
    BY <2>1, <2>2, <2>3 DEF ReadInbox
  <2>5. QED
    BY <2>1, <2>4 DEF ReadInbox, BeginRead
<1>3. CASE ReadFails(r)
  BY <1>3 DEF ReadFails
<1>4. CASE Flush(r)
  BY <1>4, <1>b DEF Flush
<1>5. CASE Acknowledge(r)
  <2>1. /\ inbox' \in [Msgs -> {"absent", "unread", "read"}]
        /\ notices' \in [Agents -> Msgs \cup {None}]
        /\ writer' = None
        /\ UNCHANGED <<row, lastRow, env, outcome, receiving>>
    BY <1>5, <1>a DEF Acknowledge, CommitRead
  <2>2. counted' \subseteq Msgs
    BY <1>5 DEF Acknowledge, NativeAccepted, RecentDeliveries, NewestRows, To
  <2>3. QED
    BY <1>5, <2>1, <2>2 DEF Acknowledge, Close
<1>6. CASE OutputFails(r)
  BY <1>6 DEF OutputFails, DropBatch, Close
<1>7. CASE ReceiptLost(r)
  BY <1>7, <1>b DEF ReceiptLost, DropBatch, Close
<1>8. QED
  BY <1>0, <1>1, <1>2, <1>3, <1>4, <1>5, <1>6, <1>7 DEF Read

(* The clock, the sessions and stuttering leave the rest as it is. *)
LEMMA WorldTypeInv ==
    ASSUME TypeInv,
           SetClock \/ (\E a \in Agents : ReplaceSession(a)) \/ UNCHANGED vars
    PROVE  TypeInv'
<1> USE DeliveryAssumption
    DEF TypeInv, TypeOK, JournalTypeOK, sendVars, readVars, worldVars,
        historyVars, journalVars, Journaled
<1>1. CASE SetClock
  BY <1>1 DEF SetClock
<1>2. CASE \E a \in Agents : ReplaceSession(a)
  BY <1>2 DEF ReplaceSession
<1>3. CASE UNCHANGED vars
  BY <1>3 DEF vars
<1>4. QED
  BY <1>1, <1>2, <1>3

(* Every variable always holds a value of its kind, however many senders   *)
(* and readers there are and wherever they stop: the journal's rows hold   *)
(* envelopes, and the write lock belongs to a reader or to nobody.         *)
THEOREM TypeCorrect == Spec => []TypeOK
<1>1. Init => TypeInv
  BY InitTypeInv
<1>2. TypeInv /\ [Next]_vars => TypeInv'
  BY SendTypeInv, ReadTypeInv, WorldTypeInv DEF Next
<1>3. TypeInv => TypeOK
  BY DEF TypeInv
<1>4. QED
  BY <1>1, <1>2, <1>3, PTL DEF Spec

-----------------------------------------------------------------------------
(* Safety. *)

(* Until a send call has delivered, its message is nowhere but in the      *)
(* journal; afterwards it is in one place at most, and the reports agree.  *)
SendInv ==
    \A m \in Msgs :
        /\ row[m] = 0 => /\ outcome[m] = "none"
                         /\ inbox[m] = "absent"
                         /\ m \notin native
                         /\ pc[m] \in {"idle", "resolved", "error", "dead"}
        /\ row[m] # 0 => /\ outcome[m] # "none"
                         /\ env[m].to = draft[m].to
                         /\ pc[m] \notin {"idle", "resolved"}
        /\ pc[m] \notin {"settle", "done", "dead"} =>
                /\ inbox[m] = "absent"
                /\ m \notin native
                /\ outcome[m] \in {"none", "prepared"}
                /\ result[m] = "none"
        /\ pc[m] \in {"settle", "done"} => result[m] # "none"
        /\ inbox[m] # "absent" => m \notin native
        /\ Truthful(m, result[m])
        /\ outcome[m] \in {"none", "prepared", result[m]}

(* A read transaction is open exactly while its caller produces output. *)
LockInv ==
    \A r \in Readers : writer = r <=> rpc[r] \in {"output", "flushed"}

(* What an open read holds is unread mail of its recipient, the oldest of   *)
(* it; nothing else changes the inbox table until the read ends.            *)
ReadInv ==
    \A r \in Readers :
        /\ writer = r => \A m \in batch[r] : m \in Pending(AddressOf[r])
        /\ writer = r => \A m \in batch[r] : \A x \in Pending(AddressOf[r]) :
                             row[x] < row[m] => x \in batch[r]
        /\ writer # r => batch[r] = {}

(* What was in an inbox when a message was journaled has an earlier row.   *)
OrderInv ==
    /\ \A m \in Msgs : row[m] <= lastRow
    /\ \A m \in Msgs : \A x \in ahead[m] : /\ inbox[x] # "absent"
                                           /\ row[x] # 0
                                           /\ row[x] < row[m]

SafetyInv == TypeInv /\ SendInv /\ LockInv /\ ReadInv /\ OrderInv /\ NoOvertaking

-----------------------------------------------------------------------------
LEMMA InitSafetyInv == Init => SafetyInv
<1> SUFFICES ASSUME Init PROVE SafetyInv
  OBVIOUS
<1> USE DeliveryAssumption DEF Init, JournalInit
<1>1. TypeInv
  BY InitTypeInv
<1>2. SendInv
  BY DEF SendInv, Truthful
<1>3. LockInv /\ ReadInv
  BY DEF LockInv, ReadInv
<1>4. OrderInv /\ NoOvertaking
  BY DEF OrderInv, NoOvertaking
<1>5. QED
  BY <1>1, <1>2, <1>3, <1>4 DEF SafetyInv

(* A send call does not touch another message, nor what is known of it.    *)
LEMMA SendSendInv ==
    ASSUME SafetyInv, NEW m \in Msgs, Send(m) \/ SenderDies(m)
    PROVE  SendInv'
<1> USE DeliveryAssumption, JournalAssumption
    DEF SafetyInv, SendInv, TypeInv, TypeOK, JournalTypeOK, Goto, Truthful
<1> USE DEF journalVars, Journaled
<1>1. CASE Resolve(m)
  BY <1>1 DEF Resolve
<1>2. CASE Prepare(m)
  BY <1>2 DEF Prepare, PrepareTx, Prepared
<1>3. CASE AdvertiseSender(m)
  BY <1>3 DEF FindSender, AdvertiseSender, Advertise, RecordPollTx
<1>0. CASE FindSender(m)
  BY <1>0 DEF FindSender
<1>4. CASE Route(m)
  BY <1>4 DEF Route
<1>5. CASE GiveUp(m)
  BY <1>5 DEF GiveUp
<1>6. CASE Deposit(m)
  BY <1>6 DEF Deposit, DepositTx
<1>7. CASE DepositFails(m)
  BY <1>7 DEF DepositFails
<1>8. CASE FallBack(m)
  BY <1>8 DEF FallBack
<1>9. CASE StartNative(m)
  BY <1>9 DEF StartNative
<1>10. CASE NativeSent(m)
  BY <1>10 DEF NativeSent
<1>11. CASE NativeUncertain(m)
  BY <1>11 DEF NativeUncertain
<1>12. CASE Settle(m)
  BY <1>12 DEF Settle, OutcomeTx
<1>13. CASE SettleFails(m)
  BY <1>13 DEF SettleFails
<1>14. CASE SenderDies(m)
  BY <1>14 DEF SenderDies
<1>15. QED
  BY <1>0, <1>1, <1>2, <1>3, <1>4, <1>5, <1>6, <1>7, <1>8, <1>9, <1>10, <1>11,
     <1>12, <1>13, <1>14 DEF Send

(* A send call leaves every open read as it is: it does not get to write    *)
(* the inbox table meanwhile, and what it journals is not in it yet.        *)
LEMMA SendReadInv ==
    ASSUME SafetyInv, NEW m \in Msgs, Send(m) \/ SenderDies(m)
    PROVE  LockInv' /\ ReadInv'
<1> USE DeliveryAssumption, JournalAssumption
    DEF SafetyInv, TypeInv, TypeOK, JournalTypeOK, LockInv, ReadInv
<1>a. None \notin Readers
  OBVIOUS
<1>1. UNCHANGED <<writer, rpc, batch>>
  BY DEF Send, Resolve, Prepare, PrepareTx, FindSender, AdvertiseSender, Advertise,
         RecordPollTx, Route, GiveUp, Deposit, DepositTx, DepositFails, FallBack,
         StartNative, NativeSent, NativeUncertain, Settle, OutcomeTx, SettleFails,
         SenderDies, readVars, journalVars
<1>2. LockInv'
  BY <1>1
<1>3. CASE UNCHANGED <<row, env, inbox>>
  BY <1>1, <1>3 DEF Pending, To, Journaled
<1>4. CASE writer = None
  BY <1>1, <1>4
<1>5. UNCHANGED <<row, env, inbox>> \/ writer = None
  BY DEF Send, Resolve, Prepare, PrepareTx, FindSender, AdvertiseSender, Advertise,
         RecordPollTx, Route, GiveUp, Deposit, DepositTx, DepositFails, FallBack,
         StartNative, NativeSent, NativeUncertain, Settle, OutcomeTx, SettleFails,
         SenderDies, readVars, journalVars
<1>6. QED
  BY <1>2, <1>3, <1>4, <1>5

(* Rows are given out in increasing order, and only deposits fill inboxes.  *)
LEMMA SendOrderInv ==
    ASSUME SafetyInv, NEW m \in Msgs, Send(m) \/ SenderDies(m)
    PROVE  OrderInv' /\ NoOvertaking'
<1> USE DeliveryAssumption, JournalAssumption
    DEF SafetyInv, TypeInv, TypeOK, JournalTypeOK, OrderInv, NoOvertaking
<1>1. CASE Prepare(m)
  <2>1. /\ row[m] = 0
        /\ inbox[m] = "absent"
        /\ \A x \in Msgs : inbox[x] # "absent" => row[x] # 0
    BY <1>1 DEF Prepare, SendInv
  <2>2. /\ ahead' = [ahead EXCEPT ![m] = {x \in Msgs : inbox[x] # "absent"}]
        /\ row' = [row EXCEPT ![m] = lastRow + 1]
        /\ lastRow' = lastRow + 1
        /\ inbox' = inbox
        /\ \A x \in Msgs : x # m => env'[x] = env[x]
    BY <1>1 DEF Prepare, PrepareTx
  <2>3. \A x \in Msgs : m \notin ahead[x]
    BY <2>1
  <2>4. OrderInv'
    <3>1. \A x \in Msgs : row'[x] <= lastRow'
      BY <2>2
    <3>2. ASSUME NEW y \in Msgs, NEW x \in ahead'[y]
          PROVE  inbox'[x] # "absent" /\ row'[x] # 0 /\ row'[x] < row'[y]
      <4>1. CASE y = m
        <5>1. x \in Msgs /\ inbox[x] # "absent" /\ x # m
          BY <2>1, <2>2, <4>1
        <5>2. row[x] # 0 /\ row[x] <= lastRow
          BY <2>1, <5>1
        <5>3. QED
          BY <2>2, <4>1, <5>1, <5>2
      <4>2. CASE y # m
        BY <2>2, <2>3, <4>2
      <4>3. QED
        BY <4>1, <4>2
    <3>3. QED
      BY <3>1, <3>2
  <2>5. NoOvertaking'
    <3> SUFFICES ASSUME NEW y \in Msgs, NEW x \in ahead'[y],
                        inbox[y] = "read", env'[x].to = env'[y].to
                 PROVE  inbox[x] = "read"
      BY <2>2
    <3>1. y # m /\ x # m /\ x \in ahead[y]
      BY <2>1, <2>2, <2>3
    <3>2. x \in Msgs /\ env[x].to = env[y].to
      BY <2>2, <3>1
    <3>3. QED
      BY <3>1, <3>2
  <2>6. QED
    BY <2>4, <2>5
<1>2. CASE Deposit(m)
  <2>1. inbox[m] = "absent" /\ inbox' = [inbox EXCEPT ![m] = "unread"]
    BY <1>2 DEF Deposit, DepositTx, SendInv
  <2>2. UNCHANGED <<row, lastRow, env, ahead>>
    BY <1>2 DEF Deposit, DepositTx, historyVars
  <2>3. QED
    BY <2>1, <2>2
<1>3. CASE UNCHANGED <<row, lastRow, env, inbox, ahead>>
  BY <1>3
<1>4. Prepare(m) \/ Deposit(m) \/ UNCHANGED <<row, lastRow, env, inbox, ahead>>
  BY DEF Send, Resolve, FindSender, AdvertiseSender, Advertise, RecordPollTx, Route, GiveUp,
         DepositFails, FallBack, StartNative, NativeSent, NativeUncertain, Settle,
         OutcomeTx, SettleFails, SenderDies, historyVars, journalVars
<1>5. QED
  BY <1>1, <1>2, <1>3, <1>4

-----------------------------------------------------------------------------
(* The oldest messages of a set are a lower set of it by row.              *)
LEMMA OldestRowsLower ==
    ASSUME NEW S, IsFiniteSet(S), \A x \in S : row[x] \in Nat,
           NEW n \in Nat, NEW m \in OldestRows(S, n), NEW x \in S,
           row[x] < row[m]
    PROVE  x \in OldestRows(S, n)
<1> DEFINE Below(y) == {z \in S : row[z] < row[y]}
<1>1. m \in S /\ Cardinality(Below(m)) < n
  BY DEF OldestRows
<1>2. Below(x) \subseteq Below(m)
  BY <1>1
<1>3. IsFiniteSet(Below(m)) /\ IsFiniteSet(Below(x))
  BY FS_Subset
<1>4. /\ Cardinality(Below(x)) <= Cardinality(Below(m))
      /\ Cardinality(Below(x)) \in Nat
      /\ Cardinality(Below(m)) \in Nat
  BY <1>2, <1>3, FS_Subset, FS_CardinalityType
<1>5. Cardinality(Below(x)) < n
  BY <1>1, <1>4
<1>6. QED
  BY <1>5 DEF OldestRows

(* A reader opens a transaction on the oldest unread mail, and closing it   *)
(* turns all of that mail, or none of it, into read mail.                   *)
LEMMA ReadSafetyInv ==
    ASSUME SafetyInv, NEW r \in Readers, Read(r)
    PROVE  SendInv' /\ LockInv' /\ ReadInv' /\ OrderInv' /\ NoOvertaking'
<1> USE DeliveryAssumption, JournalAssumption
    DEF TypeInv, TypeOK, JournalTypeOK
<1>a. TypeInv /\ SendInv /\ LockInv /\ ReadInv /\ OrderInv /\ NoOvertaking
  BY DEF SafetyInv
<1>b. /\ UNCHANGED <<row, lastRow, env, outcome, pc, draft, result, native,
                     ahead>>
  BY DEF Read, FindReader, Poll, Advertise, RecordPollTx, ReadInbox, BeginRead, ReadFails,
         Flush, Acknowledge, CommitRead, OutputFails, ReceiptLost, DropBatch,
         Close, sendVars, historyVars, journalVars
<1>1. CASE FindReader(r) \/ Poll(r) \/ ReadFails(r) \/ Flush(r)
  <2>1. UNCHANGED <<writer, inbox, batch>>
    BY <1>1 DEF FindReader, Poll, Advertise, RecordPollTx, ReadFails, Flush, journalVars
  <2>2. SendInv' /\ OrderInv' /\ NoOvertaking'
    BY <1>a, <1>b, <2>1 DEF SendInv, OrderInv, NoOvertaking, Truthful
  <2>3. LockInv'
    BY <1>1, <1>a, <2>1 DEF LockInv, FindReader, Poll, ReadFails, Flush
  <2>4. ReadInv'
    BY <1>a, <1>b, <2>1 DEF ReadInv, Pending, To, Journaled
  <2>5. QED
    BY <2>2, <2>3, <2>4
<1>2. ASSUME NEW p \in BOOLEAN, ReadInbox(r, p)
      PROVE  SendInv' /\ LockInv' /\ ReadInv' /\ OrderInv' /\ NoOvertaking'
  <2> DEFINE a == AddressOf[r]
  <2>1. /\ writer = None /\ writer' = r /\ inbox' = inbox
        /\ batch' = [batch EXCEPT ![r] = Batch(a)]
        /\ rpc' = [rpc EXCEPT ![r] = "output"]
    BY <1>2 DEF ReadInbox, BeginRead
  <2>2. SendInv' /\ OrderInv' /\ NoOvertaking'
    BY <1>a, <1>b, <2>1 DEF SendInv, OrderInv, NoOvertaking, Truthful
  <2>3. LockInv'
    BY <1>a, <2>1 DEF LockInv
  <2>4. \A m \in Batch(a) : m \in Pending(a)
    BY DEF Batch, OldestRows
  <2>5. IsFiniteSet(Pending(a)) /\ \A x \in Pending(a) : row[x] \in Nat
    <3>1. Pending(a) \subseteq Msgs
      BY DEF Pending, To, Journaled
    <3>2. QED
      BY <1>a, <3>1, FS_Subset
  <2>6. \A m \in Batch(a) : \A x \in Pending(a) :
            row[x] < row[m] => x \in Batch(a)
    BY <2>5, OldestRowsLower DEF Batch
  <2>7. Pending(a)' = Pending(a)
    BY <1>b, <2>1 DEF Pending, To, Journaled
  <2>8. /\ batch'[r] = Batch(a)
        /\ \A q \in Readers \ {r} : batch'[q] = {} /\ writer' # q
    BY <1>a, <2>1 DEF ReadInv
  <2>9. ReadInv'
    <3> SUFFICES ASSUME NEW q \in Readers
                 PROVE  /\ writer' = q => \A m \in batch'[q] : m \in Pending(AddressOf[q])'
                        /\ writer' = q => \A m \in batch'[q] : \A x \in Pending(AddressOf[q])' :
                               row'[x] < row'[m] => x \in batch'[q]
                        /\ writer' # q => batch'[q] = {}
      BY DEF ReadInv
    <3>1. CASE q = r
      BY <1>b, <2>1, <2>4, <2>6, <2>7, <2>8, <3>1
    <3>2. CASE q # r
      BY <2>8, <3>2
    <3>3. QED
      BY <3>1, <3>2
  <2>10. QED
    BY <2>2, <2>3, <2>9
<1>3. CASE OutputFails(r) \/ ReceiptLost(r)
  <2>1. /\ writer = r /\ writer' = None /\ inbox' = inbox
        /\ batch' = [batch EXCEPT ![r] = {}]
        /\ rpc' = [rpc EXCEPT ![r] = "idle"]
    BY <1>3 DEF OutputFails, ReceiptLost, DropBatch, Close
  <2>2. SendInv' /\ OrderInv' /\ NoOvertaking'
    BY <1>a, <1>b, <2>1 DEF SendInv, OrderInv, NoOvertaking, Truthful
  <2>3. LockInv' /\ ReadInv'
    BY <1>a, <2>1 DEF LockInv, ReadInv
  <2>4. QED
    BY <2>2, <2>3
<1>4. CASE Acknowledge(r)
  <2> DEFINE a == AddressOf[r]
  <2>1. /\ writer = r /\ writer' = None
        /\ inbox' = [m \in Msgs |-> IF m \in Consumed(r) THEN "read" ELSE inbox[m]]
        /\ batch' = [batch EXCEPT ![r] = {}]
        /\ rpc' = [rpc EXCEPT ![r] = "idle"]
    BY <1>4 DEF Acknowledge, CommitRead, Close
  <2>2. \A m \in Consumed(r) : m \in Pending(a)
    BY <1>a, <2>1 DEF ReadInv, Consumed
  <2>3. \A m \in Consumed(r) : \A x \in Pending(a) :
            row[x] < row[m] => x \in Consumed(r)
    BY <1>a, <2>1 DEF ReadInv, Consumed
  <2>4. \A m \in Msgs : inbox'[m] = "absent" <=> inbox[m] = "absent"
    BY <1>a, <2>1, <2>2 DEF Pending
  <2>5. SendInv'
    BY <1>a, <1>b, <2>4 DEF SendInv, Truthful
  <2>6. OrderInv'
    BY <1>a, <1>b, <2>4 DEF OrderInv
  <2>7. NoOvertaking'
    <3> SUFFICES ASSUME NEW m \in Msgs, NEW x \in ahead[m], env[x].to = env[m].to,
                        inbox'[m] = "read"
                 PROVE  inbox'[x] = "read"
      BY <1>b DEF NoOvertaking
    <3>1. x \in Msgs /\ inbox[x] # "absent" /\ row[x] # 0 /\ row[x] < row[m]
      BY <1>a DEF OrderInv
    <3>2. CASE m \in Consumed(r)
      BY <1>a, <2>1, <2>2, <2>3, <3>1, <3>2 DEF Pending, To, Journaled
    <3>3. CASE m \notin Consumed(r)
      BY <1>a, <2>1, <3>1, <3>3 DEF NoOvertaking
    <3>4. QED
      BY <3>2, <3>3
  <2>8. LockInv' /\ ReadInv'
    BY <1>a, <2>1 DEF LockInv, ReadInv
  <2>9. QED
    BY <2>5, <2>6, <2>7, <2>8
<1>5. QED
  BY <1>1, <1>2, <1>3, <1>4 DEF Read

(* Nothing here depends on the clock or on who lives behind an address.     *)
LEMMA WorldSafetyInv ==
    ASSUME SafetyInv,
           SetClock \/ (\E a \in Agents : ReplaceSession(a)) \/ UNCHANGED vars
    PROVE  SendInv' /\ LockInv' /\ ReadInv' /\ OrderInv' /\ NoOvertaking'
<1>1. UNCHANGED <<journalVars, sendVars, readVars, historyVars>>
  BY DEF SetClock, ReplaceSession, vars
<1>2. QED
  BY <1>1 DEF SafetyInv, SendInv, LockInv, ReadInv, OrderInv, NoOvertaking,
              Truthful, Pending, To, Journaled, journalVars, sendVars, readVars,
              historyVars

(* The inductive invariant holds of every reachable state, whatever the     *)
(* agents, messages and readers.                                           *)
THEOREM SafetyInvariant == Spec => []SafetyInv
<1>1. Init => SafetyInv
  BY InitSafetyInv
<1>2. ASSUME SafetyInv, [Next]_vars
      PROVE  SafetyInv'
  <2>1. TypeInv
    BY <1>2 DEF SafetyInv
  <2>2. ASSUME NEW m \in Msgs, Send(m) \/ SenderDies(m)
        PROVE  SafetyInv'
    BY <1>2, <2>1, <2>2, SendTypeInv, SendSendInv, SendReadInv, SendOrderInv
       DEF SafetyInv
  <2>3. ASSUME NEW r \in Readers, Read(r)
        PROVE  SafetyInv'
    BY <1>2, <2>1, <2>3, ReadTypeInv, ReadSafetyInv DEF SafetyInv
  <2>4. CASE SetClock \/ (\E a \in Agents : ReplaceSession(a)) \/ UNCHANGED vars
    BY <1>2, <2>1, <2>4, WorldTypeInv, WorldSafetyInv DEF SafetyInv
  <2>5. QED
    BY <1>2, <2>2, <2>3, <2>4 DEF Next
<1>3. QED
  BY <1>1, <1>2, PTL DEF Spec

-----------------------------------------------------------------------------
(* No message is ever both in an inbox and in a native channel: the safe   *)
(* fallback to the inbox is taken only when nothing was sent, and nothing  *)
(* is retried (claude_code.rs and codex.rs, deliver).                      *)
THEOREM NeverMirroredTheorem == Spec => []NeverMirrored
<1>1. SafetyInv => NeverMirrored
  BY DEF SafetyInv, SendInv, NeverMirrored
<1>2. QED
  BY <1>1, SafetyInvariant, PTL

(* What left through any channel is in the journal, with its recipient, at  *)
(* every moment after a crash too (send_as prepares before it delivers).   *)
THEOREM JournaledFirstTheorem == Spec => []JournaledFirst
<1>1. SafetyInv => JournaledFirst
  BY DEF SafetyInv, SendInv, JournaledFirst, Journaled
<1>2. QED
  BY <1>1, SafetyInvariant, PTL

(* What the journal and the caller are told of a delivery is so, and they  *)
(* are never told different things (send_as, Store::outcome).              *)
THEOREM TruthfulReportsTheorem == Spec => []TruthfulReports
<1>1. SafetyInv => TruthfulReports
  BY DEF SafetyInv, SendInv, TruthfulReports, Truthful
<1>2. QED
  BY <1>1, SafetyInvariant, PTL

(* Sends made one after the other to one inbox are read in that order, for *)
(* any number of senders and readers (Store::inbox reads the oldest rows   *)
(* and keeps the writer lock until it has acknowledged them).              *)
THEOREM NoOvertakingTheorem == Spec => []NoOvertaking
<1>1. SafetyInv => NoOvertaking
  BY DEF SafetyInv
<1>2. QED
  BY <1>1, SafetyInvariant, PTL
=============================================================================
