---------------------------- MODULE MailboxProofs ----------------------------
(***************************************************************************)
(* Delivery implements Mailbox: every step of the processes is a step of   *)
(* the abstract mailbox, or leaves it as it is.                            *)
(***************************************************************************)
EXTENDS DeliveryLimitProofs

LEMMA InitMaps == Init => Promise!Init
<1> SUFFICES ASSUME Init PROVE Promise!Init
  OBVIOUS
<1>1. \A m \in Msgs : m \notin Journaled /\ Status(m) = "new" /\ ~(shown[m] > 0)
  BY DEF Init, JournalInit, Journaled, Status
<1>2. ahead = [m \in Msgs |-> {}]
  BY DEF Init
<1> QED
  BY <1>1, <1>2 DEF Promise!Init

(* A step that changes none of these leaves the mailbox as it is. *)
LEMMA Stutters ==
    ASSUME UNCHANGED <<row, env, inbox, native, ahead, shown>>
    PROVE  UNCHANGED Promise!mailboxVars
<1>1. \A m \in Msgs : Status(m)' = Status(m)
  BY DEF Status, Journaled
<1> QED
  BY <1>1 DEF Promise!mailboxVars, Journaled

LEMMA PrepareMaps ==
    ASSUME SafetyInv, NEW m \in Msgs, Prepare(m)
    PROVE  \E a \in Agents : Promise!Record(m, a)
<1>1. /\ m \notin Journaled /\ inbox[m] = "absent" /\ inbox' = inbox
      /\ Journaled' = Journaled \cup {m} /\ draft[m] \in Draft
      /\ env' = [env EXCEPT ![m] = Prepared(m, draft[m])]
  BY PrepareChanges
<1>2. /\ ahead' = [ahead EXCEPT ![m] = {x \in Msgs : inbox[x] # "absent"}]
      /\ UNCHANGED <<native, shown>>
  BY DEF Prepare, readVars
<1>3. /\ env \in [Msgs -> Envelope \cup {None}] /\ Journaled \subseteq Msgs
      /\ inbox \in [Msgs -> {"absent", "unread", "read"}] /\ m \notin native
      /\ ahead \in [Msgs -> SUBSET Msgs]
  BY <1>1 DEF SafetyInv, TypeInv, TypeOK, JournalTypeOK, Journaled, SendInv
<1>4. env'[m].to = draft[m].to /\ \A x \in Msgs : x # m => env'[x] = env[x]
  BY <1>1, <1>3 DEF Prepared
<1>5. /\ Status(m) = "new" /\ Status(m)' = "journaled"
      /\ \A x \in Msgs : x # m => Status(x)' = Status(x)
  BY <1>1, <1>2, <1>3 DEF Status
<1>6. \A x \in Msgs : inbox[x] # "absent" <=> Status(x) \in {"waiting", "read"}
  BY <1>3 DEF Status
<1>7. draft[m].to \in Agents
  BY <1>1 DEF Draft
<1>8. PICK a \in Agents : a = draft[m].to
  BY <1>7
<1>9. [x \in Msgs |-> Status(x)]' = [[x \in Msgs |-> Status(x)] EXCEPT ![m] = "journaled"]
  BY <1>5
<1>10. [x \in Msgs |-> IF x \in Journaled THEN env[x].to ELSE None]'
            = [[x \in Msgs |-> IF x \in Journaled THEN env[x].to ELSE None] EXCEPT ![m] = a]
  <2>1. \A x \in Msgs : (IF x \in Journaled' THEN env'[x].to ELSE None)
            = IF x = m THEN a ELSE IF x \in Journaled THEN env[x].to ELSE None
    BY <1>1, <1>4, <1>8
  <2> QED
    BY <2>1
<1>11. ahead' = [ahead EXCEPT ![m] =
            {x \in Msgs : [y \in Msgs |-> Status(y)][x] \in {"waiting", "read"}}]
  <2>1. {x \in Msgs : inbox[x] # "absent"}
            = {x \in Msgs : [y \in Msgs |-> Status(y)][x] \in {"waiting", "read"}}
    BY <1>6
  <2> QED
    BY <1>2, <2>1
<1>12. Promise!Record(m, a)
  BY <1>2, <1>5, <1>9, <1>10, <1>11 DEF Promise!Record
<1> QED
  BY <1>12

(* A deposit, or a native channel that has taken the message. *)
LEMMA DeliverMaps ==
    ASSUME SafetyInv, NEW m \in Msgs, pc[m] \in {"deposit", "sending"},
           UNCHANGED <<row, env, ahead, shown>>,
           \/ inbox' = [inbox EXCEPT ![m] = "unread"] /\ native' = native
           \/ inbox' = inbox /\ native' = native \cup {m}
    PROVE  Promise!Deliver(m)
<1>1. /\ m \in Journaled /\ inbox[m] = "absent" /\ m \notin native
      /\ inbox \in [Msgs -> {"absent", "unread", "read"}]
  BY DEF SafetyInv, SendInv, TypeInv, TypeOK, JournalTypeOK
<1>2. /\ Status(m) = "journaled" /\ Status(m)' \in {"waiting", "native"}
      /\ \A x \in Msgs : x # m => Status(x)' = Status(x)
  BY <1>1 DEF Status, Journaled
<1>3. Journaled' = Journaled
  BY DEF Journaled
<1> QED
  BY <1>2, <1>3 DEF Promise!Deliver

LEMMA SendMaps ==
    ASSUME SafetyInv, NEW m \in Msgs, Send(m) \/ SenderDies(m)
    PROVE  Promise!Next \/ UNCHANGED Promise!mailboxVars
<1>1. CASE Prepare(m)
  BY <1>1, PrepareMaps DEF Promise!Next
<1>2. CASE Deposit(m)
  <2>1. inbox' = [inbox EXCEPT ![m] = "unread"] /\ UNCHANGED <<row, env, native, ahead, shown>>
    BY <1>2 DEF Deposit, DepositTx, SafetyInv, SendInv, readVars, historyVars
  <2> QED
    BY <1>2, <2>1, DeliverMaps DEF Promise!Next, Deposit
<1>3. CASE NativeSent(m) \/ NativeUncertain(m) \/ SenderDies(m)
  <2>1. /\ UNCHANGED <<row, env, inbox, ahead, shown>>
        /\ native' = native \/ (native' = native \cup {m} /\ pc[m] = "sending")
    BY <1>3 DEF NativeSent, NativeUncertain, SenderDies, journalVars, readVars, historyVars
  <2> QED
    BY <2>1, DeliverMaps, Stutters DEF Promise!Next
<1>4. CASE ~(Prepare(m) \/ Deposit(m) \/ NativeSent(m) \/ NativeUncertain(m) \/ SenderDies(m))
  <2>1. UNCHANGED <<row, env, inbox, native, ahead, shown>>
    BY <1>4 DEF Send, Resolve, FindSender, AdvertiseSender, Advertise, RecordPollTx, Route,
       GiveUp, DepositFails, FallBack, StartNative, Settle, OutcomeTx, SettleFails,
       journalVars, readVars, historyVars
  <2> QED
    BY <2>1, Stutters
<1> QED
  BY <1>1, <1>2, <1>3, <1>4

LEMMA PendingMaps ==
    ASSUME SafetyInv, NEW a, NEW m \in Pending(a)
    PROVE  m \in Promise!Unread(a)
BY DEF Pending, To, Journaled, Promise!Unread, Status

LEMMA UnreadMaps ==
    ASSUME SafetyInv, NEW a \in Agents, NEW m \in Promise!Unread(a)
    PROVE  m \in Pending(a)
<1>1. m \in Msgs /\ Status(m) = "waiting" /\ (IF m \in Journaled THEN env[m].to ELSE None) = a
  BY DEF Promise!Unread
<1>2. inbox[m] = "unread"
  BY <1>1 DEF Status, SafetyInv, TypeInv, TypeOK, JournalTypeOK
<1>3. m \in Journaled
  BY <1>1, <1>2 DEF SafetyInv, SendInv, Journaled
<1> QED
  BY <1>1, <1>2, <1>3 DEF Pending, To

LEMMA FlushMaps ==
    ASSUME SafetyInv, NEW r \in Readers, Flush(r), NEW S, S = Consumed(r)
    PROVE  Promise!Show(AddressOf[r], S)
<1>1. /\ UNCHANGED <<row, env, inbox, native, ahead>>
      /\ shown' = [m \in Msgs |-> IF m \in Consumed(r) THEN shown[m] + 1 ELSE shown[m]]
  BY DEF Flush, journalVars, sendVars, historyVars
<1>2. Consumed(r) \subseteq Pending(AddressOf[r]) /\ Consumed(r) \subseteq Msgs
  BY DEF Flush, Consumed, SafetyInv, LockInv, ReadInv, Pending, To, Journaled
<1>3. Consumed(r) \subseteq Promise!Unread(AddressOf[r])
  BY <1>2, PendingMaps
<1>4. shown \in [Msgs -> Nat]
  BY DEF SafetyInv, TypeInv, TypeOK
<1>5. {m \in Msgs : shown'[m] > 0} = {m \in Msgs : shown[m] > 0} \cup Consumed(r)
  BY <1>1, <1>2, <1>4
<1>6. \A m \in Msgs : Status(m)' = Status(m)
  BY <1>1 DEF Status, Journaled
<1> QED
  BY <1>1, <1>3, <1>5, <1>6 DEF Promise!Show, Journaled

LEMMA AcknowledgeMaps ==
    ASSUME SafetyInv, AccountInv, NEW r \in Readers, Acknowledge(r),
           NEW S, S = Consumed(r)
    PROVE  Promise!Take(AddressOf[r], S)
<1> DEFINE a == AddressOf[r]
<1>1. /\ rpc[r] = "flushed" /\ UNCHANGED <<row, env, native, ahead, shown>>
      /\ inbox' = [m \in Msgs |-> IF m \in S THEN "read" ELSE inbox[m]]
  BY DEF Acknowledge, CommitRead, sendVars
<1>2. /\ S \subseteq Pending(a) /\ S \subseteq Msgs /\ a \in Agents
      /\ \A m \in S : \A x \in Pending(a) : row[x] < row[m] => x \in S
  BY <1>1, DeliveryAssumption DEF Consumed, SafetyInv, LockInv, ReadInv, Pending, To, Journaled
<1>3. S \subseteq {m \in Msgs : shown[m] > 0}
  <2> SUFFICES ASSUME NEW m \in S PROVE shown[m] > 0
    BY <1>2
  <2>1. Carried(m) /\ m \in Msgs
    BY <1>1, <1>2 DEF Carried
  <2>2. shown[m] = lost[m] + (IF inbox[m] = "read" THEN 1 ELSE 0) + 1 /\ lost[m] \in Nat
    BY <2>1 DEF AccountInv, SafetyInv, TypeInv, TypeOK
  <2> QED
    BY <2>2
<1>4. S \subseteq Promise!Unread(a)
  BY <1>2, PendingMaps
<1>5. ASSUME NEW m \in S PROVE ahead[m] \cap Promise!Unread(a) \subseteq S
  <2> SUFFICES ASSUME NEW x \in ahead[m], x \in Promise!Unread(a) PROVE x \in S
    OBVIOUS
  <2>1. row[x] < row[m]
    BY <1>2 DEF SafetyInv, OrderInv
  <2>2. x \in Pending(a)
    BY <1>2, UnreadMaps
  <2> QED
    BY <1>2, <2>1, <2>2
<1>6. \A m \in Msgs : Status(m)' = IF m \in S THEN "read" ELSE Status(m)
  BY <1>1 DEF Status, Journaled
<1>7. [m \in Msgs |-> Status(m)]' = [m \in Msgs |-> IF m \in S THEN "read"
                                                  ELSE [x \in Msgs |-> Status(x)][m]]
  BY <1>6
<1> QED
  BY <1>1, <1>3, <1>4, <1>5, <1>7 DEF Promise!Take, Journaled

LEMMA ReadMaps ==
    ASSUME SafetyInv, AccountInv, NEW r \in Readers, Read(r)
    PROVE  Promise!Next \/ UNCHANGED Promise!mailboxVars
<1>a. AddressOf[r] \in Agents /\ Consumed(r) \in SUBSET Msgs
  <2>1. batch[r] \in SUBSET Msgs
    BY DEF SafetyInv, TypeInv, TypeOK
  <2> QED
    BY <2>1, DeliveryAssumption DEF Consumed
<1>b. PICK S \in SUBSET Msgs : S = Consumed(r)
  BY <1>a
<1>1. CASE Flush(r)
  <2>1. Promise!Show(AddressOf[r], S)
    BY <1>1, <1>b, FlushMaps
  <2> QED
    BY <1>a, <2>1 DEF Promise!Next
<1>2. CASE Acknowledge(r)
  <2>1. Promise!Take(AddressOf[r], S)
    BY <1>2, <1>b, AcknowledgeMaps
  <2> QED
    BY <1>a, <2>1 DEF Promise!Next
<1>3. CASE ~Flush(r) /\ ~Acknowledge(r)
  <2>1. UNCHANGED <<row, env, inbox, native, ahead, shown>>
    BY <1>3 DEF Read, FindReader, Poll, Advertise, RecordPollTx, ReadInbox, BeginRead,
       ReadFails, OutputFails, ReceiptLost, DropBatch, journalVars, sendVars, historyVars
  <2> QED
    BY <2>1, Stutters
<1> QED
  BY <1>1, <1>2, <1>3

(* Whatever senders, readers, the clock and sessions do, and wherever they *)
(* stop: a message is journaled first, goes to one place, and leaves the   *)
(* inbox only by a read that has shown it and left no older one behind     *)
(* (send_as, Store::inbox, InboxBatch::acknowledge).                       *)
THEOREM Implements == Spec => ImplementsMailbox
<1>1. ASSUME SafetyInv, AccountInv, [Next]_vars
      PROVE  [Promise!Next]_Promise!mailboxVars
  <2>1. CASE SetClock \/ (\E a \in Agents : ReplaceSession(a)) \/ UNCHANGED vars
    BY <2>1, WorldChanges, Stutters DEF journalVars, sendVars, readVars, historyVars
  <2> QED
    BY <1>1, <2>1, SendMaps, ReadMaps DEF Next
<1> QED
  BY <1>1, InitMaps, SafetyInvariant, AccountInvariant, PTL
     DEF Spec, ImplementsMailbox, Promise!Spec
=============================================================================
