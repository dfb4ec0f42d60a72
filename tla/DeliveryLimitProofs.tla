------------------------- MODULE DeliveryLimitProofs -------------------------
(***************************************************************************)
(* What the journal's own limits give, proved from SafetyInv: an inbox     *)
(* never holds more than MAX_PENDING unread messages, replies cannot leave *)
(* a conversation, and receipts add up.  And what no step of Delivery may  *)
(* do: choose the inbox on evidence that is not fresh or not of the        *)
(* resolved session, or take a notice back.                                *)
(***************************************************************************)
EXTENDS DeliveryProofs

(* The steps that change a row, an envelope or an inbox.                   *)
LEMMA SendChanges ==
    ASSUME NEW m \in Msgs, Send(m) \/ SenderDies(m)
    PROVE  Prepare(m) \/ Deposit(m) \/ UNCHANGED <<row, env, inbox>>
BY DEF Send, Resolve, FindSender, AdvertiseSender, Advertise, RecordPollTx, Route,
       GiveUp, DepositFails, FallBack, StartNative, NativeSent, NativeUncertain,
       Settle, OutcomeTx, SettleFails, SenderDies, journalVars

LEMMA SendKeepsReaders ==
    ASSUME NEW m \in Msgs, Send(m) \/ SenderDies(m)
    PROVE  UNCHANGED <<readVars, writer, notices, counted>>
BY DEF Send, Resolve, Prepare, PrepareTx, FindSender, AdvertiseSender, Advertise,
       RecordPollTx, Route, GiveUp, Deposit, DepositTx, DepositFails, FallBack,
       StartNative, NativeSent, NativeUncertain, Settle, OutcomeTx, SettleFails,
       SenderDies, journalVars, historyVars

LEMMA ReadChanges ==
    ASSUME NEW r \in Readers, Read(r)
    PROVE  /\ UNCHANGED <<row, lastRow, env, outcome, sendVars>>
           /\ Acknowledge(r) \/ UNCHANGED <<inbox, notices>>
BY DEF Read, FindReader, Poll, Advertise, RecordPollTx, ReadInbox, BeginRead,
       ReadFails, Flush, Acknowledge, CommitRead, OutputFails, ReceiptLost,
       DropBatch, journalVars

LEMMA WorldChanges ==
    ASSUME SetClock \/ (\E a \in Agents : ReplaceSession(a)) \/ UNCHANGED vars
    PROVE  UNCHANGED <<journalVars, sendVars, readVars, historyVars>>
BY DEF SetClock, ReplaceSession, vars

(* A new row belongs to a message that was nowhere, and that nobody had    *)
(* heard of.                                                               *)
LEMMA PrepareChanges ==
    ASSUME SafetyInv, NEW m \in Msgs, Prepare(m)
    PROVE  /\ m \notin Journaled /\ inbox[m] = "absent" /\ inbox' = inbox
           /\ Journaled' = Journaled \cup {m}
           /\ row' = [row EXCEPT ![m] = lastRow + 1] /\ lastRow \in Nat
           /\ draft[m] \in Draft /\ AncestryOK(draft[m])
           /\ env' = [env EXCEPT ![m] = Prepared(m, draft[m])]
           /\ Validate(Prepared(m, draft[m]))
           /\ Prepared(m, draft[m]) \in Envelope
<1> USE DeliveryAssumption DEF SafetyInv, TypeInv, TypeOK, JournalTypeOK
<1>1. /\ row[m] = 0 /\ inbox[m] = "absent" /\ draft[m] \in Draft
  BY DEF SendInv, Prepare
<1>2. /\ row' = [row EXCEPT ![m] = lastRow + 1]
      /\ env' = [env EXCEPT ![m] = Prepared(m, draft[m])]
      /\ inbox' = inbox /\ AncestryOK(draft[m]) /\ Validate(Prepared(m, draft[m]))
  BY DEF Prepare, PrepareTx
<1>3. lastRow \in Nat /\ lastRow + 1 # 0
  OBVIOUS
<1>4. Journaled' = Journaled \cup {m}
  BY <1>2, <1>3 DEF Journaled
<1>5. Prepared(m, draft[m]) \in Envelope
  BY <1>1, <1>2, PreparedType DEF AncestryOK
<1> QED
  BY <1>1, <1>2, <1>3, <1>4, <1>5 DEF Journaled

-----------------------------------------------------------------------------
(* PendingBounded *)

LEMMA PendingFinite ==
    ASSUME NEW a PROVE IsFiniteSet(Pending(a)) /\ Cardinality(Pending(a)) \in Nat
<1>1. Pending(a) \subseteq Msgs
  BY DEF Pending, To, Journaled
<1> QED
  BY <1>1, JournalAssumption, FS_Subset, FS_CardinalityType

LEMMA InitPendingBounded == Init => PendingBounded
<1> SUFFICES ASSUME Init, NEW a \in Agents PROVE Cardinality(Pending(a)) <= MAX_PENDING
  BY DEF PendingBounded
<1>1. Pending(a) = {}
  BY DEF Init, JournalInit, Pending, To, Journaled
<1> QED
  BY <1>1, FS_EmptySet, JournalAssumption

LEMMA NextPendingBounded ==
    ASSUME SafetyInv, PendingBounded, [Next]_vars
    PROVE  PendingBounded'
<1> USE JournalAssumption
<1>1. CASE UNCHANGED <<row, env, inbox>>
  BY <1>1 DEF PendingBounded, Pending, To, Journaled
<1>2. ASSUME NEW m \in Msgs, Prepare(m) PROVE PendingBounded'
  <2>1. \A a : Pending(a)' = Pending(a)
    <3> SUFFICES ASSUME NEW a PROVE Pending(a)' = Pending(a)
      OBVIOUS
    <3>1. /\ m \notin Journaled /\ inbox[m] = "absent" /\ inbox' = inbox
          /\ Journaled' = Journaled \cup {m}
          /\ \A x \in Journaled : env'[x] = env[x]
      <4>1. /\ m \notin Journaled /\ inbox[m] = "absent" /\ inbox' = inbox
            /\ Journaled' = Journaled \cup {m}
            /\ env' = [env EXCEPT ![m] = Prepared(m, draft[m])]
        BY <1>2, PrepareChanges
      <4>2. env \in [Msgs -> Envelope \cup {None}] /\ Journaled \subseteq Msgs
        BY DEF SafetyInv, TypeInv, TypeOK, JournalTypeOK, Journaled
      <4> QED
        BY <4>1, <4>2
    <3> QED
      BY <3>1 DEF Pending, To
  <2> QED
    BY <2>1 DEF PendingBounded
<1>3. ASSUME NEW m \in Msgs, Deposit(m) PROVE PendingBounded'
  <2>1. /\ inbox[m] = "absent" /\ inbox' = [inbox EXCEPT ![m] = "unread"]
        /\ HasRoom(env[m].to) /\ UNCHANGED <<row, env>>
    BY <1>3 DEF Deposit, DepositTx, SafetyInv, SendInv
  <2>2. inbox \in [Msgs -> {"absent", "unread", "read"}]
    BY DEF SafetyInv, TypeInv, TypeOK, JournalTypeOK
  <2> SUFFICES ASSUME NEW a \in Agents PROVE Cardinality(Pending(a)') <= MAX_PENDING
    BY DEF PendingBounded
  <2>3. CASE a = env[m].to
    <3>1. m \notin Pending(a)
      BY <2>1 DEF Pending
    <3>2. Pending(a)' \subseteq Pending(a) \cup {m}
      BY <2>1, <2>2 DEF Pending, To, Journaled
    <3>3. /\ IsFiniteSet(Pending(a) \cup {m})
          /\ Cardinality(Pending(a) \cup {m}) = Cardinality(Pending(a)) + 1
      BY <3>1, PendingFinite, FS_AddElement
    <3>4. Cardinality(Pending(a)') <= Cardinality(Pending(a) \cup {m})
      BY <3>2, <3>3, FS_Subset
    <3>5. Cardinality(Pending(a)) < MAX_PENDING
      BY <2>1, <2>3 DEF HasRoom
    <3>6. Cardinality(Pending(a)') \in Nat
      BY <3>2, <3>3, FS_Subset, FS_CardinalityType
    <3> QED
      BY <3>3, <3>4, <3>5, <3>6, PendingFinite
  <2>4. CASE a # env[m].to
    <3>1. Pending(a)' = Pending(a)
      BY <2>1, <2>2, <2>4 DEF Pending, To, Journaled
    <3> QED
      BY <3>1 DEF PendingBounded
  <2> QED
    BY <2>3, <2>4
<1>4. ASSUME NEW r \in Readers, Acknowledge(r) PROVE PendingBounded'
  <2> SUFFICES ASSUME NEW a \in Agents PROVE Cardinality(Pending(a)') <= MAX_PENDING
    BY DEF PendingBounded
  <2>1. Pending(a)' \subseteq Pending(a)
    BY <1>4 DEF Acknowledge, CommitRead, Pending, To, Journaled
  <2>2. /\ Cardinality(Pending(a)') <= Cardinality(Pending(a))
        /\ Cardinality(Pending(a)') \in Nat
    BY <2>1, PendingFinite, FS_Subset, FS_CardinalityType
  <2> QED
    BY <2>2, PendingFinite DEF PendingBounded
<1>5. ASSUME NEW r \in Readers, Read(r), ~Acknowledge(r) PROVE PendingBounded'
  BY <1>1, <1>5, ReadChanges
<1>6. CASE SetClock \/ (\E a \in Agents : ReplaceSession(a)) \/ UNCHANGED vars
  BY <1>1, <1>6, WorldChanges DEF journalVars
<1> QED
  BY <1>1, <1>2, <1>3, <1>4, <1>5, <1>6, SendChanges DEF Next

(* Whatever depositors race for the last places, a recipient never has     *)
(* more than MAX_PENDING unread messages (insert_inbox).                   *)
THEOREM PendingBoundedTheorem == Spec => []PendingBounded
BY InitPendingBounded, NextPendingBounded, SafetyInvariant, PTL DEF Spec

-----------------------------------------------------------------------------
(* TwoPartyConversations *)

(* A message of the journal passed validate, and the conversation of its   *)
(* own is the one its ancestry says.                                       *)
Conversing(e, root) ==
    /\ e \in Envelope
    /\ Validate(e)
    /\ {e.from, e.to} = {root.from, root.to}
    /\ e.hop_chain[1] = root.from
    /\ \A i \in 1..(Len(e.hop_chain) - 1) : e.hop_chain[i + 1] # e.hop_chain[i]
    /\ \A i \in 1..Len(e.hop_chain) : e.hop_chain[i] \in {e.from, e.to}

InConversation(m) ==
    /\ env[m].conversation \in Journaled
    /\ Conversing(env[m], env[env[m].conversation])

ConversationInv == \A m \in Journaled : InConversation(m)

(* A reply goes on where its parent ended, so that the new hop differs from *)
(* the last one and the parties stay the same two.                         *)
LEMMA ReplyConverses ==
    ASSUME NEW p, NEW e, NEW root, Conversing(p, root), e \in Envelope, Validate(e),
           e.from = p.to, e.to = p.from, e.hop_chain = Append(p.hop_chain, e.from)
    PROVE  Conversing(e, root)
<1> DEFINE hops == p.hop_chain
           n == Len(hops)
<1>1. p \in Envelope /\ e \in Envelope /\ Validate(p)
  BY DEF Conversing
<1>2. /\ hops \in Seq(Agents) /\ Len(hops) \in Nat /\ e.from \in Agents
  BY <1>1 DEF Envelope
<1>3. /\ n \in Nat /\ n >= 1 /\ hops[n] = p.from
  BY <1>1, <1>2, JournalAssumption DEF Validate
<1>4. e.from # e.to
  BY DEF Validate
<1>5. {e.from, e.to} = {root.from, root.to}
  <2>1. {p.from, p.to} = {root.from, root.to}
    BY DEF Conversing
  <2> QED
    BY <2>1
<1>6. /\ hops[1] = root.from
      /\ \A i \in 1..(n - 1) : hops[i + 1] # hops[i]
      /\ \A i \in 1..n : hops[i] \in {p.from, p.to}
  BY DEF Conversing
<1> HIDE DEF hops
<1>7. /\ Len(e.hop_chain) = n + 1
      /\ \A i \in 1..n : e.hop_chain[i] = hops[i]
      /\ e.hop_chain[n + 1] = e.from
  BY <1>2 DEF hops, n
<1> HIDE DEF n
<1>8. ASSUME NEW i \in 1..n PROVE e.hop_chain[i + 1] # e.hop_chain[i]
  <2>1. CASE i = n
    BY <1>3, <1>7, <1>4, <2>1
  <2>2. CASE i # n
    <3>1. i \in 1..(n - 1) /\ i + 1 \in 1..n
      BY <1>3, <2>2
    <3> QED
      BY <1>7, <1>6, <3>1
  <2> QED
    BY <2>1, <2>2
<1>9. ASSUME NEW i \in 1..(n + 1) PROVE e.hop_chain[i] \in {e.from, e.to}
  <2>1. CASE i = n + 1
    BY <1>7, <2>1
  <2>2. CASE i # n + 1
    <3>1. i \in 1..n
      BY <1>3, <2>2
    <3>2. hops[i] \in {p.from, p.to}
      BY <1>6, <3>1
    <3> QED
      BY <1>7, <3>1, <3>2
  <2> QED
    BY <2>1, <2>2
<1>10. e.hop_chain[1] = root.from
  BY <1>3, <1>7, <1>6
<1>11. Len(e.hop_chain) - 1 = n
  BY <1>3, <1>7
<1> QED
  BY <1>1, <1>7, <1>8, <1>9, <1>10, <1>11, <1>5 DEF Conversing

LEMMA PrepareConversation ==
    ASSUME SafetyInv, ConversationInv, NEW m \in Msgs, Prepare(m)
    PROVE  ConversationInv'
<1> DEFINE d == draft[m]
           e == Prepared(m, d)
<1>1. /\ m \notin Journaled /\ Journaled' = Journaled \cup {m}
      /\ d \in Draft /\ AncestryOK(d) /\ Validate(e) /\ e \in Envelope
      /\ env' = [env EXCEPT ![m] = e]
  BY PrepareChanges
<1>2. env \in [Msgs -> Envelope \cup {None}] /\ Journaled \subseteq Msgs
  BY DEF SafetyInv, TypeInv, TypeOK, JournalTypeOK, Journaled
<1>3. env'[m] = e /\ \A x \in Journaled : env'[x] = env[x]
  BY <1>1, <1>2
<1>4. ASSUME NEW x \in Journaled
      PROVE  InConversation(x)'
  <2>1. env[x].conversation \in Journaled /\ Conversing(env[x], env[env[x].conversation])
    BY DEF ConversationInv, InConversation
  <2>2. env'[x] = env[x] /\ env'[env[x].conversation] = env[env[x].conversation]
    BY <1>3, <2>1
  <2> QED
    BY <1>1, <2>1, <2>2 DEF InConversation
<1>5. InConversation(m)'
  <2>1. CASE d.reply_to = None
    <3>1. e.hop_chain = <<e.from>> /\ e.conversation = m
      BY <2>1 DEF Prepared, Inherited, AddHop
    <3>2. Len(e.hop_chain) = 1 /\ e.hop_chain[1] = e.from
      BY <3>1
    <3> HIDE DEF e
    <3>3. Conversing(e, e)
      BY <1>1, <3>2 DEF Conversing
    <3> QED
      BY <1>1, <1>3, <3>1, <3>3 DEF InConversation
  <2>2. CASE d.reply_to # None
    <3> DEFINE p == env[d.reply_to]
    <3>1. d.reply_to \in Journaled /\ p.to = d.from /\ p.from = d.to
      BY <1>1, <2>2 DEF AncestryOK
    <3>2. p.conversation \in Journaled /\ Conversing(p, env[p.conversation])
      BY <3>1 DEF ConversationInv, InConversation
    <3>3. /\ e.hop_chain = Append(p.hop_chain, e.from)
          /\ e.conversation = p.conversation /\ e.from = d.from /\ e.to = d.to
      BY <2>2 DEF Prepared, Inherited, AddHop
    <3> HIDE DEF e, p
    <3>4. Conversing(e, env[p.conversation])
      BY <1>1, <3>1, <3>2, <3>3, ReplyConverses
    <3> QED
      BY <1>1, <1>3, <3>2, <3>3, <3>4 DEF InConversation
  <2> QED
    BY <2>1, <2>2
<1> QED
  BY <1>1, <1>4, <1>5 DEF ConversationInv

LEMMA NextConversation ==
    ASSUME SafetyInv, ConversationInv, [Next]_vars
    PROVE  ConversationInv'
<1>1. CASE UNCHANGED <<row, env>>
  BY <1>1 DEF ConversationInv, InConversation, Journaled
<1>2. ASSUME NEW m \in Msgs, Send(m) \/ SenderDies(m) PROVE ConversationInv'
  BY <1>1, <1>2, SendChanges, PrepareConversation DEF Deposit, DepositTx
<1>3. ASSUME NEW r \in Readers, Read(r) PROVE ConversationInv'
  BY <1>1, <1>3, ReadChanges
<1>4. CASE SetClock \/ (\E a \in Agents : ReplaceSession(a)) \/ UNCHANGED vars
  BY <1>1, <1>4, WorldChanges DEF journalVars
<1> QED
  BY <1>2, <1>3, <1>4 DEF Next

(* However long a chain of replies is and whoever tries to join it, it runs *)
(* between the two agents that opened it, alternates between them and is   *)
(* not longer than MAX_HOPS (Store::prepare, Envelope::validate).          *)
THEOREM TwoPartyTheorem == Spec => []TwoPartyConversations
<1>1. Init => ConversationInv
  BY DEF Init, JournalInit, ConversationInv, Journaled
<1>2. ConversationInv => TwoPartyConversations
  <2>1. ASSUME NEW e, NEW root, Conversing(e, root)
        PROVE  /\ {e.from, e.to} = {root.from, root.to}
               /\ Len(e.hop_chain) <= MAX_HOPS
               /\ e.hop_chain[1] = root.from
               /\ \A i \in 1..(Len(e.hop_chain) - 1) : e.hop_chain[i + 1] # e.hop_chain[i]
               /\ \A i \in 1..Len(e.hop_chain) : e.hop_chain[i] \in {e.from, e.to}
    <3>1. Len(e.hop_chain) <= MAX_HOPS
      BY <2>1, JournalAssumption DEF Conversing, Validate
    <3> QED
      BY <2>1, <3>1 DEF Conversing
  <2> QED
    BY <2>1 DEF ConversationInv, InConversation, TwoPartyConversations
<1> QED
  BY <1>1, <1>2, NextConversation, SafetyInvariant, PTL DEF Spec

-----------------------------------------------------------------------------
(* ReceiptAccounting *)

(* A response that has been written and whose COMMIT is still to come has  *)
(* carried m.                                                              *)
Carried(m) == \E r \in Readers : rpc[r] = "flushed" /\ m \in Consumed(r)

AccountInv ==
    \A m \in Msgs :
        shown[m] = lost[m] + (IF inbox[m] = "read" THEN 1 ELSE 0)
                           + (IF Carried(m) THEN 1 ELSE 0)

(* Only the holder of the write lock can be about to commit. *)
LEMMA OneCarrier ==
    ASSUME SafetyInv, NEW r \in Readers, rpc[r] \in {"output", "flushed"}
    PROVE  \A q \in Readers : rpc[q] \in {"output", "flushed"} => q = r
BY DEF SafetyInv, LockInv

LEMMA CarriersCounted ==
    ASSUME SafetyInv, NEW m \in Msgs
    PROVE  Cardinality({r \in Readers : rpc[r] = "flushed" /\ m \in Consumed(r)})
               = IF Carried(m) THEN 1 ELSE 0
<1> DEFINE C == {r \in Readers : rpc[r] = "flushed" /\ m \in Consumed(r)}
<1>1. CASE Carried(m)
  <2>1. PICK r \in Readers : rpc[r] = "flushed" /\ m \in Consumed(r)
    BY <1>1 DEF Carried
  <2>2. C = {r}
    BY <2>1, OneCarrier
  <2>3. Cardinality(C) = 1
    BY <2>2, FS_Singleton
  <2> QED
    BY <1>1, <2>3
<1>2. CASE ~Carried(m)
  <2>1. C = {}
    BY <1>2 DEF Carried
  <2>2. Cardinality(C) = 0
    BY <2>1, FS_EmptySet
  <2> QED
    BY <1>2, <2>2
<1> QED
  BY <1>1, <1>2

LEMMA ReadAccount ==
    ASSUME SafetyInv, AccountInv, NEW r \in Readers, Read(r)
    PROVE  AccountInv'
<1> USE DEF AccountInv
<1>a. /\ shown \in [Msgs -> Nat] /\ lost \in [Msgs -> Nat]
      /\ rpc \in [Readers -> {"idle", "found", "polled", "output", "flushed"}]
      /\ inbox \in [Msgs -> {"absent", "unread", "read"}]
  BY DEF SafetyInv, TypeInv, TypeOK, JournalTypeOK
<1>b. Consumed(r) \subseteq Msgs
  BY DEF Consumed, SafetyInv, TypeInv, TypeOK
<1>1. CASE FindReader(r) \/ Poll(r) \/ ReadFails(r)
  <2>1. /\ rpc[r] # "flushed" /\ rpc'[r] # "flushed"
        /\ \A q \in Readers : q # r => rpc'[q] = rpc[q]
        /\ UNCHANGED <<shown, lost, inbox, batch, peek>>
    BY <1>1, <1>a DEF FindReader, Poll, Advertise, RecordPollTx, ReadFails, journalVars
  <2>2. \A m \in Msgs : Carried(m)' <=> Carried(m)
    BY <2>1 DEF Carried, Consumed
  <2> QED
    BY <2>1, <2>2
<1>2. ASSUME NEW p \in BOOLEAN, ReadInbox(r, p) PROVE AccountInv'
  <2>1. /\ \A q \in Readers : rpc[q] # "flushed"
        /\ \A q \in Readers : rpc'[q] # "flushed"
        /\ UNCHANGED <<shown, lost, inbox>>
    BY <1>2, <1>a, DeliveryAssumption DEF ReadInbox, BeginRead, SafetyInv, LockInv
  <2> QED
    BY <2>1 DEF Carried
<1>3. CASE Flush(r)
  <2>1. /\ rpc[r] = "output" /\ rpc' = [rpc EXCEPT ![r] = "flushed"]
        /\ shown' = [m \in Msgs |-> IF m \in Consumed(r) THEN shown[m] + 1 ELSE shown[m]]
        /\ UNCHANGED <<lost, inbox, batch, peek>>
    BY <1>3 DEF Flush, journalVars
  <2>2. \A q \in Readers : rpc[q] # "flushed" /\ (rpc'[q] = "flushed" <=> q = r)
    BY <1>a, <2>1, OneCarrier
  <2>3. \A m \in Msgs : ~Carried(m) /\ (Carried(m)' <=> m \in Consumed(r))
    BY <2>1, <2>2 DEF Carried, Consumed
  <2> QED
    BY <1>a, <2>1, <2>3
<1>4. CASE Acknowledge(r) \/ ReceiptLost(r) \/ OutputFails(r)
  <2>1. /\ rpc[r] \in {"output", "flushed"} /\ rpc' = [rpc EXCEPT ![r] = "idle"]
    BY <1>4 DEF Acknowledge, ReceiptLost, OutputFails, Close
  <2>2. \A q \in Readers : rpc'[q] # "flushed" /\ (rpc[q] = "flushed" => q = r)
    BY <1>a, <2>1, OneCarrier
  <2>3. \A m \in Msgs : ~Carried(m)' /\ (Carried(m) <=> rpc[r] = "flushed" /\ m \in Consumed(r))
    BY <2>2 DEF Carried
  <2>4. \A m \in Consumed(r) : inbox[m] = "unread"
    BY <2>1 DEF SafetyInv, LockInv, ReadInv, Consumed, Pending
  <2>5. CASE Acknowledge(r)
    <3>1. /\ rpc[r] = "flushed" /\ UNCHANGED <<shown, lost>>
          /\ inbox' = [m \in Msgs |-> IF m \in Consumed(r) THEN "read" ELSE inbox[m]]
      BY <2>5 DEF Acknowledge, CommitRead
    <3> QED
      BY <1>a, <1>b, <2>3, <2>4, <3>1
  <2>6. CASE ReceiptLost(r)
    <3>1. /\ rpc[r] = "flushed" /\ UNCHANGED <<shown, inbox>>
          /\ lost' = [m \in Msgs |-> IF m \in Consumed(r) THEN lost[m] + 1 ELSE lost[m]]
      BY <2>6 DEF ReceiptLost, DropBatch
    <3> QED
      BY <1>a, <1>b, <2>3, <2>4, <3>1
  <2>7. CASE OutputFails(r)
    <3>1. rpc[r] = "output" /\ UNCHANGED <<shown, lost, inbox>>
      BY <2>7 DEF OutputFails, DropBatch
    <3> QED
      BY <1>a, <2>3, <3>1
  <2> QED
    BY <1>4, <2>5, <2>6, <2>7
<1> QED
  BY <1>1, <1>2, <1>3, <1>4 DEF Read

LEMMA NextAccount ==
    ASSUME SafetyInv, AccountInv, [Next]_vars
    PROVE  AccountInv'
<1>1. ASSUME UNCHANGED <<readVars>>, \A m \in Msgs : inbox'[m] = "read" <=> inbox[m] = "read"
      PROVE  AccountInv'
  BY <1>1 DEF AccountInv, Carried, Consumed, readVars
<1>2. ASSUME NEW m \in Msgs, Send(m) \/ SenderDies(m) PROVE AccountInv'
  <2>1. \A x \in Msgs : inbox'[x] = "read" <=> inbox[x] = "read"
    <3>1. CASE Deposit(m)
      BY <3>1 DEF Deposit, DepositTx, SafetyInv, TypeInv, TypeOK, JournalTypeOK, SendInv
    <3>2. CASE Prepare(m)
      BY <3>2 DEF Prepare, PrepareTx
    <3> QED
      BY <1>2, <3>1, <3>2, SendChanges
  <2> QED
    BY <1>1, <1>2, <2>1, SendKeepsReaders
<1>3. ASSUME NEW r \in Readers, Read(r) PROVE AccountInv'
  BY <1>3, ReadAccount
<1>4. CASE SetClock \/ (\E a \in Agents : ReplaceSession(a)) \/ UNCHANGED vars
  BY <1>1, <1>4, WorldChanges DEF journalVars
<1> QED
  BY <1>2, <1>3, <1>4 DEF Next

LEMMA AccountInvariant == Spec => []AccountInv
<1>1. Init => AccountInv
  BY DEF Init, JournalInit, AccountInv, Carried
<1> QED
  BY <1>1, NextAccount, SafetyInvariant, PTL DEF Spec

(* No message is marked read unseen, and none is seen twice unless a       *)
(* receipt was lost after its output, whatever number of readers share an  *)
(* inbox (InboxBatch::acknowledge, Store::inbox).                          *)
THEOREM ReceiptAccountingTheorem == Spec => []ReceiptAccounting
<1>1. SafetyInv /\ AccountInv => ReceiptAccounting
  BY CarriersCounted DEF AccountInv, ReceiptAccounting
<1> QED
  BY <1>1, SafetyInvariant, AccountInvariant, PTL

-----------------------------------------------------------------------------

(* The evidence of an address is its last poll under that session key.     *)
EvidenceInv ==
    \A a \in Agents : receiving[a] # None =>
        LET e == receiving[a]
        IN  /\ polled[a][e.session_key] = e.checked_at
            /\ e.expires_at = e.checked_at + POLLING_TTL_MS

LEMMA AdvertiseEvidence ==
    ASSUME TypeOK, EvidenceInv, NEW a \in Agents, NEW p \in Msgs \cup Readers,
           poller[p] # None, Advertise(p, a)
    PROVE  EvidenceInv'
<1>1. /\ poller[p] \in 0..MaxSession
      /\ polled \in [Agents -> [0..MaxSession -> Nat \cup {None}]]
      /\ receiving \in [Agents -> PollingEvidence \cup {None}]
  BY DEF TypeOK, JournalTypeOK
<1>2. /\ receiving' = [receiving EXCEPT
            ![a] = [session_key |-> poller[p], checked_at |-> now,
                    expires_at |-> now + POLLING_TTL_MS]]
      /\ polled' = [polled EXCEPT ![a][poller[p]] = now]
  BY DEF Advertise, RecordPollTx
<1>3. /\ receiving'[a] = [session_key |-> poller[p], checked_at |-> now,
                          expires_at |-> now + POLLING_TTL_MS]
      /\ polled'[a][poller[p]] = now
  BY <1>1, <1>2
<1>4. \A b \in Agents : b # a => receiving'[b] = receiving[b] /\ polled'[b] = polled[b]
  BY <1>1, <1>2
<1> QED
  BY <1>3, <1>4 DEF EvidenceInv

LEMMA NextEvidence ==
    ASSUME SafetyInv, EvidenceInv, [Next]_vars
    PROVE  EvidenceInv'
<1>a. TypeOK /\ TypeInv
  BY DEF SafetyInv, TypeInv
<1>1. CASE UNCHANGED <<receiving, polled>>
  BY <1>1 DEF EvidenceInv
<1>2. ASSUME NEW m \in Msgs, AdvertiseSender(m) PROVE EvidenceInv'
  <2>1. poller[m] # None /\ env[m].from \in Agents
    BY <1>2, <1>a DEF AdvertiseSender, TypeInv, Journaled, Envelope
  <2> QED
    BY <1>2, <1>a, <2>1, AdvertiseEvidence DEF AdvertiseSender
<1>3. ASSUME NEW r \in Readers, Poll(r) PROVE EvidenceInv'
  <2>1. poller[r] # None /\ AddressOf[r] \in Agents
    BY <1>3, <1>a, DeliveryAssumption DEF Poll, TypeInv
  <2> QED
    BY <1>3, <1>a, <2>1, AdvertiseEvidence DEF Poll
<1>4. ASSUME NEW m \in Msgs, Send(m) \/ SenderDies(m)
      PROVE  AdvertiseSender(m) \/ UNCHANGED <<receiving, polled>>
  BY <1>4 DEF Send, Resolve, Prepare, PrepareTx, FindSender, Route, GiveUp, Deposit,
       DepositTx, DepositFails, FallBack, StartNative, NativeSent, NativeUncertain,
       Settle, OutcomeTx, SettleFails, SenderDies, journalVars, historyVars
<1>5. ASSUME NEW r \in Readers, Read(r)
      PROVE  Poll(r) \/ UNCHANGED <<receiving, polled>>
  BY <1>5 DEF Read, FindReader, ReadInbox, BeginRead, ReadFails, Flush, Acknowledge,
       CommitRead, OutputFails, ReceiptLost, DropBatch, journalVars, historyVars
<1>6. CASE SetClock \/ (\E a \in Agents : ReplaceSession(a)) \/ UNCHANGED vars
  BY <1>1, <1>6, WorldChanges DEF journalVars, historyVars
<1> QED
  BY <1>1, <1>2, <1>3, <1>4, <1>5, <1>6 DEF Next

(* A send call leaves `route' for the inbox by Route only. *)
LEMMA OnlyRouteRoutes ==
    ASSUME SafetyInv, [Next]_vars, NEW m \in Msgs, pc[m] = "route", pc'[m] = "deposit"
    PROVE  Route(m)
<1>1. pc \in [Msgs -> SendLabels]
  BY DEF SafetyInv, TypeInv, TypeOK
<1>2. ASSUME NEW x \in Msgs, Send(x) \/ SenderDies(x), x # m PROVE pc'[m] = pc[m]
  BY <1>1, <1>2 DEF Send, Resolve, Prepare, FindSender, AdvertiseSender, Route, GiveUp,
       Deposit, DepositFails, FallBack, StartNative, NativeSent, NativeUncertain,
       Settle, SettleFails, SenderDies, Goto
<1>3. CASE Send(m) \/ SenderDies(m)
  BY <1>1, <1>3 DEF Send, Resolve, Prepare, FindSender, AdvertiseSender, GiveUp,
       Deposit, DepositFails, FallBack, StartNative, NativeSent, NativeUncertain,
       Settle, SettleFails, SenderDies, Goto
<1>4. ASSUME NEW r \in Readers, Read(r) PROVE FALSE
  BY <1>4, ReadChanges DEF sendVars
<1>5. CASE SetClock \/ (\E a \in Agents : ReplaceSession(a)) \/ UNCHANGED vars
  BY <1>5, WorldChanges DEF sendVars
<1> QED
  BY <1>2, <1>3, <1>4, <1>5 DEF Next

(* The inbox is chosen unasked only on fresh evidence of the very session  *)
(* that was resolved, whatever the clock does, whoever polls and whatever  *)
(* sessions replace one another (send_as, Store::receiving).               *)
THEOREM FreshOwnEvidenceTheorem == Spec => FreshOwnEvidence
<1>1. Init => EvidenceInv
  BY DEF Init, JournalInit, EvidenceInv
<1>2. ASSUME SafetyInv, EvidenceInv, [Next]_vars, NEW m \in Msgs,
             pc[m] = "route", pc'[m] = "deposit", draft[m].delivery = "auto"
      PROVE  LET at == polled[env[m].to][key[m]]
             IN  at # None /\ at <= now /\ now < at + POLLING_TTL_MS
  <2>1. PollingTarget(m)
    BY <1>2, OnlyRouteRoutes DEF Route, Goto, SafetyInv, TypeInv, TypeOK
  <2> DEFINE e == receiving[env[m].to]
  <2>2. /\ e # None /\ e.session_key = key[m] /\ e.checked_at <= now /\ e.expires_at > now
    BY <2>1 DEF PollingTarget, Receiving
  <2>3. env[m].to \in Agents
    BY <1>2 DEF SafetyInv, TypeInv, Envelope
  <2>4. e \in PollingEvidence
    BY <2>2, <2>3, <1>2 DEF SafetyInv, TypeInv, TypeOK, JournalTypeOK
  <2>5. /\ polled[env[m].to][key[m]] = e.checked_at
        /\ e.expires_at = e.checked_at + POLLING_TTL_MS
    BY <1>2, <2>2, <2>3 DEF EvidenceInv
  <2>6. e.checked_at \in Nat /\ e.checked_at # None
    BY <2>4, DeliveryAssumption DEF PollingEvidence
  <2> QED
    BY <2>2, <2>5, <2>6
<1>3. SafetyInv /\ EvidenceInv /\ [Next]_vars =>
        [\A m \in Msgs :
             pc[m] = "route" /\ pc'[m] = "deposit" /\ draft[m].delivery = "auto" =>
                LET at == polled[env[m].to][key[m]]
                IN  at # None /\ at <= now /\ now < at + POLLING_TTL_MS]_vars
  BY <1>2
<1> QED
  BY <1>1, <1>3, NextEvidence, SafetyInvariant, PTL DEF Spec, FreshOwnEvidence

-----------------------------------------------------------------------------
(* NoticesAdvance *)

AcceptedRows(a) == {m \in To(a) : inbox[m] = "absent" /\ outcome[m] = "accepted"}

(* What was noticed stays accepted; what an open read is about to notice is *)
(* the latest acceptance and is new; no two messages share a row.          *)
NoticeInv ==
    /\ \A a \in Agents : notices[a] # None => notices[a] \in AcceptedRows(a)
    /\ \A r \in Readers : writer = r /\ notice[r] # None =>
            /\ notice[r] \in LatestAccepted(AddressOf[r])
            /\ ~peek[r] => notices[AddressOf[r]] # notice[r]
    /\ \A x, y \in Journaled : row[x] = row[y] => x = y

(* The newest messages of a set are an upper set of it by row. *)
LEMMA NewestRowsUpper ==
    ASSUME NEW S, IsFiniteSet(S), \A x \in S : row[x] \in Nat,
           NEW n \in Nat, NEW m \in NewestRows(S, n), NEW x \in S,
           row[x] >= row[m]
    PROVE  x \in NewestRows(S, n)
<1> DEFINE Above(y) == {z \in S : row[z] > row[y]}
<1>1. m \in S /\ Cardinality(Above(m)) < n
  BY DEF NewestRows
<1>2. Above(x) \subseteq Above(m)
  BY <1>1
<1>3. IsFiniteSet(Above(m)) /\ IsFiniteSet(Above(x))
  BY FS_Subset
<1>4. /\ Cardinality(Above(x)) <= Cardinality(Above(m))
      /\ Cardinality(Above(x)) \in Nat
      /\ Cardinality(Above(m)) \in Nat
  BY <1>2, <1>3, FS_Subset, FS_CardinalityType
<1>5. Cardinality(Above(x)) < n
  BY <1>1, <1>4
<1> QED
  BY <1>5 DEF NewestRows

(* An acceptance is never taken back. *)
LEMMA AcceptedStays ==
    ASSUME SafetyInv, [Next]_vars, NEW a, NEW x \in AcceptedRows(a)
    PROVE  x \in AcceptedRows(a)'
<1> USE DEF AcceptedRows, To
<1>a. /\ x \in Msgs /\ x \in Journaled /\ outcome[x] = "accepted" /\ result[x] = "accepted"
      /\ inbox[x] = "absent"
  BY DEF Journaled, SafetyInv, SendInv
<1>b. /\ row \in [Msgs -> Nat] /\ outcome \in [Msgs -> Outcomes]
      /\ inbox \in [Msgs -> {"absent", "unread", "read"}]
  BY DEF SafetyInv, TypeInv, TypeOK, JournalTypeOK
<1>1. CASE UNCHANGED <<row, env, inbox, outcome>>
  BY <1>1 DEF Journaled
<1>2. ASSUME NEW m \in Msgs, Prepare(m) PROVE x \in AcceptedRows(a)'
  <2>1. /\ m # x /\ x \in Journaled' /\ inbox' = inbox /\ env'[x] = env[x]
    BY <1>2, <1>a, PrepareChanges DEF SafetyInv, TypeInv, TypeOK, JournalTypeOK
  <2>2. outcome'[x] = outcome[x]
    BY <1>2, <1>a, <1>b, <2>1 DEF Prepare, PrepareTx
  <2> QED
    BY <2>1, <2>2
<1>3. ASSUME NEW m \in Msgs, Deposit(m) PROVE x \in AcceptedRows(a)'
  <2>1. m # x
    BY <1>3, <1>a DEF Deposit, SafetyInv, SendInv
  <2> QED
    BY <1>3, <1>a, <1>b, <2>1 DEF Deposit, DepositTx, Journaled
<1>4. ASSUME NEW m \in Msgs, Settle(m) PROVE x \in AcceptedRows(a)'
  BY <1>4, <1>a, <1>b DEF Settle, OutcomeTx, Journaled
<1>5. ASSUME NEW r \in Readers, Acknowledge(r) PROVE x \in AcceptedRows(a)'
  <2>1. x \notin Consumed(r)
    BY <1>5, <1>a DEF Acknowledge, CommitRead, SafetyInv, ReadInv, Consumed, Pending
  <2> QED
    BY <1>5, <1>a, <2>1 DEF Acknowledge, CommitRead, Journaled
<1>6. ASSUME NEW m \in Msgs, Send(m) \/ SenderDies(m)
      PROVE  Prepare(m) \/ Deposit(m) \/ Settle(m) \/ UNCHANGED <<row, env, inbox, outcome>>
  BY <1>6 DEF Send, Resolve, FindSender, AdvertiseSender, Advertise, RecordPollTx, Route,
       GiveUp, DepositFails, FallBack, StartNative, NativeSent, NativeUncertain,
       SettleFails, SenderDies, journalVars
<1>7. ASSUME NEW r \in Readers, Read(r)
      PROVE  Acknowledge(r) \/ UNCHANGED <<row, env, inbox, outcome>>
  BY <1>7, ReadChanges
<1>8. CASE SetClock \/ (\E b \in Agents : ReplaceSession(b)) \/ UNCHANGED vars
  BY <1>1, <1>8, WorldChanges DEF journalVars
<1> QED
  BY <1>1, <1>2, <1>3, <1>4, <1>5, <1>6, <1>7, <1>8 DEF Next

LEMMA LatestAcceptedIn ==
    ASSUME NEW a, NEW m \in LatestAccepted(a)
    PROVE  m \in AcceptedRows(a) /\ m \in RecentDeliveries(a) /\ a \in Codex
BY DEF LatestAccepted, NativeAccepted, AcceptedRows, RecentDeliveries, NewestRows

(* The notice an inbox read finds is the latest acceptance, and not the    *)
(* one of last time.                                                       *)
LEMMA FoundNotice ==
    ASSUME NEW a, NEW p, NativeQueueNotice(a, p) # None
    PROVE  /\ NativeQueueNotice(a, p) \in LatestAccepted(a)
           /\ ~p => notices[a] # NativeQueueNotice(a, p)
BY DEF NativeQueueNotice

LEMMA NextRowsDistinct ==
    ASSUME SafetyInv, [Next]_vars, \A x, y \in Journaled : row[x] = row[y] => x = y
    PROVE  \A x, y \in Journaled' : row'[x] = row'[y] => x = y
<1>1. CASE UNCHANGED row
  BY <1>1 DEF Journaled
<1>2. ASSUME NEW m \in Msgs, Prepare(m)
      PROVE  \A x, y \in Journaled' : row'[x] = row'[y] => x = y
  <2>1. /\ m \notin Journaled /\ Journaled' = Journaled \cup {m}
        /\ row' = [row EXCEPT ![m] = lastRow + 1] /\ lastRow \in Nat
    BY <1>2, PrepareChanges
  <2>2. /\ row \in [Msgs -> Nat] /\ Journaled \subseteq Msgs
        /\ \A x \in Msgs : row[x] <= lastRow
    BY DEF SafetyInv, TypeInv, TypeOK, JournalTypeOK, OrderInv, Journaled
  <2>3. row'[m] = lastRow + 1 /\ \A x \in Journaled : row'[x] = row[x] /\ row[x] # lastRow + 1
    BY <2>1, <2>2
  <2> QED
    BY <2>1, <2>3
<1>3. ASSUME NEW m \in Msgs, Send(m) \/ SenderDies(m) PROVE Prepare(m) \/ UNCHANGED row
  BY <1>3, SendChanges DEF Deposit, DepositTx
<1>4. ASSUME NEW r \in Readers, Read(r) PROVE UNCHANGED row
  BY <1>4, ReadChanges
<1>5. CASE SetClock \/ (\E a \in Agents : ReplaceSession(a)) \/ UNCHANGED vars
  BY <1>1, <1>5, WorldChanges DEF journalVars
<1> QED
  BY <1>1, <1>2, <1>3, <1>4, <1>5 DEF Next

(* Nobody else writes while a read is open. *)
LEMMA OpenReadFrozen ==
    ASSUME SafetyInv, [Next]_vars, NEW r \in Readers, writer = r, writer' = r
    PROVE  UNCHANGED <<row, env, inbox, outcome, notices, notice[r], peek[r]>>
<1>a. r # None
  BY DeliveryAssumption
<1>1. ASSUME NEW m \in Msgs, Send(m) \/ SenderDies(m)
      PROVE  UNCHANGED <<row, env, inbox, outcome, notices, notice, peek>>
  BY <1>a, <1>1 DEF Send, Resolve, Prepare, PrepareTx, FindSender, AdvertiseSender,
       Advertise, RecordPollTx, Route, GiveUp, Deposit, DepositTx, DepositFails,
       FallBack, StartNative, NativeSent, NativeUncertain, Settle, OutcomeTx,
       SettleFails, SenderDies, journalVars, readVars
<1>2. ASSUME NEW q \in Readers, Read(q)
      PROVE  UNCHANGED <<row, env, inbox, outcome, notices, notice, peek>>
  BY <1>a, <1>2 DEF Read, FindReader, Poll, Advertise, RecordPollTx, ReadInbox, BeginRead,
       ReadFails, Flush, Acknowledge, CommitRead, OutputFails, ReceiptLost, DropBatch,
       journalVars
<1>3. CASE SetClock \/ (\E a \in Agents : ReplaceSession(a)) \/ UNCHANGED vars
  BY <1>3, WorldChanges DEF journalVars, readVars
<1> QED
  BY <1>1, <1>2, <1>3 DEF Next

(* A transaction is opened by the read that looks for the notice. *)
LEMMA OpenedByRead ==
    ASSUME SafetyInv, [Next]_vars, NEW r \in Readers, writer # r, writer' = r
    PROVE  \E p \in BOOLEAN : ReadInbox(r, p)
<1>a. \A q \in Readers : q # None
  BY DeliveryAssumption
<1>1. ASSUME NEW m \in Msgs, Send(m) \/ SenderDies(m) PROVE FALSE
  BY <1>1, SendKeepsReaders
<1>2. ASSUME NEW q \in Readers, Read(q) PROVE \E p \in BOOLEAN : ReadInbox(r, p)
  <2>1. CASE \E p \in BOOLEAN : ReadInbox(q, p)
    BY <2>1 DEF ReadInbox, BeginRead
  <2>2. CASE ~\E p \in BOOLEAN : ReadInbox(q, p)
    BY <1>a, <1>2, <2>2 DEF Read, FindReader, Poll, Advertise, RecordPollTx, ReadFails,
       Flush, Acknowledge, CommitRead, OutputFails, ReceiptLost, DropBatch, journalVars
  <2> QED
    BY <2>1, <2>2
<1>3. CASE SetClock \/ (\E a \in Agents : ReplaceSession(a)) \/ UNCHANGED vars
  BY <1>3, WorldChanges DEF journalVars
<1> QED
  BY <1>1, <1>2, <1>3 DEF Next

(* Notices are committed by the read that found them. *)
LEMMA NoticedByRead ==
    ASSUME SafetyInv, [Next]_vars, NEW a \in Agents, notices'[a] # notices[a]
    PROVE  \E r \in Readers : /\ Acknowledge(r) /\ AddressOf[r] = a /\ writer = r
                              /\ ~peek[r] /\ notice[r] # None /\ notices'[a] = notice[r]
<1>1. ASSUME NEW m \in Msgs, Send(m) \/ SenderDies(m) PROVE FALSE
  BY <1>1, SendKeepsReaders
<1>2. ASSUME NEW r \in Readers, Read(r)
      PROVE  /\ Acknowledge(r) /\ AddressOf[r] = a /\ writer = r
             /\ ~peek[r] /\ notice[r] # None /\ notices'[a] = notice[r]
  <2>1. Acknowledge(r)
    BY <1>2, ReadChanges
  <2>2. notices \in [Agents -> Msgs \cup {None}] /\ AddressOf[r] \in Agents
    BY DeliveryAssumption DEF SafetyInv, TypeInv, TypeOK, JournalTypeOK
  <2> QED
    BY <2>1, <2>2 DEF Acknowledge, CommitRead
<1>3. CASE SetClock \/ (\E b \in Agents : ReplaceSession(b)) \/ UNCHANGED vars
  BY <1>3, WorldChanges DEF journalVars
<1> QED
  BY <1>1, <1>2, <1>3 DEF Next

LEMMA NextNotice ==
    ASSUME SafetyInv, NoticeInv, [Next]_vars
    PROVE  NoticeInv'
<1>1. ASSUME NEW a \in Agents, notices'[a] # None PROVE notices'[a] \in AcceptedRows(a)'
  <2>1. CASE notices'[a] = notices[a]
    BY <1>1, <2>1, AcceptedStays DEF NoticeInv
  <2>2. CASE notices'[a] # notices[a]
    <3>1. PICK r \in Readers : /\ AddressOf[r] = a /\ writer = r
                               /\ notice[r] # None /\ notices'[a] = notice[r]
      BY <2>2, NoticedByRead
    <3>2. notices'[a] \in AcceptedRows(a)
      BY <3>1, LatestAcceptedIn DEF NoticeInv
    <3> QED
      BY <3>2, AcceptedStays
  <2> QED
    BY <2>1, <2>2
<1>2. ASSUME NEW r \in Readers, writer' = r, notice'[r] # None
      PROVE  /\ notice'[r] \in LatestAccepted(AddressOf[r])'
             /\ ~peek'[r] => notices'[AddressOf[r]] # notice'[r]
  <2>1. CASE writer = r
    <3>1. UNCHANGED <<row, env, inbox, outcome, notices, notice[r], peek[r]>>
      BY <1>2, <2>1, OpenReadFrozen
    <3>2. LatestAccepted(AddressOf[r])' = LatestAccepted(AddressOf[r])
      BY <3>1 DEF LatestAccepted, NativeAccepted, RecentDeliveries, NewestRows, To, Journaled
    <3> QED
      BY <1>2, <2>1, <3>1, <3>2 DEF NoticeInv
  <2>2. CASE writer # r
    <3>1. PICK p \in BOOLEAN : ReadInbox(r, p)
      BY <1>2, <2>2, OpenedByRead
    <3> DEFINE a == AddressOf[r]
    <3>2. /\ UNCHANGED <<row, env, inbox, outcome, notices>>
          /\ notice'[r] = IF Batch(a) = {} THEN NativeQueueNotice(a, p) ELSE None
          /\ peek'[r] = p
      BY <3>1 DEF ReadInbox, BeginRead, SafetyInv, TypeInv, TypeOK
    <3>3. notice'[r] = NativeQueueNotice(a, p)
      BY <1>2, <3>2
    <3>4. LatestAccepted(a)' = LatestAccepted(a)
      BY <3>2 DEF LatestAccepted, NativeAccepted, RecentDeliveries, NewestRows, To, Journaled
    <3> QED
      BY <1>2, <3>2, <3>3, <3>4, FoundNotice
  <2> QED
    BY <2>1, <2>2
<1>3. \A x, y \in Journaled' : row'[x] = row'[y] => x = y
  BY NextRowsDistinct DEF NoticeInv
<1> QED
  BY <1>1, <1>2, <1>3 DEF NoticeInv

(* A later notice is about a later row: the latest acceptance of a window  *)
(* that only moves forward.                                                *)
LEMMA LaterNotice ==
    ASSUME SafetyInv, NoticeInv, NEW a \in Agents, notices[a] # None,
           NEW y \in LatestAccepted(a), y # notices[a]
    PROVE  row[y] > row[notices[a]]
<1> DEFINE x == notices[a]
<1>1. /\ x \in AcceptedRows(a) /\ y \in AcceptedRows(a) /\ y \in RecentDeliveries(a)
      /\ a \in Codex
  BY LatestAcceptedIn DEF NoticeInv
<1>2. x \in To(a) /\ y \in To(a) /\ x \in Journaled /\ y \in Journaled
  BY <1>1 DEF AcceptedRows, To
<1>3. row[x] \in Nat /\ row[y] \in Nat /\ row[x] # row[y]
  BY <1>2 DEF Journaled, NoticeInv, SafetyInv, TypeInv, TypeOK, JournalTypeOK
<1>4. CASE x \in RecentDeliveries(a)
  <2>1. x \in NativeAccepted(a)
    BY <1>1, <1>4 DEF NativeAccepted, AcceptedRows
  <2>2. row[x] <= row[y]
    BY <2>1 DEF LatestAccepted
  <2> QED
    BY <1>3, <2>2
<1>5. CASE x \notin RecentDeliveries(a)
  <2>1. /\ IsFiniteSet(To(a)) /\ \A z \in To(a) : row[z] \in Nat
    <3>1. To(a) \subseteq Msgs
      BY DEF To, Journaled
    <3> QED
      BY <3>1, JournalAssumption, FS_Subset DEF SafetyInv, TypeInv, TypeOK, JournalTypeOK
  <2>2. ~(row[x] >= row[y])
    BY <1>1, <1>2, <1>5, <2>1, NewestRowsUpper, JournalAssumption DEF RecentDeliveries
  <2> QED
    BY <1>3, <2>2
<1> QED
  BY <1>4, <1>5

(* A notice, once committed, is replaced only by one about a later row,    *)
(* and always tells of a message that its native queue has                 *)
(* (native_queue_notice).                                                  *)
THEOREM NoticesAdvanceTheorem == Spec => NoticesAdvance
<1>1. Init => NoticeInv
  BY DeliveryAssumption DEF Init, JournalInit, NoticeInv, Journaled
<1>2. ASSUME SafetyInv, NoticeInv, [Next]_vars, NEW a \in Agents, notices'[a] # notices[a]
      PROVE  /\ notices'[a] \in native
             /\ notices[a] # None => row[notices'[a]] > row[notices[a]]
  <2>1. PICK r \in Readers : /\ AddressOf[r] = a /\ writer = r
                             /\ notice[r] # None /\ notices'[a] = notice[r]
    BY <1>2, NoticedByRead
  <2>2. notices'[a] \in LatestAccepted(a)
    BY <1>2, <2>1 DEF NoticeInv
  <2>3. notices'[a] \in native
    BY <1>2, <2>2, LatestAcceptedIn
       DEF AcceptedRows, To, Journaled, SafetyInv, SendInv, Truthful
  <2> QED
    BY <1>2, <2>2, <2>3, LaterNotice
<1>3. SafetyInv /\ NoticeInv /\ [Next]_vars =>
        [\A a \in Agents :
             notices'[a] # notices[a] =>
                /\ notices'[a] \in native
                /\ notices[a] # None => row[notices'[a]] > row[notices[a]]]_vars
  BY <1>2
<1> QED
  BY <1>1, <1>3, NextNotice, SafetyInvariant, PTL DEF Spec, NoticesAdvance
=============================================================================
