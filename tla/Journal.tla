------------------------------ MODULE Journal ------------------------------
(***************************************************************************)
(* The private message journal of store.rs: one SQLite database shared by  *)
(* every Telephone process of a user.  A process talks to it only through  *)
(* the transactions below.  Each short transaction is one step, taken when *)
(* no other connection holds the write lock; the inbox read is the one     *)
(* transaction that stays open while its caller writes a response, so it   *)
(* is a BEGIN and a COMMIT, with `writer' naming the connection in between.*)
(*                                                                         *)
(* Uncommitted read flags are visible to their own connection only, and    *)
(* that connection looks at nothing else, so they are kept by the reader   *)
(* and applied by CommitRead.                                              *)
(***************************************************************************)
EXTENDS Naturals, Sequences, FiniteSets

CONSTANTS
    Agents,             \* agent addresses
    Codex,              \* those of the Codex runtime; the others are Claude
    Msgs,               \* message ids (UUIDs): one per send call
    None,               \* SQL NULL / Option::None
    BATCH_SIZE,         \* messages per inbox read
    MAX_PENDING,        \* unread messages per recipient
    MAX_HOPS,           \* length of a hop chain
    HISTORY_LIMIT,      \* journal entries a notice looks at
    POLLING_TTL_MS      \* how long an inbox check advertises polling

ASSUME JournalAssumption ==
    /\ Codex \subseteq Agents
    /\ IsFiniteSet(Msgs)
    /\ None \notin Msgs \cup Agents
    /\ BATCH_SIZE \in Nat \ {0}
    /\ MAX_PENDING \in Nat \ {0}
    /\ MAX_HOPS \in Nat \ {0}
    /\ HISTORY_LIMIT \in Nat \ {0}
    /\ POLLING_TTL_MS \in Nat

VARIABLES
    row,        \* messages.rowid, 0 for an id that is not in the table
    lastRow,    \* the highest rowid given out (rows are never deleted)
    env,        \* messages.envelope
    outcome,    \* messages.outcome
    inbox,      \* the inbox table: "absent", "unread" or "read"
    receiving,  \* the receiving table: polling evidence by address
    notices,    \* native_queue_notices.last_id by recipient
    writer      \* the connection whose transaction is open

journalVars == <<row, lastRow, env, outcome, inbox, receiving, notices, writer>>

Kinds == {"inform", "request", "reply", "event"}

Outcomes == {"none", "prepared", "queued", "accepted", "unconfirmed",
             "failed-or-uncertain"}

(* An envelope as the journal stores it; the body and the names are left out. *)
Envelope == [from : Agents, to : Agents, kind : Kinds,
             reply_to : Msgs \cup {None}, conversation : Msgs,
             hop_chain : Seq(Agents)]

JournalInit ==
    /\ row = [m \in Msgs |-> 0]
    /\ lastRow = 0
    /\ env = [m \in Msgs |-> None]
    /\ outcome = [m \in Msgs |-> "none"]
    /\ inbox = [m \in Msgs |-> "absent"]
    /\ receiving = [a \in Agents |-> None]
    /\ notices = [a \in Agents |-> None]
    /\ writer = None

Journaled == {m \in Msgs : row[m] # 0}
To(a) == {m \in Journaled : env[m].to = a}
Pending(a) == {m \in To(a) : inbox[m] = "unread"}

(* The n members of S with the highest and with the lowest rowids           *)
(* (ORDER BY rowid DESC LIMIT n, ORDER BY rowid LIMIT n).                   *)
NewestRows(S, n) == {m \in S : Cardinality({x \in S : row[x] > row[m]}) < n}
OldestRows(S, n) == {m \in S : Cardinality({x \in S : row[x] < row[m]}) < n}

-----------------------------------------------------------------------------
(* prepare: a draft gets its ancestry from the journal, is validated and is *)
(* inserted.  A draft is [from, to, kind, reply_to].                        *)

(* Mutant: the recipient of a message may pass its conversation on.        *)
AncestryForwards(d) ==
    d.reply_to = None \/ /\ d.reply_to \in Journaled
                         /\ env[d.reply_to].to = d.from

AncestryOK(d) ==
    d.reply_to = None \/ /\ d.reply_to \in Journaled
                         /\ env[d.reply_to].to = d.from
                         /\ env[d.reply_to].from = d.to

Inherited(d) == IF d.reply_to = None THEN <<>> ELSE env[d.reply_to].hop_chain

AddHop(chain, a) == Append(chain, a)

Validate(e) ==
    /\ e.from # e.to
    /\ e.kind = "reply" => e.reply_to # None
    /\ Len(e.hop_chain) \in 1..MAX_HOPS
    /\ e.hop_chain[Len(e.hop_chain)] = e.from

Prepared(m, d) ==
    [from |-> d.from, to |-> d.to, kind |-> d.kind, reply_to |-> d.reply_to,
     conversation |-> IF d.reply_to = None THEN m
                      ELSE env[d.reply_to].conversation,
     hop_chain |-> AddHop(Inherited(d), d.from)]

(* Mutant: the transaction is dropped without a commit. *)
PrepareUncommitted(m, d) ==
    /\ writer = None
    /\ AncestryOK(d)
    /\ Len(Inherited(d)) < MAX_HOPS
    /\ Validate(Prepared(m, d))
    /\ env' = [env EXCEPT ![m] = Prepared(m, d)]
    /\ UNCHANGED <<row, lastRow, outcome, inbox, receiving, notices, writer>>

PrepareTx(m, d) ==
    /\ writer = None
    /\ AncestryOK(d)
    /\ Len(Inherited(d)) < MAX_HOPS
    /\ Validate(Prepared(m, d))
    /\ row' = [row EXCEPT ![m] = lastRow + 1]
    /\ lastRow' = lastRow + 1
    /\ env' = [env EXCEPT ![m] = Prepared(m, d)]
    /\ outcome' = [outcome EXCEPT ![m] = "prepared"]
    /\ UNCHANGED <<inbox, receiving, notices, writer>>

(* outcome: an autocommitted UPDATE that must change exactly one row. *)
OutcomeTx(m, value) ==
    /\ writer = None
    /\ m \in Journaled
    /\ outcome' = [outcome EXCEPT ![m] = value]
    /\ UNCHANGED <<row, lastRow, env, inbox, receiving, notices, writer>>

(* Mutant: insert_inbox replaces the row that prepare made. *)
DepositReplaces(m) ==
    /\ writer = None
    /\ inbox' = [inbox EXCEPT ![m] = IF @ = "absent" THEN "unread" ELSE @]
    /\ outcome' = [outcome EXCEPT ![m] = "inbox"]
    /\ UNCHANGED <<row, lastRow, env, receiving, notices, writer>>

(* Mutant: one unread message too many. *)
HasRoomForOneMore(a) == Cardinality(Pending(a)) <= MAX_PENDING

(* deposit and insert_inbox: a message already in the inbox is left alone, *)
(* another one needs room in its recipient's inbox.                        *)
HasRoom(a) == Cardinality(Pending(a)) < MAX_PENDING

DepositTx(m) ==
    /\ writer = None
    /\ Validate(env[m])
    /\ inbox[m] = "absent" => HasRoom(env[m].to)
    /\ inbox' = [inbox EXCEPT ![m] = IF @ = "absent" THEN "unread" ELSE @]
    /\ UNCHANGED <<row, lastRow, env, outcome, receiving, notices, writer>>

-----------------------------------------------------------------------------
(* Polling evidence. *)

RecordPollTx(a, key, now) ==
    /\ writer = None
    /\ receiving' = [receiving EXCEPT
            ![a] = [session_key |-> key, checked_at |-> now,
                    expires_at |-> now + POLLING_TTL_MS]]
    /\ UNCHANGED <<row, lastRow, env, outcome, inbox, notices, writer>>

(* Mutant: evidence of any session of the address counts. *)
ReceivingAnySession(a, key, now) ==
    /\ receiving[a] # None
    /\ receiving[a].checked_at <= now
    /\ receiving[a].expires_at > now

(* receiving: a plain read, which WAL lets through beside an open writer. *)
Receiving(a, key, now) ==
    /\ receiving[a] # None
    /\ receiving[a].session_key = key
    /\ receiving[a].checked_at <= now
    /\ receiving[a].expires_at > now

-----------------------------------------------------------------------------
(* The inbox read.  The batch is the oldest unread messages; an empty batch *)
(* of a Codex recipient may carry a notice about its native queue.          *)

Batch(a) == OldestRows(Pending(a), BATCH_SIZE)

RecentDeliveries(a) == NewestRows(To(a), HISTORY_LIMIT)

(* The channel of a delivery record is "codex native queue". *)
NativeAccepted(a) ==
    {m \in RecentDeliveries(a) :
        a \in Codex /\ inbox[m] = "absent" /\ outcome[m] = "accepted"}

(* Mutant: the history is taken in the order of the journal. *)
EarliestAccepted(a) ==
    {m \in NativeAccepted(a) : \A x \in NativeAccepted(a) : row[x] >= row[m]}

(* The one with the highest rowid, if there is any. *)
LatestAccepted(a) ==
    {m \in NativeAccepted(a) : \A x \in NativeAccepted(a) : row[x] <= row[m]}

NativeQueueNotice(a, peek) ==
    LET latest == CHOOSE m \in LatestAccepted(a) : TRUE
    IN  IF LatestAccepted(a) = {} \/ (~peek /\ notices[a] = latest)
        THEN None ELSE latest

BeginRead(c) ==
    /\ writer = None
    /\ writer' = c
    /\ UNCHANGED <<row, lastRow, env, outcome, inbox, receiving, notices>>

(* InboxBatch::acknowledge.  `batch' and `notice' are what the transaction *)
(* wrote: nothing at all when it was a peek.                               *)
CommitRead(c, a, batch, notice) ==
    /\ writer = c
    /\ writer' = None
    /\ inbox' = [m \in Msgs |-> IF m \in batch THEN "read" ELSE inbox[m]]
    /\ notices' = [notices EXCEPT ![a] = IF notice = None THEN @ ELSE notice]
    /\ UNCHANGED <<row, lastRow, env, outcome, receiving>>

(* Mutant: the connection outlives the batch. *)
DropBatchLeaks(c) ==
    /\ writer = c
    /\ UNCHANGED journalVars

(* An InboxBatch dropped without acknowledge: SQLite rolls back. *)
DropBatch(c) ==
    /\ writer = c
    /\ writer' = None
    /\ UNCHANGED <<row, lastRow, env, outcome, inbox, receiving, notices>>

-----------------------------------------------------------------------------
PollingEvidence ==
    [session_key : Nat, checked_at : Nat, expires_at : Nat]

JournalTypeOK ==
    /\ row \in [Msgs -> Nat]
    /\ lastRow \in Nat
    /\ env \in [Msgs -> Envelope \cup {None}]
    /\ outcome \in [Msgs -> Outcomes]
    /\ inbox \in [Msgs -> {"absent", "unread", "read"}]
    /\ receiving \in [Agents -> PollingEvidence \cup {None}]
    /\ notices \in [Agents -> Msgs \cup {None}]

(* The unread messages of a recipient never exceed MAX_PENDING, whatever   *)
(* depositors race for the last place (insert_inbox counts and inserts in  *)
(* one IMMEDIATE transaction).                                             *)
PendingBounded == \A a \in Agents : Cardinality(Pending(a)) <= MAX_PENDING

(* A conversation has two participants for ever: whatever chain of replies *)
(* a message descends from, it runs between the two agents of the message  *)
(* that opened the conversation, and its hop chain, never longer than      *)
(* MAX_HOPS, alternates between them (prepare's ancestry checks).          *)
TwoPartyConversations ==
    \A m \in Journaled :
        LET root == env[m].conversation
            hops == env[m].hop_chain
        IN  /\ root \in Journaled
            /\ {env[m].from, env[m].to} = {env[root].from, env[root].to}
            /\ Len(hops) <= MAX_HOPS
            /\ hops[1] = env[root].from
            /\ \A i \in 1..(Len(hops) - 1) : hops[i + 1] # hops[i]
            /\ \A i \in 1..Len(hops) : hops[i] \in {env[m].from, env[m].to}

=============================================================================
