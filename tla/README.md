# Telephone in TLA+

Telephone lets coding agents (Codex and Claude sessions of one user) send each
other messages.  There is no daemon: every `telephone` command, every MCP server
and every hook is a process of its own, and they meet in one SQLite journal and
in the native channels of the two runtimes.  What can go wrong is therefore in
the interleavings of short-lived processes, in what happens when one of them
dies halfway, and in the two-thread loop of the MCP server.  This directory
models that, checks it with TLC and proves the core of it with TLAPS.

Paths below are relative to the repository's root.

## Inventory

| Part | State it keeps | Operations | Correct when |
|---|---|---|---|
| Journal (`src/store.rs`, `src/store/*`) | tables `messages`, `inbox`, `receiving`, `native_queue_notices`, `context_reminders`; the write lock | `prepare`, `outcome`, `deposit`, `inbox` + `acknowledge`, `record_poll`, `receiving`, `native_queue_notice`, `claim_context_reminder` | an inbox never exceeds its limit; ancestry cannot be reset; a read is all or nothing; older messages are read first |
| Envelope (`src/envelope.rs`) | none | `new`, `validate`, `add_hop` | hop chains are bounded and end in the sender |
| Sending (`src/send.rs`) | the progress of one call | `send_as` | journal before transport; one copy at most; the outcome is true |
| Native delivery (`src/adapters/*`) | none here; the peer's queue or socket | `deliver`, `send_uds`, `queue_message` | fallback only before anything was sent |
| Inbox and evidence (`src/inbox.rs`, `src/receiving.rs`, `cmd_inbox` of `src/main.rs`) | an open transaction during output | `read`, `advertise` | shown before marked read; evidence belongs to the session |
| MCP server (`src/mcp.rs`, `src/mcp/*`) | queue of frames, one worker, flags | requests, cancellation, `completed_work`, `write`, `serve`'s cleanup | requests are answered once; cancelled reads roll back; no deadlock with itself |
| Context hook (`src/context.rs`) | none; one row of the journal | `run`, `latest_usage` | one reminder per crossing |
| Child processes (`src/process.rs`) | process group, deadline | `run` | killed and reaped before it returns |
| Discovery (`src/registry.rs`, `src/discovery.rs`, adapters) | a budget | `discover`, `resolve` | never resolves an ambiguous or unverified name |
| Identity (`src/identity.rs`) | none | `whoami`, `for_call` | a call speaks for one address |
| Process table (`src/proc.rs`) | none | start times, ancestors | a reused pid is not taken for the session |
| Names, files, reports (`src/address.rs`, `src/runtime.rs`, `src/private_fs.rs`, `src/doctor.rs`, `src/guidance.rs`) | none | parsing, mode checks, printing | |

Interactions.  A send resolves its recipient by discovery and captures the
target's session key; it journals (`prepare`), perhaps advertises its own
address, reads the target's polling evidence, and then goes either to the inbox
table or to an adapter, which may itself fall back to the inbox; the outcome is
written last.  An inbox read advertises its address, opens a transaction, marks
a batch read *inside* it, and commits only when the response is out; the CLI
does this in one thread, the MCP server hands the open transaction from its
worker to the frame that waits in the output queue.  The hook shares only the
journal with the rest.

Hard behaviours: the order of steps of unrelated processes; death between any two
of them; a lock held during output; native sends whose result is uncertain;
wall-clock evidence about a pid that may be reused; cancellation racing a worker
that has finished, a frame that is queued, a frame that is half written; outcomes
that settle in another order than they were journaled.  `PROJECT.json` lists these
hazards at their lines, with the properties that watch them.

## Modules

| Module | Models |
|---|---|
| `Journal` | the tables and one operator per transaction |
| `Delivery` | send calls, inbox readers, the clock and sessions over one `Journal` (`EXTENDS`) |
| `Mailbox` | the abstract promise `Delivery` implements: no processes, locks or transactions |
| `McpSession` | the two threads of one MCP stdio session |
| `Receipts` | the abstract promise `McpSession` implements: no threads, frames or queues |
| `Usage` | the size of a session's context as the hook reads it from a transcript |
| `ContextReminder` | concurrent hook processes, the transcript and the reminder table (`EXTENDS Usage`) |
| `ChildProcess` | one `process::run`: the caller, the command, its descendants, pids |
| `Discovery` | reports of a bounded discovery and the state of one lookup |
| `ClaudeSessions`, `CodexThreads` | the runtimes' sessions, and each adapter's scan of them, step by step |
| `Registry` | a lookup or a listing through both scans (`EXTENDS` the two), while sessions come and go |
| `Directory` | the abstract promise `Registry` implements: no records, files, probes or budgets |
| `Identity` | who the caller is, over every line of nested runtimes and shells |
| `MCDelivery`, `MCMcpSession`, `MCContextReminder`, `MCChildProcess`, `MCRegistry`, `MCIdentity` | instances for TLC |
| `DeliveryProofs` | types, and the inductive safety invariant of `Delivery` with its consequences |
| `DeliveryLimitProofs` | what the journal's limits give (bounded inboxes, two-party conversations, receipts that add up), and what no step may do |
| `MailboxProofs` | `Delivery` implements `Mailbox` |
| `McpSessionProofs` | the invariants of an MCP session; `McpSession` implements `Receipts` |
| `ContextReminderProofs` | types, one winner per level, what a hook reads in the transcript |
| `ChildProcessProofs` | types, cleanup and output of `ChildProcess` |
| `RegistryProofs` | the inductive invariant of a lookup; `Registry` implements `Directory` |
| `IdentityProofs` | who the caller is |

**Journal.**  `row` is `messages.rowid` (0: not in the table), `env` and `outcome`
the other columns; `inbox` is that table's row, `receiving` and `notices` the
other two tables; `writer` is the connection whose `BEGIN IMMEDIATE` is open.  A
short transaction is one step that requires `writer = None`: that is what the
IMMEDIATE lock gives.  `receiving` is a plain read, which WAL lets through.  The
inbox read is a BEGIN and a COMMIT (or a rollback, `DropBatch`), because its
caller writes output in between.  Its read flags are visible to its own connection
only, so the reader keeps them until `CommitRead`.  `HISTORY_LIMIT`, `BATCH_SIZE`,
`MAX_PENDING`, `MAX_HOPS` and `POLLING_TTL_MS` are the constants of the code, here
parameters.  `insert_inbox` would also create a missing `messages` row; every
caller has prepared the message before, so the model has no such branch.

**Delivery.**  A send call is named by the id of its message; `pc[m]` is its place in
`send_as`: `resolved` (after `registry.resolve`), `advertise`/`record` (a request
advertises its sender: find the session, then write the evidence), `route` (the
choice of line 84), `deposit` (also of an adapter's fallback), `native` (an adapter
looks for its channel), `sending` (bytes may be out), `settle` (the outcome is
known, the UPDATE is to come).  `result` is what the caller will be told.  A reader
goes `idle`, `found`, `polled`, `output` (transaction open), `flushed` (response
complete, COMMIT to come).  Every step that uses the journal may instead fail
(`GiveUp`, `DepositFails`, `SettleFails`, `ReadFails`, `ReceiptLost`): a busy
timeout or a storage error, and nothing changed.  `SenderDies`, `OutputFails` and
`ReceiptLost` cover death at every step.  `NativeUncertain` covers a deadline, a
closed socket and a failing `codex queue`, of both adapters: the peer may or may
not have the message.  `shown`, `lost`, `polled`, `ahead` and `counted` are history
variables; no guard of a step reads them, except that `MaxLost` bounds `lost`.

**Mailbox.**  A message is new, journaled, then either waiting in an inbox or native,
and from waiting read.  `Take` requires that the messages were seen in a complete
response and that no older waiting message is left behind.  `Delivery` maps `status`
from the inbox row, the native set and the journal row; `seen` is what was shown.

**McpSession.**  A request gets a serial number; `output` is the `VecDeque` of frames,
`worker` the running or finished `Worker` with the stage its thread is in, `open`
the requests that own an inbox transaction.  A step of the main thread is one
request taken from the reader, one `completed_work`, or one `write`, in any order
(the loop runs them round robin).  `enqueue` fails when the queue has
`MAX_RESPONSES` frames; a byte overflow of 64 MiB may happen whenever the queue is
not empty (`MayOverflow`).  Any error ends `run`, and `serve` clears the queue and
stops the worker (`Close`, then `Stop`).

**Receipts.**  The inbox read of a request is to come, open, committed or over.
`Commit` is the last byte of a response that nobody cancelled; a request whose read is
over is answered or not, but never reads again, and one read is open at a time.
`McpSession` maps `receipt` from `open`, `committed` and the worker's stage
(`ReceiptOf`), `answered` from `written`.

**Usage** and **ContextReminder.**  The context changes in one step and its line is
written in a later one: `docs/context-management.md:44-45` says that Claude writes
transcripts asynchronously, so reminders may lag.  `pending` are the changes that wait for
their line (at most `MaxLag`), in the order in which they happened; that lines keep this
order is assumed.  The line may be a usage record of each form (aggregate counters,
iterations with zero or summed aggregates), a compaction boundary, a damaged line, or a
record whose counters overflow or are no numbers.  A `SilentChange` never gets a line, or
only one that the hook skips (another session's, a record without usage).  Lines that say
nothing of the context (zero usage, another session's, a long tool result) come at any
time.  So a hook may read a size that the context had some time ago; `written` is the size
after the last change that is in the transcript, and `ReadingIsLatest` says that the hook
reads that or nothing.  `transcript`
keeps the lines that can still be in the last `MAX_BYTES`; `Window` drops the line that
holds the first byte of the tail, as `read_usage` does.  `Decisive` is where the search
from the back ends, `ReadLine` what it then says.  A hook reads the level of the latest
usage, then claims it, then prints: three steps, and the session goes on between them.
The reader also drops a last line without its newline, so that a read that overlaps an
append is a read before or after it.  `input` and `rest` stand for the one counter that
must be there and the three that may be missing; `MaxU64` is `u64::MAX`, small enough
that a sum overflows.

**ChildProcess.**  The caller's `phase` follows `run`: set-up, the polling loop (deadline,
at most `MAX_READS` reads of each stream, status), and `ChildGuard::finish` (look,
signal the group, signal a child that has not exited, wait).  `mode` says which of the
three callers of `finish` goes on: the success path, the error path, or `Drop`.  The
command and its descendants fork, write, close, leave the group and exit at any time;
a reaped child's pid is given away as soon as its group is empty.  Draining is one
step per read; `size` counts reads, so `MAX_OUTPUT` is in reads and not in bytes.
SIGKILL is immediate.  A descendant may leave the group but not enter it again
(`setpgid` into the group of another process is left out).

**Registry.**  `pc` is the place in the scan that runs, `part` its report, `stage` whose
turn it is: Claude, Codex, then the answer, or first `find_exact` for an address that
the report does not have.  `ClaudeSessions` keeps `process` (who has a pid, since when)
and `record` (the `<pid>.json` file).  A session writes its record within `RecordDelay`
of its start; `End` removes it or, in a crash, leaves it; a pid is used again after
`ReuseAfter`.  The scan lists the files, reads each, probes its process (`is_alive`: a
denied probe counts as alive), asks `ps` once for all start times (at most `PsDelay`
off), then for each record compares start times, probes twice more
(`positively_alive`: a denied probe counts as dead) and pushes the agent.
`CodexThreads` queries one snapshot of the state database, or falls back to the rollout
logs; archived ones may still be found there.  Only the database knows nicknames: an agent
from a rollout is named `codex-<short id>` (`ShortName`), also where there is a database
that could not be used, and then the thread is not found by the nickname it answers to
(`NamesOf`); the warning about the database is what keeps that from meaning that it is
absent.  Whatever makes the code warn makes the
report incomplete: an unreadable entry, a full report, an exhausted budget, which may
be exhausted at any of its checks.  The world changes only during the scan that looks
for what changes; at any other time of the lookup a change would only make a session
less steady, and so weaken what `Directory` asks of the answer.  A running session
counts as one once its own record is written: before that nobody could find it.

**Directory.**  `steady` are the sessions that answered to the query all along the
lookup, `ever` those that could be found at some time, `ran` those that ran.  A session
that is found was there (`ever`) and is not one of several steady ones; `absent` means
that none was steady; a complete listing has every steady one; what is called verified
did run.  `Registry` maps `live` and `listed` from processes, records and threads.

**Identity.**  `chain` is the line of ancestors of the present process, `env` its three
variables, `caller` the session it really works for.  Runtimes start one another from
shells, a Claude executable may have another name (`Disguised`), the record of any Claude
host may match, be missing, stale or damaged, a parent may die and cut the line.
`verified` are the processes whose matching record the call could verify: each takes a `ps`
of its own, and one that fails is silent (`start_times` returns no time and
`address_for_pid` no address), whereas a failing `ps` of the walk itself is a refusal
(`Answered`).  `Whoami`
and `ForCall` are the functions of `identity.rs` over that state: the walk is bounded by
`MAX_ANCESTORS` as a whole, before any record is read; a Codex host decides by the
thread of the environment or of the call's metadata, a Claude host by its verified
record, and one that is called `claude` and not verified refuses; a host that neither its
name nor its record shows is passed by, and the walk goes on to outer ones.  The variables
come last.

A definition whose comment starts with *Mutant* is no part of the model: it is a
plausible defect of the definition that follows it, used to show that the property
it is listed with in `PROJECT.json` would notice.

## What the runs check

| Run | Question | Instance | Distinct states |
|---|---|---|---|
| `inbox` | `TypeOK`, `ReceiptAccounting`, `NoOvertaking`, `PendingBounded`; implements `Mailbox` | 3 inbox sends, 2 readers of one recipient, limit 2, batch 1, one lost receipt per message | 1.4 M |
| `native` | `NeverMirrored`, `JournaledFirst`, `TruthfulReports`, `NoticesAdvance`; implements `Mailbox` | 3 automatic sends, 1 reader, history 2, batch 2 | 0.9 M |
| `routing` | `FreshOwnEvidence` | a request and an automatic send, a Claude reader, clock over 0 and 1 with a TTL of 1, one session replacement | 2.3 M |
| `replies` | `TwoPartyConversations` | 3 agents, 3 messages, every reply shape to any of them, to and from the third agent too, hop limit below the longest chain | 2.3 M |
| `live` | `PendingIsRead` under `FairSpec` | 2 sends, one waiting reader, another reader of another inbox | 72 k |
| `notice` | `EachAcceptanceReported`: **violated** | 2 automatic sends, 1 reader, history 2 | counterexample |
| `session` | eight invariants of the MCP loop; implements `Receipts`; `ReceiptsEnd`, `AnsweredOrClosed`, `EofEnds` under `FairSpec` | 2 ids for 5 requests, 3 frames in the queue | 79 k |
| `reminder_concurrent` | `TypeOK`, `OneWinnerPerLevel`, `ReadingIsLatest` | 2 hooks, 3 sizes of the context (0 after a compaction), a window of 2, 2 crossings, a transcript one line behind | 1.9 M |
| `reminder_stale` | `AtMostOncePerCrossing`: **violated** | 2 hooks | counterexample |
| `child` | `KillsOnlyOwn`, `NothingLeft`, `CompleteOutput`, and `RunReturns` under `FairSpec` | 1 descendant, 1 read of output, 2 reads per poll | 1.2 M |
| `resolve` | `NoImpostor`; implements `Directory` | 2 pids, 2 sessions (one without `startedAt`), 1 thread with a nickname and a short name, 1 agent per report, 2 changes of the world | 2.4 M |
| `identity` | `NearestHost`, `InheritedIgnored` | 1 Codex and 3 Claude hosts (one disguised), 2 threads, 4 processes in the line, 3 ancestors looked at | 1.5 M |

Why the bounds are enough.  A race for the last place of an inbox needs one more
sender than there are places, and a read race two readers; a batch of 1 makes order
matter across batches, and a batch of 2 within one.  A stale notice needs a window
with two acceptances and one more outside it.  Evidence can be fresh, expired at
the very instant, of the future (clock set back), or of an earlier session: one
replacement and two instants give all of them.  A chain longer than the hop limit
needs one message more than the limit, and a conversation that is passed on a third agent.
A line behind the context is enough for a hook to read before it and another after it.
A usage that is out of sight
needs a line as long as the window (`MAX_BYTES` 2), and a level each for below, between
and above the thresholds.  A recycled pid needs a crash, a wait of `ReuseAfter` and a
start: two changes and the records an older session left at the beginning give it at
every step of the scan, and two pids make one record be read while the other's process
changes.  `ReuseAfter` is larger than `START_TOLERANCE_MILLIS` and the delay of a
record: that is the assumption under which start times tell sessions apart, and it is
why the instance cannot have it smaller.  A report of one agent is full with the second
session.  `MaxChain` is one more than `MAX_ANCESTORS`, and a line of four processes
holds a Codex host within a Claude host within a shell, or a host that its shell hides.
`MaxLost`, `MaxTime`, `MaxSession`, `MaxRequests`, `MaxCrossings`, `MaxLag`, `MaxChanges`
and `MaxChain` are the only bounds on the system itself; each caps something that would
otherwise grow for ever.  Deadlock is not checked for `MCDelivery`, where every send can
be over and every reader be waiting for a message, for `MCMcpSession`, where a closed
session does nothing, for `MCChildProcess`, where `run` has returned and every process
is gone, and for `MCIdentity`, where a call has been answered.  It is checked for
`MCContextReminder` and `MCRegistry`: a lookup always goes on.

Symmetry is used only in safety runs, over message ids, over readers of one address,
over hooks, and over the hosts and threads of `MCIdentity`: every definition treats
them alike.

### Disagreements with the documentation

*`notice`.*  `docs/codex-polling.md:38-40` says an empty inbox check "reports native
queue acceptance once per newly observed acceptance".  `native_queue_notice` stores
the id of the latest accepted row only.  When the acceptance of an older row settles
after a newer one has been noticed, the latest id is unchanged and the acceptance is
never reported.  What does hold, and is checked as `NoticesAdvance`, is that notices
only move forward.

*`reminder_stale`.*  `src/store/context.rs:1` says "At most one reminder per threshold
crossing, including concurrent hook calls".  A hook that read its transcript before the
line about the growth was in it deletes the row at level 0, after another hook has read
that line and claimed the reminder, and the next hook claims it again for the same
crossing.  It is not the lag of the transcript that does it: with one hook the property
holds in the same instance.  What does hold is `OneWinnerPerLevel`: between two re-armings
a level is won once.

*Hosts without a matching record.*  `docs/compatibility.md:51-52` says "A Claude host without
a matching record fails instead of inheriting an outer Codex identity".  `whoami` fails only
if the host's command is exactly `claude` (`src/identity.rs:54`).  Under another name
`address_for_pid` gives nothing and the walk goes on (`src/identity.rs:51`): Codex starts a
shell, the shell a Claude host of another name that has no matching record, its shell calls
`telephone`, and the call answers with the outer thread of `CODEX_THREAD_ID`.  The same
happens to such a host with a good record when `ps` does not give its start time
(`src/proc.rs:113-128`).  This has no run of its own: `NearestHost` of the run `identity`
holds for every other host, its exception `Unrecognised` is exactly this one, and without
the exception TLC at once shows a call that answers with an outer session or thread.  An MCP call without metadata refuses every
Codex identity that is not in `TELEPHONE_ADDR`.

## Fairness

`Delivery!FairSpec`: a send call that has begun and a reader that holds the write lock
go on, because every step of a send has a deadline (3 s busy timeout, 2 s connect, 5 s
write, 3 s probe, 8 s queue), and an MCP response has a 5 s output deadline.  The CLI
has none: for it, fairness assumes that its output is taken or its process ends.  Only
the readers in `Waiting`, whose agents keep checking, get strong fairness for their
poll, their read, their output and their commit, and the assumption that from some
point on their journal and output do not fail; nothing else can make a message read.

`McpSession!FairSpec`: `completed_work`, `write`, the end of the loop and the worker
thread outside its tool call (`WorkerGoesOn`) are weakly fair: the loop never blocks
(nonblocking descriptors), and the scheduler runs both threads.  A tool call is *not*
assumed to end.  Native calls and discovery have deadlines, but `src/mcp/session.rs:123-125`
and `SECURITY.md:68-71` except blocked filesystem calls and diagnostic output, the join at
shutdown has no bound, and the frame deadlines are no deadlines of tools.  So `EofEnds`
says that the session closes or its one call never returns, and `AnsweredOrClosed` that a
request is answered, the session ends, or it is itself the call that never returns: the
others are answered meanwhile.  A call that blocks inside its inbox transaction counts as
one that has not opened it, so `ReceiptsEnd` speaks of the transactions that a call has
brought back.  What remains assumed to end are the COMMIT or rollback of the main
thread, its own diagnostic output, and the worker's steps after its call.  A client that never reads is allowed: the output deadline
(`WriteFails`) is a step of `Write`.  Nothing is assumed about the client's input.

`ChildProcess!FairSpec`: the caller goes on and time passes.  A failing system call is
not counted on to end a run, and nothing is assumed of the command.

## What is proved

TLAPS proves the following of `Delivery` for every set of agents, messages, readers and drafts and
every value of the limits, from `JournalAssumption` and `DeliveryAssumption` only
(both are evaluated by TLC in every run of `MCDelivery`).

* `TypeCorrect`: `Spec => []TypeOK`.
* `SafetyInvariant`: `Spec => []SafetyInv`.
* `NeverMirroredTheorem`, `JournaledFirstTheorem`, `TruthfulReportsTheorem`,
  `NoOvertakingTheorem`: consequences of `SafetyInv`.

`NeverMirrored` alone is not inductive: a message that is being deposited must not
have been sent before, one that is being sent must not be in the inbox, and that
follows from where its sender is, for every label.  `SafetyInv` therefore is the
conjunction of

* the type invariant;
* `SendInv`: for each message, what its sender's label says of the journal row, the
  inbox row, the native set, `result` and `outcome`;
* `LockInv`: a transaction is open exactly while its reader is in `output` or
  `flushed`;
* `ReadInv`: the batch of an open read is still the oldest unread messages of its
  recipient.  This is where the write lock is used: nobody else changes them;
* `OrderInv`: row numbers grow with time, so what was in an inbox when a message was
  journaled has a lower row;
* `NoOvertaking` itself, which needs the last two.

`OldestRowsLower` is the lemma that a batch of the oldest rows is closed downwards: a
message of the batch never has an older unread one outside.  It follows from
cardinalities, not from an enumeration.

The rest of `Delivery` needs more inductive invariants, each on top of `SafetyInv`:

* `PendingBounded` is inductive by itself: only `Deposit` adds an unread message, and it
  counts in the same transaction (`PendingBoundedTheorem`).
* `ConversationInv`: every journaled message has passed `validate` and converses with
  the root that its ancestry names; `ReplyConverses` shows that a reply which `prepare`
  accepts does too (`TwoPartyTheorem`).
* `AccountInv` is `ReceiptAccounting` with the one reader that is about to commit named
  by `LockInv` in place of a cardinality (`ReceiptAccountingTheorem`).
* `EvidenceInv`: the row of `receiving` is the last poll under its session key.  It makes
  the action property `FreshOwnEvidence` a fact of each step (`FreshOwnEvidenceTheorem`).
* `NoticeInv`: what was noticed stays accepted, what an open read is about to notice is
  the latest acceptance, and no two messages share a row (`NoticesAdvanceTheorem`).  This
  needs that the newest rows of a history are closed upwards (`NewestRowsUpper`) and that
  nobody else writes while a read is open (`OpenReadFrozen`).

`MailboxProofs!Implements` is the refinement: the initial states map to `Mailbox!Init`;
`Prepare` maps to `Record`, a deposit and a native acceptance to `Deliver`, a complete
output to `Show`, `Acknowledge` to `Take`, and every other step to a stutter.

For `ChildProcess`, from `ChildAssumption`: `TypeCorrect`, `KillsOnlyOwnTheorem` and
`NothingLeftTheorem`, from `CleanupInv`, and `CompleteOutputTheorem`, from `OutputInv`.  That nobody else is signalled holds because
the child is not reaped before `run` has returned, and so its pid is not free; that
nothing is left holds because a group that has been signalled has no living member,
and only a member can fork a new one.  A successful output is complete because a
stream whose end was seen has no writer and can get none (a fork inherits from a
writer), and because only a command of which both ends were seen is finished with the
mode `"ok"`.

For `ContextReminder`, for any number of hooks, any sizes, thresholds and window:
`OneWinnerPerLevelTheorem`, from `ClaimInv` (the stored level is at least every level won
since the last re-arming), whatever the transcript says; `ReadingIsLatestTheorem`, for any
lag of the transcript, from `TranscriptInv`; and `TypeCorrect`.  The state that matters for a reading is the last line that decides
something: appending a line keeps it or replaces it (`LatestAppended`), dropping lines at
the front keeps it or leaves nothing that decides (`LatestOfSuffix`), and `WriteInv` is
what both give for a line of each form.  The assumptions are `UsageAssumption`,
`ReminderAssumption` and `MissingAssumption`: a field that is missing is not a number.

For `McpSession`, from `SessionAssumption` and `NullAssumption`: all eight invariants of
the `session` run, for any number of ids, requests and frames.  None is inductive by
itself; `SessionInv` is the conjunction of

* the types;
* `SerialInv`: a request is with the worker or in the queue once, and then it has no
  response yet;
* `QueueInv`: only a tool frame has a receipt, there is one tool call at a time, and ids
  in flight are distinct;
* `ReceiptInv`: whoever owns an open transaction (the worker or a queued frame) has its
  receipt, and a worker has none before its call;
* `CancelInv`: a cancelled call is flagged or has lost its receipt, in every stage;
* `PlaceInv`: a call is stopped or discarded only because it was cancelled, so no request
  is lost;
* `WireInv`: the frame that is half written is the front one;
* `EndInv`: when the loop has ended the queue is empty, and at the end all is.

`CloseInv` is the one lemma for every way the loop may end, `RemoveLeaves` and
`LeavesInv` serve the two ways a frame leaves the queue (written, or withdrawn by a
cancellation), `WorkerStepInv` all steps of the worker thread.

`McpSessionProofs!Implements` is the refinement: a call that brings a receipt maps to
`Open`, the last byte of a response to `Commit` or `Answer`, `notifications/cancelled` to
`Cancel`, and every other step to `Release` (of nothing, if no transaction ends).  It
needs one more invariant, `BackedInv`: whoever has a receipt has a transaction that is
still open, so that what is committed was not rolled back before.

Each preservation proof is one lemma per group of actions (`Send*`, `Read*`, `World*`)
with one step per action.

For `Registry`, for any sessions, pids, threads, names, questions, limits and clock:
`TypeCorrect`, `NoImpostorTheorem` and `Implements` (that `Registry` implements
`Directory`), from `RegistryInvariant`.  The assumptions are

* `SessionsAssumption`: start times and sentinels are told apart; a record is
  written and `ps` answers within the tolerance; a pid is used again only after the
  tolerance and the delay of a record.  The last is what the code relies on when it
  compares start times, and without it a record and a new process cannot be told apart;
* `ThreadsAssumption`, `DiscoveryAssumption`: finitely many threads, a positive limit;
* `RegistryAssumption`: sessions and threads have different ids, and a question is a
  listing, an address or a name.

`NoImpostor` says what may stand in a report; nothing in it says why.  `RegistryInv` is
the conjunction of

* `WorldInv`: a session has one pid and one record.  The heart of it is `ClockInv`: a
  record that is not its process's own is older than that process by more than the
  tolerance (`Outlived`), because a pid is used again only after `ReuseAfter`;
* `ControlInv`: which scan a stage runs, and what an earlier step may have left behind;
* `HistoryInv`: `steady`, `ever` and `ran` against what is there now;
* `ScanTypes`, `RecordInv`, `StartsInv`: a record that was read was of a session that ran
  meanwhile, or it is `Outlived` and `ps` has not said otherwise; the times that `ps` gave
  for a steady session's process are near its start;
* `ReportsInv`: every agent comes from a record or a thread, was there (`GoodAgent`), and
  the reports keep within their limits;
* `NamedInv`: the names of a thread's agent are those it answers to, unless the report is
  incomplete: the nameless agents of a fallback stand in a report that says so;
* `CompleteInv`: as long as nothing was warned of, whoever was there all the time is in
  the report or still to be read (`Reached`).

Two facts carry the proof.  A step of the world keeps every record that was read good,
because ending or starting a session can only take it out of `steady` (`SteadyStays`,
`OutlivedStays`, `GoodRecordStays`).  And each check of the scan removes a steady
session only with a warning (`ClaudeStepReaches`, `CodexStepReaches`): the two probes,
the comparison of start times and the limits each either pass it or make the report
incomplete.

`Implements`: `Ask` maps to `Directory!Ask`, a change of sessions, clock or threads to
`World`, an answer to `Found`, `Absent`, `Refuse` or `List`
(`AnswerMaps`, by the kind of the question), `Forget` to `Forget`, and every step of a
scan to a stutter.  `Absent` and `List` are where `CompleteInv` is used, `Found` is where
`RecordInv` and the uniqueness of addresses are.

For `Identity`, from `IdentityAssumption`, for any hosts and threads, any nesting and any
`MAX_ANCESTORS`: `NearestHostTheorem` and `InheritedIgnoredTheorem`, from
`IdentityInvariant`.  `IdentityInv` adds to the types that only a Claude host has a
matching record, and `CallerInv`: below the nearest host the variables of its own runtime
name the caller, whatever those of the other runtime still hold.  Nothing is assumed of
records or of `ps`.  `Whoami` decides by the first process that tells anything
(`WalkProperties`, `FirstTells`).  Those before it were passed by: each is no host, or a
disguised one whose record was not verified (`SilentIsPassed`).  So the one that tells is the
nearest host, or a damaged record that refuses, or the nearest host is `Unrecognised`, which
is the exception that `NearestHost` makes (`NearestOrMissed`).  When no record is damaged and
the nearest host is verified or a Codex host, it is the one that tells, whatever `ps` says of
the records further out (`NearestTells`).

The bytes of a transcript (`BytesFrom`) are a fold over a set, and a fold is a `CHOOSE` whose
equation has a solution only by induction.  The library's induction theorems are out of
reach, so these proofs look for a least counterexample: the natural numbers are well
founded, and `WFMin` gives the smallest number for which a claim fails (`Least`,
`SumExists`, `SumBounds`, `MinProperties`).

Model-checked only are the liveness properties `PendingIsRead`, `ReceiptsEnd`,
`AnsweredOrClosed`, `EofEnds` and `RunReturns`: liveness under fairness, and ENABLED, are
out of the prover's reach.  Every other invariant and action property of a run that
passes is a theorem.

## What the models leave out

* The content of a message, names and the size limits of `Envelope`.
* A damaged row in the journal is a read that fails (`ReadFails`); a failing query for
  the notice, which the code turns into a warning, is not modelled.
* `record_poll` reads the clock and writes in one step.
* The text of reports, notices and warnings.
* Of the scans: the order in which entries are read, which only decides what is left out
  of a full report, and any choice is allowed; `parse_etime` (how `ps` writes a time); a
  wall clock that is set between a session's start and the scan; a resumed session or
  thread that has several records or logs.  A quiet Codex thread is outside the window
  of a search by name, as the code says: `Live` does not count it.
* Of identity: what a malformed value in the environment is (it is one of the refusals of
  `Answered`); a pid that is used again within the tolerance of a session's record; a Codex
  host under another name than `codex` or `codex-cli`, which nothing in the code looks for.
* The CLI's output has no deadline: it holds the write lock while it writes to a pipe
  that nobody reads (the hazard at `src/main.rs:342`, which has no property).  A property
  would have to say that the lock is given back, and without the deadline it is not; no
  document promises it.
* The parts marked `not_modelled` in `PROJECT.json`: names, file modes and reports keep
  no state; tests, scripts, documents.

## Plan

1. (done) `Journal`, `Delivery`, `Mailbox`, `McpSession`, `ContextReminder`,
   `ChildProcess`, `Usage`, `Discovery`, `ClaudeSessions`, `CodexThreads`, `Registry`,
   `Directory`, `Identity`, `Receipts`.
2. (done) Proofs of every safety and action property of `Delivery`, of the refinement of
   `Mailbox`, of the invariants of `McpSession` and its refinement of `Receipts`, of the
   cleanup of a child process, of the reminder's claims and readings, of a lookup and its
   refinement of `Directory`, and of the caller's identity.
3. `ChildProcess` composed with the adapters' use of it: the probe and `queue_message`
   as runs, their outcomes as the ones `Delivery` assumes.
4. `McpSession` composed with `Delivery`'s reader: the receipt of the one as the open
   transaction of the other.
