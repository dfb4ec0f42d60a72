----------------------------- MODULE McpSession -----------------------------
(***************************************************************************)
(* One MCP stdio session (mcp/session.rs): the main thread's loop of read, *)
(* completed_work and write, and the worker thread that runs the one tool  *)
(* call admitted at a time.  A check_inbox call brings back an open inbox  *)
(* transaction, its receipt: acknowledged (COMMIT) when the last byte of   *)
(* its response is written, rolled back when it is dropped on any other    *)
(* path.  The two threads interleave freely; the cancelled flag of the     *)
(* worker and its result at join are all they share.                       *)
(*                                                                         *)
(* Every request the session takes up has a serial number; JSON-RPC ids    *)
(* are the client's and may be used again.                                 *)
(***************************************************************************)
EXTENDS Naturals, SequencesExt

CONSTANTS
    Ids,            \* JSON-RPC request ids
    Null,           \* the id of a reply to a malformed request; no worker
    MAX_RESPONSES,  \* frames in the output queue
    MaxRequests     \* bound: requests in a session

ASSUME SessionAssumption ==
    /\ Null \notin Ids
    /\ MAX_RESPONSES \in Nat \ {0}
    /\ MaxRequests \in Nat

VARIABLES
    phase,          \* "running", "closing" (serve's cleanup), "closed"
    eof,            \* reader.eof
    initialized,
    ready,
    worker,         \* the Worker, or Null
    output,         \* the queue of frames
    requests,       \* serial of the last request
    open,           \* requests that own an open inbox transaction
    committed,      \* history: requests whose receipt was committed
    cancelled,      \* history: requests cancelled while in flight
    written,        \* history: requests whose response is on the wire
    dropped,        \* history: requests whose response was discarded
    onWire          \* serial of the frame cut off on the wire, 0 if none

vars == <<phase, eof, initialized, ready, worker, output, requests, open,
          committed, cancelled, written, dropped, onWire>>

Serials == 1..MaxRequests

(* A frame; its offset matters only as zero or not.  Frames that answer a  *)
(* malformed request or none of a tool carry no receipt.                   *)
Frame == [serial : Serials, id : Ids \cup {Null}, tool : BOOLEAN,
          started : BOOLEAN, receipt : BOOLEAN]

NewFrame(s, id, tool, receipt) ==
    [serial |-> s, id |-> id, tool |-> tool, started |-> FALSE, receipt |-> receipt]

(* stage: where the worker thread is.  "finished" with or without a frame, *)
(* or "failed" (an oversized response, a panic).                           *)
Worker == [serial : Serials, id : Ids, cancelled : BOOLEAN,
           stage : {"spawned", "calling", "replied", "framed", "finished", "failed"},
           frame : BOOLEAN, receipt : BOOLEAN]

ASSUME NullAssumption == Null \notin Worker

Init ==
    /\ phase = "running"
    /\ eof = FALSE
    /\ initialized = FALSE
    /\ ready = FALSE
    /\ worker = Null
    /\ output = <<>>
    /\ requests = 0
    /\ open = {}
    /\ committed = {}
    /\ cancelled = {}
    /\ written = {}
    /\ dropped = {}
    /\ onWire = 0

(* Mutant: a finished call whose response waits in the queue is forgotten. *)
BusyWorker == worker # Null

Busy == worker # Null \/ \E i \in DOMAIN output : output[i].tool

(* Mutant: the ids of queued responses may be used again. *)
InFlightWorker(id) == worker # Null /\ worker.id = id

InFlight(id) ==
    \/ worker # Null /\ worker.id = id
    \/ \E i \in DOMAIN output : output[i].id = id

-----------------------------------------------------------------------------
(* run returns, with or without an error: serve clears the output, which   *)
(* rolls its receipts back, and tells the worker to stop.                  *)
Close(w, kept) ==
    /\ phase' = "closing"
    /\ output' = <<>>
    /\ open' = kept \ {output[i].serial : i \in DOMAIN output}
    /\ worker' = IF w = Null THEN Null ELSE [w EXCEPT !.cancelled = TRUE]

(* Mutant: one frame too many. *)
CanEnqueueOneMore == Len(output) <= MAX_RESPONSES

CanEnqueue == Len(output) < MAX_RESPONSES

(* The queue can hold MAX_RESPONSES frames and MAX_OUTPUT bytes; a single  *)
(* frame always fits, any other may exceed the bytes.                      *)
MayOverflow == Len(output) > 0

(* reply: a frame for the next serial, or the end of the session. *)
Reply(id) ==
    /\ requests' = requests + 1
    /\ \/ /\ CanEnqueue
          /\ output' = Append(output, NewFrame(requests + 1, id, FALSE, FALSE))
          /\ UNCHANGED <<phase, worker, open>>
       \/ /\ MayOverflow
          /\ Close(worker, open)
    /\ UNCHANGED <<committed, cancelled, written, dropped, onWire>>

Reading == phase = "running" /\ ~eof /\ requests < MaxRequests

(* A request that is answered at once: ping, tools/list, an error, or a    *)
(* tools/call before the session is ready or while another one is going on.*)
AnswerAtOnce(id) ==
    /\ Reading /\ ~InFlight(id)
    /\ Reply(id)
    /\ UNCHANGED <<eof, initialized, ready>>

Initialize(id) ==
    /\ Reading /\ ~InFlight(id)
    /\ ~initialized
    /\ initialized' = TRUE
    /\ Reply(id)
    /\ UNCHANGED <<eof, ready>>

Initialized ==
    /\ phase = "running" /\ ~eof
    /\ initialized
    /\ ready' = TRUE
    /\ UNCHANGED <<phase, eof, initialized, worker, output, requests, open,
                   committed, cancelled, written, dropped, onWire>>

(* Not JSON, not JSON-RPC: answered with a null id. *)
Malformed ==
    /\ Reading
    /\ Reply(Null)
    /\ UNCHANGED <<eof, initialized, ready>>

(* An oversized request is the last one. *)
Oversized ==
    /\ Reading
    /\ Reply(Null)
    /\ eof' = TRUE
    /\ UNCHANGED <<initialized, ready>>

(* tools/call: Worker::start. *)
StartTool(id) ==
    /\ Reading /\ ~InFlight(id)
    /\ ready /\ ~Busy
    /\ requests' = requests + 1
    /\ worker' = [serial |-> requests + 1, id |-> id, cancelled |-> FALSE,
                  stage |-> "spawned", frame |-> FALSE, receipt |-> FALSE]
    /\ UNCHANGED <<phase, eof, initialized, ready, output, open, committed,
                   cancelled, written, dropped, onWire>>

(* An id that is in flight, an input error, a partial request past its     *)
(* deadline, an end of input midway: the stream is closed.                 *)
BadInput ==
    /\ phase = "running" /\ ~eof
    /\ Close(worker, open)
    /\ UNCHANGED <<eof, initialized, ready, requests, committed, cancelled,
                   written, dropped, onWire>>

EndOfInput ==
    /\ phase = "running" /\ ~eof
    /\ eof' = TRUE
    /\ UNCHANGED <<phase, initialized, ready, worker, output, requests, open,
                   committed, cancelled, written, dropped, onWire>>

(* Mutant: whatever call is running is cancelled. *)
FlagAnyWorker(id) ==
    IF worker # Null THEN [worker EXCEPT !.cancelled = TRUE] ELSE worker

(* notifications/cancelled.  The running call gets its flag set.  A queued *)
(* tool frame loses its receipt, and its place in the queue unless some of *)
(* its bytes are on the wire.                                              *)
FlagWorker(id) ==
    IF worker # Null /\ worker.id = id
    THEN [worker EXCEPT !.cancelled = TRUE] ELSE worker

ToolFrames(id) == {i \in DOMAIN output : output[i].tool /\ output[i].id = id}

(* Mutant: a frame that is being written keeps its receipt. *)
WithdrawUnlessStarted(i) ==
    IF output[i].started
    THEN UNCHANGED <<open, output, dropped>>
    ELSE /\ open' = open \ {output[i].serial}
         /\ output' = RemoveAt(output, i)
         /\ dropped' = dropped \cup {output[i].serial}

(* Mutant: a frame that is being written is removed. *)
WithdrawAlways(i) ==
    /\ open' = open \ {output[i].serial}
    /\ output' = RemoveAt(output, i)
    /\ dropped' = dropped \cup {output[i].serial}

Withdraw(i) ==
    /\ open' = open \ {output[i].serial}
    /\ IF output[i].started
       THEN /\ output' = [output EXCEPT ![i].receipt = FALSE]
            /\ UNCHANGED dropped
       ELSE /\ output' = RemoveAt(output, i)
            /\ dropped' = dropped \cup {output[i].serial}

Cancel(id) ==
    /\ phase = "running" /\ ~eof
    /\ worker' = FlagWorker(id)
    /\ \/ \E i \in ToolFrames(id) : Withdraw(i)
       \/ ToolFrames(id) = {} /\ UNCHANGED <<open, output, dropped>>
    /\ cancelled' = cancelled
            \cup {output[i].serial : i \in ToolFrames(id)}
            \cup {s \in Serials : worker # Null /\ worker.id = id /\ worker.serial = s}
    /\ UNCHANGED <<phase, eof, initialized, ready, requests, committed, written,
                   onWire>>

-----------------------------------------------------------------------------
(* The worker thread.  It looks at the flag before the call, after it and  *)
(* after building the frame; dropping a result drops its receipt.          *)
WorkerStep(w) ==
    /\ worker' = w
    /\ UNCHANGED <<phase, eof, initialized, ready, output, requests, committed,
                   cancelled, written, dropped, onWire>>

AtStage(stage) == worker # Null /\ worker.stage = stage

Stopped == [worker EXCEPT !.stage = "finished", !.receipt = FALSE]

WorkerStops ==
    /\ AtStage("spawned") \/ AtStage("replied") \/ AtStage("framed")
    /\ worker.cancelled
    /\ WorkerStep(Stopped)
    /\ open' = open \ {worker.serial}

Admit ==
    /\ AtStage("spawned") /\ ~worker.cancelled
    /\ WorkerStep([worker EXCEPT !.stage = "calling"])
    /\ UNCHANGED open

(* call_tool: check_inbox opens a transaction; every other tool, and every *)
(* error, brings a reply without a receipt.  A call that blocks inside its *)
(* transaction is one that has not opened it yet.                          *)
CallTool ==
    /\ AtStage("calling")
    /\ \E receipt \in BOOLEAN :
        /\ WorkerStep([worker EXCEPT !.stage = "replied", !.receipt = receipt])
        /\ open' = IF receipt THEN open \cup {worker.serial} ELSE open

(* Frame::new within its size limit. *)
BuildFrame ==
    /\ AtStage("replied") /\ ~worker.cancelled
    /\ WorkerStep([worker EXCEPT !.stage = "framed"])
    /\ UNCHANGED open

Finish ==
    /\ AtStage("framed") /\ ~worker.cancelled
    /\ WorkerStep([worker EXCEPT !.stage = "finished", !.frame = TRUE])
    /\ UNCHANGED open

(* A response over 64 MiB, or a panic. *)
WorkerFails ==
    /\ AtStage("calling") \/ (AtStage("replied") /\ ~worker.cancelled)
    /\ WorkerStep([worker EXCEPT !.stage = "failed", !.receipt = FALSE])
    /\ open' = open \ {worker.serial}

WorkerThread ==
    WorkerStops \/ Admit \/ CallTool \/ BuildFrame \/ Finish \/ WorkerFails

-----------------------------------------------------------------------------
(* The main thread again: completed_work and write.                        *)

Joinable == AtStage("finished") \/ AtStage("failed")

(* Mutant: the receipt is acknowledged when its response is queued. *)
EnqueueCommits ==
    /\ phase = "running" /\ AtStage("finished")
    /\ worker.frame /\ ~worker.cancelled
    /\ CanEnqueue
    /\ output' = Append(output, NewFrame(worker.serial, worker.id, TRUE, FALSE))
    /\ worker' = Null
    /\ open' = open \ {worker.serial}
    /\ committed' = IF worker.receipt THEN committed \cup {worker.serial}
                    ELSE committed
    /\ UNCHANGED <<phase, eof, initialized, ready, requests, cancelled, written,
                   dropped, onWire>>

EnqueueResult ==
    /\ phase = "running" /\ AtStage("finished")
    /\ worker.frame /\ ~worker.cancelled
    /\ CanEnqueue
    /\ output' = Append(output, NewFrame(worker.serial, worker.id, TRUE, worker.receipt))
    /\ worker' = Null
    /\ UNCHANGED <<phase, eof, initialized, ready, requests, open, committed,
                   cancelled, written, dropped, onWire>>

(* Mutant: the receipt of a discarded result is forgotten, not dropped. *)
DiscardLeaks ==
    /\ phase = "running" /\ AtStage("finished")
    /\ worker.cancelled \/ ~worker.frame
    /\ worker' = Null
    /\ dropped' = dropped \cup {worker.serial}
    /\ UNCHANGED <<phase, eof, initialized, ready, output, requests, open,
                   committed, cancelled, written, onWire>>

(* Mutant: the finished worker stays where it is. *)
DiscardKeepsWorker ==
    /\ phase = "running" /\ AtStage("finished")
    /\ worker.cancelled \/ ~worker.frame
    /\ open' = open \ {worker.serial}
    /\ dropped' = dropped \cup {worker.serial}
    /\ UNCHANGED <<phase, eof, initialized, ready, worker, output, requests,
                   committed, cancelled, written, onWire>>

DiscardResult ==
    /\ phase = "running" /\ AtStage("finished")
    /\ worker.cancelled \/ ~worker.frame
    /\ worker' = Null
    /\ open' = open \ {worker.serial}
    /\ dropped' = dropped \cup {worker.serial}
    /\ UNCHANGED <<phase, eof, initialized, ready, output, requests, committed,
                   cancelled, written, onWire>>

(* Mutant: the error of the join is ignored. *)
ResultFailsSilently ==
    /\ phase = "running" /\ Joinable
    /\ AtStage("failed") \/ (worker.frame /\ ~worker.cancelled /\ MayOverflow)
    /\ worker' = Null
    /\ open' = open \ {worker.serial}
    /\ UNCHANGED <<phase, eof, initialized, ready, output, requests, committed,
                   cancelled, written, dropped, onWire>>

(* The join reports an error, or the queue cannot take the frame. *)
ResultFails ==
    /\ phase = "running" /\ Joinable
    /\ AtStage("failed") \/ (worker.frame /\ ~worker.cancelled /\ MayOverflow)
    /\ Close(Null, open \ {worker.serial})
    /\ UNCHANGED <<eof, initialized, ready, requests, committed, cancelled,
                   written, dropped, onWire>>

Writing == phase = "running" /\ output # <<>>

(* Mutant: the first bytes of a response acknowledge it. *)
WriteSomeCommits ==
    /\ Writing
    /\ ~output[1].started
    /\ output' = [output EXCEPT ![1].started = TRUE, ![1].receipt = FALSE]
    /\ onWire' = output[1].serial
    /\ open' = open \ {output[1].serial}
    /\ committed' = IF output[1].receipt THEN committed \cup {output[1].serial}
                    ELSE committed
    /\ UNCHANGED <<phase, eof, initialized, ready, worker, requests, cancelled,
                   written, dropped>>

WriteSome ==
    /\ Writing
    /\ ~output[1].started
    /\ output' = [output EXCEPT ![1].started = TRUE]
    /\ onWire' = output[1].serial
    /\ UNCHANGED <<phase, eof, initialized, ready, worker, requests, open,
                   committed, cancelled, written, dropped>>

(* The last bytes of the front frame, and the acknowledgement that goes    *)
(* with them; if COMMIT fails the session ends.                            *)
WriteLast ==
    /\ Writing
    /\ written' = written \cup {output[1].serial}
    /\ onWire' = 0
    /\ \/ /\ output[1].receipt
          /\ committed' = committed \cup {output[1].serial}
          /\ open' = open \ {output[1].serial}
          /\ output' = Tail(output)
          /\ UNCHANGED <<phase, worker>>
       \/ /\ output[1].receipt
          /\ Close(worker, open)
          /\ UNCHANGED committed
       \/ /\ ~output[1].receipt
          /\ output' = Tail(output)
          /\ UNCHANGED <<phase, worker, open, committed>>
    /\ UNCHANGED <<eof, initialized, ready, requests, cancelled, dropped>>

(* A write error, or a queued frame older than IO_DEADLINE. *)
WriteFails ==
    /\ Writing
    /\ Close(worker, open)
    /\ UNCHANGED <<eof, initialized, ready, requests, committed, cancelled,
                   written, dropped, onWire>>

Done ==
    /\ phase = "running" /\ eof /\ worker = Null /\ output = <<>>
    /\ phase' = "closing"
    /\ UNCHANGED <<eof, initialized, ready, worker, output, requests, open,
                   committed, cancelled, written, dropped, onWire>>

(* Mutant: the worker is told to stop and left behind. *)
StopDetaches ==
    /\ phase = "closing"
    /\ phase' = "closed"
    /\ UNCHANGED <<eof, initialized, ready, worker, output, requests, open,
                   committed, cancelled, written, dropped, onWire>>

(* worker.stop joins the thread and drops what it brings. *)
Stop ==
    /\ phase = "closing"
    /\ worker = Null \/ Joinable
    /\ phase' = "closed"
    /\ worker' = Null
    /\ open' = IF worker = Null THEN open ELSE open \ {worker.serial}
    /\ UNCHANGED <<eof, initialized, ready, output, requests, committed,
                   cancelled, written, dropped, onWire>>

(* The process is killed: the threads are gone, SQLite rolls back. *)
Die ==
    /\ phase # "closed"
    /\ phase' = "closed"
    /\ worker' = Null
    /\ output' = <<>>
    /\ open' = {}
    /\ UNCHANGED <<eof, initialized, ready, requests, committed, cancelled,
                   written, dropped, onWire>>

ReadStep ==
    \/ \E id \in Ids : AnswerAtOnce(id) \/ Initialize(id) \/ StartTool(id) \/ Cancel(id)
    \/ Initialized \/ Malformed \/ Oversized \/ BadInput \/ EndOfInput

CompletedWork == EnqueueResult \/ DiscardResult \/ ResultFails

Write == WriteSome \/ WriteLast \/ WriteFails

Next == ReadStep \/ WorkerThread \/ CompletedWork \/ Write \/ Done \/ Stop \/ Die

Spec == Init /\ [][Next]_vars

(* A tool call may never end: native calls and discovery have deadlines,   *)
(* but a blocked filesystem call or a blocked diagnostic output has none.  *)
(* The worker thread goes on anywhere else.                                *)
WorkerGoesOn == ~AtStage("calling") /\ WorkerThread

(* The loop never blocks and the scheduler runs both threads.  A client    *)
(* that does not read makes every write WouldBlock, so that only the       *)
(* output deadline (WriteFails) is sure to come.  Nothing is assumed of    *)
(* the client's input.                                                     *)
Fairness ==
    /\ WF_vars(WorkerGoesOn)
    /\ WF_vars(CompletedWork)
    /\ WF_vars(Write)
    /\ WF_vars(Done \/ Stop)

FairSpec == Spec /\ Fairness

-----------------------------------------------------------------------------
TypeOK ==
    /\ phase \in {"running", "closing", "closed"}
    /\ eof \in BOOLEAN
    /\ initialized \in BOOLEAN
    /\ ready \in BOOLEAN
    /\ worker \in Worker \cup {Null}
    /\ output \in Seq(Frame)
    /\ Len(output) <= MAX_RESPONSES
    /\ requests \in 0..MaxRequests
    /\ open \subseteq Serials
    /\ committed \subseteq Serials
    /\ cancelled \subseteq Serials
    /\ written \subseteq Serials
    /\ dropped \subseteq Serials
    /\ onWire \in 0..MaxRequests

(* While a tool call works, no other call of the session has an inbox      *)
(* transaction open: the server never waits for the write lock that its    *)
(* own unsent response holds (request refuses a call while a tool frame is *)
(* queued, not only while the worker runs).                                *)
NoSelfBlock ==
    /\ Cardinality(open) <= 1
    /\ AtStage("spawned") \/ AtStage("calling") => open = {}

(* A cancelled call's inbox read is never committed, wherever the cancel   *)
(* found it: before its call, inside it, between the worker's checks of    *)
(* the flag, finished but not joined, queued, or half written.             *)
CancelledNeverCommits == committed \cap cancelled = {}

(* An inbox read is committed only when its whole response is on the wire, *)
(* and once it is on the wire the transaction does not stay open; an open  *)
(* transaction always belongs to the worker or to a queued frame, which    *)
(* will end it (Frame.receipt, Session::write).                            *)
ReceiptFollowsResponse ==
    /\ committed \subseteq written
    /\ open \cap (written \cup dropped) = {}
    /\ \A s \in open :
        \/ worker # Null /\ worker.serial = s /\ worker.receipt
        \/ \E i \in DOMAIN output : output[i].serial = s /\ output[i].receipt

(* Frames do not interleave on the wire: as long as the session runs, a    *)
(* frame cut off on the wire is the front of the queue, whatever was       *)
(* cancelled or queued meanwhile (Session::cancel).                        *)
FramingIntact ==
    phase = "running" /\ onWire # 0 =>
        /\ output # <<>>
        /\ output[1].serial = onWire
        /\ \A i \in DOMAIN output : output[i].started <=> i = 1

(* While the session runs no request is lost and none is answered twice:   *)
(* each is in one place only, with the worker, in the queue or on the      *)
(* wire, and a response is discarded only if its call was cancelled.       *)
NoRequestLost ==
    phase = "running" =>
        /\ dropped \subseteq cancelled \ written
        /\ \A s \in 1..requests :
            LET queued == {i \in DOMAIN output : output[i].serial = s}
            IN  Cardinality(queued)
                + (IF worker # Null /\ worker.serial = s THEN 1 ELSE 0)
                + (IF s \in written \cup dropped THEN 1 ELSE 0) = 1

(* Ids in flight are distinct, so that a response and a cancellation name  *)
(* one request (request closes an ambiguous stream).                       *)
DistinctInFlight ==
    \A i \in DOMAIN output : output[i].id # Null =>
        /\ worker # Null => worker.id # output[i].id
        /\ \A j \in DOMAIN output : output[j].id = output[i].id => i = j

(* When serve has returned, nothing is left behind: no worker is detached  *)
(* and no transaction keeps the journal locked.                            *)
CleanShutdown == phase = "closed" => worker = Null /\ open = {} /\ output = <<>>

(* A request's inbox read: to come until its call has been made. *)
ToCome(s) == s > requests \/ ((AtStage("spawned") \/ AtStage("calling")) /\ worker.serial = s)

ReceiptOf(s) ==
    IF s \in committed THEN "committed"
    ELSE IF s \in open THEN "open"
    ELSE IF ToCome(s) THEN "to come" ELSE "over"

Promise == INSTANCE Receipts WITH
    receipt <- [s \in Serials |-> ReceiptOf(s)], answered <- written

(* Whatever the two threads do, no inbox read is opened twice or beside    *)
(* another one, and each ends once: committed by the last byte of a        *)
(* response that nobody cancelled, or rolled back (InboxBatch, Frame,      *)
(* Session::write, Session::cancel).                                       *)
ImplementsReceipts == Promise!Spec

(* An inbox transaction that a call has brought back is not held for ever, *)
(* even if the client stops reading: it ends with the response, a          *)
(* cancellation or the session.                                            *)
ReceiptsEnd == \A s \in Serials : s \in open ~> s \notin open

Calling(s) == AtStage("calling") /\ worker.serial = s

(* Every request taken up gets its response, or was cancelled, or the      *)
(* session ends; only a request whose own tool call never returns stays    *)
(* unanswered, and it keeps no other one waiting (Session::run goes on     *)
(* reading and writing while the worker is in its call).                   *)
AnsweredOrClosed ==
    \A s \in Serials :
        requests >= s ~> \/ s \in written \cup dropped
                         \/ phase # "running"
                         \/ []Calling(s)

(* After the end of input the session finishes what it has and exits,      *)
(* unless its one tool call never returns: the join has no deadline        *)
(* (Worker::stop).                                                         *)
EofEnds == eof ~> phase = "closed" \/ []AtStage("calling")
=============================================================================
