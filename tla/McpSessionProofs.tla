-------------------------- MODULE McpSessionProofs --------------------------
(***************************************************************************)
(* The invariants of an MCP session, proved from one inductive invariant:  *)
(* where each request is (SerialInv, PlaceInv), which frames a queue may   *)
(* hold together (QueueInv), who owns an open transaction (ReceiptInv),    *)
(* how far a cancellation reaches (CancelInv), what is on the wire         *)
(* (WireInv) and what is left when the session ends (EndInv).              *)
(***************************************************************************)
EXTENDS McpSession, SequenceTheorems, FiniteSetTheorems, TLAPS

(* Taking element i out closes the gap. *)
LEMMA SegmentProperties ==
    ASSUME NEW S, NEW s, NEW m \in Int, NEW n \in Int, NEW t,
           \A i \in m..n : s[i] \in S, m <= n + 1, t = SubSeq(s, m, n)
    PROVE  /\ t \in Seq(S)
           /\ Len(t) = n - m + 1
           /\ \A i \in 1..(n - m + 1) : t[i] = s[m + i - 1]
<1>1. /\ t \in Seq(S)
      /\ Len(t) = IF m <= n THEN n - m + 1 ELSE 0
      /\ \A i \in 1..(n - m + 1) : t[i] = s[m + i - 1]
  BY SubSeqProperties
<1> QED
  BY <1>1

LEMMA RemoveAtProperties ==
    ASSUME NEW S, NEW s \in Seq(S), NEW i \in 1..Len(s)
    PROVE  /\ RemoveAt(s, i) \in Seq(S)
           /\ Len(RemoveAt(s, i)) = Len(s) - 1
           /\ \A j \in 1..(Len(s) - 1) : RemoveAt(s, i)[j] = s[IF j < i THEN j ELSE j + 1]
<1>1. Len(s) \in Nat /\ \A j \in 1..Len(s) : s[j] \in S
  BY LenProperties, ElementOfSeq
<1>2. PICK front : front = SubSeq(s, 1, i - 1)
  OBVIOUS
<1>3. PICK back : back = SubSeq(s, i + 1, Len(s))
  OBVIOUS
<1>4. /\ front \in Seq(S) /\ Len(front) = i - 1
      /\ \A j \in 1..(i - 1) : front[j] = s[j]
  BY <1>1, <1>2, SegmentProperties
<1>5. /\ back \in Seq(S) /\ Len(back) = Len(s) - i
      /\ \A j \in 1..(Len(s) - i) : back[j] = s[i + j]
  BY <1>1, <1>3, SegmentProperties
<1>6. PICK t : t = front \o back
  OBVIOUS
<1>7. /\ t \in Seq(S) /\ Len(t) = Len(front) + Len(back)
      /\ \A j \in 1..(Len(front) + Len(back)) :
            t[j] = IF j <= Len(front) THEN front[j] ELSE back[j - Len(front)]
  BY <1>4, <1>5, <1>6, ConcatProperties
<1>8. /\ Len(t) = Len(s) - 1
      /\ \A j \in 1..(Len(s) - 1) : t[j] = s[IF j < i THEN j ELSE j + 1]
  <2>1. Len(t) = Len(s) - 1
    BY <1>1, <1>4, <1>5, <1>7
  <2>2. ASSUME NEW j \in 1..(Len(s) - 1) PROVE t[j] = s[IF j < i THEN j ELSE j + 1]
    <3>1. j \in 1..(Len(front) + Len(back)) /\ (j <= Len(front) <=> j < i)
      BY <1>1, <1>4, <1>5
    <3>2. CASE j < i
      BY <1>4, <1>7, <3>1, <3>2
    <3>3. CASE ~(j < i)
      <4>1. j - Len(front) \in 1..(Len(s) - i) /\ i + (j - Len(front)) = j + 1
        BY <1>1, <1>4, <3>3
      <4>2. t[j] = back[j - Len(front)]
        BY <1>7, <3>1, <3>3
      <4> QED
        BY <1>5, <3>3, <4>1, <4>2
    <3> QED
      BY <3>2, <3>3
  <2> QED
    BY <2>1, <2>2
<1>9. RemoveAt(s, i) = t
  BY <1>2, <1>3, <1>6 DEF RemoveAt
<1> QED
  BY <1>7, <1>8, <1>9
-----------------------------------------------------------------------------
Queue == 1..Len(output)

(* A request that is with the worker or in the queue has no response yet,  *)
(* and is there once.                                                      *)
SerialInv ==
    /\ written \cup dropped \cup cancelled \subseteq 1..requests
    /\ worker # Null => worker.serial \in (1..requests) \ (written \cup dropped)
    /\ \A i \in Queue :
        /\ output[i].serial \in (1..requests) \ (written \cup dropped)
        /\ worker # Null => worker.serial # output[i].serial
        /\ \A j \in Queue : output[i].serial = output[j].serial => i = j

(* One tool call at a time, with the worker or in the queue; ids in flight *)
(* are distinct.                                                           *)
QueueInv ==
    \A i \in Queue :
        /\ output[i].receipt => output[i].tool
        /\ output[i].tool => /\ worker = Null
                             /\ \A j \in Queue : output[j].tool => i = j
        /\ output[i].id # Null =>
                /\ worker # Null => worker.id # output[i].id
                /\ \A j \in Queue : output[i].id = output[j].id => i = j

Owned(s) ==
    \/ worker # Null /\ worker.serial = s /\ worker.receipt
    \/ \E i \in Queue : output[i].serial = s /\ output[i].receipt

ReceiptInv ==
    /\ committed \subseteq written
    /\ AtStage("spawned") \/ AtStage("calling") => ~worker.receipt
    /\ \A s \in open : Owned(s)

CancelInv ==
    /\ committed \cap cancelled = {}
    /\ worker # Null /\ worker.serial \in cancelled => worker.cancelled
    /\ \A i \in Queue : output[i].receipt => output[i].serial \notin cancelled

(* While the session runs, a call is stopped or discarded only because it  *)
(* was cancelled.                                                          *)
PlaceInv ==
    phase = "running" =>
        /\ dropped \subseteq cancelled \ written
        /\ worker # Null /\ (worker.cancelled \/ (AtStage("finished") /\ ~worker.frame))
                => worker.serial \in cancelled
        /\ \A s \in 1..requests :
            \/ s \in written \cup dropped
            \/ worker # Null /\ worker.serial = s
            \/ \E i \in Queue : output[i].serial = s

WireInv ==
    phase = "running" =>
        IF onWire = 0 THEN \A i \in Queue : ~output[i].started
        ELSE /\ Len(output) > 0 /\ output[1].serial = onWire
             /\ \A i \in Queue : output[i].started <=> i = 1

EndInv ==
    /\ phase # "running" => output = <<>>
    /\ phase = "closed" => worker = Null /\ open = {}

SessionInv ==
    /\ TypeOK
    /\ SerialInv /\ QueueInv /\ ReceiptInv /\ CancelInv
    /\ PlaceInv /\ WireInv /\ EndInv

LEMMA QueueFacts ==
    ASSUME TypeOK
    PROVE  /\ Len(output) \in Nat
           /\ DOMAIN output = Queue
           /\ \A i \in Queue : output[i] \in Frame
           /\ output = <<>> <=> Len(output) = 0
<1>1. output \in Seq(Frame)
  BY DEF TypeOK
<1> QED
  BY <1>1, LenProperties, ElementOfSeq, EmptySeq DEF Queue

LEMMA InitInv == Init => SessionInv
<1> SUFFICES ASSUME Init PROVE SessionInv
  OBVIOUS
<1>1. output = <<>> /\ Len(output) = 0 /\ output \in Seq(Frame) /\ Queue = {}
  BY EmptySeq DEF Init, Queue
<1>2. TypeOK
  <2>1. output \in Seq(Frame) /\ Len(output) <= MAX_RESPONSES
    BY <1>1, SessionAssumption
  <2>2. requests \in 0..MaxRequests /\ onWire \in 0..MaxRequests
    BY SessionAssumption DEF Init
  <2> QED
    BY <2>1, <2>2 DEF Init, TypeOK
<1>3. SerialInv /\ QueueInv /\ ReceiptInv /\ CancelInv
  BY <1>1 DEF Init, SerialInv, QueueInv, ReceiptInv, CancelInv, AtStage
<1>4. PlaceInv /\ WireInv /\ EndInv
  BY <1>1 DEF Init, PlaceInv, WireInv, EndInv, AtStage
<1> QED
  BY <1>2, <1>3, <1>4 DEF SessionInv

(* What is left of the queue and the worker decides everything else: these *)
(* steps change only flags of the loop.                                    *)
LEMMA FlagsInv ==
    ASSUME SessionInv, eof' \in BOOLEAN, initialized' \in BOOLEAN, ready' \in BOOLEAN,
           UNCHANGED <<phase, worker, output, requests, open, committed, cancelled,
                       written, dropped, onWire>>
    PROVE  SessionInv'
BY DEF SessionInv, TypeOK, SerialInv, QueueInv, ReceiptInv, CancelInv, PlaceInv,
       WireInv, EndInv, Queue, Owned, AtStage

-----------------------------------------------------------------------------
(* The worker thread: the call and its flag stay, the stage and the receipt *)
(* change.                                                                  *)
LEMMA WorkerStepInv ==
    ASSUME SessionInv, worker # Null, NEW w \in Worker, WorkerStep(w),
           w.serial = worker.serial, w.id = worker.id, w.cancelled = worker.cancelled,
           w.stage \in {"spawned", "calling"} => ~w.receipt,
           w.stage = "finished" /\ ~w.frame => worker.cancelled,
           open' \subseteq open \cup {worker.serial},
           worker.serial \in open' => w.receipt
    PROVE  SessionInv'
<1>1. /\ w # Null /\ worker' = w /\ worker \in Worker
      /\ Queue' = Queue
      /\ UNCHANGED <<phase, eof, initialized, ready, output, requests, committed,
                     cancelled, written, dropped, onWire>>
  BY NullAssumption DEF WorkerStep, SessionInv, TypeOK, Queue
<1>2. TypeOK'
  BY <1>1 DEF SessionInv, TypeOK, Worker
<1>3. SerialInv'
  BY <1>1 DEF SessionInv, SerialInv
<1>4. QueueInv'
  BY <1>1 DEF SessionInv, QueueInv
<1>5. ReceiptInv'
  <2>1. \A s \in open' : Owned(s)'
    BY <1>1 DEF SessionInv, ReceiptInv, Owned
  <2> QED
    BY <1>1, <2>1 DEF SessionInv, ReceiptInv, AtStage
<1>6. CancelInv'
  BY <1>1 DEF SessionInv, CancelInv
<1>7. PlaceInv'
  BY <1>1 DEF SessionInv, PlaceInv, AtStage
<1>8. WireInv' /\ EndInv'
  BY <1>1 DEF SessionInv, WireInv, EndInv
<1> QED
  BY <1>2, <1>3, <1>4, <1>5, <1>6, <1>7, <1>8 DEF SessionInv

LEMMA WorkerThreadInv == SessionInv /\ WorkerThread => SessionInv'
<1> SUFFICES ASSUME SessionInv, WorkerThread PROVE SessionInv'
  OBVIOUS
<1>1. worker # Null /\ worker \in Worker /\ Stopped \in Worker
  BY DEF WorkerThread, WorkerStops, Admit, CallTool, BuildFrame, Finish, WorkerFails,
         AtStage, Stopped, SessionInv, TypeOK, Worker
<1>2. worker.serial \in open => worker.receipt
  BY <1>1 DEF SessionInv, ReceiptInv, SerialInv, Owned
<1>3. worker.stage \in {"spawned", "calling"} => ~worker.receipt
  BY <1>1 DEF SessionInv, ReceiptInv, AtStage
<1>4. CASE WorkerStops
  BY <1>1, <1>4, WorkerStepInv DEF WorkerStops, Stopped, Worker
<1>5. CASE Admit
  <2> DEFINE w == [worker EXCEPT !.stage = "calling"]
  <2>1. w \in Worker /\ WorkerStep(w)
    BY <1>1, <1>5 DEF Admit, Worker
  <2> QED
    BY <1>1, <1>2, <1>3, <1>5, <2>1, WorkerStepInv DEF Admit, AtStage, Worker
<1>6. CASE CallTool
  <2>1. PICK receipt \in BOOLEAN :
            /\ WorkerStep([worker EXCEPT !.stage = "replied", !.receipt = receipt])
            /\ open' = IF receipt THEN open \cup {worker.serial} ELSE open
    BY <1>6 DEF CallTool
  <2>2. ~worker.receipt
    BY <1>3, <1>6 DEF CallTool, AtStage
  <2> DEFINE w == [worker EXCEPT !.stage = "replied", !.receipt = receipt]
  <2>3. w \in Worker
    BY <1>1 DEF Worker
  <2> QED
    BY <1>1, <1>2, <2>1, <2>2, <2>3, WorkerStepInv DEF Worker
<1>7. CASE BuildFrame
  <2> DEFINE w == [worker EXCEPT !.stage = "framed"]
  <2>1. w \in Worker /\ WorkerStep(w)
    BY <1>1, <1>7 DEF BuildFrame, Worker
  <2> QED
    BY <1>1, <1>2, <1>7, <2>1, WorkerStepInv DEF BuildFrame, Worker
<1>8. CASE Finish
  <2> DEFINE w == [worker EXCEPT !.stage = "finished", !.frame = TRUE]
  <2>1. w \in Worker /\ WorkerStep(w)
    BY <1>1, <1>8 DEF Finish, Worker
  <2> QED
    BY <1>1, <1>2, <1>8, <2>1, WorkerStepInv DEF Finish, Worker
<1>9. CASE WorkerFails
  <2> DEFINE w == [worker EXCEPT !.stage = "failed", !.receipt = FALSE]
  <2>1. w \in Worker /\ WorkerStep(w)
    BY <1>1, <1>9 DEF WorkerFails, Worker
  <2> QED
    BY <1>1, <1>9, <2>1, WorkerStepInv DEF WorkerFails, Worker
<1> QED
  BY <1>4, <1>5, <1>6, <1>7, <1>8, <1>9 DEF WorkerThread

-----------------------------------------------------------------------------
(* However the loop ends, the queue goes with its receipts and the worker   *)
(* keeps its own.                                                           *)
LEMMA CloseInv ==
    ASSUME SessionInv, phase = "running",
           NEW w \in {worker, Null}, NEW kept \in SUBSET open, Close(w, kept),
           w = Null /\ worker # Null => worker.serial \notin kept,
           eof' \in BOOLEAN, initialized' \in BOOLEAN, ready' \in BOOLEAN,
           requests' \in {requests, requests + 1}, requests' <= MaxRequests,
           onWire' \in {onWire, 0}, UNCHANGED <<committed, cancelled, dropped>>,
           written' \in {written, written \cup {output[1].serial}},
           written' # written => Len(output) > 0
    PROVE  SessionInv'
<1>1. /\ phase' = "closing" /\ output' = <<>>
      /\ worker' = IF w = Null THEN Null ELSE [w EXCEPT !.cancelled = TRUE]
      /\ open' = kept \ {output[i].serial : i \in Queue}
  BY QueueFacts DEF Close, SessionInv
<1>2. /\ Len(output') = 0 /\ output' \in Seq(Frame) /\ Queue' = {}
  BY <1>1, EmptySeq DEF Queue
<1>3. written' \subseteq 1..requests
  BY QueueFacts DEF SessionInv, SerialInv, Queue
<1>4. requests \in Nat /\ requests <= requests'
  BY DEF SessionInv, TypeOK
<1>5. worker' # Null => /\ worker # Null /\ worker' \in Worker
                        /\ worker'.serial = worker.serial /\ worker'.id = worker.id
                        /\ worker'.stage = worker.stage /\ worker'.receipt = worker.receipt
                        /\ worker'.cancelled
  BY <1>1 DEF SessionInv, TypeOK, Worker
<1>6. TypeOK'
  <2>1. written' \subseteq Serials
    BY <1>3, SessionAssumption DEF SessionInv, TypeOK, Serials
  <2>2. worker' \in Worker \cup {Null} /\ open' \subseteq Serials
    BY <1>1, <1>5 DEF SessionInv, TypeOK
  <2>3. output' \in Seq(Frame) /\ Len(output') <= MAX_RESPONSES
    BY <1>2, SessionAssumption
  <2>4. requests' \in 0..MaxRequests /\ onWire' \in 0..MaxRequests
    BY <1>4, SessionAssumption DEF SessionInv, TypeOK
  <2> QED
    BY <1>1, <2>1, <2>2, <2>3, <2>4 DEF SessionInv, TypeOK
<1>7. SerialInv'
  <2>1. worker # Null => worker.serial \notin written'
    BY QueueFacts DEF SessionInv, SerialInv, Queue
  <2>2. 1..requests \subseteq 1..requests'
    BY <1>4
  <2>3. written' \cup dropped' \cup cancelled' \subseteq 1..requests'
    BY <1>3, <2>2 DEF SessionInv, SerialInv
  <2>4. worker' # Null => worker'.serial \in (1..requests') \ (written' \cup dropped')
    BY <1>5, <2>1, <2>2 DEF SessionInv, SerialInv
  <2> QED
    BY <1>2, <2>3, <2>4 DEF SerialInv
<1>8. QueueInv'
  BY <1>2 DEF QueueInv
<1>9. ReceiptInv'
  <2>1. ASSUME NEW s \in open' PROVE Owned(s)'
    <3>1. worker # Null /\ worker.serial = s /\ worker.receipt
      BY <1>1 DEF SessionInv, ReceiptInv, Owned
    <3>2. w # Null
      BY <1>1, <3>1
    <3>3. worker' # Null
      BY <1>1, <3>2, NullAssumption DEF SessionInv, TypeOK, Worker
    <3> QED
      BY <1>5, <3>1, <3>3 DEF Owned
  <2> QED
    BY <1>5, <2>1 DEF SessionInv, ReceiptInv, AtStage
<1>10. CancelInv'
  BY <1>2, <1>5 DEF SessionInv, CancelInv
<1>11. PlaceInv' /\ WireInv' /\ EndInv'
  BY <1>1 DEF PlaceInv, WireInv, EndInv
<1> QED
  BY <1>6, <1>7, <1>8, <1>9, <1>10, <1>11 DEF SessionInv

-----------------------------------------------------------------------------
(* The main thread's requests. *)

LEMMA AppendFacts ==
    ASSUME TypeOK, CanEnqueue, NEW f \in Frame, output' = Append(output, f),
           NEW n, n = Len(output) + 1
    PROVE  /\ output' \in Seq(Frame) /\ Len(output') <= MAX_RESPONSES
           /\ Len(output') = n /\ n \notin Queue /\ Queue' = Queue \cup {n}
           /\ \A i \in Queue : output'[i] = output[i]
           /\ output'[n] = f
<1>1. output \in Seq(Frame) /\ Len(output) \in Nat
  BY QueueFacts DEF TypeOK
<1>2. /\ output' \in Seq(Frame) /\ Len(output') = n
      /\ \A i \in 1..Len(output) : output'[i] = output[i]
      /\ output'[n] = f
  BY <1>1, AppendProperties
<1>3. Len(output) < MAX_RESPONSES /\ MAX_RESPONSES \in Nat
  BY SessionAssumption DEF CanEnqueue
<1> QED
  BY <1>1, <1>2, <1>3 DEF Queue

LEMMA ReplyInv ==
    ASSUME SessionInv, Reading, NEW id \in Ids \cup {Null}, id # Null => ~InFlight(id),
           Reply(id), eof' \in BOOLEAN, initialized' \in BOOLEAN, ready' \in BOOLEAN
    PROVE  SessionInv'
<1>1. /\ requests' = requests + 1 /\ requests' \in Serials /\ requests \in Nat
      /\ requests' \in 0..MaxRequests
      /\ 1..requests' = (1..requests) \cup {requests'}
      /\ requests' \notin 1..requests
      /\ UNCHANGED <<committed, cancelled, written, dropped, onWire>>
  BY SessionAssumption DEF Reply, Reading, SessionInv, TypeOK, Serials
<1>2. CASE Close(worker, open)
  BY <1>1, <1>2, CloseInv, SessionAssumption DEF Reading, SessionInv, TypeOK, Serials
<1>3. CASE /\ CanEnqueue
           /\ output' = Append(output, NewFrame(requests', id, FALSE, FALSE))
           /\ UNCHANGED <<phase, worker, open>>
  <2>0. /\ DOMAIN output = Queue /\ Len(output) \in Nat
        /\ output = <<>> <=> Len(output) = 0
    BY QueueFacts DEF SessionInv
  <2>1. PICK f : f = NewFrame(requests', id, FALSE, FALSE)
    OBVIOUS
  <2>2. PICK n : n = Len(output) + 1
    OBVIOUS
  <2>3. /\ f \in Frame /\ f.serial = requests' /\ f.id = id
        /\ ~f.tool /\ ~f.started /\ ~f.receipt
    <3>1. PICK s \in Serials : s = requests'
      BY <1>1
    <3>2. f = [serial |-> s, id |-> id, tool |-> FALSE, started |-> FALSE, receipt |-> FALSE]
      BY <2>1, <3>1 DEF NewFrame
    <3> QED
      BY <3>1, <3>2 DEF Frame
  <2>4. /\ output' \in Seq(Frame) /\ Len(output') <= MAX_RESPONSES
        /\ Len(output') = n /\ n \notin Queue /\ Queue' = Queue \cup {n}
        /\ \A i \in Queue : output'[i] = output[i]
        /\ output'[n] = f
    BY <1>3, <2>1, <2>2, <2>3, AppendFacts DEF SessionInv
  <2>5. TypeOK'
    BY <1>1, <1>3, <2>4 DEF SessionInv, TypeOK
  <2>6. SerialInv'
    <3>1. \A i \in Queue : output'[i].serial # requests'
      BY <1>1, <2>4 DEF SessionInv, SerialInv
    <3>2. requests' \notin written \cup dropped /\ (worker # Null => worker.serial # requests')
      BY <1>1 DEF SessionInv, SerialInv
    <3>3. ASSUME NEW i \in Queue'
          PROVE  /\ output'[i].serial \in (1..requests') \ (written \cup dropped)
                 /\ worker # Null => worker.serial # output'[i].serial
                 /\ \A j \in Queue' : output'[i].serial = output'[j].serial => i = j
      BY <1>1, <2>3, <2>4, <3>1, <3>2 DEF SessionInv, SerialInv
    <3> QED
      BY <1>1, <1>3, <3>3 DEF SessionInv, SerialInv
  <2>7. QueueInv'
    <3>1. id # Null => /\ worker # Null => worker.id # id
                       /\ \A i \in Queue : output[i].id # id
      BY <2>0 DEF InFlight
    <3>2. ASSUME NEW i \in Queue'
          PROVE  /\ output'[i].receipt => output'[i].tool
                 /\ output'[i].tool =>
                        worker = Null /\ \A j \in Queue' : output'[j].tool => i = j
      BY <2>3, <2>4 DEF SessionInv, QueueInv
    <3>3. ASSUME NEW i \in Queue', output'[i].id # Null
          PROVE  /\ worker # Null => worker.id # output'[i].id
                 /\ \A j \in Queue' : output'[i].id = output'[j].id => i = j
      BY <2>3, <2>4, <3>1, <3>3 DEF SessionInv, QueueInv
    <3> QED
      BY <1>3, <3>2, <3>3 DEF QueueInv
  <2>8. ReceiptInv'
    <3>1. \A s \in open : Owned(s)'
      BY <1>3, <2>4 DEF SessionInv, ReceiptInv, Owned
    <3> QED
      BY <1>1, <1>3, <3>1 DEF SessionInv, ReceiptInv, AtStage
  <2>9. CancelInv'
    BY <1>1, <1>3, <2>3, <2>4 DEF SessionInv, CancelInv
  <2>10. PlaceInv'
    <3>1. phase = "running" => \A s \in 1..requests' :
              \/ s \in written \cup dropped
              \/ worker # Null /\ worker.serial = s
              \/ \E i \in Queue' : output'[i].serial = s
      BY <1>1, <2>3, <2>4 DEF SessionInv, PlaceInv
    <3> QED
      BY <1>1, <1>3, <3>1 DEF SessionInv, PlaceInv, AtStage
  <2>11. WireInv'
    <3>1. /\ Len(output) > 0 => 1 \in Queue /\ n # 1
          /\ Len(output') > 0
      BY <2>0, <2>2, <2>4 DEF Queue
    <3>2. CASE onWire = 0
      BY <1>1, <1>3, <2>3, <2>4, <3>2 DEF SessionInv, WireInv
    <3>3. CASE phase = "running" /\ onWire # 0
      <4>1. /\ Len(output) > 0 /\ output[1].serial = onWire
            /\ \A i \in Queue : output[i].started <=> i = 1
        BY <3>3 DEF SessionInv, WireInv
      <4>2. output'[1].serial = onWire /\ \A i \in Queue' : output'[i].started <=> i = 1
        BY <2>3, <2>4, <3>1, <4>1
      <4> QED
        BY <1>1, <3>1, <3>3, <4>2 DEF WireInv
    <3> QED
      BY <1>3, <3>2, <3>3 DEF WireInv
  <2>12. EndInv'
    BY <1>3 DEF Reading, EndInv
  <2> QED
    BY <2>5, <2>6, <2>7, <2>8, <2>9, <2>10, <2>11, <2>12 DEF SessionInv
<1> QED
  BY <1>1, <1>2, <1>3 DEF Reply

LEMMA StartToolInv ==
    ASSUME SessionInv, NEW id \in Ids, StartTool(id)
    PROVE  SessionInv'
<1>1. /\ requests' = requests + 1 /\ requests' \in Serials /\ requests \in Nat
      /\ requests' \in 0..MaxRequests
      /\ 1..requests' = (1..requests) \cup {requests'}
      /\ requests' \notin 1..requests
      /\ Queue' = Queue
      /\ UNCHANGED <<phase, eof, initialized, ready, output, open, committed,
                     cancelled, written, dropped, onWire>>
  BY SessionAssumption DEF StartTool, Reading, SessionInv, TypeOK, Serials, Queue
<1>2. /\ worker = Null
      /\ \A i \in Queue : ~output[i].tool /\ output[i].id # id
  BY QueueFacts DEF StartTool, Busy, InFlight, SessionInv
<1>3. /\ worker' \in Worker /\ worker' # Null
      /\ worker'.serial = requests' /\ worker'.id = id /\ ~worker'.cancelled
      /\ worker'.stage = "spawned" /\ ~worker'.receipt
  <2>1. PICK s \in Serials : s = requests'
    BY <1>1
  <2>2. worker' = [serial |-> s, id |-> id, cancelled |-> FALSE, stage |-> "spawned",
                   frame |-> FALSE, receipt |-> FALSE]
    BY <1>1, <2>1 DEF StartTool
  <2>3. PICK w : w = [serial |-> s, id |-> id, cancelled |-> FALSE, stage |-> "spawned",
                      frame |-> FALSE, receipt |-> FALSE]
    OBVIOUS
  <2>4. w \in Worker
    BY <2>3 DEF Worker
  <2>5. w # Null
    BY <2>4, NullAssumption
  <2>6. w.serial = s /\ w.id = id /\ ~w.cancelled /\ w.stage = "spawned" /\ ~w.receipt
    BY <2>3
  <2> QED
    BY <2>1, <2>2, <2>3, <2>4, <2>5, <2>6
<1>4. TypeOK'
  BY <1>1, <1>3 DEF SessionInv, TypeOK, Serials
<1>5. SerialInv'
  <2>1. requests' \notin written \cup dropped /\ \A i \in Queue : output[i].serial # requests'
    BY <1>1 DEF SessionInv, SerialInv
  <2> QED
    BY <1>1, <1>2, <1>3, <2>1 DEF SessionInv, SerialInv
<1>6. QueueInv'
  BY <1>1, <1>2, <1>3 DEF SessionInv, QueueInv
<1>7. ReceiptInv'
  BY <1>1, <1>2, <1>3 DEF SessionInv, ReceiptInv, Owned
<1>8. CancelInv'
  BY <1>1, <1>3 DEF SessionInv, CancelInv, SerialInv
<1>9. PlaceInv'
  BY <1>1, <1>2, <1>3 DEF SessionInv, PlaceInv, AtStage
<1>10. WireInv' /\ EndInv'
  BY <1>1 DEF StartTool, Reading, SessionInv, WireInv, EndInv
<1> QED
  BY <1>4, <1>5, <1>6, <1>7, <1>8, <1>9, <1>10 DEF SessionInv

-----------------------------------------------------------------------------
(* Frames that leave the queue. *)

(* Where the frame at j was before the one at i left. *)
Before(i, j) == IF j < i THEN j ELSE j + 1

Leaves(i) ==
    /\ output' \in Seq(Frame) /\ Len(output') = Len(output) - 1
    /\ \A j \in Queue' :
        /\ Before(i, j) \in Queue \ {i}
        /\ output'[j] = output[Before(i, j)]
        /\ \A l \in Queue' : Before(i, j) = Before(i, l) => j = l
    /\ \A k \in Queue \ {i} : \E j \in Queue' : Before(i, j) = k

LEMMA RemoveLeaves ==
    ASSUME TypeOK, NEW i \in Queue,
           output' = RemoveAt(output, i) \/ (i = 1 /\ output' = Tail(output))
    PROVE  Leaves(i)
<1>1. /\ output \in Seq(Frame) /\ Len(output) \in Nat /\ i \in 1..Len(output)
      /\ output # <<>>
  BY QueueFacts DEF TypeOK, Queue
<1>2. /\ output' \in Seq(Frame) /\ Len(output') = Len(output) - 1
      /\ \A j \in 1..(Len(output) - 1) : output'[j] = output[Before(i, j)]
  <2>1. CASE output' = RemoveAt(output, i)
    BY <1>1, <2>1, RemoveAtProperties DEF Before
  <2>2. CASE i = 1 /\ output' = Tail(output)
    <3>1. /\ output' \in Seq(Frame) /\ Len(output') = Len(output) - 1
          /\ \A j \in 1..Len(output') : output'[j] = output[j + 1]
      BY <1>1, <2>2, HeadTailProperties
    <3>2. \A j \in 1..(Len(output) - 1) : Before(i, j) = j + 1
      BY <1>1, <2>2 DEF Before
    <3> QED
      BY <3>1, <3>2
  <2> QED
    BY <2>1, <2>2
<1>3. Queue' = 1..(Len(output) - 1)
  BY <1>2 DEF Queue
<1>4. ASSUME NEW j \in Queue'
      PROVE  /\ Before(i, j) \in Queue \ {i}
             /\ \A l \in Queue' : Before(i, j) = Before(i, l) => j = l
  BY <1>1, <1>3 DEF Before, Queue
<1>5. ASSUME NEW k \in Queue \ {i} PROVE \E j \in Queue' : Before(i, j) = k
  <2>1. CASE k < i
    BY <1>1, <1>3, <2>1 DEF Before, Queue
  <2>2. CASE ~(k < i)
    <3>1. k - 1 \in Queue' /\ Before(i, k - 1) = k
      BY <1>1, <1>3, <2>2 DEF Before, Queue
    <3> QED
      BY <3>1
  <2> QED
    BY <2>1, <2>2
<1> QED
  BY <1>2, <1>3, <1>4, <1>5 DEF Leaves

(* What a frame that leaves does to the rest of the invariant: nothing, if  *)
(* its receipt is closed and its request is settled.                        *)
LEMMA LeavesInv ==
    ASSUME SessionInv, NEW i \in Queue, Leaves(i),
           worker' = worker, open' = open \ {output[i].serial}, requests' = requests
    PROVE  /\ Len(output') <= MAX_RESPONSES
           /\ \A j \in Queue' :
                /\ output'[j].serial \in (1..requests) \ (written \cup dropped)
                /\ output'[j].serial # output[i].serial
                /\ worker # Null => worker.serial # output'[j].serial
                /\ \A l \in Queue' : output'[j].serial = output'[l].serial => j = l
           /\ QueueInv'
           /\ \A s \in open' : Owned(s)'
           /\ \A j \in Queue' : output'[j].receipt => output'[j].serial \notin cancelled
           /\ \A s : (\E k \in Queue : output[k].serial = s) =>
                \/ s = output[i].serial
                \/ \E j \in Queue' : output'[j].serial = s
<1>1. Len(output') <= MAX_RESPONSES
  BY QueueFacts, SessionAssumption DEF SessionInv, TypeOK, Leaves
<1>2. ASSUME NEW j \in Queue'
      PROVE  /\ output'[j].serial \in (1..requests) \ (written \cup dropped)
             /\ output'[j].serial # output[i].serial
             /\ worker # Null => worker.serial # output'[j].serial
             /\ \A l \in Queue' : output'[j].serial = output'[l].serial => j = l
  BY DEF SessionInv, SerialInv, Leaves
<1>3. QueueInv'
  BY DEF SessionInv, QueueInv, Leaves
<1>4. ASSUME NEW s \in open' PROVE Owned(s)'
  BY DEF SessionInv, ReceiptInv, Owned, Leaves
<1>5. \A j \in Queue' : output'[j].receipt => output'[j].serial \notin cancelled
  BY DEF SessionInv, CancelInv, Leaves
<1>6. ASSUME NEW k \in Queue
      PROVE  \/ output[k].serial = output[i].serial
             \/ \E j \in Queue' : output'[j].serial = output[k].serial
  BY DEF Leaves
<1> QED
  BY <1>1, <1>2, <1>3, <1>4, <1>5, <1>6

LEMMA CancelStepInv ==
    ASSUME SessionInv, NEW id \in Ids, Cancel(id)
    PROVE  SessionInv'
<1>1. /\ phase = "running"
      /\ UNCHANGED <<phase, eof, initialized, ready, requests, committed, written, onWire>>
      /\ worker' = FlagWorker(id)
      /\ requests \in Nat
  BY DEF Cancel, SessionInv, TypeOK
<1>2. /\ worker' \in Worker \cup {Null} /\ (worker' = Null <=> worker = Null)
      /\ worker # Null => /\ worker'.serial = worker.serial /\ worker'.id = worker.id
                          /\ worker'.stage = worker.stage /\ worker'.frame = worker.frame
                          /\ worker'.receipt = worker.receipt
                          /\ worker'.cancelled <=> worker.cancelled \/ worker.id = id
  <2>1. CASE worker # Null /\ worker.id = id
    <3>1. PICK w : w = [worker EXCEPT !.cancelled = TRUE]
      OBVIOUS
    <3>2. worker \in Worker
      BY <2>1 DEF SessionInv, TypeOK
    <3>3. w \in Worker
      BY <3>1, <3>2 DEF Worker
    <3>4. /\ w.serial = worker.serial /\ w.id = worker.id /\ w.stage = worker.stage
          /\ w.frame = worker.frame /\ w.receipt = worker.receipt /\ w.cancelled
      BY <3>1, <3>2 DEF Worker
    <3>5. w # Null
      BY <3>3, NullAssumption
    <3> QED
      BY <1>1, <2>1, <3>1, <3>3, <3>4, <3>5 DEF FlagWorker
  <2>2. CASE ~(worker # Null /\ worker.id = id)
    BY <1>1, <2>2 DEF FlagWorker, SessionInv, TypeOK
  <2> QED
    BY <2>1, <2>2
<1>3. PICK new : new = {s \in Serials : worker # Null /\ worker.id = id /\ worker.serial = s}
  OBVIOUS
<1>4. /\ new \subseteq 1..requests /\ new \cap (written \cup dropped) = {}
      /\ worker # Null => new = IF worker.id = id THEN {worker.serial} ELSE {}
      /\ worker = Null => new = {}
  BY <1>3 DEF SessionInv, SerialInv, TypeOK, Worker
<1>5. CASE ToolFrames(id) = {} /\ UNCHANGED <<open, output, dropped>>
  <2>1. cancelled' = cancelled \cup new /\ Queue' = Queue
    BY <1>3, <1>5 DEF Cancel, Queue
  <2>2. TypeOK'
    BY <1>1, <1>2, <1>3, <1>5, <2>1 DEF SessionInv, TypeOK
  <2>3. SerialInv'
    BY <1>1, <1>2, <1>4, <1>5, <2>1 DEF SessionInv, SerialInv
  <2>4. QueueInv'
    BY <1>2, <1>5, <2>1 DEF SessionInv, QueueInv
  <2>5. ReceiptInv'
    <3>1. ASSUME NEW s \in open' PROVE Owned(s)'
      BY <1>2, <1>5, <2>1 DEF SessionInv, ReceiptInv, Owned
    <3> QED
      BY <1>1, <1>2, <1>5, <3>1 DEF SessionInv, ReceiptInv, AtStage
  <2>6. CancelInv'
    <3>1. committed' \cap cancelled' = {}
      BY <1>1, <1>4, <2>1 DEF SessionInv, CancelInv, ReceiptInv
    <3>2. worker' # Null /\ worker'.serial \in cancelled' => worker'.cancelled
      BY <1>2, <1>4, <2>1 DEF SessionInv, CancelInv
    <3>3. \A i \in Queue : output[i].receipt => output[i].serial \notin new
      BY <1>4 DEF SessionInv, SerialInv
    <3> QED
      BY <1>5, <2>1, <3>1, <3>2, <3>3 DEF SessionInv, CancelInv
  <2>7. PlaceInv'
    BY <1>1, <1>2, <1>4, <1>5, <2>1 DEF SessionInv, PlaceInv, AtStage
  <2>8. WireInv' /\ EndInv'
    BY <1>1, <1>5, <2>1 DEF SessionInv, WireInv, EndInv
  <2> QED
    BY <2>2, <2>3, <2>4, <2>5, <2>6, <2>7, <2>8 DEF SessionInv
<1>6. ASSUME NEW i \in ToolFrames(id), Withdraw(i)
      PROVE  SessionInv'
  <2>1. /\ i \in Queue /\ output[i].tool /\ worker = Null /\ worker' = Null /\ new = {}
        /\ ToolFrames(id) = {i}
        /\ output[i] \in Frame
    BY <1>2, <1>4, QueueFacts DEF ToolFrames, SessionInv, QueueInv
  <2>2. PICK s : s = output[i].serial
    OBVIOUS
  <2>3. /\ s \in (1..requests) \ (written \cup dropped)
        /\ cancelled' = cancelled \cup {s} /\ open' = open \ {s}
    BY <1>3, <1>6, <2>1, <2>2 DEF Cancel, Withdraw, SessionInv, SerialInv
  <2>4. s \in Serials
    BY <2>1, <2>2 DEF Frame
  <2>5. CASE output[i].started
    <3>1. PICK f : f = [output[i] EXCEPT !.receipt = FALSE]
      OBVIOUS
    <3>2. /\ f \in Frame /\ f.serial = s /\ f.id = output[i].id /\ f.tool = output[i].tool
          /\ f.started = output[i].started /\ ~f.receipt
      BY <2>1, <2>2, <3>1 DEF Frame
    <3>3. /\ output' = [output EXCEPT ![i] = f] /\ dropped' = dropped
      BY <1>6, <2>5, <3>1 DEF Withdraw
    <3>4. /\ output' \in Seq(Frame) /\ Len(output') = Len(output)
          /\ \A j \in 1..Len(output) : output'[j] = IF j = i THEN f ELSE output[j]
      BY <2>1, <3>2, <3>3, ExceptSeq DEF SessionInv, TypeOK, Queue
    <3>5. /\ Queue' = Queue /\ output'[i] = f
          /\ \A j \in Queue : j # i => output'[j] = output[j]
      BY <2>1, <3>4 DEF Queue
    <3>6. \A j \in Queue : /\ output'[j].serial = output[j].serial
                           /\ output'[j].id = output[j].id
                           /\ output'[j].tool = output[j].tool
                           /\ output'[j].started = output[j].started
                           /\ output'[j].receipt => output[j].receipt
                           /\ j # i => output'[j].receipt = output[j].receipt
      BY <2>2, <3>2, <3>5
    <3>7. TypeOK'
      BY <1>1, <2>1, <2>3, <2>4, <3>3, <3>4 DEF SessionInv, TypeOK
    <3>8. SerialInv'
      BY <1>1, <2>1, <2>3, <3>3, <3>5, <3>6 DEF SessionInv, SerialInv
    <3>9. QueueInv'
      BY <2>1, <3>5, <3>6 DEF SessionInv, QueueInv
    <3>10. ReceiptInv'
      <4>1. ASSUME NEW x \in open' PROVE Owned(x)'
        BY <2>1, <2>2, <2>3, <3>5, <3>6 DEF SessionInv, ReceiptInv, Owned
      <4> QED
        BY <1>1, <2>1, <4>1 DEF SessionInv, ReceiptInv, AtStage
    <3>11. CancelInv'
      BY <1>1, <2>1, <2>2, <2>3, <3>2, <3>5, <3>6
      DEF SessionInv, CancelInv, ReceiptInv, SerialInv
    <3>12. PlaceInv'
      BY <1>1, <2>1, <2>3, <3>3, <3>5, <3>6 DEF SessionInv, PlaceInv
    <3>13. WireInv' /\ EndInv'
      BY <1>1, <2>1, <3>4, <3>5, <3>6 DEF SessionInv, WireInv, EndInv, Queue
    <3> QED
      BY <3>7, <3>8, <3>9, <3>10, <3>11, <3>12, <3>13 DEF SessionInv
  <2>6. CASE ~output[i].started
    <3>1. Leaves(i) /\ dropped' = dropped \cup {s}
      BY <1>6, <2>1, <2>2, <2>6, RemoveLeaves DEF Withdraw, SessionInv
    <3>2. /\ Len(output') <= MAX_RESPONSES
          /\ \A j \in Queue' :
                /\ output'[j].serial \in (1..requests) \ (written \cup dropped)
                /\ output'[j].serial # s
                /\ \A l \in Queue' : output'[j].serial = output'[l].serial => j = l
          /\ QueueInv'
          /\ \A x \in open' : Owned(x)'
          /\ \A j \in Queue' : output'[j].receipt => output'[j].serial \notin cancelled
          /\ \A x : (\E k \in Queue : output[k].serial = x) =>
                \/ x = s
                \/ \E j \in Queue' : output'[j].serial = x
      BY <1>1, <2>1, <2>2, <2>3, <3>1, LeavesInv
    <3>3. TypeOK'
      BY <1>1, <2>1, <2>3, <2>4, <3>1, <3>2 DEF SessionInv, TypeOK, Leaves
    <3>4. SerialInv'
      BY <1>1, <2>1, <2>3, <3>1, <3>2 DEF SessionInv, SerialInv
    <3>5. ReceiptInv'
      BY <1>1, <2>1, <3>2 DEF SessionInv, ReceiptInv, AtStage
    <3>6. CancelInv'
      BY <1>1, <2>1, <2>3, <3>2 DEF SessionInv, CancelInv, ReceiptInv
    <3>7. PlaceInv'
      BY <1>1, <2>1, <2>3, <3>1, <3>2 DEF SessionInv, PlaceInv
    <3>8. WireInv'
      <4>1. CASE onWire = 0
        BY <1>1, <3>1, <4>1 DEF SessionInv, WireInv, Leaves
      <4>2. CASE onWire # 0
        <5>1. /\ Len(output) > 0 /\ output[1].serial = onWire
              /\ \A j \in Queue : output[j].started <=> j = 1
          BY <1>1, <4>2 DEF SessionInv, WireInv
        <5>2. i # 1 /\ i \in 1..Len(output) /\ Len(output) \in Nat
          BY <2>1, <2>6, <5>1, QueueFacts DEF SessionInv, Queue
        <5>3. 1 \in Queue' /\ \A j \in Queue' : Before(i, j) = 1 <=> j = 1
          BY <3>1, <5>2 DEF Before, Leaves, Queue
        <5> QED
          BY <1>1, <3>1, <4>2, <5>1, <5>2, <5>3 DEF WireInv, Leaves
      <4> QED
        BY <4>1, <4>2
    <3>9. EndInv'
      BY <1>1 DEF EndInv
    <3> QED
      BY <3>2, <3>3, <3>4, <3>5, <3>6, <3>7, <3>8, <3>9 DEF SessionInv
  <2> QED
    BY <2>5, <2>6
<1> QED
  BY <1>5, <1>6 DEF Cancel

-----------------------------------------------------------------------------
(* completed_work *)

LEMMA EnqueueInv ==
    ASSUME SessionInv, EnqueueResult
    PROVE  SessionInv'
<1>1. /\ phase = "running" /\ worker # Null /\ worker \in Worker
      /\ worker.frame /\ ~worker.cancelled /\ worker' = Null
      /\ UNCHANGED <<phase, eof, initialized, ready, requests, open, committed,
                     cancelled, written, dropped, onWire>>
  BY DEF EnqueueResult, AtStage, SessionInv, TypeOK
<1>2. /\ \A i \in Queue : ~output[i].tool /\ ~output[i].receipt
      /\ Len(output) \in Nat
  BY <1>1, QueueFacts DEF SessionInv, QueueInv
<1>3. PICK f : f = NewFrame(worker.serial, worker.id, TRUE, worker.receipt)
  OBVIOUS
<1>4. /\ f \in Frame /\ f.serial = worker.serial /\ f.id = worker.id
      /\ f.tool /\ ~f.started /\ f.receipt = worker.receipt
  BY <1>1, <1>3 DEF NewFrame, Frame, Worker
<1>5. PICK n : n = Len(output) + 1
  OBVIOUS
<1>6. /\ output' \in Seq(Frame) /\ Len(output') <= MAX_RESPONSES
      /\ Len(output') = n /\ n \notin Queue /\ Queue' = Queue \cup {n}
      /\ \A i \in Queue : output'[i] = output[i]
      /\ output'[n] = f
  BY <1>3, <1>4, <1>5, AppendFacts DEF EnqueueResult, SessionInv
<1>7. TypeOK'
  BY <1>1, <1>6 DEF SessionInv, TypeOK
<1>8. SerialInv'
  BY <1>1, <1>4, <1>6 DEF SessionInv, SerialInv
<1>9. QueueInv'
  BY <1>1, <1>2, <1>4, <1>6 DEF SessionInv, QueueInv
<1>10. ReceiptInv'
  <2>1. ASSUME NEW s \in open' PROVE Owned(s)'
    BY <1>1, <1>2, <1>4, <1>6 DEF SessionInv, ReceiptInv, Owned
  <2> QED
    BY <1>1, <2>1 DEF SessionInv, ReceiptInv, AtStage
<1>11. CancelInv'
  BY <1>1, <1>2, <1>4, <1>6 DEF SessionInv, CancelInv
<1>12. PlaceInv'
  <2>1. ASSUME NEW s \in 1..requests
        PROVE  s \in written \cup dropped \/ \E i \in Queue' : output'[i].serial = s
    BY <1>1, <1>4, <1>6 DEF SessionInv, PlaceInv
  <2> QED
    BY <1>1, <2>1 DEF SessionInv, PlaceInv
<1>13. WireInv'
  <2>1. /\ Len(output) > 0 => 1 \in Queue /\ n # 1
        /\ Len(output') > 0
    BY <1>2, <1>5, <1>6 DEF Queue
  <2>2. CASE onWire = 0
    BY <1>1, <1>4, <1>6, <2>2 DEF SessionInv, WireInv
  <2>3. CASE onWire # 0
    <3>1. /\ Len(output) > 0 /\ output[1].serial = onWire
          /\ \A i \in Queue : output[i].started <=> i = 1
      BY <1>1, <2>3 DEF SessionInv, WireInv
    <3>2. output'[1].serial = onWire /\ \A i \in Queue' : output'[i].started <=> i = 1
      BY <1>4, <1>6, <2>1, <3>1
    <3> QED
      BY <1>1, <2>1, <2>3, <3>2 DEF WireInv
  <2> QED
    BY <2>2, <2>3
<1>14. EndInv'
  BY <1>1 DEF EndInv
<1> QED
  BY <1>7, <1>8, <1>9, <1>10, <1>11, <1>12, <1>13, <1>14 DEF SessionInv

LEMMA DiscardInv ==
    ASSUME SessionInv, DiscardResult
    PROVE  SessionInv'
<1>1. /\ phase = "running" /\ worker # Null /\ worker \in Worker /\ AtStage("finished")
      /\ worker.cancelled \/ ~worker.frame
      /\ worker' = Null /\ open' = open \ {worker.serial}
      /\ dropped' = dropped \cup {worker.serial} /\ Queue' = Queue
      /\ UNCHANGED <<phase, eof, initialized, ready, output, requests, committed,
                     cancelled, written, onWire>>
  BY DEF DiscardResult, AtStage, SessionInv, TypeOK, Queue
<1>2. TypeOK'
  BY <1>1 DEF SessionInv, TypeOK, Worker
<1>3. SerialInv'
  BY <1>1 DEF SessionInv, SerialInv
<1>4. QueueInv'
  BY <1>1 DEF SessionInv, QueueInv
<1>5. ReceiptInv'
  <2>1. ASSUME NEW s \in open' PROVE Owned(s)'
    BY <1>1 DEF SessionInv, ReceiptInv, Owned
  <2> QED
    BY <1>1, <2>1 DEF SessionInv, ReceiptInv, AtStage
<1>6. CancelInv'
  BY <1>1 DEF SessionInv, CancelInv
<1>7. PlaceInv'
  BY <1>1 DEF SessionInv, PlaceInv, SerialInv
<1>8. WireInv' /\ EndInv'
  BY <1>1 DEF SessionInv, WireInv, EndInv
<1> QED
  BY <1>2, <1>3, <1>4, <1>5, <1>6, <1>7, <1>8 DEF SessionInv

LEMMA ResultFailsInv ==
    ASSUME SessionInv, ResultFails
    PROVE  SessionInv'
<1>1. /\ phase = "running" /\ Close(Null, open \ {worker.serial})
      /\ UNCHANGED <<eof, initialized, ready, requests, committed, cancelled,
                     written, dropped, onWire>>
  BY DEF ResultFails
<1>2. requests <= MaxRequests /\ eof \in BOOLEAN /\ initialized \in BOOLEAN /\ ready \in BOOLEAN
  BY SessionAssumption DEF SessionInv, TypeOK
<1> QED
  BY <1>1, <1>2, CloseInv

-----------------------------------------------------------------------------
(* write *)

LEMMA WriteSomeInv ==
    ASSUME SessionInv, WriteSome
    PROVE  SessionInv'
<1>1. /\ phase = "running" /\ 1 \in Queue /\ ~output[1].started
      /\ output[1] \in Frame /\ Len(output) \in Nat /\ Len(output) > 0
      /\ UNCHANGED <<phase, eof, initialized, ready, worker, requests, open, committed,
                     cancelled, written, dropped>>
      /\ onWire' = output[1].serial
  BY QueueFacts DEF WriteSome, Writing, SessionInv, Queue
<1>2. PICK f : f = [output[1] EXCEPT !.started = TRUE]
  OBVIOUS
<1>3. /\ f \in Frame /\ f.serial = output[1].serial /\ f.id = output[1].id
      /\ f.tool = output[1].tool /\ f.receipt = output[1].receipt /\ f.started
  BY <1>1, <1>2 DEF Frame
<1>4. output' = [output EXCEPT ![1] = f]
  BY <1>2 DEF WriteSome
<1>5. /\ output' \in Seq(Frame) /\ Len(output') = Len(output)
      /\ \A j \in 1..Len(output) : output'[j] = IF j = 1 THEN f ELSE output[j]
  BY <1>1, <1>3, <1>4, ExceptSeq DEF SessionInv, TypeOK, Queue
<1>6. /\ Queue' = Queue /\ output'[1] = f
      /\ \A j \in Queue : j # 1 => output'[j] = output[j]
  BY <1>1, <1>5 DEF Queue
<1>7. \A j \in Queue : /\ output'[j].serial = output[j].serial
                       /\ output'[j].id = output[j].id
                       /\ output'[j].tool = output[j].tool
                       /\ output'[j].receipt = output[j].receipt
  BY <1>3, <1>6
<1>8. onWire' \in 1..requests
  BY <1>1 DEF SessionInv, SerialInv
<1>9. TypeOK'
  <2>1. onWire' \in 0..MaxRequests
    BY <1>8, SessionAssumption DEF SessionInv, TypeOK
  <2> QED
    BY <1>1, <1>5, <2>1 DEF SessionInv, TypeOK
<1>10. SerialInv'
  BY <1>1, <1>6, <1>7 DEF SessionInv, SerialInv
<1>11. QueueInv'
  BY <1>1, <1>6, <1>7 DEF SessionInv, QueueInv
<1>12. ReceiptInv'
  <2>1. ASSUME NEW s \in open' PROVE Owned(s)'
    BY <1>1, <1>6, <1>7 DEF SessionInv, ReceiptInv, Owned
  <2> QED
    BY <1>1, <2>1 DEF SessionInv, ReceiptInv, AtStage
<1>13. CancelInv'
  BY <1>1, <1>6, <1>7 DEF SessionInv, CancelInv
<1>14. PlaceInv'
  BY <1>1, <1>6, <1>7 DEF SessionInv, PlaceInv, AtStage
<1>15. WireInv'
  <2>1. onWire = 0 /\ \A j \in Queue : ~output[j].started
    BY <1>1 DEF SessionInv, WireInv
  <2>2. \A j \in Queue' : output'[j].started <=> j = 1
    BY <1>1, <1>3, <1>6, <2>1
  <2>3. output'[1].serial = onWire' /\ Len(output') > 0 /\ onWire' # 0
    BY <1>1, <1>3, <1>5, <1>6, <1>8 DEF SessionInv, TypeOK
  <2> QED
    BY <2>2, <2>3 DEF WireInv
<1>16. EndInv'
  BY <1>1 DEF EndInv
<1> QED
  BY <1>9, <1>10, <1>11, <1>12, <1>13, <1>14, <1>15, <1>16 DEF SessionInv

LEMMA WriteLastInv ==
    ASSUME SessionInv, WriteLast
    PROVE  SessionInv'
<1>1. /\ phase = "running" /\ 1 \in Queue /\ output[1] \in Frame
      /\ Len(output) \in Nat /\ Len(output) > 0
      /\ written' = written \cup {output[1].serial} /\ onWire' = 0
      /\ UNCHANGED <<eof, initialized, ready, requests, cancelled, dropped>>
  BY QueueFacts DEF WriteLast, Writing, SessionInv, Queue
<1>2. CASE Close(worker, open) /\ UNCHANGED committed
  <2>1. requests <= MaxRequests /\ eof \in BOOLEAN /\ initialized \in BOOLEAN /\ ready \in BOOLEAN
    BY SessionAssumption DEF SessionInv, TypeOK
  <2> QED
    BY <1>1, <1>2, <2>1, CloseInv
<1>3. CASE /\ output' = Tail(output) /\ UNCHANGED <<phase, worker>>
           /\ \/ /\ output[1].receipt
                 /\ committed' = committed \cup {output[1].serial}
                 /\ open' = open \ {output[1].serial}
              \/ ~output[1].receipt /\ UNCHANGED <<open, committed>>
  <2>1. PICK s : s = output[1].serial
    OBVIOUS
  <2>2. /\ s \in Serials /\ s \in (1..requests) \ (written \cup dropped)
        /\ worker # Null => worker.serial # s
        /\ \A j \in Queue : output[j].serial = s => j = 1
    BY <1>1, <2>1 DEF Frame, SessionInv, SerialInv
  <2>3. /\ open' = open \ {s}
        /\ committed' = IF output[1].receipt THEN committed \cup {s} ELSE committed
    <3>1. ~output[1].receipt => s \notin open
      BY <1>1, <2>1, <2>2 DEF SessionInv, ReceiptInv, Owned
    <3> QED
      BY <1>3, <2>1, <3>1
  <2>4. Leaves(1)
    BY <1>1, <1>3, RemoveLeaves DEF SessionInv
  <2>5. /\ Len(output') <= MAX_RESPONSES
        /\ \A j \in Queue' :
              /\ output'[j].serial \in (1..requests) \ (written \cup dropped)
              /\ output'[j].serial # s
              /\ worker # Null => worker.serial # output'[j].serial
              /\ \A l \in Queue' : output'[j].serial = output'[l].serial => j = l
        /\ QueueInv'
        /\ \A x \in open' : Owned(x)'
        /\ \A j \in Queue' : output'[j].receipt => output'[j].serial \notin cancelled
        /\ \A x : (\E k \in Queue : output[k].serial = x) =>
              \/ x = s
              \/ \E j \in Queue' : output'[j].serial = x
    <3>1. PICK i \in Queue : i = 1
      BY <1>1
    <3>2. /\ Leaves(i) /\ s = output[i].serial
          /\ worker' = worker /\ open' = open \ {output[i].serial} /\ requests' = requests
      BY <1>1, <1>3, <2>1, <2>3, <2>4, <3>1
    <3> QED
      BY <3>2, LeavesInv
  <2>6. TypeOK'
    <3>1. onWire' \in 0..MaxRequests
      BY <1>1, SessionAssumption
    <3> QED
      BY <1>1, <1>3, <2>1, <2>2, <2>3, <2>4, <2>5, <3>1 DEF SessionInv, TypeOK, Leaves
  <2>7. SerialInv'
    BY <1>1, <1>3, <2>1, <2>2, <2>5 DEF SessionInv, SerialInv
  <2>8. ReceiptInv'
    BY <1>1, <1>3, <2>1, <2>3, <2>5 DEF SessionInv, ReceiptInv, AtStage
  <2>9. CancelInv'
    <3>1. output[1].receipt => s \notin cancelled
      BY <1>1, <2>1 DEF SessionInv, CancelInv
    <3>2. committed' \cap cancelled' = {}
      BY <1>1, <2>3, <3>1 DEF SessionInv, CancelInv
    <3> QED
      BY <1>1, <1>3, <2>5, <3>2 DEF SessionInv, CancelInv
  <2>10. PlaceInv'
    <3>1. dropped' \subseteq cancelled' \ written'
      BY <1>1, <2>1, <2>2 DEF SessionInv, PlaceInv
    <3>2. ASSUME NEW x \in 1..requests
          PROVE  \/ x \in written' \cup dropped
                 \/ worker # Null /\ worker.serial = x
                 \/ \E j \in Queue' : output'[j].serial = x
      BY <1>1, <2>1, <2>5 DEF SessionInv, PlaceInv
    <3> QED
      BY <1>1, <1>3, <3>1, <3>2 DEF SessionInv, PlaceInv, AtStage
  <2>11. WireInv'
    <3>1. \A j \in Queue \ {1} : ~output[j].started
      BY <1>1 DEF SessionInv, WireInv
    <3> QED
      BY <1>1, <2>4, <3>1 DEF WireInv, Leaves
  <2>12. EndInv'
    BY <1>1, <1>3 DEF EndInv
  <2> QED
    BY <2>5, <2>6, <2>7, <2>8, <2>9, <2>10, <2>11, <2>12 DEF SessionInv
<1> QED
  BY <1>1, <1>2, <1>3 DEF WriteLast

LEMMA WriteFailsInv ==
    ASSUME SessionInv, WriteFails
    PROVE  SessionInv'
<1>1. /\ phase = "running" /\ Close(worker, open)
      /\ UNCHANGED <<eof, initialized, ready, requests, committed, cancelled,
                     written, dropped, onWire>>
  BY DEF WriteFails, Writing
<1>2. requests <= MaxRequests /\ eof \in BOOLEAN /\ initialized \in BOOLEAN /\ ready \in BOOLEAN
  BY SessionAssumption DEF SessionInv, TypeOK
<1> QED
  BY <1>1, <1>2, CloseInv

-----------------------------------------------------------------------------
(* The end of the session *)

LEMMA EndingInv ==
    ASSUME SessionInv, Done \/ Stop \/ Die
    PROVE  SessionInv'
<1>1. /\ phase' \in {"closing", "closed"} /\ output' = <<>>
      /\ worker' \in {worker, Null} /\ open' \subseteq open
      /\ phase' = "closed" => worker' = Null
      /\ UNCHANGED <<eof, initialized, ready, requests, committed, cancelled,
                     written, dropped, onWire>>
  BY DEF Done, Stop, Die, SessionInv, EndInv
<1>2. /\ Len(output') = 0 /\ output' \in Seq(Frame) /\ Queue' = {}
  BY <1>1, EmptySeq DEF Queue
<1>3. open' # {} => worker' # Null /\ \A s \in open' : worker.serial = s /\ worker.receipt
  <2>1. CASE Die
    BY <2>1 DEF Die
  <2>2. CASE Done \/ Stop
    <3>1. output = <<>> /\ Queue = {}
      BY <2>2, EmptySeq DEF Done, Stop, SessionInv, EndInv, Queue
    <3>2. \A s \in open : worker # Null /\ worker.serial = s /\ worker.receipt
      BY <3>1 DEF SessionInv, ReceiptInv, Owned
    <3> QED
      BY <2>2, <3>2 DEF Done, Stop
  <2> QED
    BY <2>1, <2>2
<1>4. TypeOK'
  <2>1. Len(output') <= MAX_RESPONSES
    BY <1>2, SessionAssumption
  <2> QED
    BY <1>1, <1>2, <2>1 DEF SessionInv, TypeOK
<1>5. SerialInv' /\ QueueInv'
  BY <1>1, <1>2 DEF SessionInv, SerialInv, QueueInv
<1>6. ReceiptInv'
  BY <1>1, <1>3 DEF SessionInv, ReceiptInv, Owned, AtStage
<1>7. CancelInv'
  BY <1>1, <1>2 DEF SessionInv, CancelInv
<1>8. PlaceInv' /\ WireInv' /\ EndInv'
  BY <1>1, <1>3 DEF PlaceInv, WireInv, EndInv
<1> QED
  BY <1>4, <1>5, <1>6, <1>7, <1>8 DEF SessionInv

LEMMA ReadStepInv ==
    ASSUME SessionInv, ReadStep
    PROVE  SessionInv'
<1>0. eof \in BOOLEAN /\ initialized \in BOOLEAN /\ ready \in BOOLEAN /\ requests <= MaxRequests
  BY SessionAssumption DEF SessionInv, TypeOK
<1>1. ASSUME NEW id \in Ids, AnswerAtOnce(id) PROVE SessionInv'
  BY <1>0, <1>1, ReplyInv DEF AnswerAtOnce
<1>2. ASSUME NEW id \in Ids, Initialize(id) PROVE SessionInv'
  BY <1>0, <1>2, ReplyInv DEF Initialize
<1>3. CASE Malformed \/ Oversized
  BY <1>0, <1>3, ReplyInv DEF Malformed, Oversized
<1>4. CASE Initialized \/ EndOfInput
  BY <1>0, <1>4, FlagsInv DEF Initialized, EndOfInput
<1>5. CASE BadInput
  BY <1>0, <1>5, CloseInv DEF BadInput
<1> QED
  BY <1>1, <1>2, <1>3, <1>4, <1>5, StartToolInv, CancelStepInv DEF ReadStep

LEMMA NextInv == SessionInv /\ [Next]_vars => SessionInv'
<1> SUFFICES ASSUME SessionInv, [Next]_vars PROVE SessionInv'
  OBVIOUS
<1>1. CASE UNCHANGED vars
  BY <1>1, FlagsInv DEF vars, SessionInv, TypeOK
<1>2. CASE CompletedWork
  BY <1>2, EnqueueInv, DiscardInv, ResultFailsInv DEF CompletedWork
<1>3. CASE Write
  BY <1>3, WriteSomeInv, WriteLastInv, WriteFailsInv DEF Write
<1> QED
  BY <1>1, <1>2, <1>3, ReadStepInv, WorkerThreadInv, EndingInv DEF Next

(* The parts of the invariant hold together in every reachable state of a  *)
(* session, however its two threads interleave (Session::run, Worker).     *)
THEOREM SessionInvariant == Spec => []SessionInv
BY InitInv, NextInv, PTL DEF Spec

(* Every reachable state of a session is well typed, and its queue never   *)
(* holds more than MAX_RESPONSES frames (Session::enqueue).                *)
THEOREM TypeCorrect == Spec => []TypeOK
<1>1. SessionInv => TypeOK
  BY DEF SessionInv
<1> QED
  BY <1>1, SessionInvariant, PTL

(* No tool call works while another one of the session has an inbox        *)
(* transaction open, so the server never waits for its own write lock      *)
(* (Session::request, Session::busy).                                      *)
THEOREM NoSelfBlockTheorem == Spec => []NoSelfBlock
<1>1. ASSUME SessionInv PROVE NoSelfBlock
  <2>1. AtStage("spawned") \/ AtStage("calling") => open = {}
    BY <1>1 DEF SessionInv, ReceiptInv, QueueInv, Owned, AtStage
  <2>2. ASSUME NEW s \in open, NEW t \in open PROVE s = t
    BY <1>1, <2>2 DEF SessionInv, ReceiptInv, QueueInv, Owned
  <2>3. open = {} \/ \E s : open = {s}
    BY <2>2
  <2>4. Cardinality(open) <= 1
    <3>1. CASE open = {}
      BY <3>1, FS_EmptySet
    <3>2. ASSUME NEW s, open = {s} PROVE Cardinality(open) <= 1
      <4>1. Cardinality(open) = 1
        BY <3>2, FS_Singleton
      <4> QED
        BY <4>1
    <3> QED
      BY <2>3, <3>1, <3>2
  <2> QED
    BY <2>1, <2>4 DEF NoSelfBlock
<1> QED
  BY <1>1, SessionInvariant, PTL

(* A cancelled call's inbox read is never committed, wherever the cancel   *)
(* found it (Session::cancel, the worker's checks of its flag).            *)
THEOREM CancelledNeverCommitsTheorem == Spec => []CancelledNeverCommits
<1>1. SessionInv => CancelledNeverCommits
  BY DEF SessionInv, CancelInv, CancelledNeverCommits
<1> QED
  BY <1>1, SessionInvariant, PTL

(* A receipt is committed only after its whole response, and an open one   *)
(* always has an owner that will end it (Session::write, Frame.receipt).   *)
THEOREM ReceiptFollowsResponseTheorem == Spec => []ReceiptFollowsResponse
<1>1. ASSUME SessionInv PROVE ReceiptFollowsResponse
  <2>1. committed \subseteq written /\ \A s \in open : Owned(s)
    BY <1>1 DEF SessionInv, ReceiptInv
  <2>2. open \cap (written \cup dropped) = {}
    BY <1>1, <2>1 DEF SessionInv, SerialInv, Owned
  <2> QED
    BY <1>1, <2>1, <2>2, QueueFacts DEF SessionInv, Owned, ReceiptFollowsResponse
<1> QED
  BY <1>1, SessionInvariant, PTL

(* A frame that is cut off on the wire stays the front of the queue until  *)
(* its rest is written, so frames never interleave (Session::cancel).      *)
THEOREM FramingIntactTheorem == Spec => []FramingIntact
<1>1. ASSUME SessionInv PROVE FramingIntact
  BY <1>1, QueueFacts DEF SessionInv, WireInv, FramingIntact
<1> QED
  BY <1>1, SessionInvariant, PTL

(* Ids in flight are distinct, whatever ids the client uses again          *)
(* (Session::request).                                                     *)
THEOREM DistinctInFlightTheorem == Spec => []DistinctInFlight
<1>1. ASSUME SessionInv PROVE DistinctInFlight
  BY <1>1, QueueFacts DEF SessionInv, QueueInv, DistinctInFlight
<1> QED
  BY <1>1, SessionInvariant, PTL

(* A closed session leaves no worker, no frame and no open transaction     *)
(* (serve, Worker::stop).                                                  *)
THEOREM CleanShutdownTheorem == Spec => []CleanShutdown
<1>1. SessionInv => CleanShutdown
  BY DEF SessionInv, EndInv, CleanShutdown
<1> QED
  BY <1>1, SessionInvariant, PTL

(* While the session runs, every request is in exactly one place, and a    *)
(* response is discarded only if its call was cancelled (Session::request, *)
(* Session::completed_work).                                               *)
THEOREM NoRequestLostTheorem == Spec => []NoRequestLost
<1>1. ASSUME SessionInv, phase = "running", NEW s \in 1..requests
      PROVE  Cardinality({i \in DOMAIN output : output[i].serial = s})
             + (IF worker # Null /\ worker.serial = s THEN 1 ELSE 0)
             + (IF s \in written \cup dropped THEN 1 ELSE 0) = 1
  <2>1. PICK queued : queued = {i \in DOMAIN output : output[i].serial = s}
    OBVIOUS
  <2>2. queued = {i \in Queue : output[i].serial = s}
    BY <1>1, <2>1, QueueFacts DEF SessionInv
  <2>3. CASE queued = {}
    <3>1. Cardinality(queued) = 0
      BY <2>3, FS_EmptySet
    <3> QED
      BY <1>1, <2>1, <2>2, <2>3, <3>1 DEF SessionInv, SerialInv, PlaceInv
  <2>4. CASE queued # {}
    <3>1. PICK i \in Queue : output[i].serial = s
      BY <2>2, <2>4
    <3>2. queued = {i}
      BY <1>1, <2>2, <3>1 DEF SessionInv, SerialInv
    <3>3. Cardinality(queued) = 1
      BY <3>2, FS_Singleton
    <3>4. s \notin written \cup dropped /\ ~(worker # Null /\ worker.serial = s)
      BY <1>1, <3>1 DEF SessionInv, SerialInv
    <3> QED
      BY <2>1, <3>3, <3>4
  <2> QED
    BY <2>3, <2>4
<1>2. SessionInv => NoRequestLost
  BY <1>1 DEF NoRequestLost, SessionInv, PlaceInv
<1> QED
  BY <1>2, SessionInvariant, PTL

-----------------------------------------------------------------------------
(* Who has a receipt has a transaction that is still open. *)

BackedInv ==
    /\ worker # Null /\ worker.receipt => worker.serial \in open
    /\ \A i \in Queue : output[i].receipt => output[i].serial \in open

LEMMA CloseBacked ==
    ASSUME SessionInv, BackedInv, Close(worker, open) \/ (\E kept : Close(Null, kept))
    PROVE  BackedInv'
<1>1. Queue' = {}
  BY EmptySeq DEF Close, Queue
<1>2. ASSUME worker' # Null, worker'.receipt PROVE worker'.serial \in open'
  <2>1. /\ Close(worker, open) /\ worker # Null /\ worker' = [worker EXCEPT !.cancelled = TRUE]
    BY <1>2, NullAssumption DEF Close
  <2>2. worker'.serial = worker.serial /\ worker.receipt
    BY <1>2, <2>1 DEF SessionInv, TypeOK, Worker
  <2>3. worker.serial \in open /\ \A i \in DOMAIN output : output[i].serial # worker.serial
    BY <2>1, <2>2, QueueFacts DEF BackedInv, SessionInv, SerialInv
  <2> QED
    BY <2>1, <2>2, <2>3 DEF Close
<1> QED
  BY <1>1, <1>2 DEF BackedInv

LEMMA AppendBacked ==
    ASSUME SessionInv, BackedInv, CanEnqueue, NEW f \in Frame, output' = Append(output, f),
           UNCHANGED open, worker' \in {worker, Null}, f.receipt => f.serial \in open
    PROVE  BackedInv'
<1>1. PICK n : n = Len(output) + 1
  OBVIOUS
<1>2. /\ Queue' = Queue \cup {n} /\ output'[n] = f
      /\ \A i \in Queue : output'[i] = output[i]
  BY <1>1, AppendFacts DEF SessionInv
<1> QED
  BY <1>2 DEF BackedInv

LEMMA LeaveBacked ==
    ASSUME SessionInv, BackedInv, NEW i \in Queue, Leaves(i),
           UNCHANGED worker, open' \in {open, open \ {output[i].serial}}
    PROVE  BackedInv'
<1>1. worker # Null => worker.serial # output[i].serial
  BY DEF SessionInv, SerialInv
<1>2. ASSUME NEW j \in Queue', output'[j].receipt PROVE output'[j].serial \in open'
  BY <1>2 DEF Leaves, BackedInv, SessionInv, SerialInv
<1> QED
  BY <1>1, <1>2 DEF BackedInv

LEMMA ReadBacked ==
    ASSUME SessionInv, BackedInv, ReadStep
    PROVE  BackedInv'
<1>1. ASSUME NEW id \in Ids \cup {Null}, Reply(id), Reading PROVE BackedInv'
  <2>1. CASE Close(worker, open)
    BY <2>1, CloseBacked
  <2>2. CASE /\ CanEnqueue /\ UNCHANGED <<worker, open>>
             /\ output' = Append(output, NewFrame(requests + 1, id, FALSE, FALSE))
    <3>1. requests + 1 \in Serials
      BY <1>1, SessionAssumption DEF Reading, SessionInv, TypeOK, Serials
    <3>2. PICK f : f = NewFrame(requests + 1, id, FALSE, FALSE)
      OBVIOUS
    <3>3. f \in Frame /\ ~f.receipt
      BY <3>1, <3>2 DEF NewFrame, Frame
    <3> QED
      BY <2>2, <3>2, <3>3, AppendBacked
  <2> QED
    BY <1>1, <2>1, <2>2 DEF Reply
<1>2. ASSUME NEW id \in Ids, StartTool(id) PROVE BackedInv'
  BY <1>2 DEF StartTool, BackedInv, Queue
<1>3. CASE Initialized \/ EndOfInput
  BY <1>3 DEF Initialized, EndOfInput, BackedInv, Queue
<1>4. CASE BadInput
  BY <1>4, CloseBacked DEF BadInput
<1>5. ASSUME NEW id \in Ids, Cancel(id) PROVE BackedInv'
  <2>1. worker' # Null => /\ worker # Null /\ worker'.serial = worker.serial
                          /\ worker'.receipt = worker.receipt
    BY <1>5 DEF Cancel, FlagWorker, SessionInv, TypeOK, Worker
  <2>2. CASE UNCHANGED <<open, output>>
    BY <2>1, <2>2 DEF BackedInv, Queue
  <2>3. ASSUME NEW i \in ToolFrames(id), Withdraw(i) PROVE BackedInv'
    <3>1. i \in Queue /\ output[i].tool /\ open' = open \ {output[i].serial}
      BY <2>3, QueueFacts DEF ToolFrames, Withdraw, SessionInv
    <3>2. worker = Null /\ worker' = Null
      BY <1>5, <3>1 DEF SessionInv, QueueInv, Cancel, FlagWorker
    <3>3. CASE ~output[i].started
      <4>1. Leaves(i)
        BY <2>3, <3>1, <3>3, RemoveLeaves DEF Withdraw, SessionInv
      <4> QED
        BY <3>1, <3>2, <4>1, LeaveBacked
    <3>4. CASE output[i].started
      <4>1. output' = [output EXCEPT ![i].receipt = FALSE]
        BY <2>3, <3>4 DEF Withdraw
      <4>2. PICK f : f = [output[i] EXCEPT !.receipt = FALSE]
        OBVIOUS
      <4>3. f \in Frame /\ ~f.receipt
        BY <3>1, <4>2, QueueFacts DEF Frame, SessionInv
      <4>4. output' = [output EXCEPT ![i] = f]
        BY <4>1, <4>2
      <4>5. /\ Len(output') = Len(output)
            /\ \A j \in 1..Len(output) : output'[j] = IF j = i THEN f ELSE output[j]
        BY <3>1, <4>3, <4>4, ExceptSeq DEF SessionInv, TypeOK, Queue
      <4>6. ASSUME NEW j \in Queue', output'[j].receipt PROVE output'[j].serial \in open'
        BY <3>1, <4>3, <4>5, <4>6 DEF BackedInv, SessionInv, SerialInv, Queue
      <4> QED
        BY <3>2, <4>6 DEF BackedInv
    <3> QED
      BY <3>3, <3>4
  <2> QED
    BY <1>5, <2>2, <2>3 DEF Cancel
<1> QED
  BY <1>1, <1>2, <1>3, <1>4, <1>5 DEF ReadStep, AnswerAtOnce, Initialize, Malformed, Oversized

LEMMA WorkerBacked ==
    ASSUME SessionInv, BackedInv, WorkerThread
    PROVE  BackedInv'
<1>1. /\ worker # Null /\ worker \in Worker /\ UNCHANGED output
      /\ \A i \in Queue : output[i].serial # worker.serial
  BY DEF WorkerThread, WorkerStops, Admit, CallTool, BuildFrame, Finish, WorkerFails,
         WorkerStep, AtStage, SessionInv, TypeOK, SerialInv
<1>2. CASE WorkerStops \/ WorkerFails
  <2>1. ~worker'.receipt /\ open' = open \ {worker.serial}
    BY <1>1, <1>2 DEF WorkerStops, WorkerFails, WorkerStep, Stopped, Worker
  <2> QED
    BY <1>1, <2>1 DEF BackedInv, Queue
<1>3. CASE Admit \/ BuildFrame \/ Finish
  <2>1. worker'.serial = worker.serial /\ worker'.receipt = worker.receipt /\ UNCHANGED open
    BY <1>1, <1>3 DEF Admit, BuildFrame, Finish, WorkerStep, Worker
  <2> QED
    BY <1>1, <2>1 DEF BackedInv, Queue
<1>4. CASE CallTool
  <2>1. /\ worker'.serial = worker.serial /\ open \subseteq open'
        /\ worker'.receipt => worker.serial \in open'
    BY <1>1, <1>4 DEF CallTool, WorkerStep, Worker
  <2> QED
    BY <1>1, <2>1 DEF BackedInv, Queue
<1> QED
  BY <1>2, <1>3, <1>4 DEF WorkerThread

LEMMA MainBacked ==
    ASSUME SessionInv, SessionInv', BackedInv, CompletedWork \/ Write
    PROVE  BackedInv'
<1>1. CASE EnqueueResult
  <2>1. worker # Null /\ worker \in Worker /\ worker' = Null /\ UNCHANGED open
    BY <1>1 DEF EnqueueResult, AtStage, SessionInv, TypeOK
  <2>2. PICK f : f = NewFrame(worker.serial, worker.id, TRUE, worker.receipt)
    OBVIOUS
  <2>3. f \in Frame /\ f.serial = worker.serial /\ f.receipt = worker.receipt
    BY <2>1, <2>2 DEF NewFrame, Frame, Worker
  <2>4. f.receipt => f.serial \in open
    BY <2>1, <2>3 DEF BackedInv
  <2> QED
    BY <1>1, <2>1, <2>2, <2>3, <2>4, AppendBacked DEF EnqueueResult
<1>2. CASE DiscardResult
  <2>1. worker # Null /\ worker' = Null /\ UNCHANGED output /\ open' = open \ {worker.serial}
    BY <1>2 DEF DiscardResult, AtStage
  <2> QED
    BY <2>1 DEF BackedInv, Queue, SessionInv, SerialInv
<1>3. CASE ResultFails \/ WriteFails
  BY <1>3, CloseBacked DEF ResultFails, WriteFails
<1>4. CASE WriteSome
  <2>1. /\ 1 \in Queue /\ output[1] \in Frame /\ Len(output) \in Nat
        /\ output' = [output EXCEPT ![1].started = TRUE] /\ UNCHANGED <<worker, open>>
    BY <1>4, QueueFacts DEF WriteSome, Writing, SessionInv, Queue
  <2>2. PICK f : f = [output[1] EXCEPT !.started = TRUE]
    OBVIOUS
  <2>3. f \in Frame /\ f.serial = output[1].serial /\ f.receipt = output[1].receipt
    BY <2>1, <2>2 DEF Frame
  <2>4. output' = [output EXCEPT ![1] = f]
    BY <2>1, <2>2
  <2>5. /\ output' \in Seq(Frame) /\ Len(output') = Len(output)
        /\ \A j \in 1..Len(output) : output'[j] = IF j = 1 THEN f ELSE output[j]
    <3>1. output \in Seq(Frame) /\ 1 \in 1..Len(output) /\ f \in Frame
      BY <2>1, <2>3 DEF SessionInv, TypeOK, Queue
    <3> QED
      BY <2>4, <3>1, ExceptSeq
  <2> QED
    BY <2>1, <2>3, <2>5 DEF BackedInv, Queue
<1>5. CASE WriteLast
  <2>1. 1 \in Queue
    BY <1>5, QueueFacts DEF WriteLast, Writing, SessionInv, Queue
  <2>2. CASE Close(worker, open)
    BY <2>2, CloseBacked
  <2>3. CASE /\ output' = Tail(output) /\ UNCHANGED worker
             /\ open' \in {open, open \ {output[1].serial}}
    <3>1. PICK i \in Queue : i = 1
      BY <2>1
    <3>2. Leaves(i)
      BY <2>3, <3>1, RemoveLeaves DEF SessionInv
    <3> QED
      BY <2>3, <3>1, <3>2, LeaveBacked
  <2> QED
    BY <1>5, <2>2, <2>3 DEF WriteLast
<1> QED
  BY <1>1, <1>2, <1>3, <1>4, <1>5 DEF CompletedWork, Write

LEMMA EndBacked ==
    ASSUME SessionInv, BackedInv, Done \/ Stop \/ Die
    PROVE  BackedInv'
<1>1. CASE Done
  BY <1>1 DEF Done, BackedInv, Queue
<1>2. CASE Stop
  <2>1. Queue' = {} /\ worker' = Null
    BY <1>2, EmptySeq DEF Stop, SessionInv, EndInv, Queue
  <2> QED
    BY <2>1 DEF BackedInv
<1>3. CASE Die
  <2>1. Queue' = {} /\ worker' = Null
    BY <1>3, EmptySeq DEF Die, Queue
  <2> QED
    BY <2>1 DEF BackedInv
<1> QED
  BY <1>1, <1>2, <1>3

LEMMA BackedInvariant == Spec => []BackedInv
<1>1. ASSUME Init PROVE BackedInv
  <2>1. worker = Null /\ Queue = {}
    BY <1>1, EmptySeq DEF Init, Queue
  <2> QED
    BY <2>1 DEF BackedInv
<1>2. ASSUME SessionInv, SessionInv', BackedInv, [Next]_vars PROVE BackedInv'
  <2>1. CASE UNCHANGED vars
    BY <1>2, <2>1 DEF vars, BackedInv, Queue
  <2> QED
    BY <1>2, <2>1, ReadBacked, WorkerBacked, MainBacked, EndBacked DEF Next
<1> QED
  BY <1>1, <1>2, SessionInvariant, PTL DEF Spec

-----------------------------------------------------------------------------
(* Receipts: what a step makes of every request's inbox read. *)

LEMMA OpenFacts ==
    ASSUME SessionInv, NEW s \in open
    PROVE  /\ s \in Serials /\ s \in 1..requests /\ ~ToCome(s)
           /\ s \notin committed \cup written
           /\ \A t \in open : t = s
<1>1. Owned(s) /\ s \in Serials /\ requests \in Nat
  BY DEF SessionInv, ReceiptInv, TypeOK
<1>2. s \in 1..requests /\ s \notin written
  BY <1>1 DEF Owned, SessionInv, SerialInv
<1>3. s \notin committed
  BY <1>2 DEF SessionInv, ReceiptInv
<1>4. ASSUME AtStage("spawned") \/ AtStage("calling") PROVE worker.serial # s
  BY <1>1, <1>4 DEF Owned, AtStage, SessionInv, ReceiptInv, SerialInv
<1>5. ~(s > requests)
  BY <1>1, <1>2
<1>6. ASSUME NEW t \in open PROVE t = s
  BY <1>1, <1>6 DEF SessionInv, ReceiptInv, QueueInv, Owned
<1> QED
  BY <1>1, <1>2, <1>3, <1>4, <1>5, <1>6 DEF ToCome

(* Most steps only end reads, and begin no call but a new request's. *)
LEMMA OnlyEnds ==
    ASSUME SessionInv, UNCHANGED committed, open' \subseteq open,
           \A s \in Serials : ToCome(s)' => ToCome(s)
    PROVE  \A s \in Serials :
                \/ ReceiptOf(s)' = ReceiptOf(s)
                \/ ReceiptOf(s) \in {"to come", "open"} /\ ReceiptOf(s)' = "over"
<1> SUFFICES ASSUME NEW s \in Serials
             PROVE  \/ ReceiptOf(s)' = ReceiptOf(s)
                    \/ ReceiptOf(s) \in {"to come", "open"} /\ ReceiptOf(s)' = "over"
  OBVIOUS
<1>1. CASE s \in committed \/ s \in open'
  BY <1>1 DEF ReceiptOf
<1>2. CASE s \notin committed /\ s \in open /\ s \notin open'
  BY <1>2, OpenFacts DEF ReceiptOf
<1>3. CASE s \notin committed /\ s \notin open
  BY <1>3 DEF ReceiptOf
<1> QED
  BY <1>1, <1>2, <1>3

LEMMA ReleaseMaps ==
    ASSUME \A s \in Serials :
                \/ ReceiptOf(s)' = ReceiptOf(s)
                \/ ReceiptOf(s) \in {"to come", "open"} /\ ReceiptOf(s)' = "over",
           UNCHANGED <<written, cancelled>>
    PROVE  Promise!Next
<1>1. PICK S : S = {s \in Serials : ReceiptOf(s)' # ReceiptOf(s)}
  OBVIOUS
<1>2. Promise!Release(S)
  BY <1>1 DEF Promise!Release
<1>3. S \in SUBSET Serials
  BY <1>1
<1> QED
  BY <1>2, <1>3 DEF Promise!Next

LEMMA EndsMap ==
    ASSUME SessionInv, UNCHANGED <<committed, written, cancelled>>, open' \subseteq open,
           \A s \in Serials : ToCome(s)' => ToCome(s)
    PROVE  Promise!Next
BY OnlyEnds, ReleaseMaps

(* However the loop ends, no call begins. *)
LEMMA CloseBegins ==
    ASSUME SessionInv, NEW w \in {worker, Null}, NEW kept \in SUBSET open, Close(w, kept),
           requests' \in {requests, requests + 1}
    PROVE  open' \subseteq open /\ \A s \in Serials : ToCome(s)' => ToCome(s)
<1>1. open' \subseteq open /\ worker' = IF w = Null THEN Null ELSE [w EXCEPT !.cancelled = TRUE]
  BY DEF Close
<1>2. requests \in Nat
  BY DEF SessionInv, TypeOK
<1>3. worker' # Null => /\ worker # Null /\ worker'.serial = worker.serial
                        /\ worker'.stage = worker.stage
  BY <1>1 DEF SessionInv, TypeOK, Worker
<1>4. ASSUME NEW s \in Serials, ToCome(s)' PROVE ToCome(s)
  BY <1>2, <1>3, <1>4 DEF ToCome, AtStage, Serials
<1> QED
  BY <1>1, <1>4

LEMMA ReadMaps ==
    ASSUME SessionInv, ReadStep, ~(\E id \in Ids : Cancel(id))
    PROVE  Promise!Next
<1>0. requests \in Nat
  BY DEF SessionInv, TypeOK
<1>1. ASSUME NEW id, Reply(id) PROVE Promise!Next
  <2>1. requests' = requests + 1 /\ UNCHANGED <<committed, written, cancelled>>
    BY <1>1 DEF Reply
  <2>2. CASE Close(worker, open)
    BY <2>1, <2>2, CloseBegins, EndsMap
  <2>3. CASE UNCHANGED <<worker, open>>
    <3>1. \A s \in Serials : ToCome(s)' => ToCome(s)
      BY <1>0, <2>1, <2>3 DEF ToCome, AtStage, Serials
    <3> QED
      BY <2>1, <2>3, <3>1, EndsMap
  <2> QED
    BY <1>1, <2>2, <2>3 DEF Reply
<1>2. ASSUME NEW id \in Ids, StartTool(id) PROVE Promise!Next
  <2>1. /\ requests' = requests + 1 /\ worker'.serial = requests + 1
        /\ UNCHANGED <<open, committed, written, cancelled>>
    BY <1>2 DEF StartTool
  <2>2. ASSUME NEW s \in Serials, ToCome(s)' PROVE ToCome(s)
    BY <1>0, <2>1, <2>2 DEF ToCome, Serials
  <2> QED
    BY <2>1, <2>2, EndsMap
<1>3. CASE Initialized \/ EndOfInput
  BY <1>3, EndsMap DEF Initialized, EndOfInput, ToCome, AtStage
<1>4. CASE BadInput
  BY <1>4, CloseBegins, EndsMap DEF BadInput
<1> QED
  BY <1>1, <1>2, <1>3, <1>4 DEF ReadStep, AnswerAtOnce, Initialize, Malformed, Oversized

(* A cancellation releases the frame it finds in the queue; a running call *)
(* keeps its receipt until its worker looks at the flag.                   *)
LEMMA CancelMaps ==
    ASSUME SessionInv, NEW id \in Ids, Cancel(id)
    PROVE  [Promise!Next]_Promise!receiptVars
<1>1. /\ UNCHANGED <<requests, committed, written>> /\ worker' = FlagWorker(id)
      /\ worker \in Worker \cup {Null}
  BY DEF Cancel, SessionInv, TypeOK
<1>2. \A s : ToCome(s)' <=> ToCome(s)
  BY <1>1, NullAssumption DEF FlagWorker, ToCome, AtStage, Worker
<1>3. PICK new : new = {s \in Serials : worker # Null /\ worker.id = id /\ worker.serial = s}
  OBVIOUS
<1>4. CASE ToolFrames(id) = {} /\ UNCHANGED <<open, output, dropped>>
  <2>1. cancelled' = cancelled \cup new
    BY <1>3, <1>4 DEF Cancel
  <2>2. \A s \in Serials : ReceiptOf(s)' = ReceiptOf(s)
    BY <1>1, <1>2, <1>4 DEF ReceiptOf
  <2>3. CASE new = {}
    BY <1>1, <2>1, <2>2, <2>3 DEF Promise!receiptVars
  <2>4. CASE new # {}
    <3>1. PICK s \in Serials : new = {s} /\ worker # Null /\ worker.serial = s
      BY <1>3, <2>4
    <3>2. s \notin written
      BY <3>1 DEF SessionInv, SerialInv
    <3>3. Promise!Cancel(s)
      BY <1>1, <2>1, <2>2, <3>1, <3>2 DEF Promise!Cancel
    <3> QED
      BY <3>3 DEF Promise!Next
  <2> QED
    BY <2>3, <2>4
<1>5. ASSUME NEW i \in ToolFrames(id), Withdraw(i)
      PROVE  [Promise!Next]_Promise!receiptVars
  <2>1. /\ i \in Queue /\ output[i] \in Frame /\ worker = Null /\ new = {}
        /\ ToolFrames(id) = {i}
    BY <1>3, QueueFacts DEF ToolFrames, SessionInv, QueueInv
  <2>2. PICK s \in Serials : s = output[i].serial
    BY <2>1 DEF Frame
  <2>3. /\ cancelled' = cancelled \cup {s} /\ open' = open \ {s} /\ s \notin written
    BY <1>3, <1>5, <2>1, <2>2 DEF Cancel, Withdraw, SessionInv, SerialInv
  <2>4. \A t \in Serials : t # s => ReceiptOf(t)' = ReceiptOf(t)
    BY <1>1, <1>2, <2>3 DEF ReceiptOf
  <2>5. CASE s \in open
    <3>1. ReceiptOf(s) = "open" /\ ReceiptOf(s)' = "over"
      BY <1>1, <1>2, <2>3, <2>5, OpenFacts DEF ReceiptOf
    <3>2. Promise!Cancel(s)
      BY <1>1, <2>3, <2>4, <3>1 DEF Promise!Cancel
    <3> QED
      BY <3>2 DEF Promise!Next
  <2>6. CASE s \notin open
    <3>1. ReceiptOf(s)' = ReceiptOf(s)
      BY <1>1, <1>2, <2>3, <2>6 DEF ReceiptOf
    <3>2. Promise!Cancel(s)
      BY <1>1, <2>3, <2>4, <3>1 DEF Promise!Cancel
    <3> QED
      BY <3>2 DEF Promise!Next
  <2> QED
    BY <2>5, <2>6
<1> QED
  BY <1>4, <1>5 DEF Cancel

(* The one step that opens a read is the call's. *)
LEMMA WorkerMaps ==
    ASSUME SessionInv, WorkerThread
    PROVE  Promise!Next
<1>1. /\ worker # Null /\ worker \in Worker /\ worker.serial \in Serials
      /\ UNCHANGED <<requests, committed, written, cancelled>>
  BY DEF WorkerThread, WorkerStops, Admit, CallTool, BuildFrame, Finish, WorkerFails,
         WorkerStep, AtStage, SessionInv, TypeOK, Worker
<1>2. CASE WorkerStops \/ WorkerFails
  <2>1. /\ open' \subseteq open
        /\ worker'.stage \in {"finished", "failed"}
    BY <1>1, <1>2 DEF WorkerStops, WorkerFails, WorkerStep, Stopped, Worker
  <2>2. \A s : ToCome(s)' => ToCome(s)
    BY <1>1, <2>1 DEF ToCome, AtStage
  <2> QED
    BY <1>1, <2>1, <2>2, EndsMap
<1>3. CASE Admit \/ BuildFrame \/ Finish
  <2>1. /\ worker'.serial = worker.serial /\ UNCHANGED open
        /\ \/ AtStage("spawned") /\ worker'.stage = "calling"
           \/ worker'.stage \in {"framed", "finished"}
    BY <1>1, <1>3 DEF Admit, BuildFrame, Finish, WorkerStep, Worker
  <2>2. \A s : ToCome(s)' => ToCome(s)
    BY <1>1, <2>1 DEF ToCome, AtStage
  <2> QED
    BY <1>1, <2>1, <2>2, EndsMap
<1>4. CASE CallTool
  <2>1. PICK receipt \in BOOLEAN :
            /\ WorkerStep([worker EXCEPT !.stage = "replied", !.receipt = receipt])
            /\ open' = IF receipt THEN open \cup {worker.serial} ELSE open
    BY <1>4 DEF CallTool
  <2>2. AtStage("calling") /\ worker'.stage = "replied" /\ worker'.serial = worker.serial
    BY <1>1, <1>4, <2>1 DEF CallTool, WorkerStep, Worker
  <2>3. \A s : ToCome(s)' => ToCome(s)
    BY <1>1, <2>2 DEF ToCome, AtStage
  <2>4. CASE ~receipt
    BY <1>1, <2>1, <2>3, <2>4, EndsMap
  <2>5. CASE receipt
    <3>1. PICK s \in Serials : s = worker.serial
      BY <1>1
    <3>2. open = {} /\ s \notin committed /\ ToCome(s)
      BY <1>1, <2>2, <3>1 DEF SessionInv, ReceiptInv, QueueInv, SerialInv, Owned, AtStage, ToCome
    <3>3. open' = {s} /\ ReceiptOf(s) = "to come" /\ ReceiptOf(s)' = "open"
      BY <1>1, <2>1, <2>5, <3>1, <3>2 DEF ReceiptOf
    <3>4. \A t \in Serials : ReceiptOf(t) # "open"
      BY <3>2 DEF ReceiptOf
    <3>5. \A t \in Serials : t # s => (ToCome(t)' <=> ToCome(t))
      BY <1>1, <2>2, <3>1 DEF ToCome, AtStage
    <3>6. \A t \in Serials : t # s => ReceiptOf(t)' = ReceiptOf(t)
      BY <1>1, <3>2, <3>3, <3>5 DEF ReceiptOf
    <3>7. Promise!Open(s)
      BY <1>1, <3>3, <3>4, <3>6 DEF Promise!Open
    <3> QED
      BY <3>7 DEF Promise!Next
  <2> QED
    BY <2>4, <2>5
<1> QED
  BY <1>2, <1>3, <1>4 DEF WorkerThread

LEMMA CompletedMaps ==
    ASSUME SessionInv, CompletedWork
    PROVE  Promise!Next
<1>1. CASE EnqueueResult \/ DiscardResult
  <2>1. /\ worker' = Null /\ open' \subseteq open
        /\ UNCHANGED <<requests, committed, written, cancelled>>
    BY <1>1 DEF EnqueueResult, DiscardResult
  <2>2. \A s : ToCome(s)' => ToCome(s)
    BY <2>1 DEF ToCome, AtStage
  <2> QED
    BY <2>1, <2>2, EndsMap
<1>2. CASE ResultFails
  BY <1>2, CloseBegins, EndsMap DEF ResultFails
<1> QED
  BY <1>1, <1>2 DEF CompletedWork

(* The last byte of a response commits its receipt, or the session ends    *)
(* and rolls it back.                                                      *)
LEMMA WriteMaps ==
    ASSUME SessionInv, BackedInv, Write
    PROVE  Promise!Next
<1>1. CASE WriteSome
  BY <1>1, EndsMap DEF WriteSome, ToCome, AtStage
<1>2. CASE WriteFails
  BY <1>2, CloseBegins, EndsMap DEF WriteFails
<1>3. CASE WriteLast
  <2>1. 1 \in Queue /\ output[1] \in Frame
    BY <1>3, QueueFacts DEF WriteLast, Writing, SessionInv, Queue
  <2>2. PICK s \in Serials : s = output[1].serial
    BY <2>1 DEF Frame
  <2>3. /\ s \in 1..requests /\ s \notin written \cup committed
        /\ worker # Null => worker.serial # s
    BY <2>1, <2>2 DEF SessionInv, SerialInv, ReceiptInv
  <2>4. ~ToCome(s) /\ requests \in Nat
    BY <2>3 DEF ToCome, AtStage, SessionInv, TypeOK
  <2>5. /\ written' = written \cup {s} /\ UNCHANGED <<requests, cancelled>>
    BY <1>3, <2>2 DEF WriteLast
  <2>6. /\ ReceiptOf(s) \in {"open", "over"}
        /\ s \in open <=> ReceiptOf(s) = "open"
    BY <2>3, <2>4 DEF ReceiptOf
  <2>7. ASSUME s \in open, UNCHANGED worker, committed' = committed \cup {s},
               open' = open \ {s}, output[1].receipt
        PROVE  Promise!Next
    <3>1. ReceiptOf(s) = "open" /\ ReceiptOf(s)' = "committed"
      BY <2>6, <2>7 DEF ReceiptOf
    <3>2. \A t \in Serials : t # s => ReceiptOf(t)' = ReceiptOf(t)
      BY <2>5, <2>7 DEF ReceiptOf, ToCome, AtStage
    <3>3. s \notin written \cup cancelled
      BY <2>1, <2>2, <2>3, <2>7 DEF SessionInv, CancelInv
    <3>4. Promise!Commit(s)
      BY <2>5, <3>1, <3>2, <3>3 DEF Promise!Commit
    <3> QED
      BY <3>4 DEF Promise!Next
  <2>8. CASE output[1].receipt /\ Close(worker, open) /\ UNCHANGED committed
    <3>1. open' \subseteq open /\ \A t \in Serials : ToCome(t)' => ToCome(t)
      BY <2>5, <2>8, CloseBegins
    <3>2. worker' # Null => /\ worker # Null /\ worker'.serial = worker.serial
                            /\ worker'.stage = worker.stage
      BY <2>8 DEF Close, SessionInv, TypeOK, Worker
    <3>3. worker # Null => /\ worker' # Null /\ worker'.serial = worker.serial
                           /\ worker'.stage = worker.stage
      BY <2>8, NullAssumption DEF Close, SessionInv, TypeOK, Worker
    <3>4. \A t : ToCome(t)' <=> ToCome(t)
      BY <2>5, <3>2, <3>3 DEF ToCome, AtStage
    <3>5. open = {s} /\ open' = {}
      <4>1. s \in open /\ open = {s}
        BY <2>1, <2>2, <2>8, OpenFacts DEF BackedInv
      <4>2. s \notin open'
        BY <2>1, <2>2, <2>8, QueueFacts DEF Close, SessionInv
      <4> QED
        BY <3>1, <4>1, <4>2
    <3>6. \A t \in Serials : t # s => ReceiptOf(t)' = ReceiptOf(t)
      BY <2>8, <3>4, <3>5 DEF ReceiptOf
    <3>7. ReceiptOf(s)' = "over"
      BY <2>3, <2>4, <2>8, <3>4, <3>5 DEF ReceiptOf
    <3>8. Promise!Answer(s)
      BY <2>3, <2>5, <2>6, <3>6, <3>7 DEF Promise!Answer
    <3> QED
      BY <3>8 DEF Promise!Next
  <2>9. CASE ~output[1].receipt /\ UNCHANGED <<phase, worker, open, committed>>
    <3>1. s \notin open
      BY <2>1, <2>2, <2>3, <2>9 DEF SessionInv, ReceiptInv, SerialInv, Owned
    <3>2. \A t \in Serials : ReceiptOf(t)' = ReceiptOf(t)
      BY <2>5, <2>9 DEF ReceiptOf, ToCome, AtStage
    <3>3. ReceiptOf(s) = "over"
      BY <2>6, <3>1
    <3>4. Promise!Answer(s)
      BY <2>3, <2>5, <3>2, <3>3 DEF Promise!Answer
    <3> QED
      BY <3>4 DEF Promise!Next
  <2>10. output[1].receipt => s \in open
    BY <2>1, <2>2 DEF BackedInv
  <2> QED
    BY <1>3, <2>2, <2>7, <2>8, <2>9, <2>10 DEF WriteLast
<1> QED
  BY <1>1, <1>2, <1>3 DEF Write

LEMMA EndingMaps ==
    ASSUME SessionInv, Done \/ Stop \/ Die
    PROVE  Promise!Next
<1>1. /\ worker' \in {worker, Null} /\ open' \subseteq open
      /\ UNCHANGED <<requests, committed, written, cancelled>>
  BY DEF Done, Stop, Die
<1>2. \A s : ToCome(s)' => ToCome(s)
  BY <1>1 DEF ToCome, AtStage
<1> QED
  BY <1>1, <1>2, EndsMap

LEMMA ReceiptsInit == Init => Promise!Init
<1> SUFFICES ASSUME Init PROVE Promise!Init
  OBVIOUS
<1>1. \A s \in Serials : ReceiptOf(s) = "to come"
  BY DEF Init, Serials, ReceiptOf, ToCome
<1> QED
  BY <1>1 DEF Init, Promise!Init

(* However its threads interleave and however it ends, a session does with *)
(* its inbox transactions only what Receipts allows (Session, Worker,      *)
(* InboxBatch).                                                            *)
THEOREM Implements == Spec => ImplementsReceipts
<1>1. ASSUME SessionInv, BackedInv, [Next]_vars
      PROVE  [Promise!Next]_Promise!receiptVars
  <2>1. ASSUME UNCHANGED vars PROVE UNCHANGED Promise!receiptVars
    <3>1. \A s \in Serials : ReceiptOf(s)' = ReceiptOf(s)
      BY <2>1 DEF vars, ReceiptOf, ToCome, AtStage
    <3> QED
      BY <2>1, <3>1 DEF vars, Promise!receiptVars
  <2>2. CASE ReadStep
    BY <1>1, <2>2, ReadMaps, CancelMaps
  <2> QED
    BY <1>1, <2>1, <2>2, WorkerMaps, CompletedMaps, WriteMaps, EndingMaps DEF Next
<1> QED
  BY <1>1, ReceiptsInit, SessionInvariant, BackedInvariant, PTL
  DEF Spec, ImplementsReceipts, Promise!Spec
=============================================================================
