------------------------------- MODULE Batcher -------------------------------
(***************************************************************************)
(* The batcher of logs and metrics (sentry-core client/batcher.rs) behind  *)
(* the client's RwLock (client/mod.rs).  Threads capture items, flush and  *)
(* close the client; a worker flushes the queue every interval.  A batch   *)
(* is taken out of the queue under the queue's mutex and given to the      *)
(* transport after it, so several batches can be on their way at a time.   *)
(*                                                                         *)
(* The read and write guards of the client's lock, and the worker's hold   *)
(* on the shutdown mutex while it sends, are told from where the threads   *)
(* are (pc).  Sections of code under a mutex without another lock or wait  *)
(* in them are one step.                                                   *)
(***************************************************************************)
EXTENDS Naturals, FiniteSets

CONSTANTS
  Threads,      \* the application's threads
  Items,        \* the logs (or metrics) they capture, each once
  MAX_ITEMS,    \* queue length at which it is flushed, 100 in the code
  MaxCalls      \* bound: calls of flush and close in a behaviour

ASSUME MaxItemsAssumption == MAX_ITEMS \in Nat \ {0}

VARIABLES
  present,    \* the client's Option<Batcher> is Some
  queue,      \* items waiting for the next batch
  shutdown,   \* the flag of the batcher's drop
  notified,   \* the condition variable's wake-up for the worker
  worker,     \* what the worker is doing
  batch,      \* the batch in the worker's hands
  pc,         \* what each thread is doing
  item,       \* the item a thread is capturing
  hand,       \* the batch in a thread's hands
  slot,       \* the transport slot is occupied
  sent,       \* items given to the transport
  dropped,    \* items that found the slot empty
  accepted,   \* history: items that were put into the queue
  captured,   \* history: items that were captured
  before,     \* history: items accepted when the thread's flush started
  calls,      \* flush and close calls so far
  closed      \* history: a call of close has returned

threadVars == <<pc, item, hand, before, calls, closed>>
workerVars == <<worker, batch>>
transport  == <<slot, sent, dropped>>
vars == <<present, queue, shutdown, notified, worker, batch, pc, item, hand, slot, sent,
          dropped, accepted, captured, before, calls, closed>>

\* Mutant: the write guard ends once the batcher is taken out of the option.
Writing_TakeOnly == {}

\* Where a thread holds the read guard, and where the write guard, of the
\* client's lock around the batcher.
Reading == {"enqueue", "log_send", "flush_take", "flush_send"}
Writing == {"set_flag", "notify", "join", "close_take", "close_send"}

CanRead  == \A t \in Threads : pc[t] \notin Writing
CanWrite == \A t \in Threads : pc[t] \notin Reading \cup Writing

Init == /\ present = TRUE /\ queue = {} /\ shutdown = FALSE /\ notified = FALSE
        /\ worker = "start" /\ batch = {}
        /\ pc = [t \in Threads |-> "idle"]
        /\ item = [t \in Threads |-> {}]
        /\ hand = [t \in Threads |-> {}]
        /\ slot = TRUE /\ sent = {} /\ dropped = {}
        /\ accepted = {} /\ captured = {}
        /\ before = [t \in Threads |-> {}]
        /\ calls = 0 /\ closed = FALSE

\* EnvelopeSender::send_envelope: an empty slot swallows the envelope.
SendEnvelope(items) ==
  /\ sent'    = IF slot THEN sent \cup items ELSE sent
  /\ dropped' = IF slot THEN dropped ELSE dropped \cup items
  /\ slot' = slot

Goto(t, place) == pc' = [pc EXCEPT ![t] = place]

-----------------------------------------------------------------------------
(* Capturing an item.                                                      *)

\* capture_log: behind the read lock there is a batcher; or the item is dropped,
\* by before_send_log (a recorded loss) or because the client is closed (not
\* recorded).
Capture(t, i) ==
  /\ pc[t] = "idle"
  /\ i \notin captured
  /\ CanRead
  /\ captured' = captured \cup {i}
  /\ \/ present /\ Goto(t, "enqueue") /\ item' = [item EXCEPT ![t] = {i}]
     \/ UNCHANGED <<pc, item>>
  /\ UNCHANGED <<present, queue, shutdown, notified, workerVars, hand, transport,
                 accepted, before, calls, closed>>

\* enqueue: the item is pushed; a full queue is taken for sending.
Enqueue(t) ==
  /\ pc[t] = "enqueue"
  /\ accepted' = accepted \cup item[t]
  /\ item' = [item EXCEPT ![t] = {}]
  /\ LET items == queue \cup item[t] IN
     \/ /\ Cardinality(items) >= MAX_ITEMS
        /\ hand' = [hand EXCEPT ![t] = items]
        /\ queue' = {}
        /\ Goto(t, "log_send")
     \/ /\ Cardinality(items) < MAX_ITEMS
        /\ queue' = items
        /\ Goto(t, "idle")
        /\ UNCHANGED hand
  /\ UNCHANGED <<present, shutdown, notified, workerVars, transport, captured, before,
                 calls, closed>>

\* The batch a thread has taken goes to the transport; no batch, no envelope.
HandOver(t) ==
  /\ SendEnvelope(hand[t])
  /\ hand' = [hand EXCEPT ![t] = {}]

LogSend(t) ==
  /\ pc[t] = "log_send"
  /\ HandOver(t)
  /\ Goto(t, "idle")
  /\ UNCHANGED <<present, queue, shutdown, notified, workerVars, item, accepted, captured,
                 before, calls, closed>>

\* mem::take under the queue's mutex.
TakeQueue(t) ==
  /\ hand' = [hand EXCEPT ![t] = queue]
  /\ queue' = {}

-----------------------------------------------------------------------------
(* Client::flush.                                                          *)

FlushStart(t) ==
  /\ pc[t] = "idle"
  /\ calls < MaxCalls
  /\ CanRead
  /\ calls' = calls + 1
  /\ before' = [before EXCEPT ![t] = accepted]
  /\ Goto(t, IF present THEN "flush_take" ELSE "flush_transport")
  /\ UNCHANGED <<present, queue, shutdown, notified, workerVars, item, hand, transport,
                 accepted, captured, closed>>

\* Mutant: a flush, too, waits for a full batch.
FlushTake_FullOnly(t) ==
  /\ pc[t] = "flush_take"
  /\ IF Cardinality(queue) >= MAX_ITEMS THEN TakeQueue(t) ELSE UNCHANGED <<queue, hand>>
  /\ Goto(t, "flush_send")
  /\ UNCHANGED <<present, shutdown, notified, workerVars, item, transport, accepted,
                 captured, before, calls, closed>>

FlushTake(t) ==
  /\ pc[t] = "flush_take"
  /\ TakeQueue(t)
  /\ Goto(t, "flush_send")
  /\ UNCHANGED <<present, shutdown, notified, workerVars, item, transport, accepted,
                 captured, before, calls, closed>>

FlushSend(t) ==
  /\ pc[t] = "flush_send"
  /\ HandOver(t)
  /\ Goto(t, "flush_transport")
  /\ UNCHANGED <<present, queue, shutdown, notified, workerVars, item, accepted, captured,
                 before, calls, closed>>

\* The transport's own flush succeeds: what it was given is out.
FlushTransport(t) ==
  /\ pc[t] = "flush_transport"
  /\ Goto(t, "flushed")
  /\ UNCHANGED <<present, queue, shutdown, notified, workerVars, item, hand, transport,
                 accepted, captured, before, calls, closed>>

FlushReturn(t) ==
  /\ pc[t] = "flushed"
  /\ Goto(t, "idle")
  /\ before' = [before EXCEPT ![t] = {}]
  /\ UNCHANGED <<present, queue, shutdown, notified, workerVars, item, hand, transport,
                 accepted, captured, calls, closed>>

-----------------------------------------------------------------------------
(* Client::close.  The batcher is dropped while the write guard is held.   *)

CloseStart(t) ==
  /\ pc[t] = "idle"
  /\ calls < MaxCalls
  /\ CanWrite
  /\ calls' = calls + 1
  /\ present' = FALSE
  /\ Goto(t, IF present THEN "set_flag" ELSE "close_transport")
  /\ UNCHANGED <<queue, shutdown, notified, workerVars, item, hand, transport, accepted,
                 captured, before, closed>>

\* The flag is set under the shutdown mutex, which the worker holds while it
\* sends a batch.
SetFlag(t) ==
  /\ pc[t] = "set_flag"
  /\ worker # "sending"
  /\ shutdown' = TRUE
  /\ Goto(t, "notify")
  /\ UNCHANGED <<present, queue, notified, workerVars, item, hand, transport, accepted,
                 captured, before, calls, closed>>

\* notify_one: lost if the worker is not waiting.
Notify(t) ==
  /\ pc[t] = "notify"
  /\ notified' = (worker = "waiting")
  /\ Goto(t, "join")
  /\ UNCHANGED <<present, queue, shutdown, workerVars, item, hand, transport, accepted,
                 captured, before, calls, closed>>

\* The worker is joined.
Join(t) ==
  /\ pc[t] = "join"
  /\ worker = "exited"
  /\ Goto(t, "close_take")
  /\ UNCHANGED <<present, queue, shutdown, notified, workerVars, item, hand, transport,
                 accepted, captured, before, calls, closed>>

\* Mutant: no last flush.
CloseTake_Skipped(t) ==
  /\ pc[t] = "close_take"
  /\ Goto(t, "close_send")
  /\ UNCHANGED <<present, queue, shutdown, notified, workerVars, item, hand, transport,
                 accepted, captured, before, calls, closed>>

\* The last flush.
CloseTake(t) ==
  /\ pc[t] = "close_take"
  /\ TakeQueue(t)
  /\ Goto(t, "close_send")
  /\ UNCHANGED <<present, shutdown, notified, workerVars, item, transport, accepted,
                 captured, before, calls, closed>>

CloseSend(t) ==
  /\ pc[t] = "close_send"
  /\ HandOver(t)
  /\ Goto(t, "close_transport")
  /\ UNCHANGED <<present, queue, shutdown, notified, workerVars, item, accepted, captured,
                 before, calls, closed>>

\* EnvelopeSender::shutdown: the slot is emptied.
CloseTransport(t) ==
  /\ pc[t] = "close_transport"
  /\ slot' = FALSE
  /\ closed' = TRUE
  /\ Goto(t, "idle")
  /\ UNCHANGED <<present, queue, shutdown, notified, workerVars, item, hand, sent, dropped,
                 accepted, captured, before, calls>>

-----------------------------------------------------------------------------
(* The worker.                                                             *)

\* Mutant: the flag is looked at only after the first wait.
WorkerStart_NoCheck ==
  /\ worker = "start"
  /\ worker' = "waiting"
  /\ UNCHANGED <<present, queue, shutdown, notified, batch, threadVars, transport, accepted,
                 captured>>

\* The flag is checked before the first wait, in case of an early shutdown.
WorkerStart ==
  /\ worker = "start"
  /\ worker' = IF shutdown THEN "exited" ELSE "waiting"
  /\ UNCHANGED <<present, queue, shutdown, notified, batch, threadVars, transport, accepted,
                 captured>>

\* The wait is over and the flag is up.
WorkerExit ==
  /\ worker = "waiting"
  /\ shutdown
  /\ worker' = "exited"
  /\ notified' = FALSE
  /\ UNCHANGED <<present, queue, shutdown, batch, threadVars, transport, accepted, captured>>

\* Mutant: the interval only flushes full queues.
WorkerTake_FullOnly ==
  /\ worker = "waiting" /\ ~shutdown
  /\ notified' = FALSE
  /\ IF Cardinality(queue) >= MAX_ITEMS
     THEN batch' = queue /\ queue' = {} /\ worker' = "sending"
     ELSE UNCHANGED <<batch, queue, worker>>
  /\ UNCHANGED <<present, shutdown, threadVars, transport, accepted, captured>>

\* The interval has passed: the queue is taken for sending.
WorkerTake ==
  /\ worker = "waiting"
  /\ ~shutdown
  /\ batch' = queue
  /\ queue' = {}
  /\ worker' = "sending"
  /\ notified' = FALSE
  /\ UNCHANGED <<present, shutdown, threadVars, transport, accepted, captured>>

WorkerSend ==
  /\ worker = "sending"
  /\ SendEnvelope(batch)
  /\ batch' = {}
  /\ worker' = "waiting"
  /\ UNCHANGED <<present, queue, shutdown, notified, threadVars, accepted, captured>>

-----------------------------------------------------------------------------
Step(t) == \/ Enqueue(t) \/ LogSend(t)
           \/ FlushTake(t) \/ FlushSend(t) \/ FlushTransport(t) \/ FlushReturn(t)
           \/ SetFlag(t) \/ Notify(t) \/ Join(t) \/ CloseTake(t) \/ CloseSend(t)
           \/ CloseTransport(t)

Worker == WorkerStart \/ WorkerExit \/ WorkerTake \/ WorkerSend

\* The client is closed and nobody is in a call: nothing need happen any more.
Terminated == closed /\ (\A t \in Threads : pc[t] = "idle") /\ UNCHANGED vars

Next == \/ \E t \in Threads : \/ Step(t)
                              \/ \E i \in Items : Capture(t, i)
                              \/ FlushStart(t) \/ CloseStart(t)
        \/ Worker
        \/ Terminated

Spec == Init /\ [][Next]_vars

\* Threads in a call go on with it; a thread that wants the shutdown mutex
\* gets it, since the worker gives it up for a whole interval after each
\* batch; the worker starts, is woken by a notification and sends what it has
\* taken.  That the interval ends is not assumed here.
FairSpec == /\ Spec
            /\ \A t \in Threads : WF_vars(Step(t)) /\ SF_vars(SetFlag(t))
            /\ WF_vars(WorkerStart) /\ WF_vars(WorkerSend)
            /\ WF_vars(notified /\ WorkerExit)

\* The interval ends, too.
IntervalEnds == WF_vars(WorkerTake) /\ WF_vars(WorkerExit)

-----------------------------------------------------------------------------
TypeOK ==
  /\ present \in BOOLEAN /\ shutdown \in BOOLEAN /\ notified \in BOOLEAN
  /\ slot \in BOOLEAN /\ closed \in BOOLEAN
  /\ queue \subseteq Items /\ batch \subseteq Items
  /\ worker \in {"start", "waiting", "sending", "exited"}
  /\ pc \in [Threads -> Reading \cup Writing
                          \cup {"idle", "flush_transport", "flushed", "close_transport"}]
  /\ item \in [Threads -> SUBSET Items] /\ hand \in [Threads -> SUBSET Items]
  /\ sent \subseteq Items /\ dropped \subseteq Items
  /\ accepted \subseteq Items /\ captured \subseteq Items
  /\ before \in [Threads -> SUBSET Items]
  /\ calls \in Nat
  /\ batch # {} => worker = "sending"
  /\ \A t \in Threads :
       /\ item[t] # {} => pc[t] = "enqueue"
       /\ hand[t] # {} => pc[t] \in {"log_send", "flush_send", "close_send"}

(***************************************************************************)
(* No accepted item is lost or sent twice, whoever takes a batch while     *)
(* others enqueue, flush and close: it is in exactly one place, and no     *)
(* batch is given to an emptied transport slot.                            *)
(***************************************************************************)
NothingLost ==
  /\ \A i \in Items : i \in accepted <=> \/ i \in queue \cup batch \cup sent
                                        \/ \E t \in Threads : i \in hand[t]
  /\ dropped = {}
  /\ queue \cap batch = {} /\ queue \cap sent = {} /\ batch \cap sent = {}
  /\ \A t \in Threads : /\ hand[t] \cap (queue \cup batch \cup sent) = {}
                        /\ \A u \in Threads \ {t} : hand[t] \cap hand[u] = {}

(***************************************************************************)
(* Why it holds.  Captured items are new to the queue.  The write guard    *)
(* keeps everyone else out until the batcher is gone for good: the worker  *)
(* has exited, the queue is empty, and only then the slot is emptied.      *)
(***************************************************************************)
Fresh ==
  /\ accepted \subseteq captured
  /\ \A t \in Threads : /\ item[t] \subseteq captured /\ item[t] \cap accepted = {}
                        /\ \A u \in Threads \ {t} : item[t] \cap item[u] = {}

CloseOrder ==
  /\ \A t \in Threads : pc[t] \in Reading => present
  /\ \A t \in Threads : pc[t] \in Writing =>
       ~present /\ \A u \in Threads \ {t} : pc[u] \notin Writing
  /\ \A t \in Threads : /\ pc[t] \in {"notify", "join", "close_take", "close_send"} => shutdown
                        /\ pc[t] \in {"close_take", "close_send"} => worker = "exited"
                        /\ pc[t] = "close_send" => queue = {}
  /\ ~present /\ (\A t \in Threads : pc[t] \notin Writing) => queue = {} /\ worker = "exited"
  /\ closed \/ ~slot \/ (\E t \in Threads : pc[t] = "close_transport") =>
       ~present /\ \A t \in Threads : pc[t] \notin Writing

\* Once a call of close has returned, everything accepted is with the
\* transport (Client::close, mod.rs 529-545).
CloseSendsAll == closed => accepted = sent

\* Closing ends without waiting for the flush interval (Drop, batcher.rs
\* 153-164): the worker cannot miss both the flag and the notification.
CloseEnds == \A t \in Threads : pc[t] = "set_flag" ~> pc[t] = "idle"

\* Every accepted item is sent, at the latest when the interval ends (the
\* worker's wait_timeout, batcher.rs 83-97).
EventuallySent == IntervalEnds => \A i \in Items : i \in accepted ~> i \in sent

(***************************************************************************)
(* A flush leaves nothing behind in the queue: when Client::flush returns, *)
(* what was accepted before it was called is with the transport, or in a   *)
(* batch that another thread or the worker took first and is about to send *)
(* (flush_queue_internal unlocks the queue before it sends, batcher.rs     *)
(* 137-150).  So a flush may return before such a batch is out.            *)
(***************************************************************************)
FlushLeavesNone ==
  \A t \in Threads : pc[t] = "flushed" =>
    before[t] \subseteq sent \cup batch \cup UNION { hand[u] : u \in Threads \ {t} }

\* Why it holds: what was accepted when a flush started is out of the queue for
\* good once the flush has taken the queue, as no item is accepted twice; a flush
\* that found no batcher found an empty queue, too.
FlushProgress ==
  \A t \in Threads :
    /\ pc[t] \in {"flush_take", "flush_send", "flush_transport", "flushed"} => before[t] \subseteq accepted
    /\ pc[t] \in {"flush_send", "flush_transport", "flushed"} => before[t] \cap queue = {}
=============================================================================
