--------------------------- MODULE TransportThread ---------------------------
(***************************************************************************)
(* The background thread every HTTP transport is built on (sentry          *)
(* transports/thread.rs; tokio_thread.rs has the same control).  Callers   *)
(* put envelopes and flush requests into a bounded channel; the worker     *)
(* takes them out one by one, drops what is rate limited, sends the rest   *)
(* and keeps the rate limits the server answers with.  Dropping the        *)
(* transport sets a flag, queues a shutdown task and joins the worker.     *)
(*                                                                         *)
(* What a loss adds to the client report is the business of ClientReports: *)
(* here the fate of each item is recorded in one step.                     *)
(***************************************************************************)
EXTENDS Envelope, Sequences, FiniteSets

CONSTANTS
  Callers,      \* the threads that call send and flush
  Envelopes,    \* the names of the envelopes, each sent once
  Contents,     \* Contents[e]: the envelope e is the name of
  Capacity,     \* size of the channel, 30 in the code
  Limits,       \* sets of categories a response can put a rate limit on
  MaxFlush      \* bound: MaxFlush[c] is how many flushes caller c makes

ASSUME CapacityAssumption == Capacity \in Nat \ {0}
ASSUME ContentsAssumption ==
  Contents \in [Envelopes -> [items : SUBSET [of : Envelopes, kind : Kind],
                              event_id : BOOLEAN, trace : BOOLEAN]]
ASSUME OwnItems == \A e \in Envelopes : /\ Contents[e].items # {}
                                       /\ \A i \in Contents[e].items : i.of = e
ASSUME LimitsAssumption ==
  Limits \subseteq SUBSET { RateLimitingCategory(k) : k \in Kind }

VARIABLES
  chan,       \* the channel
  shutdown,   \* the flag the worker checks after each receive
  worker,     \* what the worker is doing
  task,       \* the task it has received last
  sending,    \* the envelope it is sending
  rl,         \* the categories rate limited at the moment
  pc,         \* what each caller is doing
  round,      \* number of flushes each caller has started: names its ack channel
  acks,       \* the ack channels <<caller, round>> with an answer in them
  before,     \* history: envelopes pending when the caller's flush started
  drop,       \* how far the drop of the transport is
  fate        \* history: what became of each item

vars == <<chan, shutdown, worker, task, sending, rl, pc, round, acks, before, drop, fate>>
workerVars == <<worker, task, sending, rl>>
callerVars == <<pc, round, acks, before>>

SendEnvelope(e) == [type |-> "send", env |-> e]
Flush(c, n)     == [type |-> "flush", by |-> c, round |-> n]
Shutdown        == [type |-> "shutdown"]
NoTask          == [type |-> "none"]
NoEnvelope      == [items |-> {}, event_id |-> FALSE, trace |-> FALSE]

AllItems == UNION { Contents[e].items : e \in Envelopes }

\* The reasons the transport records a loss with.
LossReason == {"QueueOverflow", "InternalError", "RatelimitBackoff",
               "SendError", "NetworkError"}
\* Final fates: recorded as lost, accepted by the server, refused by it with
\* status 429 (the server then counts the loss), or gone with the channel.
Final == LossReason \cup {"accepted", "refused", "discarded"}

\* The items' fate is settled.
Settle(items, how) == [i \in AllItems |-> IF i \in items THEN how ELSE fate[i]]

\* The envelopes in the channel, and with the one in the worker's hands.
InChannel == { e \in Envelopes : \E n \in 1 .. Len(chan) : chan[n] = SendEnvelope(e) }
InHand    == { e \in Envelopes : worker \in {"got", "sending"} /\ task = SendEnvelope(e) }
Pending   == InChannel \cup InHand
ItemsOf(es) == UNION { Contents[e].items : e \in es }

\* The thread runs, or it could not be spawned and the channel has no receiver.
Init == /\ chan = <<>> /\ shutdown = FALSE
        /\ worker \in {"recv", "returned"}
        /\ task = NoTask /\ sending = NoEnvelope /\ rl = {}
        /\ pc = [c \in Callers |-> "idle"]
        /\ round = [c \in Callers |-> 0]
        /\ acks = {}
        /\ before = [c \in Callers |-> {}]
        /\ drop = "live"
        /\ fate = [i \in AllItems |-> "unsent"]

Gone == worker \in {"returned", "panicked"}      \* the receiver is dropped

-----------------------------------------------------------------------------
(* The callers.  They borrow the transport: it is dropped after them.      *)

\* Mutant: an envelope that does not fit is dropped and not recorded.
Send_OverflowForgotten(e) ==
  /\ drop = "live"
  /\ \A i \in Contents[e].items : fate[i] = "unsent"
  /\ IF Len(chan) < Capacity /\ ~Gone
     THEN chan' = Append(chan, SendEnvelope(e)) /\ fate' = Settle(Contents[e].items, "queued")
     ELSE UNCHANGED chan /\ fate' = Settle(Contents[e].items, "queued")
  /\ UNCHANGED <<shutdown, workerVars, callerVars, drop>>

\* send: the envelope goes into the channel or, if it cannot, is recorded lost.
Send(e) ==
  /\ drop = "live"
  /\ \A i \in Contents[e].items : fate[i] = "unsent"
  /\ \/ /\ ~Gone /\ Len(chan) < Capacity
        /\ chan' = Append(chan, SendEnvelope(e))
        /\ fate' = Settle(Contents[e].items, "queued")
     \/ /\ ~Gone /\ Len(chan) >= Capacity
        /\ fate' = Settle(Contents[e].items, "QueueOverflow")
        /\ UNCHANGED chan
     \/ /\ Gone
        /\ fate' = Settle(Contents[e].items, "InternalError")
        /\ UNCHANGED chan
  /\ UNCHANGED <<shutdown, workerVars, callerVars, drop>>

\* Mutant: all flushes of a caller share one ack channel.
FlushStart_OneAckChannel(c) ==
  /\ drop = "live"
  /\ pc[c] = "idle"
  /\ round[c] < MaxFlush[c]
  /\ pc' = [pc EXCEPT ![c] = "blocked"]
  /\ round' = [round EXCEPT ![c] = 1]
  /\ before' = [before EXCEPT ![c] = Pending]
  /\ UNCHANGED <<chan, shutdown, workerVars, acks, drop, fate>>

\* flush: a fresh ack channel; the caller then waits for room in the channel.
FlushStart(c) ==
  /\ drop = "live"
  /\ pc[c] = "idle"
  /\ round[c] < MaxFlush[c]
  /\ pc' = [pc EXCEPT ![c] = "blocked"]
  /\ round' = [round EXCEPT ![c] = @ + 1]
  /\ before' = [before EXCEPT ![c] = Pending]
  /\ UNCHANGED <<chan, shutdown, workerVars, acks, drop, fate>>

\* The request is in the channel, or there is no receiver and it is dropped.
FlushQueued(c) ==
  /\ pc[c] = "blocked"
  /\ \/ /\ ~Gone /\ Len(chan) < Capacity
        /\ chan' = Append(chan, Flush(c, round[c]))
     \/ Gone /\ UNCHANGED chan
  /\ pc' = [pc EXCEPT ![c] = "waiting"]
  /\ UNCHANGED <<shutdown, workerVars, round, acks, before, drop, fate>>

\* recv_timeout: an answer in the ack channel makes the flush a success; if
\* there is none the flush may time out, or find the channel disconnected.
FlushReturn(c) ==
  /\ pc[c] = "waiting"
  /\ pc' = [pc EXCEPT ![c] = IF <<c, round[c]>> \in acks THEN "flushed" ELSE "failed"]
  /\ acks' = acks \ {<<c, round[c]>>}
  /\ UNCHANGED <<chan, shutdown, workerVars, round, before, drop, fate>>

\* The caller goes on with what flush returned.
FlushSeen(c) ==
  /\ pc[c] \in {"flushed", "failed"}
  /\ pc' = [pc EXCEPT ![c] = "idle"]
  /\ before' = [before EXCEPT ![c] = {}]
  /\ UNCHANGED <<chan, shutdown, workerVars, round, acks, drop, fate>>

-----------------------------------------------------------------------------
(* Dropping the transport.                                                 *)

\* The flag goes up before the shutdown task is queued.
DropFlag ==
  /\ drop = "live"
  /\ \A c \in Callers : pc[c] = "idle"
  /\ drop' = "sending"
  /\ shutdown' = TRUE
  /\ UNCHANGED <<chan, workerVars, callerVars, fate>>

\* Mutant: the shutdown task is tried again until it is taken.
DropSend_Retries ==
  /\ drop = "sending"
  /\ IF ~Gone /\ Len(chan) < Capacity
     THEN chan' = Append(chan, Shutdown) /\ drop' = "joining"
     ELSE UNCHANGED <<chan, drop>>
  /\ UNCHANGED <<shutdown, workerVars, callerVars, fate>>

\* The shutdown task waits for room, unless the receiver is gone.
DropSend ==
  /\ drop = "sending"
  /\ \/ /\ ~Gone /\ Len(chan) < Capacity
        /\ chan' = Append(chan, Shutdown)
     \/ Gone /\ UNCHANGED chan
  /\ drop' = "joining"
  /\ UNCHANGED <<shutdown, workerVars, callerVars, fate>>

\* join().unwrap(): the drop panics if the worker did.
DropJoin ==
  /\ drop = "joining"
  /\ Gone
  /\ drop' = IF worker = "panicked" THEN "panicked" ELSE "done"
  /\ UNCHANGED <<chan, shutdown, workerVars, callerVars, fate>>

-----------------------------------------------------------------------------
(* The worker.                                                             *)

\* The receiver is dropped and the channel with it; envelopes in es are gone.
Exit(how, es) ==
  /\ worker' = how
  /\ chan' = <<>>
  /\ task' = NoTask
  /\ sending' = NoEnvelope
  /\ fate' = Settle(ItemsOf(InChannel \cup es), "discarded")

\* The next task; the loop waits while there is none.
Recv ==
  /\ worker = "recv"
  /\ chan # <<>>
  /\ worker' = "got"
  /\ task' = Head(chan)
  /\ chan' = Tail(chan)
  /\ UNCHANGED <<shutdown, sending, rl, callerVars, drop, fate>>

\* The flag is up, or the task says so: the thread ends.
Stop ==
  /\ worker = "got"
  /\ shutdown \/ task = Shutdown
  /\ Exit("returned", InHand)
  /\ UNCHANGED <<shutdown, rl, callerVars, drop>>

\* A flush request is answered in its own ack channel.
Ack ==
  /\ worker = "got" /\ ~shutdown
  /\ task.type = "flush"
  \* Nobody reads the answer when that flush is over; its channel is then closed.
  /\ acks' = IF /\ round[task.by] = task.round
                /\ pc[task.by] = "waiting"
             THEN acks \cup {<<task.by, task.round>>} ELSE acks
  /\ worker' = "recv"
  /\ task' = NoTask
  /\ UNCHANGED <<chan, shutdown, sending, rl, pc, round, before, drop, fate>>

\* is_disabled: a limit on everything, or on the category.
IsDisabled(category) == "any" \in rl \/ category \in rl

\* Mutant: the worker waits for the end of the limit.
SkipLimited_Waits == FALSE /\ UNCHANGED vars

\* Everything is rate limited: the envelope is recorded lost and skipped.
SkipLimited ==
  /\ worker = "got" /\ ~shutdown
  /\ task.type = "send"
  /\ IsDisabled("any")
  /\ fate' = Settle(Contents[task.env].items, "RatelimitBackoff")
  /\ worker' = "recv"
  /\ task' = NoTask
  /\ UNCHANGED <<chan, shutdown, sending, rl, callerVars, drop>>

Enabled(i) == ~IsDisabled(RateLimitingCategory(i.kind))

\* rl.filter: limited items are recorded lost; what remains is sent.
FilterAndSend ==
  /\ worker = "got" /\ ~shutdown
  /\ task.type = "send"
  /\ ~IsDisabled("any")
  /\ LET out == Filter(Contents[task.env], { i \in Contents[task.env].items : Enabled(i) })
     IN /\ fate' = Settle(Contents[task.env].items \ out.items, "RatelimitBackoff")
        /\ IF out.items = {}
           THEN worker' = "recv" /\ task' = NoTask /\ UNCHANGED sending
           ELSE worker' = "sending" /\ sending' = out /\ UNCHANGED task
  /\ UNCHANGED <<chan, shutdown, rl, callerVars, drop>>

\* The worker is done with the envelope: its items' fate is how.
Sent(items, how) ==
  /\ fate' = Settle(items, how)
  /\ worker' = "recv"
  /\ task' = NoTask
  /\ sending' = NoEnvelope
  /\ UNCHANGED <<chan, shutdown, callerVars, drop>>

\* Mutant: the loss of the whole envelope is recorded, filtered items too.
Response_WholeEnvelope(status, limits) ==
  /\ worker = "sending"
  /\ rl' = rl \cup limits
  /\ Sent(Contents[task.env].items,
          CASE status = "ok" -> "accepted" [] status = "429" -> "refused"
            [] status = "error" -> "SendError")

\* The server answers.  Limits come from x-sentry-rate-limits (which may name
\* no category the client knows), or else from retry-after or status 429,
\* which limit everything; a status of 400 or more other than 429 is a loss
\* for the client to record.
Response(status, limits) ==
  /\ worker = "sending"
  /\ rl' = rl \cup limits
  /\ Sent(sending.items, CASE status = "ok"    -> "accepted"
                           [] status = "429"   -> "refused"
                           [] status = "error" -> "SendError")

\* The request fails without an answer.
NetworkError ==
  /\ worker = "sending"
  /\ Sent(sending.items, "NetworkError")
  /\ UNCHANGED rl

\* The envelope cannot be serialized: recorded lost, and the worker panics.
SerializeError ==
  /\ worker = "sending"
  /\ worker' = "panicked"
  /\ chan' = <<>> /\ task' = NoTask /\ sending' = NoEnvelope
  /\ fate' = [i \in AllItems |->
                IF i \in sending.items THEN "InternalError"
                ELSE IF i \in ItemsOf(InChannel) THEN "discarded" ELSE fate[i]]
  /\ UNCHANGED <<shutdown, rl, callerVars, drop>>

\* Time passes and a rate limit is over.
Expire(category) ==
  /\ category \in rl
  /\ rl' = rl \ {category}
  /\ UNCHANGED <<chan, shutdown, worker, task, sending, callerVars, drop, fate>>

-----------------------------------------------------------------------------
Caller(c) == FlushStart(c) \/ FlushQueued(c) \/ FlushReturn(c) \/ FlushSeen(c)

Dropping == DropFlag \/ DropSend \/ DropJoin

Worker == Recv \/ Stop \/ Ack \/ SkipLimited \/ FilterAndSend

Network == \/ \E status \in {"ok", "429", "error"}, limits \in Limits :
                Response(status, limits)
           \/ NetworkError
           \/ SerializeError

\* The transport is dropped: nothing happens any more.
Terminated == drop \in {"done", "panicked"} /\ UNCHANGED vars

Next == \/ \E e \in Envelopes : Send(e)
        \/ \E c \in Callers : Caller(c)
        \/ Dropping \/ Worker \/ Network
        \/ \E category \in rl : Expire(category)
        \/ Terminated

Spec == Init /\ [][Next]_vars

\* Threads that have started something go on with it.  Sending, flushing and
\* dropping are up to the application, the answer to the network.
ThreadsRun ==
  /\ WF_vars(Worker)
  /\ \A c \in Callers : WF_vars(FlushQueued(c)) /\ WF_vars(FlushReturn(c))
                                                /\ WF_vars(FlushSeen(c))
  /\ WF_vars(DropSend) /\ WF_vars(DropJoin)

\* The server, or the HTTP client's own timeout, ends every request ...
FairSpec == Spec /\ ThreadsRun /\ WF_vars(Network)

\* ... or a server that does not answer keeps the worker forever.
HungServerSpec == Spec /\ ThreadsRun

-----------------------------------------------------------------------------
Task == [type : {"send"}, env : Envelopes]
          \cup [type : {"flush"}, by : Callers, round : Nat]
          \cup {Shutdown}

TypeOK ==
  /\ chan \in Seq(Task) /\ Len(chan) <= Capacity
  /\ shutdown \in BOOLEAN
  /\ worker \in {"recv", "got", "sending", "returned", "panicked"}
  /\ task \in Task \cup {NoTask}
  /\ sending \in [items : SUBSET AllItems, event_id : BOOLEAN, trace : BOOLEAN]
  /\ rl \subseteq { RateLimitingCategory(k) : k \in Kind }
  /\ pc \in [Callers -> {"idle", "blocked", "waiting", "flushed", "failed"}]
  /\ round \in [Callers -> Nat]
  /\ acks \subseteq Callers \X Nat
  /\ before \in [Callers -> SUBSET Envelopes]
  /\ drop \in {"live", "sending", "joining", "done", "panicked"}
  /\ fate \in [AllItems -> Final \cup {"unsent", "queued"}]

(***************************************************************************)
(* A flush that succeeds tells the truth (thread.rs 169-173): every        *)
(* envelope that was queued or being sent when it was called has left the  *)
(* transport, whatever was sent, flushed and timed out in between.         *)
(***************************************************************************)
FlushTruthful ==
  \A c \in Callers : pc[c] = "flushed" => before[c] \cap Pending = {}

(***************************************************************************)
(* Why it does: the channel is first in, first out, and the ack channel of *)
(* a flush is its own.  The flush a caller waits for is behind everything  *)
(* that was pending when it was called; once it is received, all of that   *)
(* is gone, and stays gone while the answer waits to be read.              *)
(***************************************************************************)
Outstanding(c, t) == pc[c] = "waiting" /\ t = Flush(c, round[c])

WasSent(e) == \A i \in Contents[e].items : fate[i] # "unsent"

KnownSent ==
  /\ \A c \in Callers : \A e \in before[c] : WasSent(e)
  /\ \A e \in Pending : WasSent(e)

RoundsStarted ==
  /\ \A j \in 1 .. Len(chan) : chan[j].type = "flush" => chan[j].round <= round[chan[j].by]
  /\ task.type = "flush" => task.round <= round[task.by]
  /\ \A a \in acks : a[2] <= round[a[1]]

BlockedNotAsked ==
  \A c \in Callers : pc[c] = "blocked" =>
    /\ \A j \in 1 .. Len(chan) : chan[j] # Flush(c, round[c])
    /\ task # Flush(c, round[c])
    /\ <<c, round[c]>> \notin acks

BehindPending ==
  \A c \in Callers : \A j, k \in 1 .. Len(chan) : \A e \in before[c] :
    Outstanding(c, chan[j]) /\ chan[k] = SendEnvelope(e) => k < j

AnsweredAfter ==
  \A c \in Callers :
    \/ Outstanding(c, task)
    \/ pc[c] = "waiting" /\ <<c, round[c]>> \in acks
    \/ pc[c] = "flushed"
    => before[c] \cap Pending = {}

FlushOrder ==
  /\ KnownSent /\ RoundsStarted /\ BlockedNotAsked /\ BehindPending /\ AnsweredAfter

(***************************************************************************)
(* Every item is accounted for: until its fate is settled it is in the     *)
(* channel or in the worker's hands.  Nothing vanishes without a record    *)
(* unless the transport is dropped or the worker has panicked.             *)
(***************************************************************************)
AllAccounted ==
  \A i \in AllItems :
    /\ fate[i] = "queued" => i \in ItemsOf(Pending)
    /\ fate[i] = "discarded" => shutdown \/ worker = "panicked"

(***************************************************************************)
(* Why it holds, and why no loss is recorded twice: from the moment an     *)
(* envelope is queued it is in one place only, the channel or the worker's *)
(* hands; its items are unsettled there, except that the worker has        *)
(* settled those it filtered out of what it is sending.  The shutdown task *)
(* is only ever queued after the flag is up.                               *)
(***************************************************************************)
OnePlace ==
  /\ \A j, k \in 1 .. Len(chan) : \A e \in Envelopes :
       chan[j] = SendEnvelope(e) /\ chan[k] = SendEnvelope(e) => j = k
  /\ InHand \cap InChannel = {}

Unsettled ==
  /\ \A e \in InChannel : \A i \in Contents[e].items : fate[i] = "queued"
  /\ \A e \in InHand : \A i \in Contents[e].items :
       /\ fate[i] # "unsent"
       /\ fate[i] = "queued" <=> worker = "got" \/ i \in sending.items

SendsItsTask ==
  worker = "sending" => \E e \in Envelopes : /\ task = SendEnvelope(e)
                                            /\ sending.items \subseteq Contents[e].items

FlagFirst ==
  /\ drop # "live" \/ task = Shutdown => shutdown
  /\ \A j \in 1 .. Len(chan) : chan[j] = Shutdown => shutdown

Custody == OnePlace /\ Unsettled /\ SendsItsTask /\ FlagFirst /\ AllAccounted

\* An item is lost, accepted or refused once: no step changes a settled fate,
\* so no loss is recorded twice and nothing accepted is recorded as lost.
SettledOnce ==
  [][\A i \in AllItems : fate[i] \in Final => fate'[i] = fate[i]]_vars

\* No request carries an item of a category that is rate limited, and no
\* attachment goes out without the event or transaction it belongs to.
RespectsLimits ==
  [][worker' = "sending" /\ worker # "sending" =>
       /\ \A i \in sending'.items : ~IsDisabled(RateLimitingCategory(i.kind))
       /\ (\E i \in sending'.items : i.kind = "attachment") => HasEvent(sending'.items)]_vars

\* A flush that is called returns, with success or without (flush, thread.rs
\* 166-173): neither a full channel nor a dead worker keeps the caller.
FlushReturns == \A c \in Callers : pc[c] = "blocked" ~> pc[c] \in {"flushed", "failed"}

\* Dropping the transport comes to an end (Drop, thread.rs 176-184).
DropEnds == drop = "sending" ~> drop \in {"done", "panicked"}

(***************************************************************************)
(* What the changelog says of transactions: they are sent with the trace   *)
(* header they were given.                                                 *)
(***************************************************************************)
TransactionKeepsTrace ==
  worker = "sending" /\ (\E i \in sending.items : i.kind = "transaction")
    => sending.trace = Contents[task.env].trace
=============================================================================
