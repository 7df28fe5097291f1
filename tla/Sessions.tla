------------------------------ MODULE Sessions ------------------------------
(***************************************************************************)
(* Release health sessions (sentry-core session.rs, with the parts of      *)
(* hub.rs, scope/real.rs and client/mod.rs that touch a session).  A       *)
(* session lives in a cell that the scopes of several hubs can share.      *)
(* Capturing an event updates it and, in application mode, sends its state *)
(* along; its end puts a last update into the flusher's queue, which the   *)
(* flush interval, a full queue, Client::flush and Client::close empty.    *)
(*                                                                         *)
(* Each thread has a hub of its own, whose stack it has locked for writing *)
(* while it ends a session.  The flusher's worker is shut down by the same *)
(* handshake as the batcher's (module Batcher has its steps); here closing *)
(* waits until the worker is not sending.  Times are left out.             *)
(***************************************************************************)
EXTENDS Naturals, Sequences, FiniteSets, Functions

CONSTANTS
  Threads,            \* the application's threads
  Worker,             \* the flusher's thread
  Session,            \* names of the sessions, each started once
  KeyOf,              \* KeyOf[s]: start minute and user of session s
  MAX_SESSION_ITEMS,  \* most session updates in an envelope, 100 in the code
  FullAtDrop,         \* whether the transport's channel can be full when a session ends
  None,
  MaxEvents,          \* bound: events captured in a behaviour
  MaxCalls            \* bound: calls of flush and close in a behaviour

ASSUME ThreadsAssumption == IsFiniteSet(Threads)
ASSUME MaxItemsAssumption == MAX_SESSION_ITEMS \in Nat \ {0}
ASSUME NamesAssumption == Worker \notin Threads /\ None \notin Session
ASSUME KeyAssumption == DOMAIN KeyOf = Session
ASSUME FullAssumption == FullAtDrop \in BOOLEAN

Actors   == Threads \cup {Worker}
Keys     == { KeyOf[s] : s \in Session }
Status   == {"Ok", "Exited", "Crashed", "Abnormal"}
Outcome  == {"exited", "errored", "crashed", "abnormal"}
Update   == [of : Session, status : Status, errors : Nat, init : BOOLEAN]
Counts   == [Keys \X Outcome -> Nat]
NoCounts == [ko \in Keys \X Outcome |-> 0]

ASSUME UpdateAssumption == None \notin Update

VARIABLES
  mode,         \* the client's session mode, an option
  cell,         \* the sessions: where (unborn, live, gone), status, errors, init, dirty
  scope,        \* the session the top scope of each thread's hub refers to
  flusher,      \* the client's Option<SessionFlusher> is Some
  individual,   \* the flusher's queue of updates ...
  aggregated,   \* ... and its counts of sessions
  slot,         \* the transport slot is occupied
  pc,           \* what each thread is doing
  update,       \* the last update of the session a thread is dropping
  out,          \* the envelopes a thread has still to hand over
  stuck,        \* the thread waits for a lock it holds itself
  sent,         \* the updates the transport has accepted
  counted,      \* the counts the transport has accepted
  made,         \* history: all updates made
  lost,         \* history: updates stuck, or made when the client was closed
  lostCounts,   \* history: counts stuck
  hits,         \* history: error events captured during the session
  events, calls \* bounded counters

queue     == <<individual, aggregated>>
client    == <<flusher, individual, aggregated, slot>>
transport == <<sent, counted, lost, lostCounts>>
inputs    == <<mode, events, calls>>
vars == <<cell, scope, client, pc, update, out, stuck, transport, made, hits, inputs>>

Unborn == [where |-> "unborn", status |-> "Ok", errors |-> 0, init |-> TRUE, dirty |-> FALSE]

Init == /\ mode \in {"Application", "Request"}
        /\ cell = [s \in Session |-> Unborn]
        /\ scope = [t \in Threads |-> None]
        /\ flusher = TRUE /\ individual = <<>> /\ aggregated = NoCounts /\ slot = TRUE
        /\ pc = [a \in Actors |-> "idle"]
        /\ update = [t \in Threads |-> None]
        /\ out = [a \in Actors |-> <<>>]
        /\ stuck = [a \in Actors |-> FALSE]
        /\ sent = {} /\ counted = NoCounts
        /\ made = {} /\ lost = {} /\ lostCounts = NoCounts
        /\ hits = [s \in Session |-> 0]
        /\ events = 0 /\ calls = 0

\* Where a thread is handing envelopes over, holds a read guard of the
\* transport slot across steps, a read or the write guard of the flusher's
\* lock, and the write guard of its hub's stack.
Sending    == {"event_send", "drop_send", "flush_send", "close_send"}
Capturing  == {"item", "event_send"}
Reading    == {"drop_send", "flush_send"}
Writing    == {"join", "close_send"}
HoldsStack == {"enqueue", "drop_send"}

CanRead  == \A t \in Threads : pc[t] \notin Writing
CanWrite == \A t \in Threads : pc[t] \notin Reading \cup Writing

Goto(a, place) == pc' = [pc EXCEPT ![a] = place]

-----------------------------------------------------------------------------
(* The life of a session.                                                  *)

UpdateOf(s, c) == [of |-> s, status |-> c.status, errors |-> c.errors, init |-> c.init]

\* Mutant: closing a session does not make it dirty.
Closed_NotDirty(c, status) ==
  IF c.status # "Ok" THEN c
  ELSE [c EXCEPT !.status = IF status = "Ok" THEN "Exited" ELSE status]

\* Session::close: only a session that is still Ok is closed.
Closed(c, status) ==
  IF c.status # "Ok" THEN c
  ELSE [c EXCEPT !.status = IF status = "Ok" THEN "Exited" ELSE status, !.dirty = TRUE]

\* Session::drop: the session is closed; if dirty it goes to the flusher.
DropSession(t, s, c, cells) ==
  LET last == Closed(c, "Exited") IN
  /\ cell' = [cells EXCEPT ![s] = [last EXCEPT !.where = "gone"]]
  /\ IF last.dirty
     THEN /\ update' = [update EXCEPT ![t] = UpdateOf(s, last)]
          /\ made' = made \cup {UpdateOf(s, last)}
          /\ Goto(t, "enqueue")
     ELSE UNCHANGED <<update, made, pc>>

\* The top scope of thread t refers to another cell; with the last reference
\* to the old one the session in it is dropped.
Refer(t, new, cells) ==
  LET old == scope[t] IN
  /\ scope' = [scope EXCEPT ![t] = new]
  /\ IF /\ old # None
        /\ cells[old].where = "live"
        /\ \A u \in Threads \ {t} : scope[u] # old
     THEN DropSession(t, old, cells[old], cells)
     ELSE cell' = cells /\ UNCHANGED <<update, made, pc>>

\* Hub::start_session: a new session in a new cell for the top scope.
StartSession(t, s) ==
  /\ pc[t] = "idle"
  /\ cell[s].where = "unborn"
  /\ Refer(t, s, [cell EXCEPT ![s] = [Unborn EXCEPT !.where = "live", !.dirty = TRUE]])
  /\ UNCHANGED <<client, out, stuck, transport, hits, inputs>>

\* Hub::new_from_top: a fresh hub that shares the cell of u's top scope.
InheritScope(t, u) ==
  /\ pc[t] = "idle"
  /\ scope[t] = None /\ scope[u] # None
  /\ pc[u] \notin HoldsStack
  /\ Refer(t, scope[u], cell)
  /\ UNCHANGED <<client, out, stuck, transport, hits, inputs>>

\* The scope with the session is popped.
PopScope(t) ==
  /\ pc[t] = "idle"
  /\ scope[t] # None
  /\ Refer(t, None, cell)
  /\ UNCHANGED <<client, out, stuck, transport, hits, inputs>>

\* Hub::end_session_with_status: the session is taken out of its cell, for
\* everybody who shares it, closed and dropped.
EndSession(t, status) ==
  /\ pc[t] = "idle"
  /\ scope[t] # None
  /\ cell[scope[t]].where = "live"
  /\ DropSession(t, scope[t], Closed(cell[scope[t]], status), cell)
  /\ UNCHANGED <<scope, client, out, stuck, transport, hits, inputs>>

-----------------------------------------------------------------------------
(* Capturing an event.                                                     *)

LiveSession(t) == scope[t] # None /\ cell[scope[t]].where = "live"

\* end_session holds the mutex of the cell until the session is dropped.
CellLocked(t) == \E u \in Threads \ {t} : /\ scope[u] = scope[t] /\ scope[u] # None
                                          /\ pc[u] \in HoldsStack

\* Session::update_from_event: an ended session is left alone.
Updated(c, kind) ==
  IF c.status # "Ok" \/ kind = "info" THEN c
  ELSE [c EXCEPT !.errors = @ + 1, !.dirty = TRUE,
                 !.status = IF kind = "crash" THEN "Crashed" ELSE @]

\* prepare_event, if the transport is still there and no processor drops the
\* event: the event updates the session of the scope; it is then sent, unless
\* it is not in the sample.
CaptureEvent(t, kind, sampled) ==
  /\ pc[t] = "idle"
  /\ slot
  /\ ~CellLocked(t)
  /\ events < MaxEvents
  /\ events' = events + 1
  /\ IF LiveSession(t)
     THEN LET s == scope[t] IN
          /\ cell' = [cell EXCEPT ![s] = Updated(cell[s], kind)]
          /\ hits' = [hits EXCEPT ![s] = IF kind # "info" /\ cell[s].status = "Ok" THEN @ + 1 ELSE @]
     ELSE UNCHANGED <<cell, hits>>
  /\ Goto(t, IF sampled THEN "item" ELSE "idle")
  /\ UNCHANGED <<scope, client, update, out, stuck, transport, made, mode, calls>>

\* The envelope of an event without a session update.
EventOnly == [updates |-> <<>>, counts |-> NoCounts]

\* Mutant: every update says it is the first.
CreateEnvelopeItem_KeepsInit(t) ==
  /\ pc[t] = "item"
  /\ ~CellLocked(t)
  /\ Goto(t, "event_send")
  /\ IF mode = "Application" /\ LiveSession(t) /\ cell[scope[t]].dirty
     THEN LET s == scope[t] IN
          /\ out' = [out EXCEPT ![t] = <<[updates |-> <<UpdateOf(s, cell[s])>>,
                                          counts |-> NoCounts]>>]
          /\ made' = made \cup {UpdateOf(s, cell[s])}
          /\ cell' = [cell EXCEPT ![s].dirty = FALSE]
     ELSE /\ out' = [out EXCEPT ![t] = <<EventOnly>>]
          /\ UNCHANGED <<made, cell>>
  /\ UNCHANGED <<scope, client, update, stuck, transport, hits, inputs>>

\* create_envelope_item, in a critical section of its own: the session may
\* have been updated, sent or ended by others since the event updated it.
CreateEnvelopeItem(t) ==
  /\ pc[t] = "item"
  /\ ~CellLocked(t)
  /\ Goto(t, "event_send")
  /\ IF mode = "Application" /\ LiveSession(t) /\ cell[scope[t]].dirty
     THEN LET s == scope[t] IN
          /\ out' = [out EXCEPT ![t] = <<[updates |-> <<UpdateOf(s, cell[s])>>,
                                          counts |-> NoCounts]>>]
          /\ made' = made \cup {UpdateOf(s, cell[s])}
          /\ cell' = [cell EXCEPT ![s].init = FALSE, ![s].dirty = FALSE]
     ELSE /\ out' = [out EXCEPT ![t] = <<EventOnly>>]
          /\ UNCHANGED <<made, cell>>
  /\ UNCHANGED <<scope, client, update, stuck, transport, hits, inputs>>

-----------------------------------------------------------------------------
(* The flusher.                                                            *)

\* How a session counts in the aggregates.
OutcomeOf(u) == CASE u.status = "Exited" /\ u.errors > 0 -> "errored"
                  [] u.status = "Exited" /\ u.errors = 0 -> "exited"
                  [] u.status = "Crashed"                -> "crashed"
                  [] u.status = "Abnormal"               -> "abnormal"

\* Mutant: what does not fill an envelope is forgotten.
Chunks_FullOnly(us) ==
  [n \in 1 .. Len(us) \div MAX_SESSION_ITEMS |->
     [updates |-> SubSeq(us, (n - 1) * MAX_SESSION_ITEMS + 1, n * MAX_SESSION_ITEMS),
      counts |-> NoCounts]]

\* The updates us in envelopes of at most MAX_SESSION_ITEMS.
Chunks(us) ==
  [n \in 1 .. (Len(us) + MAX_SESSION_ITEMS - 1) \div MAX_SESSION_ITEMS |->
     [updates |-> SubSeq(us, (n - 1) * MAX_SESSION_ITEMS + 1,
                         IF n * MAX_SESSION_ITEMS < Len(us) THEN n * MAX_SESSION_ITEMS
                                                            ELSE Len(us)),
      counts |-> NoCounts]]

\* flush_queue_internal: an envelope with the counts, then the updates.
Envelopes(us, cs) ==
  (IF cs = NoCounts THEN <<>> ELSE <<[updates |-> <<>>, counts |-> cs]>>) \o Chunks(us)

\* Where a thread is when it has handed over everything: a close goes on.
After(place) == IF place = "close_send" THEN "shutdown" ELSE "idle"

TakeQueue(a, us, cs) ==
  /\ out' = [out EXCEPT ![a] = Envelopes(us, cs)]
  /\ individual' = <<>>
  /\ aggregated' = NoCounts

\* Where a thread is that has taken the queue: at place if there is something to send.
Place(place, us, cs) == IF Envelopes(us, cs) = <<>> THEN After(place) ELSE place

\* Mutant: the queue is sent one update late.
Enqueue_OneLate(t) ==
  /\ pc[t] = "enqueue"
  /\ CanRead
  /\ LET u  == update[t]
         us == Append(individual, u)
         single == mode = "Application" \/ ~u.init
     IN \/ /\ ~flusher
           /\ lost' = lost \cup {u}
           /\ Goto(t, "idle") /\ UNCHANGED <<queue, out>>
        \/ /\ flusher /\ single /\ Len(us) <= MAX_SESSION_ITEMS
           /\ individual' = us
           /\ Goto(t, "idle") /\ UNCHANGED <<aggregated, out, lost>>
        \/ /\ flusher /\ single /\ Len(us) > MAX_SESSION_ITEMS
           /\ TakeQueue(t, us, aggregated)
           /\ Goto(t, "drop_send") /\ UNCHANGED lost
        \/ /\ flusher /\ ~single
           /\ aggregated' = [aggregated EXCEPT ![<<KeyOf[u.of], OutcomeOf(u)>>] = @ + 1]
           /\ Goto(t, "idle") /\ UNCHANGED <<individual, out, lost>>
  /\ update' = [update EXCEPT ![t] = None]
  /\ UNCHANGED <<cell, scope, flusher, slot, stuck, sent, counted, lostCounts, made, hits,
                 inputs>>

\* Client::enqueue_session and SessionFlusher::enqueue.  A closed client
\* ignores the update.  In request mode a session nothing was sent of yet is
\* counted, others are queued; a full queue is sent.
Enqueue(t) ==
  /\ pc[t] = "enqueue"
  /\ CanRead
  /\ LET u  == update[t]
         us == Append(individual, u)
         single == mode = "Application" \/ ~u.init
     IN \/ /\ ~flusher
           /\ lost' = lost \cup {u}
           /\ Goto(t, "idle") /\ UNCHANGED <<queue, out>>
        \/ /\ flusher /\ single /\ Len(us) < MAX_SESSION_ITEMS
           /\ individual' = us
           /\ Goto(t, "idle") /\ UNCHANGED <<aggregated, out, lost>>
        \/ /\ flusher /\ single /\ Len(us) >= MAX_SESSION_ITEMS
           /\ TakeQueue(t, us, aggregated)
           /\ Goto(t, "drop_send") /\ UNCHANGED lost
        \/ /\ flusher /\ ~single
           /\ aggregated' = [aggregated EXCEPT ![<<KeyOf[u.of], OutcomeOf(u)>>] = @ + 1]
           /\ Goto(t, "idle") /\ UNCHANGED <<individual, out, lost>>
  /\ update' = [update EXCEPT ![t] = None]
  /\ UNCHANGED <<cell, scope, flusher, slot, stuck, sent, counted, lostCounts, made, hits,
                 inputs>>

\* Mutant: the interval sends the counts only.
WorkerFlush_CountsOnly ==
  /\ pc[Worker] = "idle"
  /\ aggregated # NoCounts
  /\ out' = [out EXCEPT ![Worker] = Envelopes(<<>>, aggregated)]
  /\ aggregated' = NoCounts
  /\ Goto(Worker, "flush_send")
  /\ UNCHANGED <<cell, scope, flusher, individual, slot, update, stuck, transport, made,
                 hits, inputs>>

\* The flush interval is over; an empty queue is left alone.
WorkerFlush ==
  /\ pc[Worker] = "idle"
  /\ Place("flush_send", individual, aggregated) = "flush_send"
  /\ TakeQueue(Worker, individual, aggregated)
  /\ Goto(Worker, "flush_send")
  /\ UNCHANGED <<cell, scope, flusher, slot, update, stuck, transport, made, hits, inputs>>

\* Client::flush.
Flush(t) ==
  /\ pc[t] = "idle"
  /\ calls < MaxCalls
  /\ flusher /\ CanRead
  /\ calls' = calls + 1
  /\ TakeQueue(t, individual, aggregated)
  /\ Goto(t, Place("flush_send", individual, aggregated))
  /\ UNCHANGED <<cell, scope, flusher, slot, update, stuck, transport, made, hits, mode, events>>

\* Client::close: the flusher is taken and dropped under the write guard ...
Close(t) ==
  /\ pc[t] = "idle"
  /\ calls < MaxCalls
  /\ CanWrite
  /\ calls' = calls + 1
  /\ flusher' = FALSE
  /\ Goto(t, IF flusher THEN "join" ELSE "shutdown")
  /\ UNCHANGED <<cell, scope, queue, slot, update, out, stuck, transport, made, hits, mode, events>>

\* ... its worker is joined, and the queue is flushed for the last time ...
CloseJoin(t) ==
  /\ pc[t] = "join"
  /\ pc[Worker] = "idle"
  /\ pc' = [pc EXCEPT ![t] = Place("close_send", individual, aggregated),
                    ![Worker] = "exited"]
  /\ TakeQueue(t, individual, aggregated)
  /\ UNCHANGED <<cell, scope, flusher, slot, update, stuck, transport, made, hits, inputs>>

\* ... and the transport slot is emptied, when nobody is sending through it.
CloseTransport(t) ==
  /\ pc[t] = "shutdown"
  /\ \A u \in Threads : pc[u] \notin Capturing
  /\ slot' = FALSE
  /\ Goto(t, "idle")
  /\ UNCHANGED <<cell, scope, flusher, queue, update, out, stuck, transport, made, hits,
                 inputs>>

-----------------------------------------------------------------------------
(* Handing envelopes over.                                                 *)

Plus(c, d) == [ko \in DOMAIN c |-> c[ko] + d[ko]]
UpdatesIn(us) == { us[n] : n \in DOMAIN us }

\* The debug log asks the thread's hub for its client and for that locks the
\* hub's stack for reading: it cannot while the thread has it locked for writing.
CanLog(a) == pc[a] \notin HoldsStack

\* send_envelope: the transport accepts the envelope or, if its channel is
\* full, drops it, records the loss and logs a debug message.  With the last
\* envelope the thread is done.
TrySend(a) ==
  /\ pc[a] \in Sending /\ ~stuck[a]
  /\ out' = [out EXCEPT ![a] = Tail(@)]
  /\ \/ /\ sent' = sent \cup UpdatesIn(Head(out[a]).updates)
        /\ counted' = Plus(counted, Head(out[a]).counts)
        /\ UNCHANGED <<stuck, lost, lostCounts>>
     \/ /\ FullAtDrop \/ CanLog(a)
        /\ stuck' = [stuck EXCEPT ![a] = ~CanLog(a)]
        /\ lost' = lost \cup UpdatesIn(Head(out[a]).updates)
        /\ lostCounts' = Plus(lostCounts, Head(out[a]).counts)
        /\ UNCHANGED <<sent, counted>>
  /\ Goto(a, IF stuck'[a] \/ Len(out[a]) > 1 THEN pc[a] ELSE After(pc[a]))
  /\ UNCHANGED <<cell, scope, client, update, made, hits, inputs>>

-----------------------------------------------------------------------------
Call(t) == \/ \E s \in Session : StartSession(t, s)
           \/ \E u \in Threads : InheritScope(t, u)
           \/ PopScope(t)
           \/ \E status \in Status : EndSession(t, status)
           \/ \E kind \in {"info", "error", "crash"}, sampled \in BOOLEAN :
                CaptureEvent(t, kind, sampled)
           \/ Flush(t) \/ Close(t)

Step(t) == \/ CreateEnvelopeItem(t) \/ Enqueue(t) \/ CloseJoin(t) \/ CloseTransport(t)
           \/ TrySend(t)

WorkerStep == WorkerFlush \/ TrySend(Worker)

\* The application may make no more calls.
Terminated == (\A t \in Threads : pc[t] = "idle") /\ UNCHANGED vars

Next == (\E t \in Threads : Call(t) \/ Step(t)) \/ WorkerStep \/ Terminated

Spec == Init /\ [][Next]_vars

\* Threads in a call go on with it, and the flush interval ends.  A thread
\* that joins the worker gets it: the worker checks for the shutdown between
\* two flushes.
FairSpec == /\ Spec
            /\ \A t \in Threads : WF_vars(Step(t)) /\ SF_vars(CloseJoin(t))
            /\ WF_vars(WorkerStep)

-----------------------------------------------------------------------------
EnvelopeType == { e \in [updates : Seq(Update), counts : Counts] :
                    Len(e.updates) <= MAX_SESSION_ITEMS }
CellType == [where : {"unborn", "live", "gone"}, status : Status, errors : Nat,
             init : BOOLEAN, dirty : BOOLEAN]
Places   == Sending \cup {"idle", "item", "enqueue", "join", "shutdown", "exited"}

TypeOK ==
  /\ mode \in {"Application", "Request"}
  /\ cell \in [Session -> CellType]
  /\ scope \in [Threads -> Session \cup {None}]
  /\ flusher \in BOOLEAN /\ slot \in BOOLEAN
  /\ individual \in Seq(Update) /\ Len(individual) < MAX_SESSION_ITEMS
  /\ aggregated \in Counts
  /\ pc \in [Actors -> Places]
  /\ update \in [Threads -> Update \cup {None}]
  /\ out \in [Actors -> Seq(EnvelopeType)]
  /\ stuck \in [Actors -> BOOLEAN]
  /\ \A a \in Actors : /\ (out[a] # <<>> /\ ~stuck[a]) <=> (pc[a] \in Sending /\ ~stuck[a])
                       /\ stuck[a] => pc[a] = "drop_send"
  /\ sent \subseteq Update /\ counted \in Counts
  /\ made \subseteq Update /\ lost \subseteq Update /\ lostCounts \in Counts
  /\ hits \in [Session -> Nat]
  /\ \A t \in Threads : pc[t] = "enqueue" <=> update[t] # None

\* Of all updates of a session one says that it is the first, and one at most
\* says how the session ended, whoever captures events and ends the session.
OneInitOneEnd ==
  \A s \in Session :
    LET us == { u \in made : u.of = s } IN
    /\ us # {} => Cardinality({ u \in us : u.init }) = 1
    /\ Cardinality({ u \in us : u.status # "Ok" }) <= 1

(***************************************************************************)
(* The last word about a session is the truth.  When it is gone an update  *)
(* with its end was made and carries every error captured while it lived,  *)
(* also the ones whose event was not sent or whose own update somebody     *)
(* else has made (create_envelope_item looks at the session again after    *)
(* update_from_event has let go of it).                                    *)
(***************************************************************************)
LastWord ==
  \A s \in Session :
    /\ cell[s].where = "gone" =>
         \E u \in made : u.of = s /\ u.status # "Ok" /\ u.errors = hits[s]
    /\ \A u \in made : u.of = s => u.errors <= hits[s]

(***************************************************************************)
(* What makes these two inductive: a session's cell c, the error events h  *)
(* captured during it and the updates us made of it so far agree.  A live  *)
(* session is first until something was made of it, its end has been made  *)
(* when it is over and not dirty, and the cell has counted what was        *)
(* captured.                                                               *)
(***************************************************************************)
Ends(us) == { u \in us : u.status # "Ok" }
Life(c, h, us) ==
  /\ c.where = "unborn" => us = {} /\ h = 0
  /\ c.where = "live" => /\ c.init <=> us = {}
                         /\ (c.status # "Ok" /\ ~c.dirty) <=> Ends(us) # {}
  /\ c.where = "gone" => Ends(us) # {}
  /\ c.where # "unborn" => c.errors = h
  /\ us # {} => \E f \in us : { u \in us : u.init } = {f}
  /\ \A u \in Ends(us) : u.errors = h /\ \A v \in Ends(us) : u = v
  /\ \A u \in us : u.errors <= h
MadeOf(s) == { u \in made : u.of = s }
Lives == \A s \in Session : Life(cell[s], hits[s], MadeOf(s))

\* The updates in the hands of the threads.
InHand == (UNION { UNION { UpdatesIn(out[a][n].updates) : n \in DOMAIN out[a] } : a \in Actors })
            \cup { update[t] : t \in { u \in Threads : update[u] # None } }

\* The updates that are counted and not sent themselves.
IsCounted(u) == mode = "Request" /\ u.init

HeadCount(es, ko) == IF es = <<>> THEN 0 ELSE Head(es).counts[ko]
CountsInHand(ko) == SumFunction([a \in Actors |-> HeadCount(out[a], ko)])

\* The sessions counted for ko.
CountedFor(ko) == { u \in made : /\ IsCounted(u)
                                 /\ u \notin lost
                                 /\ \A t \in Threads : u # update[t]
                                 /\ <<KeyOf[u.of], OutcomeOf(u)>> = ko }

(***************************************************************************)
(* No update disappears: each one made is queued, in somebody's hands,     *)
(* with the transport, or was lost because the transport was full or the   *)
(* client closed; and for every start minute, user and outcome the counts  *)
(* that are queued, under way, sent and lost add up to the sessions that   *)
(* were counted (SessionFlusher::enqueue and flush_queue_internal).        *)
(***************************************************************************)
NoUpdateLost ==
  /\ \A u \in made : ~IsCounted(u) => u \in UpdatesIn(individual) \cup InHand \cup sent \cup lost
  /\ \A ko \in Keys \X Outcome :
       aggregated[ko] + CountsInHand(ko) + counted[ko] + lostCounts[ko] = Cardinality(CountedFor(ko))

(***************************************************************************)
(* What makes it inductive: a thread holds the end of a session of its own *)
(* that was made and, if it is to be counted, not lost; what is queued or  *)
(* in an envelope was made and is not counted; and only the first envelope *)
(* a thread has still to hand over can have counts.                        *)
(***************************************************************************)
Tracked ==
  /\ IsFiniteSet(made) /\ lost \subseteq made
  /\ \A t \in Threads : update[t] # None =>
       /\ update[t] \in made /\ update[t].status # "Ok"
       /\ IsCounted(update[t]) => update[t] \notin lost
       /\ \A u \in Threads : update[u] = update[t] => u = t
  /\ \A u \in UpdatesIn(individual) : u \in made /\ ~IsCounted(u)
  /\ \A a \in Actors : \A n \in DOMAIN out[a] :
       /\ \A u \in UpdatesIn(out[a][n].updates) : u \in made /\ ~IsCounted(u)
       /\ n # 1 => out[a][n].counts = NoCounts

\* The thread that drops a session gets its hub's lock back (Session::drop
\* under with_mut, hub.rs 146-184; TransportThread::send never blocks).
DropReturns == \A t \in Threads : pc[t] = "enqueue" ~> pc[t] = "idle"

\* In application mode the end of every session that is gone comes to the
\* transport, unless it is lost (a closed client, a full transport).
EndReported ==
  \A s \in Session :
    mode = "Application" /\ cell[s].where = "gone" ~>
      \E u \in sent \cup lost : u.of = s /\ u.status # "Ok"
=============================================================================
