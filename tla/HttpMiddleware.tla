---------------------------- MODULE HttpMiddleware ----------------------------
(***************************************************************************)
(* The web middleware: SentryLayer and SentryHttpLayer of sentry-tower, in *)
(* the documented order, and the actix middleware.  A request has a hub of *)
(* its own; a future is polled by any thread with that hub current, and    *)
(* may be dropped before it is ready.  A hub is represented by the active  *)
(* span of its scope.                                                      *)
(***************************************************************************)
EXTENDS Performance

CONSTANTS Requests, MainHub

VARIABLES
  bound,       \* whether a client is bound
  req,         \* per request: phase, middleware, header, transaction, saved span
  scope_span,  \* the active span of each hub
  reported,    \* history: errors captured: the request and the span attached
  disturbed    \* history: hubs that were current when another future was dropped

httpVars == <<bound, req, scope_span, reported, disturbed>>

\* The hubs: Hub::main, the hubs of the other threads and those of the requests.
Hubs == {MainHub} \cup Threads \cup Requests

HttpInit ==
  /\ bound \in BOOLEAN
  /\ req = [r \in Requests |-> [phase |-> "none"]]
  /\ scope_span = [h \in Hubs |-> None]
  /\ reported = {} /\ disturbed = {}

Running == { r \in Requests : req[r].phase = "running" }
SpanSet(h, s) == scope_span' = [scope_span EXCEPT ![h] = s]

\* Mutant: all requests share a hub.
HubOf_Shared(r) == MainHub

\* The hub of a request: Hub::new_from_top makes a new one.
HubOf(r) == r

\* SentryService::call with NewFromTopProvider and SentryHttpService::call: the hub
\* is forked, the headers are kept for the first poll.
TowerCall(t, r, h, start) ==
  /\ req[r].phase = "none"
  /\ req' = [req EXCEPT ![r] = [phase |-> "called", via |-> "tower", header |-> h,
                                start |-> start, trx |-> None, parent |-> None]]
  /\ SpanSet(HubOf(r), scope_span[t])
  /\ UNCHANGED <<perfVars, bound, reported, disturbed>>

\* SentryHttpFuture::poll, the first time: a transaction is started within
\* configure_scope, which does nothing without a client.
TowerFirstPoll(r) ==
  /\ req[r].phase = "called" /\ req[r].via = "tower"
  /\ \/ /\ bound /\ req[r].start
        /\ \E n \in Nodes :
             /\ node[n] = Free
             /\ StartTransaction(n, ContinueFromHeaders(n, req[r].header), TRUE)
             /\ req' = [req EXCEPT ![r].phase = "running", ![r].trx = n, ![r].parent = scope_span[HubOf(r)]]
             /\ SpanSet(HubOf(r), n)
     \/ /\ ~(bound /\ req[r].start)
        /\ req' = [req EXCEPT ![r].phase = "running"]
        /\ UNCHANGED <<node, scope_span>>
  /\ UNCHANGED <<options, sent, lost, finishing, bound, reported, disturbed>>

\* The actix middleware's call: the hub is forked from the main hub, and the
\* transaction is started on it at once.
ActixCall(r, h, start) ==
  /\ req[r].phase = "none"
  /\ SpanSet(HubOf(r), scope_span[MainHub])
  /\ \E n \in IF start THEN { m \in Nodes : node[m] = Free } ELSE {None} :
       /\ req' = [req EXCEPT ![r] = [phase |-> "called", via |-> "actix", header |-> h,
                                     start |-> start, trx |-> n, parent |-> None]]
       /\ IF start THEN StartTransaction(n, ContinueFromHeaders(n, h), bound) ELSE UNCHANGED node
  /\ UNCHANGED <<options, sent, lost, finishing, bound, reported, disturbed>>

\* The actix future up to the call of the handler; it may have waited for the body.
ActixFirstPoll(r) ==
  /\ req[r].phase = "called" /\ req[r].via = "actix"
  /\ req' = [req EXCEPT ![r].phase = "running", ![r].parent = scope_span[HubOf(r)]]
  /\ SpanSet(HubOf(r), IF req[r].trx # None THEN req[r].trx ELSE scope_span[HubOf(r)])
  /\ UNCHANGED <<perfVars, bound, reported, disturbed>>

\* What the handler does: spans below the active one, and a status of its own.
HandlerChild(r, n) ==
  /\ r \in Running /\ scope_span[HubOf(r)] # None /\ node[n] = Free
  /\ StartChild(n, scope_span[HubOf(r)])
  /\ UNCHANGED <<options, sent, lost, finishing, httpVars>>

HandlerFinish(n) ==
  /\ IsSpan(n) /\ ~node[n].finished
  /\ Finish(n, node[n])
  /\ UNCHANGED <<options, finishing, httpVars>>

HandlerStatus(r) ==
  /\ r \in Running /\ req[r].trx # None
  /\ node' = [node EXCEPT ![req[r].trx] = WithStatus(@, "handler")]
  /\ UNCHANGED <<options, sent, lost, finishing, httpVars>>

\* The end of a request's transaction: the handler's status wins.
Settled(r, status) ==
  IF req[r].trx = None THEN UNCHANGED <<node, sent, lost>>
  ELSE FinishTransaction(req[r].trx, WithDefaultStatus(node[req[r].trx], status))

\* The future is ready.  Tower leaves errors to others; actix captures those that
\* are server errors, on the hub of the request and before the transaction ends.
Ready(r, status, serverError) ==
  /\ r \in Running
  /\ reported' = IF req[r].via = "actix" /\ serverError /\ bound
                 THEN reported \cup {[req |-> r, span |-> scope_span[HubOf(r)]]} ELSE reported
  /\ Settled(r, status)
  /\ scope_span' = IF req[r].trx # None THEN [scope_span EXCEPT ![HubOf(r)] = req[r].parent] ELSE scope_span
  /\ req' = [req EXCEPT ![r].phase = "done"]
  /\ UNCHANGED <<options, finishing, bound, disturbed>>

\* Mutant: a dropped future forgets its transaction.
TowerAborted_Lost(r) == UNCHANGED <<node, sent, lost>>

\* What PinnedDrop does for the transaction.
TowerAborted(r) == Settled(r, "Aborted")

\* PinnedDrop of SentryHttpFuture: the transaction is finished, but the span is put
\* back on the hub h that is current where the future is dropped.
TowerDrop(r, h) ==
  /\ req[r].phase \in {"called", "running"} /\ req[r].via = "tower"
  /\ h \in (Hubs \ Requests) \cup (Running \ {r})
  /\ TowerAborted(r)
  /\ IF req[r].trx # None
     THEN SpanSet(h, req[r].parent) /\ disturbed' = disturbed \cup {h}
     ELSE UNCHANGED <<scope_span, disturbed>>
  /\ req' = [req EXCEPT ![r].phase = "dropped"]
  /\ UNCHANGED <<options, finishing, bound, reported>>

\* The actix future has no such handler: its transaction is dropped unfinished.
ActixDrop(r) ==
  /\ req[r].phase \in {"called", "running"} /\ req[r].via = "actix"
  /\ req' = [req EXCEPT ![r].phase = "dropped"]
  /\ UNCHANGED <<perfVars, bound, scope_span, reported, disturbed>>

HandlerNext ==
  \/ \E r \in Requests, n \in Nodes : HandlerChild(r, n)
  \/ \E r \in Requests : HandlerStatus(r)
  \/ \E n \in Nodes : HandlerFinish(n)
  \/ \E r \in Requests, e \in BOOLEAN : Ready(r, IF e THEN "InternalError" ELSE "Ok", e)

TowerNext ==
  \/ \E t \in Threads, r \in Requests, h \in Headers \cup {None}, s \in BOOLEAN : TowerCall(t, r, h, s)
  \/ \E r \in Requests : TowerFirstPoll(r) \/ \E h \in Hubs : TowerDrop(r, h)

ActixNext ==
  \/ \E r \in Requests, h \in Headers \cup {None}, s \in BOOLEAN : ActixCall(r, h, s)
  \/ \E r \in Requests : ActixFirstPoll(r) \/ ActixDrop(r)

\* A request with a client and a transaction gets an answer in Sentry however it
\* ends: its transaction was sent or counted as not sampled, with a status and with
\* the request; only an actix future that is dropped leaves none (http.rs poll and
\* drop: "still finish the transaction to make sure this is not lost").
RequestsSettled ==
  \A r \in Requests :
    /\ req[r].phase = "done" \/ (req[r].phase = "dropped" /\ req[r].via = "tower")
    /\ req[r].trx # None /\ node[req[r].trx].client
    => /\ ~node[req[r].trx].open /\ node[req[r].trx].status # None
       /\ Len(lost[req[r].trx]) + Cardinality({ i \in DOMAIN sent : sent[i].trx = req[r].trx }) = 1

\* While a request is handled, its transaction is the active span of its hub, and
\* an error is reported with it: requests do not get into each other's traces.  The
\* exception is the code's: a tower future dropped while the hub was current.
RequestsIsolated ==
  /\ \A r \in Running : req[r].trx # None /\ r \notin disturbed => scope_span[HubOf(r)] = req[r].trx
  /\ \A e \in reported : req[e.req].trx # None /\ e.req \notin disturbed => e.span = req[e.req].trx
  /\ \A t \in Hubs \ (Requests \cup disturbed) : scope_span[t] = None

(***************************************************************************)
(* What makes these inductive.                                             *)
(***************************************************************************)
Unserved == [phase |-> "none"]
Request ==
  [phase : {"called", "running", "done", "dropped"}, via : {"tower", "actix"},
   header : Headers \cup {None}, start : BOOLEAN, trx : Nodes \cup {None}, parent : Nodes \cup {None}]

HttpTyped ==
  /\ bound \in BOOLEAN /\ disturbed \subseteq Hubs
  /\ req \in [Requests -> {Unserved} \cup Request]
  /\ scope_span \in [Hubs -> Nodes \cup {None}]
  /\ reported \subseteq [req : Requests, span : Nodes \cup {None}]

\* A request has a transaction of its own, which is closed with a status when it is
\* done; what scopes and requests refer to was started; only a request that is done
\* has reported.
Served ==
  /\ \A h \in Hubs : scope_span[h] # None => node[scope_span[h]] # Free
  /\ \A r \in Requests : req[r] # Unserved =>
       /\ req[r].trx # None => IsTrx(req[r].trx)
       /\ req[r].parent # None => node[req[r].parent] # Free
       /\ req[r].phase = "called" /\ req[r].via = "tower" => req[r].trx = None
       /\ req[r].trx # None /\ (req[r].phase = "done" \/ (req[r].phase = "dropped" /\ req[r].via = "tower"))
            => ~node[req[r].trx].open /\ node[req[r].trx].status # None
       /\ \A s \in Requests \ {r} : req[s] # Unserved /\ req[r].trx # None => req[s].trx # req[r].trx
  /\ \A e \in reported : req[e.req].phase = "done"

====
