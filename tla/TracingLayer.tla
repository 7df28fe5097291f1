----------------------------- MODULE TracingLayer -----------------------------
(***************************************************************************)
(* SentryLayer of sentry-tracing (layer/mod.rs, layer/span_guard_stack.rs):*)
(* tracing spans that pass the filter become transactions and spans, and   *)
(* entering one makes it the active span of a hub forked for that purpose. *)
(* A hub is the thread it was forked on first and its active span; the     *)
(* forks made by on_enter are new, so a switch guard always swaps.         *)
(***************************************************************************)
EXTENDS Performance, SequencesExt

CONSTANT MaxEntered     \* bound on the spans entered at a time

VARIABLES
  thread_hub,   \* THREAD_HUB
  span_guards,  \* SPAN_GUARDS: per thread and span, the hubs its guards restore
  data,         \* SentrySpanData.hub of each span, None after on_close
  entered,      \* history: the spans entered on each thread and not yet exited
  unordered     \* history: threads on which a span was exited before one entered later

tracingVars == <<thread_hub, span_guards, data, entered, unordered>>

Home(t) == [thread |-> t, span |-> None]

TracingInit ==
  /\ thread_hub = [t \in Threads |-> Home(t)]
  /\ span_guards = [t \in Threads |-> [n \in Nodes |-> <<>>]]
  /\ data = [n \in Nodes |-> None]
  /\ entered = [t \in Threads |-> <<>>] /\ unordered = {}

\* on_new_span: a child of the active span of the current hub, or a transaction,
\* which may continue the trace of a sentry.trace field.
OnNewSpan(t, n, h) ==
  LET parent == thread_hub[t].span IN
  /\ node[n] = Free
  /\ data' = [data EXCEPT ![n] = thread_hub[t]]
  /\ \/ parent = None /\ StartTransaction(n, ContinueFromHeaders(n, h), TRUE)
     \/ parent # None /\ h = None /\ StartChild(n, parent)
  /\ UNCHANGED <<options, sent, lost, finishing, thread_hub, span_guards, entered, unordered>>

\* The hub forked by on_enter: new_from_top of the span's hub, with the span set.
Forked(n, hub) == [hub EXCEPT !.span = n]

\* on_enter, on any thread, and again while the span is entered already.
OnEnter(t, n) ==
  /\ data[n] # None
  /\ SumFunctionOnSet([u \in Threads |-> Len(entered[u])], Threads) < MaxEntered
  /\ thread_hub' = [thread_hub EXCEPT ![t] = Forked(n, data[n])]
  /\ span_guards' = [span_guards EXCEPT ![t][n] = Append(@, thread_hub[t])]
  /\ entered' = [entered EXCEPT ![t] = Append(@, n)]
  /\ UNCHANGED <<options, node, sent, lost, finishing, data, unordered>>

\* Mutant: the oldest guard of the span is dropped.
PoppedGuard_Oldest(guards) == Head(guards)

\* SpanGuardStack::pop: the newest guard of the span.
PoppedGuard(guards) == Last(guards)

\* on_exit: the guard is dropped and puts its hub back.
OnExit(t, n) ==
  /\ span_guards[t][n] # <<>>
  /\ unordered' = IF Last(entered[t]) = n THEN unordered ELSE unordered \cup {t}
  /\ thread_hub' = [thread_hub EXCEPT ![t] = PoppedGuard(span_guards[t][n])]
  /\ span_guards' = [span_guards EXCEPT ![t][n] = Front(@)]
  /\ entered' = [entered EXCEPT ![t] = RemoveAt(@, SelectLastInSeq(@, LAMBDA m : m = n))]
  /\ UNCHANGED <<options, node, sent, lost, finishing, data>>

\* on_record: fields, name and operation reach the span.
OnRecord(n) ==
  /\ data[n] # None
  /\ node' = [node EXCEPT ![n] = WithData(@)]
  /\ UNCHANGED <<options, sent, lost, finishing, tracingVars>>

\* on_close.  The tracing library keeps a span until its children are closed and
\* nobody is in it.
OnClose(n) ==
  /\ data[n] # None
  /\ \A t \in Threads : span_guards[t][n] = <<>>
  /\ \A m \in Nodes : data[m] # None => node[m].parent # n
  /\ Finish(n, node[n])
  /\ data' = [data EXCEPT ![n] = None]
  /\ UNCHANGED <<options, finishing, thread_hub, span_guards, entered, unordered>>

TracingNext ==
  \/ \E t \in Threads, n \in Nodes :
       \/ \E h \in Headers \cup {None} : OnNewSpan(t, n, h)
       \/ OnEnter(t, n) \/ OnExit(t, n)
  \/ \E n \in Nodes : OnRecord(n) \/ OnClose(n)

\* The active span of a thread is the span it is in, whichever threads entered and
\* exited it in between; in no span, its own hub is back ("Drop the current span's
\* HubSwitchGuard to restore the parent Hub", layer/mod.rs on_exit).  The code keeps
\* this only on threads that exit their spans in reverse order.
CurrentSpan ==
  \A t \in Threads \ unordered :
    IF entered[t] = <<>> THEN thread_hub[t] = Home(t)
                         ELSE thread_hub[t].span = Last(entered[t])

(***************************************************************************)
(* What makes it inductive.                                                *)
(***************************************************************************)
TracingHubs == [thread : Threads, span : Nodes \cup {None}]

TracingTyped ==
  /\ thread_hub \in [Threads -> TracingHubs]
  /\ span_guards \in [Threads -> [Nodes -> Seq(TracingHubs)]]
  /\ data \in [Nodes -> TracingHubs \cup {None}]
  /\ entered = [t \in Threads |-> entered[t]] /\ unordered \subseteq Threads

\* What is the active span of a hub was started.
Rooted ==
  /\ \A n \in Nodes : data[n] # None => node[n] # Free
  /\ \A t \in Threads :
       /\ thread_hub[t].span # None => node[thread_hub[t].span] # Free
       /\ \A n \in Nodes : \A k \in DOMAIN span_guards[t][n] :
            LET s == span_guards[t][n][k].span IN s # None => node[s] # Free

\* Every span that is entered has a guard of its own, p[i] for the i-th, in the order
\* they were entered, and it restores the hub of the span entered before it.
Nested ==
  \A t \in Threads \ unordered :
    LET e == entered[t]  g == span_guards[t] IN
    /\ e \in Seq(Nodes)
    /\ \E p \in [DOMAIN e -> DOMAIN e] :
         /\ \A i \in DOMAIN e :
              /\ p[i] <= i /\ p[i] \in DOMAIN g[e[i]]
              /\ IF i = 1 THEN g[e[i]][p[i]] = Home(t) ELSE g[e[i]][p[i]].span = e[i - 1]
         /\ \A i, j \in DOMAIN e : i < j /\ e[i] = e[j] => p[i] < p[j]
         /\ \A n \in Nodes : \A k \in DOMAIN g[n] : \E i \in DOMAIN e : e[i] = n /\ p[i] = k

====
