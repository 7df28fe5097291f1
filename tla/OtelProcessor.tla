---------------------------- MODULE OtelProcessor ----------------------------
(***************************************************************************)
(* SentrySpanProcessor and SentryPropagator of sentry-opentelemetry:       *)
(* OpenTelemetry spans, started and ended on any thread, are mirrored by   *)
(* transactions and spans that a global map holds from on_start to on_end. *)
(* Both callbacks run under the lock of the map, so each is one step.      *)
(***************************************************************************)
EXTENDS Performance

VARIABLES
  span_map,   \* the keys of SPAN_MAP; the value of n is node[n]
  otel        \* external: the OpenTelemetry spans, their parents and their state

otelVars == <<span_map, otel>>

OtelInit == span_map = {} /\ otel = [n \in Nodes |-> Free]

\* SentryPropagator::extract_with_context: headers that can be parsed become part
\* of the context; otherwise it is passed on, and may hold an earlier one.
ExtractWithContext(ctx, h) == IF h = None THEN ctx ELSE h

\* The trace id OpenTelemetry gives a span: its parent's, or a new one.
OtelTrace(n, parent) == IF parent = None THEN n ELSE otel[parent].trace

\* The lookup of the parent: it is gone once it has ended.
ParentInMap(parent) == {parent} \cap span_map

\* on_start: a child of a parent that is still in the map; otherwise a transaction,
\* in the remote trace of the context or in the trace OpenTelemetry chose.
OnStart(n, parent, ctx) ==
  /\ otel[n] = Free
  /\ parent # None => otel[parent] # Free
  /\ otel' = [otel EXCEPT ![n] = [kind |-> "live", parent |-> parent,
                                  trace |-> OtelTrace(n, parent)]]
  /\ \/ \E p \in ParentInMap(parent) : StartChild(n, p)
     \/ /\ ParentInMap(parent) = {}
        /\ LET c == IF ctx # None THEN ContinueFromHeaders(n, ctx)
                    ELSE [NewContext(n) EXCEPT !.trace = OtelTrace(n, parent)]
           IN  StartTransaction(n, c, TRUE)
  /\ span_map' = span_map \cup {n}
  /\ UNCHANGED <<options, sent, lost, finishing>>

\* Mutant: the entry stays in the map.
Removed_Kept(n) == span_map

\* The map once the entry of n is taken out.
Removed(n) == span_map \ {n}

\* on_end: the entry is taken out, attributes and status are set, and it is finished.
OnEnd(n, status) ==
  /\ otel[n].kind = "live"
  /\ otel' = [otel EXCEPT ![n].kind = "ended"]
  /\ span_map' = Removed(n)
  /\ Finish(n, WithStatus(WithData(node[n]), status))
  /\ UNCHANGED <<options, finishing>>

\* The event processor: an event captured while n is the active OpenTelemetry span
\* is put into its trace; an ended span changes nothing.
EventTrace(n, scopeTrace) == IF n \in span_map THEN node[n].trace ELSE scopeTrace

OtelNext ==
  \E n \in Nodes :
    \/ \E parent \in Nodes \cup {None}, h \in Headers \cup {None}, ctx \in {None} \cup Headers :
         OnStart(n, parent, ExtractWithContext(ctx, h))
    \/ \E status \in {"Ok", "UnknownError"} : OnEnd(n, status)

\* The map holds exactly the spans OpenTelemetry has started and not ended, each of
\* them unfinished; a span is below its OpenTelemetry parent, and events captured in
\* it are in the trace OpenTelemetry chose, in the remote one, or, when that was refused, in
\* the new trace of their transaction (processor.rs).
SpanMapMatches ==
  /\ span_map = { n \in Nodes : otel[n].kind = "live" }
  /\ \A n \in span_map : IF IsTrx(n) THEN node[n].open ELSE ~node[n].finished
  /\ \A n \in Nodes : IsSpan(n) /\ otel[n] # Free => node[n].parent = otel[n].parent
  /\ \A n \in span_map : EventTrace(n, None) \in {otel[n].trace, Remote, TrxOf(n)}

(***************************************************************************)
(* What makes it inductive.                                                *)
(***************************************************************************)
OtelTyped ==
  /\ span_map \subseteq Nodes
  /\ otel \in [Nodes -> {Free} \cup [kind : {"live", "ended"}, parent : Nodes \cup {None}, trace : Nodes]]

\* Every OpenTelemetry span has its mirror, in the map as long as it is live; spans
\* are in the OpenTelemetry trace of their transaction.
Mirrors ==
  /\ span_map = { n \in Nodes : otel[n].kind = "live" }
  /\ \A n \in Nodes :
       /\ node[n] = Free <=> otel[n] = Free
       /\ n \in span_map => IF IsTrx(n) THEN node[n].open ELSE ~node[n].finished
       /\ IsSpan(n) => node[n].parent = otel[n].parent /\ otel[n].trace = otel[node[n].trx].trace
       /\ IsTrx(n) => node[n].trace \in {otel[n].trace, Remote, n}

====
