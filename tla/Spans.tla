-------------------------------- MODULE Spans --------------------------------
(***************************************************************************)
(* Performance monitoring driven by each of its users: an application, the *)
(* tracing layer, the OpenTelemetry processor and the web middleware.      *)
(***************************************************************************)
EXTENDS TracingLayer, OtelProcessor, HttpMiddleware

CONSTANTS
  Drivers,         \* the users of the API that are explored
  TracingOptions   \* the options the tracing layer is explored with

VARIABLE driver    \* the one of this behaviour

vars == <<perfVars, tracingVars, otelVars, httpVars, driver>>

\* The middleware is also explored without a client, and the options of the client
\* are varied where the tracing layer does not multiply the states.
Init ==
  /\ PerfInit /\ TracingInit /\ OtelInit /\ HttpInit
  /\ driver \in Drivers
  /\ driver \in {"tower", "actix"} \/ bound
  /\ driver = "tracing" => options = TracingOptions

Next ==
  /\ \/ driver = "api"     /\ AppNext     /\ UNCHANGED <<tracingVars, otelVars, httpVars>>
     \/ driver = "tracing" /\ TracingNext /\ UNCHANGED <<otelVars, httpVars>>
     \/ driver = "otel"    /\ OtelNext    /\ UNCHANGED <<tracingVars, httpVars>>
     \/ driver = "tower"   /\ (TowerNext \/ HandlerNext) /\ UNCHANGED <<tracingVars, otelVars>>
     \/ driver = "actix"   /\ (ActixNext \/ HandlerNext) /\ UNCHANGED <<tracingVars, otelVars>>
  /\ UNCHANGED driver

Spec == Init /\ [][Next]_vars

-----------------------------------------------------------------------------

InEnvelope(n) == { i \in DOMAIN sent : n = sent[i].trx \/ n \in sent[i].spans }

\* A span finished while its transaction is open is not forgotten: it is in the
\* transaction, and goes where that goes, or it is counted as lost; a transaction
\* with a client is open, sent or counted (Span::finish_with_timestamp, MAX_SPANS).
NothingVanishes ==
  \A n \in Nodes :
    /\ IsSpan(n) /\ node[n].finished /\ n \notin Range(finishing) /\ node[node[n].trx].open
         => n \in node[node[n].trx].spans \/ lost[n] # <<>>
    /\ IsTrx(n) /\ node[n].client /\ ~node[n].open
         => \A m \in {n} \cup node[n].spans : InEnvelope(m) # {} \/ lost[m] # <<>>

\* A span is counted as overflow only when its transaction is full, and a full
\* transaction holds one span more than MAX_SPANS (the comparison is <=).
SpanLimit ==
  \A n \in Nodes :
    /\ IsTrx(n) => Cardinality(node[n].spans) <= MaxSpans + 1
    /\ IsSpan(n) /\ lost[n] = <<"BufferOverflow">> => Cardinality(node[node[n].trx].spans) = MaxSpans + 1

\* However often and from however many threads transactions and spans are finished,
\* each is sent at most once or counted as lost once, never both, and none is forgotten
\* or counted without need (performance/mod.rs Transaction::finish_with_timestamp,
\* Span::finish_with_timestamp).
SettledOnce ==
  /\ NothingVanishes /\ SpanLimit
  /\ \A n \in Nodes : Cardinality(InEnvelope(n)) + Len(lost[n]) <= 1

\* A trace from another organisation is not continued, nor one of an unknown
\* organisation under strict_trace_continuation, and a trace that is continued keeps
\* the decision its header carries unless the SDK decides by function or has sampling
\* disabled (Transaction::new, should_continue_trace, transaction_sample_rate).
MayJoin(r) ==
  r.client /\ r.incoming # None =>
    LET org == r.incoming.org IN
    /\ None \notin {org, options.org} => org = options.org
    /\ options.strict => org = options.org
    /\ options.strategy \notin {"function", "disabled"} /\ r.incoming.sampled # None
         => r.sampled = r.incoming.sampled
ForeignTraces == \A n \in Nodes : IsTrx(n) => MayJoin(node[n])

\* Every span hangs on a transaction, below something that was started, and has the
\* trace and the sampling decision of the transaction.
Branches ==
  \A n \in Nodes : IsSpan(n) =>
    LET t == node[n].trx IN
    /\ IsTrx(t) /\ node[node[n].parent] # Free /\ TrxOf(node[n].parent) = t
    /\ node[n].trace = node[t].trace /\ node[n].sampled = node[t].sampled

\* Spans form a tree below their transaction: trace and sampling decision are those
\* of the transaction all the way down, and what is sent with a transaction is below
\* it in its trace (start_child, start_child_with_details, continue_from_span),
\* and a transaction joins only a trace it may join.
TraceTree ==
  /\ ForeignTraces /\ Branches
  /\ \A i \in DOMAIN sent : \A m \in sent[i].spans : node[m].trace = sent[i].trace

-----------------------------------------------------------------------------
(***************************************************************************)
(* What makes these inductive.  First the types.                           *)
(***************************************************************************)
TrxRecord ==
  [kind : {"trx"}, client : BOOLEAN, open : BOOLEAN, sampled : BOOLEAN,
   trace : Nodes \cup {Remote}, parent : Nodes \cup {None, Remote}, incoming : Headers \cup {None},
   spans : SUBSET Nodes, status : Statuses \cup {None}, data : BOOLEAN]
SpanRecord ==
  [kind : {"span"}, trx : Nodes, sampled : BOOLEAN, trace : Nodes \cup {Remote},
   parent : Nodes, finished : BOOLEAN, status : Statuses \cup {None}]
SentRecord ==
  [trx : Nodes, spans : SUBSET Nodes, trace : Nodes \cup {Remote},
   status : Statuses \cup {None}, data : BOOLEAN]

PerfTyped ==
  /\ options \in [strategy : Strategies, org : SdkOrgs, strict : BOOLEAN]
  /\ node \in [Nodes -> {Free} \cup TrxRecord \cup SpanRecord]
  /\ sent \in Seq(SentRecord)
  /\ lost \in [Nodes -> Seq({"SampleRate", "BufferOverflow"})]
  /\ finishing \in [Threads -> Nodes \cup {None}]

\* A span between its two locks is marked as finished, by one thread only.
Marked ==
  /\ \A t \in Threads : finishing[t] # None => IsSpan(finishing[t]) /\ node[finishing[t]].finished
  /\ \A t, u \in Threads : finishing[t] = finishing[u] /\ finishing[t] # None => t = u

\* A transaction without a client is never open and collects nothing; what a
\* transaction has collected are finished spans of its own, one more than MAX_SPANS
\* at most.
Collected ==
  \A n \in Nodes : IsTrx(n) =>
    /\ node[n].open \/ node[n].spans # {} => node[n].client
    /\ IsFiniteSet(node[n].spans) /\ Cardinality(node[n].spans) <= MaxSpans + 1
    /\ \A m \in node[n].spans : /\ IsSpan(m) /\ node[m].trx = n /\ node[m].finished
                                /\ m \notin Range(finishing)

\* What was handed to the transport: the closed transactions that were sampled,
\* each once, as they still are.
SentMatches ==
  /\ \A i \in DOMAIN sent :
       LET n == sent[i].trx IN
       /\ IsTrx(n) /\ ~node[n].open /\ node[n].client /\ node[n].sampled
       /\ sent[i].spans = node[n].spans /\ sent[i].trace = node[n].trace
  /\ \A i, j \in DOMAIN sent : sent[i].trx = sent[j].trx => i = j
  /\ \A n \in Nodes : IsTrx(n) /\ node[n].client /\ ~node[n].open /\ node[n].sampled
                        => \E i \in DOMAIN sent : sent[i].trx = n

\* What was counted as lost: closed transactions that were not sampled, the spans
\* they had collected, and finished spans that found their transaction full.
LostMatches ==
  \A n \in Nodes :
    /\ node[n] = Free => lost[n] = <<>>
    /\ IsTrx(n) => lost[n] = IF node[n].client /\ ~node[n].open /\ ~node[n].sampled
                             THEN <<"SampleRate">> ELSE <<>>
    /\ IsSpan(n) =>
         LET t == node[node[n].trx] IN
         /\ n \in t.spans => lost[n] = IF t.open \/ t.sampled THEN <<>> ELSE <<"SampleRate">>
         /\ n \notin t.spans => lost[n] \in {<<>>, <<"BufferOverflow">>}
         /\ n \notin t.spans /\ lost[n] # <<>> =>
              /\ node[n].finished /\ n \notin Range(finishing)
              /\ Cardinality(t.spans) = MaxSpans + 1
         /\ n \notin t.spans /\ node[n].finished /\ n \notin Range(finishing) /\ t.open
              => lost[n] # <<>>

Accounted == PerfTyped /\ Marked /\ Collected /\ SentMatches /\ LostMatches

\* Whoever drives the SDK keeps its own state in order, and the others have none.
Driven ==
  /\ driver \in Drivers
  /\ IF driver = "tracing" THEN TracingTyped /\ Rooted /\ Nested /\ CurrentSpan ELSE TracingInit
  /\ IF driver = "otel" THEN OtelTyped /\ Mirrors ELSE OtelInit
  /\ IF driver \in {"tower", "actix"} THEN HttpTyped /\ Served /\ RequestsIsolated ELSE HttpInit

\* The whole: what was sent and counted is what was started and finished, spans and
\* foreign traces are where they belong, and the layer, the processor or the middleware
\* agrees with it, after any number of calls (performance/mod.rs and its users).
IInv == Accounted /\ Branches /\ ForeignTraces /\ Driven
====
