----------------------------- MODULE Performance -----------------------------
(***************************************************************************)
(* Transactions and spans (sentry-core performance/mod.rs): how they are   *)
(* started, sampled, finished, sent and counted as lost.  A transaction or *)
(* span is a node; its name stands for its span id, and a trace is named   *)
(* after the node that began it, or is Remote.                             *)
(*                                                                         *)
(* The operators here are the SDK calls; TracingLayer, OtelProcessor and   *)
(* HttpMiddleware make them on behalf of tracing, OpenTelemetry and web    *)
(* servers, and the actions below on behalf of an application.             *)
(***************************************************************************)
EXTENDS Naturals, Sequences, FiniteSets, Functions

CONSTANTS
  Threads,    \* threads that finish spans of the same transaction
  Nodes,      \* transactions and spans
  None,       \* Option::None
  Remote,     \* the trace, and the span, of an incoming header
  Headers,    \* incoming headers: [sampled |-> .., org |-> ..], see TraceHeaders
  MaxSpans,   \* MAX_SPANS, 1000 in the code
  SdkOrgs,    \* organisations the SDK may be set up with
  Strategies  \* ways traces are sampled

ASSUME NodesAssumption == None \notin Nodes /\ Remote \notin Nodes /\ None # Remote
ASSUME HeadersAssumption == None \notin Headers /\ \A h \in Headers : h.sampled \in BOOLEAN \cup {None}
ASSUME MaxSpansAssumption == MaxSpans \in Nat
ASSUME StrategiesAssumption ==
  Strategies \subseteq {"always", "never", "sometimes", "function", "disabled"}

VARIABLES
  options,    \* of the client: sampling strategy, organisation, strictness
  node,       \* the state of every transaction and span
  sent,       \* history: the transactions handed to the transport, in order
  lost,       \* history: lost[n] are the reasons node n was recorded lost with
  finishing   \* per thread: the span between its two locks, or None

perfVars == <<options, node, sent, lost, finishing>>

Free == [kind |-> "free"]
IsTrx(n)  == node[n].kind = "trx"
IsSpan(n) == node[n].kind = "span"
\* What the users of the SDK set as a status.
Statuses == {"Ok", "UnknownError", "InternalError", "Aborted", "handler"}
ASSUME StatusesAssumption == None \notin Statuses
\* The transaction a node belongs to.
TrxOf(n)  == IF IsTrx(n) THEN n ELSE node[n].trx

PerfInit ==
  /\ options \in [strategy : Strategies, org : SdkOrgs, strict : BOOLEAN]
  /\ node = [n \in Nodes |-> Free]
  /\ sent = <<>> /\ lost = [n \in Nodes |-> <<>>]
  /\ finishing = [t \in Threads |-> None]

-----------------------------------------------------------------------------
(* Starting.                                                               *)

\* TransactionContext::new and new_with_trace_id.
NewContext(n) == [trace |-> n, parent |-> None, sampled |-> None, incoming |-> None]

\* continue_from_headers and continue_from_trace_propagation_context; headers that
\* cannot be parsed begin a new trace.
ContinueFromHeaders(n, h) ==
  IF h = None THEN NewContext(n)
  ELSE [trace |-> Remote, parent |-> Remote, sampled |-> h.sampled, incoming |-> h]

\* continue_from_span: the decision of the span is taken over.
ContinueFromSpan(n, s) ==
  IF s = None THEN NewContext(n)
  ELSE [trace |-> node[s].trace, parent |-> s, sampled |-> node[s].sampled, incoming |-> None]

\* should_continue_trace: two known organisations are compared, one unknown
\* organisation counts as different if strict_trace_continuation is set.
ShouldContinueTrace(incoming, sdk) ==
  IF incoming # None /\ sdk # None THEN incoming = sdk
  ELSE incoming = sdk \/ ~options.strict

\* Transaction::new with a client: the trace of another organisation is rejected.
Admitted(n, ctx) ==
  IF ctx.incoming # None /\ ~ShouldContinueTrace(ctx.incoming.org, options.org)
  THEN NewContext(n) ELSE ctx

\* transaction_sample_rate and sample_should_send: the decisions that can result.
Decisions(ctx) ==
  IF options.strategy = "disabled" THEN {FALSE}
  ELSE IF options.strategy = "function" THEN BOOLEAN
  ELSE IF ctx.sampled # None THEN {ctx.sampled}
  ELSE CASE options.strategy = "always" -> {TRUE}
         [] options.strategy = "never"  -> {FALSE}
         [] OTHER                       -> BOOLEAN

\* Transaction::new.  Without a client there is nothing to send, and the decision
\* of the incoming header is only passed on.
StartTransaction(n, ctx, client) ==
  LET c == IF client THEN Admitted(n, ctx) ELSE ctx IN
  \E sampled \in IF client THEN Decisions(c) ELSE {c.sampled = TRUE} :
    node' = [node EXCEPT ![n] =
      [kind |-> "trx", client |-> client, open |-> client, sampled |-> sampled,
       trace |-> c.trace, parent |-> c.parent, incoming |-> c.incoming,
       spans |-> {}, status |-> None, data |-> FALSE]]

\* Mutant: a span of a span hangs on the transaction.
StartChild_Flat(n, p) ==
  node' = [node EXCEPT ![n] =
    [kind |-> "span", trx |-> TrxOf(p), sampled |-> node[p].sampled, trace |-> n,
     parent |-> p, finished |-> FALSE, status |-> None]]

\* start_child and start_child_with_details, of a transaction or of a span.
StartChild(n, p) ==
  node' = [node EXCEPT ![n] =
    [kind |-> "span", trx |-> TrxOf(p), sampled |-> node[p].sampled, trace |-> node[p].trace,
     parent |-> p, finished |-> FALSE, status |-> None]]

-----------------------------------------------------------------------------
(* Setting and finishing.  Data, tags, name and request of a transaction   *)
(* go nowhere once it is finished, or without a client; its status is kept *)
(* in any case.  The data of spans is left out.                            *)

WithData(r) == IF r.kind = "trx" /\ r.open THEN [r EXCEPT !.data = TRUE] ELSE r
WithStatus(r, s) == [r EXCEPT !.status = s]
\* Middleware leaves a status alone that the handler has set.
WithDefaultStatus(r, s) == IF r.status = None THEN WithStatus(r, s) ELSE r

\* The record of a loss: the transaction and the spans it has collected.
Lose(ns, reason) == [n \in Nodes |-> IF n \in ns THEN Append(lost[n], reason) ELSE lost[n]]

\* What is sent of a transaction record.
Snapshot(n, r) == [trx |-> n, spans |-> r.spans, trace |-> r.trace, status |-> r.status, data |-> r.data]

\* Transaction::finish on the record r of n: the first call takes the transaction,
\* to send it or to count it and its spans as not sampled.
FinishTransaction(n, r) ==
  /\ node' = [node EXCEPT ![n] = [r EXCEPT !.open = FALSE]]
  /\ sent' = IF r.open /\ r.sampled THEN Append(sent, Snapshot(n, r)) ELSE sent
  /\ lost' = IF r.open /\ ~r.sampled THEN Lose({n} \cup r.spans, "SampleRate") ELSE lost

\* Mutant: a span beyond the limit is dropped without being counted.
PushSpan_Uncounted(n, r) ==
  LET t == r.trx  room == Cardinality(node[t].spans) <= MaxSpans IN
  /\ node' = [node EXCEPT ![n] = [r EXCEPT !.finished = TRUE],
                          ![t].spans = IF node[t].open /\ room THEN @ \cup {n} ELSE @]
  /\ UNCHANGED <<sent, lost>>

\* Span::finish, second lock: the span goes to its transaction if that is still
\* open and has room.  MAX_SPANS + 1 fit, as the comparison is <=.
PushSpan(n, r) ==
  LET t == r.trx  room == Cardinality(node[t].spans) <= MaxSpans IN
  /\ node' = [node EXCEPT ![n] = [r EXCEPT !.finished = TRUE],
                          ![t].spans = IF node[t].open /\ room THEN @ \cup {n} ELSE @]
  /\ lost' = IF node[t].open /\ ~room THEN Lose({n}, "BufferOverflow") ELSE lost
  /\ UNCHANGED sent

\* TransactionOrSpan::finish on the record r of n.
Finish(n, r) ==
  \/ r.kind = "trx" /\ FinishTransaction(n, r)
  \/ r.kind = "span" /\ ~r.finished /\ PushSpan(n, r)
  \/ r.kind = "span" /\ r.finished /\ node' = [node EXCEPT ![n] = r] /\ UNCHANGED <<sent, lost>>

-----------------------------------------------------------------------------
(* An application that uses the API directly, from several threads.        *)

AppStart(n, h) ==
  /\ node[n] = Free
  /\ \E ctx \in {ContinueFromHeaders(n, h)} \cup
              { ContinueFromSpan(n, p) : p \in { q \in Nodes \ Range(finishing) : node[q] # Free } } :
       \E client \in BOOLEAN : StartTransaction(n, ctx, client)
  /\ UNCHANGED <<options, sent, lost, finishing>>

AppChild(n, p) ==
  /\ node[n] = Free /\ node[p] # Free
  /\ \A t \in Threads : finishing[t] # p     \* the lock of a span being finished
  /\ StartChild(n, p)
  /\ UNCHANGED <<options, sent, lost, finishing>>

AppFinishTransaction(n) ==
  /\ IsTrx(n) /\ node[n].open
  /\ FinishTransaction(n, node[n])
  /\ UNCHANGED <<options, finishing>>

\* Span::finish, first lock: only one caller sees a span without an end.
FinishSpanStart(t, n) ==
  /\ finishing[t] = None /\ IsSpan(n) /\ ~node[n].finished
  /\ node' = [node EXCEPT ![n].finished = TRUE]
  /\ finishing' = [finishing EXCEPT ![t] = n]
  /\ UNCHANGED <<options, sent, lost>>

FinishSpanEnd(t) ==
  /\ finishing[t] # None
  /\ PushSpan(finishing[t], node[finishing[t]])
  /\ finishing' = [finishing EXCEPT ![t] = None]
  /\ UNCHANGED options

AppNext == \/ \E n \in Nodes : AppFinishTransaction(n)
           \/ \E n \in Nodes, h \in Headers \cup {None} : AppStart(n, h)
           \/ \E n \in Nodes, p \in Nodes : AppChild(n, p)
           \/ \E t \in Threads : FinishSpanEnd(t) \/ \E n \in Nodes : FinishSpanStart(t, n)
====
