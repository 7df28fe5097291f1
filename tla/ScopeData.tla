----------------------------- MODULE ScopeData ------------------------------
(***************************************************************************)
(* What a scope adds to the events, transactions, logs and metrics that    *)
(* are captured under it.  Values are abstracted to where they come from   *)
(* ("event", "scope", "options", ...); tags, extra, contexts and           *)
(* attributes are functions from their keys.                               *)
(***************************************************************************)
EXTENDS Text

NoKeys == [k \in {} |-> "event"]
HasKey(map, k) == k \in DOMAIN map

\* Scope::default; propagation_context is the trace made up for the scope.
DefaultScope ==
  [level |-> None, user |-> NoKeys, transaction |-> None, fingerprint |-> None,
   tags |-> NoKeys, extra |-> NoKeys, contexts |-> NoKeys, breadcrumbs |-> <<>>,
   event_processors |-> <<>>, attachments |-> <<>>, span |-> None,
   propagation_context |-> [trace_id |-> "scope_trace", span_id |-> "scope_span"]]

\* Event::default.
DefaultEvent ==
  [event_id |-> None, level |-> "error", message |-> None, logger |-> None, user |-> NoKeys,
   transaction |-> None, fingerprint |-> "default", tags |-> NoKeys, extra |-> NoKeys,
   contexts |-> NoKeys, breadcrumbs |-> <<>>, exception |-> <<>>, threads |-> <<>>,
   stacktrace |-> None, debug_meta |-> None, release |-> None, environment |-> None,
   server_name |-> None, platform |-> "other", sdk |-> None]

\* BTreeMap::extend: later entries replace earlier ones.
Extend(map, more) == [k \in DOMAIN map \cup DOMAIN more |-> IF k \in DOMAIN more THEN more[k] ELSE map[k]]

\* Entry::or_insert for every key of more.
OrInsert(map, more) == [k \in DOMAIN map \cup DOMAIN more |-> IF k \in DOMAIN map THEN map[k] ELSE more[k]]

TraceContext(trace) == [k \in {"trace"} |-> trace]

\* The span or transaction set on the scope, or the scope's own trace.
ScopeTrace(scope) == IF scope.span # None THEN scope.span ELSE scope.propagation_context

\* Mutant: the scope's trace replaces the event's.
ApplyTrace_Always(scope, contexts) == Extend(contexts, TraceContext(ScopeTrace(scope).trace_id))

\* TransactionOrSpan::apply_to_event and Scope::apply_propagation_context: a
\* trace the event has already is kept.
ApplyTrace(scope, contexts) == OrInsert(contexts, TraceContext(ScopeTrace(scope).trace_id))

\* One event processor: it drops the event, or tags it, or leaves it alone.
RunProcessor(processor, event) ==
  CASE processor = "drop" -> None
    [] processor = "tag"  -> [event EXCEPT !.tags = Extend(@, [k \in {"p"} |-> "processor"])]
    [] OTHER -> event

\* The processors in order, until one drops the event.
RunProcessors(processors, event) ==
  FoldLeft(LAMBDA e, p : IF e = None THEN None ELSE RunProcessor(p, e), event, processors)

\* Scope::apply_to_event.
ApplyToEvent(scope, event) ==
  RunProcessors(scope.event_processors,
    [event EXCEPT
       !.level = IF scope.level # None THEN scope.level ELSE @,
       !.user = IF DOMAIN @ = {} THEN scope.user ELSE @,
       !.breadcrumbs = @ \o scope.breadcrumbs,
       !.extra = Extend(@, scope.extra),
       !.tags = Extend(@, scope.tags),
       !.contexts = ApplyTrace(scope, Extend(@, scope.contexts)),
       !.transaction = IF @ = None THEN scope.transaction ELSE @,
       !.fingerprint = IF @ = "default" /\ scope.fingerprint # None THEN scope.fingerprint ELSE @])

UserAttributes(scope) ==
  LET Name == [id |-> "user.id", username |-> "user.name", email |-> "user.email"]
  IN  [k \in { Name[f] : f \in DOMAIN scope.user } |-> "scope"]

\* Scope::apply_to_log: the trace is always the scope's; the parent span and
\* the user are added attribute by attribute, where the log has none.
ApplyToLog(scope, log) ==
  LET parent == IF scope.span = None \/ HasKey(log.attributes, "sentry.trace.parent_span_id")
                THEN NoKeys ELSE [k \in {"parent_span_id"} |-> "scope"]
  IN  [log EXCEPT !.trace_id = ScopeTrace(scope).trace_id,
                  !.attributes = OrInsert(Extend(@, parent), UserAttributes(scope))]

UserKeys == {"user.id", "user.name", "user.email"}

\* The user is added to a metric only as a whole, and only when asked for.
AddsUser(metric, send_default_pii) ==
  send_default_pii /\ DOMAIN metric.attributes \cap UserKeys = {}

\* Scope::apply_to_metric.
ApplyToMetric(scope, metric, send_default_pii) ==
  [metric EXCEPT !.trace_id = ScopeTrace(scope).trace_id,
                 !.span_id = IF scope.span # None THEN scope.span.span_id ELSE None,
                 !.attributes = IF AddsUser(metric, send_default_pii)
                                THEN Extend(@, UserAttributes(scope)) ELSE @]

\* Scope::apply_to_transaction.
ApplyToTransaction(scope, transaction) ==
  [transaction EXCEPT !.user = IF DOMAIN @ = {} THEN scope.user ELSE @,
                      !.extra = Extend(@, scope.extra), !.tags = Extend(@, scope.tags),
                      !.contexts = Extend(@, scope.contexts)]
=============================================================================
