------------------------------ MODULE Pipeline ------------------------------
(***************************************************************************)
(* One application using the SDK from sentry::init to the drop of its      *)
(* guard: options and DSN, everything a capture passes through (source,    *)
(* scope, integrations, callbacks, sampling, session), the envelopes that  *)
(* come of it, the request they travel in and what a reader makes of it.   *)
(* The calls here are sequential: HubStack, Sessions, Batcher, Spans and   *)
(* TransportThread model what threads do to each other.  A scenario is     *)
(* what one application is built and configured with.                      *)
(***************************************************************************)
EXTENDS Options, EventSources, Stacktraces, EnvelopeWire, TraceHeaders, Crontab, RateLimiter

CONSTANTS
  Scenarios,   \* records: text, env, options, setters, scope, calls; and which of the others
               \* this application meets: headers, schedules, answers, requests ("whole", "cut")
  HeaderLists, \* headers of requests an application may get
  Schedules,   \* crontab texts, as sequences of segments
  MaxCalls,    \* bound: captures of one behaviour
  MaxInits     \* bound: calls of sentry::init

\* Values of the types the SDK's interfaces ask for.
IsEvent(event) == event = [f \in DOMAIN DefaultEvent |-> event[f]]
OptionsOk(o) ==
  /\ o = [f \in DOMAIN DefaultOptions |-> o[f]]
  /\ IsSeq(o.integrations) /\ \A p \in o.in_app_include : IsSeq(p)

\* Setters there are, and what they take: only maybe_release takes None.
SetterNames == (DOMAIN DefaultOptions \ {"release"}) \cup {"maybe_release", "add_integration"}
SetterOk(call) ==
  /\ call.set \in SetterNames
  /\ call.set = "integrations" => IsSeq(call.value)
  /\ call.set = "in_app_include" => \A p \in call.value : IsSeq(p)
  /\ call.set \in {"environment", "http_proxy", "https_proxy", "send_default_pii"} => call.value # None

ScopeOk(scope) ==
  /\ scope = [f \in DOMAIN DefaultScope |-> scope[f]]
  /\ IsSeq(scope.event_processors) /\ scope.breadcrumbs = <<>>
  /\ IsSeq(scope.attachments) /\ \A i \in DOMAIN scope.attachments : scope.attachments[i].type = "attachment"
  /\ DOMAIN scope.user \subseteq {"id", "username", "email"}
  /\ ScopeTrace(scope).trace_id \in TraceIds /\ ScopeTrace(scope).span_id \in SpanIds
  /\ scope.span = None \/ scope.span.sampled \in {TRUE, FALSE, None}

\* A stack trace: frames with the text of a function and a mark.  It is never absent.
IsTrace(frames) ==
  LET Frames == [function : { frames[i].function : i \in DOMAIN frames }, in_app : {TRUE, FALSE, None}]
  IN  /\ frames \in [DOMAIN frames -> Frames] /\ None \notin [DOMAIN frames -> Frames]
      /\ \A i \in DOMAIN frames : frames[i].function = None \/ IsSeq(frames[i].function)

\* All stack traces of an event.
Traces(event) ==
  ({ event.exception[i].stacktrace : i \in DOMAIN event.exception }
     \cup { event.threads[i] : i \in DOMAIN event.threads } \cup {event.stacktrace}) \ {None}

StacksOk(event) ==
  /\ IsSeq(event.threads)
  /\ \A i \in DOMAIN event.exception :
       event.exception[i] = [f \in DOMAIN Exception(None) |-> event.exception[i][f]]
  /\ \A frames \in Traces(event) : IsTrace(frames)

\* The id of an event is the one its capture gives it; an attribute that comes from the
\* scope is none of a metric's own.
CallOk(call) ==
  /\ call.op = "event" => IsEvent(call.event) /\ call.event.event_id = None /\ StacksOk(call.event)
  /\ call.op = "metric" => \A k \in DOMAIN call.metric.attributes : call.metric.attributes[k] # "scope"

\* The reasons an event is lost for, none of which is no reason.
Reasons == {"event_processor", "before_send", "sample_rate"}

ASSUME ReasonsAssumption == None \notin Reasons

ASSUME TracesAssumption ==
  /\ None \notin BOOLEAN
  /\ IsTrace(CurrentStacktrace) /\ IsTrace(AnyhowStacktrace)

\* Ids of traces and spans keep clear of what separates them.
ASSUME IdsAssumption ==
  /\ (TraceIds \cup SpanIds) \cap {"-", " "} = {}
  /\ \A headers \in HeaderLists : IsSeq(headers)

ASSUME ScenariosAssumption ==
  \A sc \in Scenarios :
    /\ OptionsOk(sc.options) /\ ScopeOk(sc.scope) /\ \A call \in sc.calls : CallOk(call)
    /\ IsSeq(sc.setters) /\ \A i \in DOMAIN sc.setters : SetterOk(sc.setters[i])

VARIABLES
  scenario,    \* what this application is configured with and may call
  phase,       \* "start", "running", "closed", or "panicked" by init
  client,      \* the bound client, or None
  hooks,       \* panic handlers of the SDK in the chain of panic hooks
  sdk,         \* what captures change: scope, session, batches, losses, envelopes
  request,     \* the last request delivered, or None
  continued,   \* the last headers a trace was continued from, or None
  schedule,    \* the last schedule made from a crontab text, or None
  inits        \* calls of sentry::init

appVars == <<scenario, phase, client, hooks, sdk, request, continued, schedule, inits>>
vars == <<appVars, limiterVars>>

Init ==
  /\ scenario \in Scenarios /\ LimiterInit
  /\ phase = "start" /\ client = None /\ hooks = 0 /\ inits = 0
  /\ request = None /\ continued = None /\ schedule = None
  /\ sdk = [scope |-> scenario.scope, session |-> None, last_event_id |-> None,
            logs |-> <<>>, metrics |-> <<>>, pending |-> <<>>, unreported |-> <<>>,
            outbox |-> <<>>, trail |-> <<>>, fates |-> <<>>, ids |-> 0, panics |-> 0, calls |-> 0]
-----------------------------------------------------------------------------
(* Integrations *)

HasStacktrace(event) ==
  \/ event.stacktrace # None \/ event.threads # <<>>
  \/ \E i \in DOMAIN event.exception : event.exception[i].stacktrace # None

Classified(frames, o) ==
  IF frames = None THEN None ELSE ProcessStacktrace(frames, o.in_app_include, o.in_app_exclude)

\* An exception with its stack trace classified.
ClassifiedException(exception, o) == [exception EXCEPT !.stacktrace = Classified(@, o)]

\* ProcessStacktraceIntegration: every stack trace the event has by then.
ProcessStacktraces(event, o) ==
  [event EXCEPT
     !.stacktrace = Classified(event.stacktrace, o),
     !.threads = [i \in DOMAIN event.threads |-> Classified(event.threads[i], o)],
     !.exception = [i \in DOMAIN event.exception |-> ClassifiedException(event.exception[i], o)]]

\* AttachStacktraceIntegration: a thread with the current stack trace.
AttachStacktrace(event, o) ==
  IF o.attach_stacktrace /\ ~HasStacktrace(event)
  THEN [event EXCEPT !.threads = Append(@, CurrentStacktrace)] ELSE event

\* DebugImagesIntegration, with the filter that takes every event.
AddDebugImages(event) == [event EXCEPT !.debug_meta = OrElse(@, "images")]

\* ContextIntegration: contexts the event has already are kept.
AddContexts(event) ==
  [event EXCEPT !.contexts = OrInsert(@, [k \in {"os", "rust", "device"} |-> "integration"])]

\* Integration::process_event, which leaves the event alone unless it is
\* overridden; "dropper" is one of the application's that drops every event.
ProcessEvent(integration, event, o) ==
  CASE integration = "attach-stacktrace"  -> AttachStacktrace(event, o)
    [] integration = "debug-images"       -> AddDebugImages(event)
    [] integration = "contexts"           -> AddContexts(event)
    [] integration = "process-stacktrace" -> ProcessStacktraces(event, o)
    [] integration = "dropper"            -> None
    [] OTHER                              -> event

RunIntegrations(event, o) ==
  FoldLeft(LAMBDA e, i : IF e = None THEN None ELSE ProcessEvent(i, e, o), event, o.integrations)

\* with_cached_default_log_attributes: a made-up event shows what the
\* integrations know of the system; one that drops it is passed over.
DefaultLogAttributes(o) ==
  LET fake == FoldLeft(LAMBDA e, i : OrElse(ProcessEvent(i, e, o), e), DefaultEvent, o.integrations)
      keys == {"sentry.sdk.name", "sentry.sdk.version"}
              \cup (IF o.environment # None THEN {"sentry.environment"} ELSE {})
              \cup (IF o.release # None THEN {"sentry.release"} ELSE {})
              \cup (IF HasKey(fake.contexts, "os") THEN {"os.name", "os.version"} ELSE {})
              \cup (IF o.server_name # None THEN {"server.address"} ELSE {})
  IN  [k \in keys |-> "default"]

\* with_cached_default_metric_attributes.
DefaultMetricAttributes(o) ==
  [k \in {"sentry.sdk.name", "sentry.sdk.version"}
         \cup (IF o.environment # None THEN {"sentry.environment"} ELSE {})
         \cup (IF o.release # None THEN {"sentry.release"} ELSE {})
         \cup (IF o.server_name # None THEN {"server.address"} ELSE {}) |-> "default"]

\* PanicIntegration::setup: the handler is put in front of the hook once.
HooksAfter(installed, o) ==
  IF \E i \in DOMAIN o.integrations : o.integrations[i] \in {"panic", "panic_custom"}
  THEN 1 ELSE installed
-----------------------------------------------------------------------------
(* Sessions, as far as one capture sees them *)

\* Session::from_stack: there is none without a release.
NewSession(o) ==
  IF o.release = None THEN None ELSE [status |-> "ok", errors |-> 0, init |-> TRUE, dirty |-> TRUE]

IsErroneous(event) == event.level \in {"error", "fatal"} \/ event.exception # <<>>
IsCrash(event) == \E i \in DOMAIN event.exception : event.exception[i].handled = FALSE

\* Session::update_from_event.
UpdateFromEvent(session, event) ==
  IF session = None \/ session.status # "ok" \/ ~IsErroneous(event) THEN session
  ELSE [session EXCEPT !.errors = @ + 1, !.dirty = TRUE,
                       !.status = IF IsCrash(event) THEN "crashed" ELSE @]

SessionItem(session) ==
  [type |-> "session", status |-> session.status, errors |-> session.errors, init |-> session.init]
-----------------------------------------------------------------------------
(* Events *)

FillFromOptions(event, o) ==
  [event EXCEPT !.release = OrElse(@, o.release), !.environment = OrElse(@, o.environment),
                !.server_name = OrElse(@, o.server_name),
                !.platform = IF @ = "other" THEN "native" ELSE @]

\* Client::sample_should_send; kept holds the events a random choice keeps.
Sampled(rate, id, kept) == rate = "all" \/ (rate = "some" /\ id \in kept)

Lost(reason, session) == [event |-> None, reason |-> reason, session |-> session]

\* The event after the scope, unless that has dropped it, and the integrations.
Processed(scoped, o) == IF scoped = None THEN None ELSE RunIntegrations(scoped, o)

\* Mutant: the session is updated before before_send has seen the event.
Judged_SessionFirst(c, s, made, kept) ==
  IF made = None THEN Lost("event_processor", s.session)
  ELSE LET filled  == FillFromOptions(made, c.options)
           updated == UpdateFromEvent(s.session, filled)
       IN  IF c.options.before_send = "drop" THEN Lost("before_send", updated)
           ELSE IF ~Sampled(c.options.sample_rate, filled.event_id, kept) THEN Lost("sample_rate", updated)
           ELSE [event |-> filled, reason |-> None, session |-> updated]

\* The rest of Client::prepare_event: what the options say, before_send, the session,
\* sampling.  An event sampled out has counted already.
Judged(c, s, made, kept) ==
  IF made = None THEN Lost("event_processor", s.session)
  ELSE LET filled  == FillFromOptions(made, c.options)
           updated == UpdateFromEvent(s.session, filled)
       IN  IF c.options.before_send = "drop" THEN Lost("before_send", s.session)
           ELSE IF ~Sampled(c.options.sample_rate, filled.event_id, kept) THEN Lost("sample_rate", updated)
           ELSE [event |-> filled, reason |-> None, session |-> updated]

\* Client::prepare_event: what is left of the event, the reason it was lost
\* for, and the session after it.
PrepareEvent(c, s, event, kept) ==
  LET named == [event EXCEPT !.event_id = OrElse(@, s.ids + 1), !.sdk = OrElse(@, c.options.integrations)]
  IN  Judged(c, s, Processed(ApplyToEvent(s.scope, named), c.options), kept)

\* EnvelopeSender::send_envelope_with on a sender with a transport: the losses
\* not yet reported travel along.
Send(s, envelope) ==
  [s EXCEPT !.outbox = Append(@, IF s.pending = <<>> THEN envelope
                                 ELSE AddItem(envelope, [type |-> "client_report", losses |-> s.pending])),
            !.pending = <<>>]

\* The envelope of an event: the session's update in application mode, if it
\* has news, and the attachments of the scope.
EventEnvelope(c, s, event, session) ==
  LET updates == IF c.options.session_mode = "Application" /\ session # None /\ session.dirty
                 THEN <<SessionItem(session)>> ELSE <<>>
  IN  FoldLeft(AddItem, NewEnvelope,
               <<[type |-> "event", id |-> event.event_id, event |-> event]>>
                 \o updates \o s.scope.attachments)

\* The session after its update went into an envelope (create_envelope_item).
AfterUpdate(c, session) ==
  IF c.options.session_mode = "Application" /\ session # None /\ session.dirty
  THEN [session EXCEPT !.init = FALSE, !.dirty = FALSE] ELSE session

\* The id Hub::capture_event remembers: 0, the nil id, of an event not sent.
LastEventId(s, event) == IF event = None THEN 0 ELSE event.event_id

\* Mutant: an event that was sampled out is not recorded as lost.
Losses_Unsampled(prepared) ==
  IF prepared.reason \in {None, "sample_rate"} THEN <<>> ELSE <<[category |-> "error", reason |-> prepared.reason]>>

\* record_lost_event.
Losses(prepared) ==
  IF prepared.reason = None THEN <<>> ELSE <<[category |-> "error", reason |-> prepared.reason]>>

\* What a capture leaves behind, sent or not; `call` is kept in the history.
Recorded(s, prepared, call) ==
  [s EXCEPT !.ids = @ + 1, !.session = prepared.session,
            !.last_event_id = LastEventId(s, prepared.event),
            !.pending = @ \o Losses(prepared),
            !.fates = Append(@, [id |-> s.ids + 1, call |-> call,
                                 fate |-> IF prepared.reason = None THEN "sent" ELSE prepared.reason])]

SendEvent(c, s, prepared, call) ==
  IF prepared.reason # None THEN Recorded(s, prepared, call)
  ELSE [Send(Recorded(s, prepared, call), EventEnvelope(c, s, prepared.event, prepared.session))
          EXCEPT !.session = AfterUpdate(c, @)]

\* Hub::capture_event and Client::capture_event.
CaptureEvent(c, s, event, kept, call) ==
  IF c = None THEN s
  ELSE IF ~c.enabled THEN [s EXCEPT !.last_event_id = LastEventId(s, None)]
  ELSE SendEvent(c, s, PrepareEvent(c, s, event, kept), call)

\* Hub::add_breadcrumb, when a client is bound: before_breadcrumb may drop it.
AddBreadcrumb(c, s, breadcrumb) ==
  IF c = None THEN s
  ELSE LET taken == IF c.options.before_breadcrumb = "drop" THEN <<>> ELSE <<breadcrumb>>
           all   == s.scope.breadcrumbs \o taken
           max   == c.options.max_breadcrumbs
       IN  [s EXCEPT !.trail = @ \o taken,
                     !.scope.breadcrumbs =
                       IF Len(all) > max THEN SubSeq(all, Len(all) - max + 1, Len(all)) ELSE all]
-----------------------------------------------------------------------------
(* Logs and metrics *)

\* Client::capture_log and prepare_log.
CaptureLog(c, s, log, call) ==
  IF c = None \/ ~c.options.enable_logs THEN s
  ELSE LET scoped == ApplyToLog(s.scope, log)
           full   == [scoped EXCEPT !.attributes = OrInsert(@, DefaultLogAttributes(c.options))]
       IN  IF c.options.before_send_log = "drop"
           THEN [s EXCEPT !.pending = Append(@, [category |-> "log_item", reason |-> "before_send"])]
           ELSE IF c.closed THEN s
           ELSE [s EXCEPT !.logs = Append(@, [value |-> full, from |-> log, call |-> call])]

\* into_protocol_metric: a counter has no unit.
IntoProtocolMetric(m) ==
  [type |-> m.type, unit |-> IF m.type = "counter" THEN None ELSE m.unit,
   attributes |-> m.attributes, trace_id |-> None, span_id |-> None]

\* Client::capture_metric and prepare_metric.
CaptureMetric(c, s, m) ==
  IF c = None \/ ~c.options.enable_metrics THEN s
  ELSE LET scoped == ApplyToMetric(s.scope, IntoProtocolMetric(m), c.options.send_default_pii)
           full   == [scoped EXCEPT !.attributes = OrInsert(@, DefaultMetricAttributes(c.options))]
       IN  IF c.options.before_send_metric = "drop"
           THEN [s EXCEPT !.pending = Append(@, [category |-> "trace_metric", reason |-> "before_send"])]
           ELSE IF c.closed THEN s
           ELSE [s EXCEPT !.metrics = Append(@, [value |-> full, from |-> m])]

\* A batcher's flush: one envelope with the container of what is queued.
FlushBatch(c, s, type, batch) ==
  IF batch = <<>> \/ ~c.enabled THEN s
  ELSE Send(s, AddItem(NewEnvelope, [type |-> type, items |-> batch]))

FlushBatches(c, s) ==
  LET logged == [FlushBatch(c, s, "log", s.logs) EXCEPT !.logs = <<>>]
  IN  [FlushBatch(c, logged, "trace_metric", logged.metrics) EXCEPT !.metrics = <<>>]

\* sentry::start_session: nothing without an active client.
StartSession(c, s) ==
  IF c.enabled /\ NewSession(c.options) # None THEN [s EXCEPT !.session = NewSession(c.options)] ELSE s

\* sentry::end_session, the drop of the session and the flusher's last flush.
EndSession(c, s) ==
  LET ended == IF s.session # None /\ s.session.status = "ok"
               THEN [s.session EXCEPT !.status = "exited", !.dirty = TRUE] ELSE s.session
      gone  == [s EXCEPT !.session = None]
  IN  IF ~c.enabled THEN s
      ELSE IF ended # None /\ ended.dirty
      THEN Send(gone, AddItem(NewEnvelope, SessionItem(ended))) ELSE gone
-----------------------------------------------------------------------------
(* The calls of the application *)

\* The default hub is bound to a client with these options; the scope is kept, what
\* the client before has not reported is forgotten with it.
StartClient(o) ==
  LET c     == [options |-> o, enabled |-> HasSender(o), closed |-> FALSE]
      bound == [sdk EXCEPT !.pending = <<>>, !.unreported = @ \o sdk.pending]
  IN  /\ phase' = "running"
      /\ client' = c
      /\ hooks' = HooksAfter(hooks, o)
      /\ sdk' = IF o.auto_session_tracking /\ o.session_mode = "Application"
                THEN StartSession(c, bound) ELSE bound

\* What init is given: options alone, or a text and options.
Given(built) == IF scenario.text = None \/ ~built.ok THEN built
                ELSE FromTextAndOptions(scenario.text, built.value)

InitWith(given) ==
  IF given.ok THEN StartClient(SetUpAll(ApplyDefaults(given.value, scenario.env)))
  ELSE phase' = "panicked" /\ UNCHANGED <<client, hooks, sdk>>

\* The application builds its options and calls sentry::init.
SentryInit ==
  /\ phase \in {"start", "closed"} /\ inits < MaxInits
  /\ InitWith(Given(Built(scenario.options, scenario.setters)))
  /\ inits' = inits + 1
  /\ UNCHANGED <<scenario, request, continued, schedule>>

\* The calls whose captures are items handed to the hub one after another.
Items(call, o) ==
  CASE call.op = "event"   -> <<Mapping("event", call.event)>>
    [] call.op \in {"message", "hub"} -> <<Mapping("event", EventFromMessage(call.level))>>
    [] call.op = "error"   -> <<Mapping("event", EventFromError(call.chain))>>
    [] call.op = "anyhow"  -> <<Mapping("event", EventFromAnyhow(call.chain, call.captured))>>
    [] call.op = "log"     -> LogItems(call.filter, call.record)
    [] call.op = "logger"  -> <<Mapping("log", LoggerLog(call.level, call.keys, call.format))>>
    [] call.op = "slog"    -> SlogItems(SlogFilter(call.record.level), call.record)
    [] call.op = "tracing" -> TracingItems(EventFilter(call.record.level), call.record, o.attach_stacktrace)

CaptureItem(c, s, item, kept, call) ==
  CASE item.kind = "event" -> CaptureEvent(c, s, item.value, kept, call)
    [] item.kind = "log"   -> CaptureLog(c, s, item.value, call)
    [] OTHER               -> AddBreadcrumb(c, s, item.value)

MayCall(call, op) == phase # "panicked" /\ sdk.calls < MaxCalls /\ call.op = op

\* Choices of the random number generator for the events of one call.
RandomChoices == IF client # None /\ client.options.sample_rate = "some"
           THEN SUBSET {sdk.ids + 1, sdk.ids + 2} ELSE {{}}

\* Hub::capture_event, add_breadcrumb and capture_log, for each item.
CaptureItems(call) ==
  /\ \E kept \in RandomChoices :
       sdk' = [FoldLeft(LAMBDA s, item : CaptureItem(client, s, item, kept, call), sdk,
                        Items(call, IF client = None THEN DefaultOptions ELSE client.options))
                 EXCEPT !.calls = @ + 1]
  /\ UNCHANGED <<scenario, phase, client, hooks, request, continued, schedule, inits>>

\* is_active_and_usage_safe.
Active == client # None /\ client.enabled

\* Hub::with_active, through which the global functions and the integrations
\* of log, slog and tracing go: without an active client nothing happens.
WithActive(call) ==
  IF Active THEN CaptureItems(call)
  ELSE /\ sdk' = [sdk EXCEPT !.calls = @ + 1]
       /\ UNCHANGED <<scenario, phase, client, hooks, request, continued, schedule, inits>>

CallEvent(call)   == MayCall(call, "event")   /\ WithActive(call)
CallMessage(call) == MayCall(call, "message") /\ WithActive(call)
CallError(call)   == MayCall(call, "error")   /\ WithActive(call)
CallAnyhow(call)  == MayCall(call, "anyhow")  /\ WithActive(call)
CallLog(call)     == MayCall(call, "log")     /\ WithActive(call)
CallSlog(call)    == MayCall(call, "slog")    /\ WithActive(call)
CallTracing(call) == MayCall(call, "tracing") /\ WithActive(call)

\* Methods of the hub itself do not ask whether the client is active: nor do
\* the logger macros, nor a metric's capture.
CallHub(call)     == MayCall(call, "hub")     /\ CaptureItems(call)
CallLogger(call)  == MayCall(call, "logger")  /\ CaptureItems(call)

CallMetric(call) ==
  /\ MayCall(call, "metric")
  /\ sdk' = [CaptureMetric(client, sdk, call.metric) EXCEPT !.calls = @ + 1]
  /\ UNCHANGED <<scenario, phase, client, hooks, request, continued, schedule, inits>>

\* A panic of the application, caught further up: every handler in the chain
\* reports it, with the first panic integration of an enabled client, and
\* flushes the client.
PanicReport(c, s, kept, call) ==
  LET found == SelectInSeq(c.options.integrations, LAMBDA i : i \in {"panic", "panic_custom"})
  IN  IF found = 0 THEN s
      ELSE FlushBatches(c, CaptureEvent(c, s, EventFromPanic(c.options.integrations[found] = "panic_custom"),
                                        kept, call))

CallPanic(call) ==
  /\ MayCall(call, "panic")
  /\ \E kept \in RandomChoices :
       LET after == IF Active /\ hooks > 0
                    THEN FoldLeft(LAMBDA s, h : PanicReport(client, s, kept, call), sdk, [h \in 1..hooks |-> h])
                    ELSE sdk
       IN  sdk' = [after EXCEPT !.calls = @ + 1, !.panics = @ + 1]
  /\ UNCHANGED <<scenario, phase, client, hooks, request, continued, schedule, inits>>

\* Transaction::finish of a sampled transaction: its trace is inserted before
\* the scope is applied, and named in the envelope's header.
FinishedTransaction(c, s, transaction) ==
  LET traced == [transaction EXCEPT !.contexts = Extend(@, TraceContext(transaction.trace_id))]
      scoped == ApplyToTransaction(s.scope, traced)
      full   == [scoped EXCEPT !.release = c.options.release, !.environment = c.options.environment,
                               !.server_name = c.options.server_name]
  IN  AddItem([NewEnvelope EXCEPT !.headers.trace = [trace_id |-> transaction.trace_id,
                                                     public_key |-> c.options.dsn.public_key]],
              [type |-> "transaction", id |-> s.ids + 1, event |-> full])

CallTransaction(call) ==
  /\ MayCall(call, "transaction")
  /\ sdk' = IF Active
            THEN [Send(sdk, FinishedTransaction(client, sdk, call.transaction))
                    EXCEPT !.calls = @ + 1, !.ids = @ + 1]
            ELSE [sdk EXCEPT !.calls = @ + 1]
  /\ UNCHANGED <<scenario, phase, client, hooks, request, continued, schedule, inits>>

\* Client::flush, or the batchers' own time.
Flush ==
  /\ phase = "running" /\ (sdk.logs # <<>> \/ sdk.metrics # <<>>)
  /\ sdk' = FlushBatches(client, sdk)
  /\ UNCHANGED <<scenario, phase, client, hooks, request, continued, schedule, inits>>

\* The drop of ClientInitGuard: end_session and Client::close.
DropGuard ==
  /\ phase = "running"
  /\ sdk' = FlushBatches(client, EndSession(client, sdk))
  /\ client' = [client EXCEPT !.enabled = FALSE, !.closed = TRUE]
  /\ phase' = "closed"
  /\ UNCHANGED <<scenario, hooks, request, continued, schedule, inits>>
-----------------------------------------------------------------------------
(* The other side *)

Agent == <<"sentry.rust", "/", "1">>

\* The proxy of a transport: that of the DSN's scheme.
ProxyOf(o) == IF o.dsn.scheme = "https" /\ o.https_proxy # None THEN o.https_proxy ELSE o.http_proxy

\* The request a transport makes of an envelope; n bytes of it arrive, the
\* last one possibly torn.
RequestOf(c, envelope, n, torn) ==
  LET bytes == ToWriter(envelope) IN
  [url |-> ApiUrl(c.options.dsn), proxy |-> ProxyOf(c.options), auth |-> AuthText(AuthFromDsn(c.options.dsn, Agent)),
   sent |-> envelope, whole |-> n = Len(bytes) /\ ~torn, read |-> FromSlice(Cut(bytes, n, torn))]

\* The last envelope handed to the transport has passed the rate limiter's filter and
\* becomes a request, which arrives whole or cut.
Deliver ==
  /\ sdk.outbox # <<>> /\ request = None /\ scenario.requests # None
  /\ LET envelope == FilterEnvelope(Last(sdk.outbox))
         length   == Len(ToWriter(envelope))
         cut      == scenario.requests = "cut"
     IN
     /\ envelope # None
     /\ \E n \in (IF cut THEN 0..length ELSE {length}), torn \in {FALSE, cut} :
          request' = RequestOf(client, envelope, n, torn)
  /\ UNCHANGED <<scenario, phase, client, hooks, sdk, continued, schedule, inits>>

\* Scope::iter_trace_propagation_headers.
PropagationHeaders(scope) ==
  LET trace == ScopeTrace(scope)
  IN  <<[name |-> "sentry-trace",
         value |-> SentryTraceHeader([trace_id |-> trace.trace_id, span_id |-> trace.span_id,
                                      sampled |-> IF scope.span = None THEN None ELSE scope.span.sampled])]>>

\* Headers arrive at a service: another client's, or what this scope hands on.
ContinueTrace ==
  /\ scenario.headers /\ continued = None
  /\ \E headers \in HeaderLists \cup {PropagationHeaders(sdk.scope)} :
       continued' = [headers |-> headers, result |-> TryFromHeaders(headers)]
  /\ UNCHANGED <<scenario, phase, client, hooks, sdk, request, schedule, inits>>

\* MonitorSchedule::from_crontab.
MakeSchedule ==
  /\ scenario.schedules /\ schedule = None
  /\ \E segments \in Schedules :
       schedule' = [segments |-> segments, valid |-> Validate(segments)]
  /\ UNCHANGED <<scenario, phase, client, hooks, sdk, request, continued, inits>>

AppNext ==
  \/ SentryInit \/ Flush \/ DropGuard \/ Deliver \/ ContinueTrace \/ MakeSchedule
  \/ \E call \in scenario.calls :
       \/ CallEvent(call) \/ CallMessage(call) \/ CallError(call) \/ CallAnyhow(call)
       \/ CallLog(call) \/ CallSlog(call) \/ CallTracing(call) \/ CallHub(call) \/ CallLogger(call)
       \/ CallMetric(call) \/ CallPanic(call) \/ CallTransaction(call)

\* The transport of an active client gets answers.
Next == \/ AppNext /\ UNCHANGED limiterVars
        \/ scenario.answers /\ Active /\ LimiterNext /\ UNCHANGED appVars

Spec == Init /\ [][Next]_vars
-----------------------------------------------------------------------------
(* Properties *)

\* Everything that was handed to the transport, item by item.
ItemsOf(envelope, type) == Where(envelope.items, LAMBDA item : item.type = type)
ItemsSent(type) == FoldLeft(LAMBDA sent, envelope : sent \o ItemsOf(envelope, type), <<>>, sdk.outbox)
EventsSent == LET items == ItemsSent("event") IN [i \in DOMAIN items |-> items[i].event]
Batched(type, queue) ==
  FoldLeft(LAMBDA all, item : all \o item.items, <<>>, ItemsSent(type)) \o queue
FateOf(event) == sdk.fates[SelectInSeq(sdk.fates, LAMBDA f : f.id = event.event_id)]

\* An id that last_event_id returns is that of the event captured last, and
\* that event was sent: the nil id stands for one that was not.
LastIdWasSent ==
  sdk.last_event_id \notin {None, 0} =>
    sdk.fates # <<>> /\ Last(sdk.fates).fate = "sent" /\ Last(sdk.fates).id = sdk.last_event_id

\* A panic is reported once, however many panic integrations there are and
\* however often the SDK was initialised: it is in the chain of hooks once.
PanicReportedOnce ==
  LET panics == { i \in DOMAIN sdk.fates : sdk.fates[i].call.op = "panic" }
  IN  hooks <= 1 /\ Cardinality(panics) <= sdk.panics

\* Every event an enabled client captures is either in exactly one envelope,
\* or counted exactly once, under the reason it was lost for, in the client
\* reports sent or still pending (prepare_event and its early returns);
\* the id the caller gets tells which, and no panic is captured twice.
OneFate ==
  LastIdWasSent /\ PanicReportedOnce /\
  LET reports == ItemsSent("client_report")
      losses  == FoldLeft(LAMBDA all, item : all \o item.losses, <<>>, reports) \o sdk.pending \o sdk.unreported
      Times(reason) == Cardinality({ i \in DOMAIN losses : losses[i] = [category |-> "error", reason |-> reason] })
      Fates(fate)   == { i \in DOMAIN sdk.fates : sdk.fates[i].fate = fate }
  IN  /\ { sdk.fates[i].id : i \in Fates("sent") } = { event.event_id : event \in ToSet(EventsSent) }
      /\ Cardinality(Fates("sent")) = Len(EventsSent)
      /\ \A reason \in Reasons :
           Times(reason) = Cardinality(Fates(reason))

\* A panic that no extractor of the application's own integration describes.
IsUnhandled(call) == call.op = "panic" /\ scenario.options.default_integrations

\* What the application meant as an error: by its kind, or by its level,
\* which the scope overrides.
MeantAsError(call) ==
  \/ call.op \in {"error", "anyhow"} \/ IsUnhandled(call)
  \/ OrElse(scenario.scope.level,
            IF call.op \in {"message", "hub"} THEN call.level ELSE IF call.op = "panic" THEN "fatal" ELSE "error")
       \in {"error", "fatal"}

\* The session counts the errors that were sent or sampled out, up to and with
\* the first crash, and none of the events a processor or before_send dropped;
\* its last update says so, and only its first one is the initial one.
SessionCounts ==
  LET counted == { i \in DOMAIN sdk.fates : /\ sdk.fates[i].fate \in {"sent", "sample_rate"}
                                            /\ MeantAsError(sdk.fates[i].call) }
      crashes == { i \in counted : IsUnhandled(sdk.fates[i].call) }
      errors  == Cardinality({ i \in counted : \A j \in crashes : i <= j })
      updates == ItemsSent("session")
  IN  inits = 1 =>
        /\ sdk.session # None =>
             /\ sdk.session.errors = errors
             /\ (sdk.session.status = "crashed") <=> (crashes # {})
        /\ phase = "closed" /\ updates # <<>> =>
             /\ Last(updates).errors = errors
             /\ Last(updates).status = IF crashes # {} THEN "crashed" ELSE "exited"
        /\ \A i \in DOMAIN updates : updates[i].init <=> i = 1

\* A pattern that does not itself begin with what is taken off a function's text.
Bare(pattern) == pattern = <<>> \/ pattern[1] \notin Openings \ {"<"}

\* The default integrations classify every stack trace an event is sent with,
\* attached ones too: a function of in_app_include is in the application even
\* where in_app_exclude names it, unless the application's own event says it is not,
\* and no trace is left without a frame in the application unless every frame was
\* found to be foreign.
InAppDecided ==
  client # None /\ client.options.default_integrations =>
    \A event \in ToSet(EventsSent) : \A frames \in Traces(event) :
      LET call   == FateOf(event).call
          Own(i) == call.op = "event" /\ \E own \in Traces(call.event) : i \in DOMAIN own /\ own[i] = frames[i]
      IN
      /\ \/ \E i \in DOMAIN frames : frames[i].in_app = TRUE
         \/ \A i \in DOMAIN frames : frames[i].in_app = FALSE
      /\ \A i \in DOMAIN frames :
           /\ frames[i].function # None
           /\ \E p \in client.options.in_app_include : Bare(p) /\ StartsWith(frames[i].function, p)
           => frames[i].in_app = TRUE \/ (frames[i].in_app = FALSE /\ Own(i))

\* The last value the application's setters gave an option.
Asked(option, names) ==
  LET i == SelectLastInSeq(scenario.setters, LAMBDA call : call.set \in names /\ call.value # None)
  IN  IF i = 0 THEN scenario.options[option] ELSE scenario.setters[i].value

\* Attributes a log or metric was captured with are never replaced, except a log's
\* parent_span_id where the scope has a span; the user
\* of the scope is in a metric only when send_default_pii asks for it, and
\* never beside a user the metric has of its own.
AttributesKept ==
  LET logs == Batched("log", sdk.logs)
      metrics == Batched("trace_metric", sdk.metrics)
      Kept(entry, k) == entry.value.attributes[k] = entry.from.attributes[k]
  IN  /\ \A i \in DOMAIN logs : \A k \in DOMAIN logs[i].from.attributes :
           Kept(logs[i], k) \/ (k = "parent_span_id" /\ scenario.scope.span # None)
      /\ \A i \in DOMAIN metrics :
           /\ \A k \in DOMAIN metrics[i].from.attributes : Kept(metrics[i], k)
           /\ \E k \in UserKeys : HasKey(metrics[i].value.attributes, k) /\ metrics[i].value.attributes[k] = "scope"
              => /\ Asked("send_default_pii", {"send_default_pii"})
                 /\ DOMAIN metrics[i].from.attributes \cap UserKeys = {}

\* What an event says of the release and the environment is its own word, or
\* what was asked for last, or the variable's, in this order; the environment
\* is always known (the setters, apply_defaults and prepare_event).  A request
\* goes through the proxy named for its scheme, by option or else variable, and
\* a secure one through the other when only that is named.  What a log or metric
\* says of itself comes before what the scope and the options say.
Precedence ==
  LET env   == scenario.env
      http  == OrElse(Asked("http_proxy", {"http_proxy"}), OrElse(env.HTTP_PROXY, env.http_proxy))
      https == OrElse(OrElse(Asked("https_proxy", {"https_proxy"}), OrElse(env.HTTPS_PROXY, env.https_proxy)), http)
  IN
  /\ AttributesKept
  /\ request # None => request.proxy = IF request.url.scheme = "https" THEN https ELSE http
  /\ \A event \in ToSet(EventsSent) :
    LET call  == FateOf(event).call
        Own(field) == IF call.op = "event" THEN call.event[field] ELSE None
    IN  /\ event.release = OrElse(Own("release"), OrElse(Asked("release", {"maybe_release"}), env.SENTRY_RELEASE))
        /\ event.environment = OrElse(Own("environment"), OrElse(Asked("environment", {"environment"}),
                                 OrElse(env.SENTRY_ENVIRONMENT, IF env.debug_assertions THEN "development" ELSE "production")))

\* Of all the headers of a request the last valid one of each name counts, wherever
\* the malformed ones stand: a trace, and the organization beside it.
LastValidHeader ==
  LET traces == Where(continued.headers, LAMBDA h : h.name = "sentry-trace")
      valid  == Where(traces, LAMBDA h : FromSentryTrace(h.value) # None)
      Org(h) == UpdateFromHeader(None, h.value)
      orgs   == Where(continued.headers, LAMBDA h : h.name = "baggage" /\ Org(h) # None)
      result == continued.result
  IN  continued # None =>
        IF valid = <<>> THEN result.error = IF traces = <<>> THEN "Missing" ELSE "Invalid"
        ELSE /\ result.error = None
             /\ result.ctx = [FromSentryTrace(Last(valid).value) EXCEPT
                                 !.org_id = IF orgs = <<>> THEN None ELSE Org(Last(orgs))]

\* Events, logs, metrics and outgoing headers of one scope belong to one
\* trace, except an event that brings its own or that finds one among the scope's
\* contexts, which go first; a trace that is
\* continued from a request is the one its last valid header names.
OneTrace ==
  LET trace == ScopeTrace(scenario.scope).trace_id
      logs  == Batched("log", sdk.logs)
      metrics == Batched("trace_metric", sdk.metrics)
  IN  /\ LastValidHeader
      /\ \A event \in ToSet(EventsSent) :
           LET call == FateOf(event).call
               own  == IF call.op = "event" THEN Extend(call.event.contexts, scenario.scope.contexts)
                       ELSE scenario.scope.contexts
           IN  event.contexts["trace"] = IF HasKey(own, "trace") THEN own["trace"] ELSE trace
      /\ \A i \in DOMAIN logs : logs[i].value.trace_id = trace
      /\ \A i \in DOMAIN metrics : metrics[i].value.trace_id = trace
      /\ continued # None /\ continued.headers = PropagationHeaders(scenario.scope) =>
           continued.result.error = None /\ continued.result.ctx.trace_id = trace

\* The DSN init was given, if it did not panic, is read again from its text.
DsnRoundTrip ==
  client # None /\ client.options.dsn # None =>
    ParseDsn(DsnText(client.options.dsn)) = Ok(client.options.dsn)

\* A request goes to the host of the DSN's text (init's, then that of the
\* options, then the environment's), to the project that stands
\* last in its path, below what stands before it, and its header is read as
\* the keys of that text; the DSN itself is read again from its text.
RequestMatchesDsn ==
  LET set   == IF scenario.text = None THEN Asked("dsn", {"dsn"}) ELSE None
      text  == IF scenario.text # None /\ scenario.text.form = "url" THEN scenario.text
               ELSE OrElse(set, scenario.env.SENTRY_DSN)
      Parts(path) == Where(Split(path, "/"), LAMBDA part : part # <<>>)
      parts == Parts(text.path)
      auth  == ParseAuth(request.auth)
      PortOf(u) == IF u.port = None THEN DefaultPort(u.scheme) ELSE u.port
  IN  DsnRoundTrip /\ (request # None =>
        /\ request.url.host = text.host /\ PortOf(request.url) = PortOf(text)
        /\ Parts(request.url.path) = Front(parts) \o << <<"api">>, Last(parts), <<"envelope">> >>
        /\ auth.ok /\ auth.value.key = <<text.username>> /\ auth.value.client = Agent
        /\ auth.value.secret = IF text.password \in {None, ""} THEN None ELSE <<text.password>>)

\* A reader gets back what was sent, attachments with newlines in them
\* included; of an envelope cut short it gets an error or the first items,
\* never a wrong one.
ReadBack ==
  request # None =>
    LET items == [i \in DOMAIN request.sent.items |-> OnWire(request.sent.items[i])]
        read  == request.read
    IN  /\ request.whole => read.error = None /\ read.envelope.items = items
                              /\ read.envelope.headers = request.sent.headers
        /\ read.error = None => IsPrefix(read.envelope.items, items)

Grammars == [i \in 1..5 |-> Grammar(ALLOWED_VALUES[i])]

\* The validator accepts exactly the schedules of the grammar: five segments,
\* lists of numbers, ranges and steps within the segment's values.
CrontabGrammar ==
  schedule # None =>
    (schedule.valid <=> /\ Len(schedule.segments) = 5
                        /\ \A i \in 1..5 : schedule.segments[i] \in Grammars[i])

\* The breadcrumbs of an event are the latest of the trail, and an event made
\* from a record that is a breadcrumb too has that breadcrumb last, unless
\* before_breadcrumb dropped it; the scope never holds more than the limit.
BreadcrumbTrail ==
  /\ client # None => Len(sdk.scope.breadcrumbs) <= client.options.max_breadcrumbs
  /\ \A event \in ToSet(EventsSent) :
      LET crumbs == event.breadcrumbs
          call   == FateOf(event).call
      IN  /\ \E i \in Len(crumbs)..Len(sdk.trail) : crumbs = SubSeq(sdk.trail, i + 1 - Len(crumbs), i)
          /\ call.op = "log" /\ "Breadcrumb" \in call.filter
             /\ client.options.max_breadcrumbs > 0 /\ client.options.before_breadcrumb = None =>
               crumbs # <<>> /\ Last(crumbs) = BreadcrumbFromRecord(call.record)

\* The field a tracing event's message is looked for in: the second one only if the
\* first is none of the event's values.
MessageSource(fields) ==
  IF "message" \in DOMAIN fields /\ fields["message"] # "error" THEN "message" ELSE "error"

\* A field is found in the event: as message, tag, exception, exception around
\* others (when stack traces are attached), or field of the context.
Shown(event, fields, k) ==
  \/ event.message = k \/ HasKey(event.tags, k)
  \/ fields[k] = "error" /\ event.exception # <<>>
  \/ k = MessageSource(fields) /\ \E i \in DOMAIN event.exception : event.exception[i].ty = "tracing"
  \/ HasKey(event.contexts, "Rust Tracing Fields") /\ k \in event.contexts["Rust Tracing Fields"]

\* Every field of a tracing event that has a value, but for those exempt, is found
\* in the event it becomes.
FieldsShown(Exempt(_, _)) ==
  \A event \in ToSet(EventsSent) :
    LET call   == FateOf(event).call
        fields == call.record.fields
    IN  call.op = "tracing" => \A k \in DOMAIN fields :
          fields[k] = "null" \/ Exempt(fields, k) \/ Shown(event, fields, k)

\* What a record of a logging library says is shown in what the integrations make of
\* it: the breadcrumb in the trail of events, the fields in the event (log, slog and
\* tracing converters); all but a number or boolean where the message is looked
\* for, which the code drops.
RecordsShown ==
  /\ BreadcrumbTrail
  /\ FieldsShown(LAMBDA fields, k : fields[k] = "number" /\ k = MessageSource(fields))

\* Without exception, and in logs too: "The fields of a `tracing` event are captured as
\* attributes of the log", and "All other fields passed to the macro are captured in a
\* custom "Tracing Fields" context in Sentry" (sentry-tracing lib.rs).
FieldsKept ==
  LET logs == Batched("log", sdk.logs) IN
  /\ FieldsShown(LAMBDA fields, k : FALSE)
  /\ \A i \in DOMAIN logs : logs[i].call.op = "tracing" =>
       LET fields == logs[i].call.record.fields IN
       \A k \in DOMAIN fields :
         fields[k] = "null" \/ logs[i].value.body = k \/ HasKey(logs[i].value.attributes, k)
=============================================================================
