---------------------------- MODULE EventSources ----------------------------
(***************************************************************************)
(* Where events come from: messages, errors and their sources, anyhow,     *)
(* panics, and the records of log, slog and tracing.  Each source turns    *)
(* what it is given into a sequence of mappings: breadcrumbs, events and   *)
(* logs, in the order in which it hands them to the hub.                   *)
(***************************************************************************)
EXTENDS ScopeData

Mapping(kind, value) == [kind |-> kind, value |-> value]

\* The stack trace of the thread that captures: what the backtrace crate
\* yields, with the frames the integrations will have to classify.
Frame(function) == [function |-> function, in_app |-> None]
CurrentStacktrace == << Frame(<<"_start">>), Frame(<<"app", "::", "f">>),
                        Frame(<<"<", "std", "..", "x">>), Frame(<<"lib", "::", "g">>), Frame(None) >>

Exception(ty) == [ty |-> ty, mechanism |-> None, handled |-> None, stacktrace |-> None]

\* event_from_error: an error and its chain of sources, the oldest first.
ExceptionsOf(chain) == [i \in DOMAIN chain |-> Exception(Reverse(chain)[i])]

EventFromError(chain) == [DefaultEvent EXCEPT !.level = "error", !.exception = ExceptionsOf(chain)]

\* The backtrace of an error of anyhow.
AnyhowStacktrace == <<Frame(<<"app", "::", "f">>)>>

\* sentry_anyhow::event_from_error: the backtrace of the error, if one was
\* captured, belongs to the outermost error, which is the last exception.
EventFromAnyhow(chain, captured) ==
  LET event == EventFromError(chain) IN
  IF captured THEN [event EXCEPT !.exception[Len(chain)].stacktrace = AnyhowStacktrace]
  ELSE event

\* Hub::capture_message.
EventFromMessage(level) == [DefaultEvent EXCEPT !.message = "message", !.level = level]

\* PanicIntegration::event_from_panic_info: an extractor of the integration
\* may build the event, otherwise it is an unhandled exception.
EventFromPanic(extracts) ==
  IF extracts THEN [DefaultEvent EXCEPT !.message = "extracted", !.level = "fatal"]
  ELSE [DefaultEvent EXCEPT !.level = "fatal",
          !.exception = <<[ty |-> "panic", mechanism |-> "panic", handled |-> FALSE,
                           stacktrace |-> CurrentStacktrace]>>]
-----------------------------------------------------------------------------
(* log and slog *)

\* The logger_ macros: attributes, then a text, or a format and its parameters.
LoggerLog(level, keys, format) ==
  LET parts == IF format THEN {"sentry.message.template", "sentry.message.parameter.0"} ELSE {}
  IN  [level |-> level, body |-> "message", trace_id |-> None,
       attributes |-> [k \in keys \cup parts |-> "event"]]

\* sentry_log::default_filter.
LogFilter(level) ==
  CASE level = "error" -> {"Exception", "Log"}
    [] level \in {"warn", "info"} -> {"Breadcrumb", "Log"}
    [] OTHER -> {}

\* convert_log_level of the log and tracing crates.
SentryLevel(level) ==
  CASE level = "warn" -> "warning" [] level \in {"debug", "trace"} -> "debug" [] OTHER -> level

\* sentry_log::event_from_record: key-value pairs go into a context of their own.
EventFromRecord(record) ==
  [DefaultEvent EXCEPT
     !.logger = "target", !.level = SentryLevel(record.level), !.message = "message",
     !.contexts = [k \in {"Rust Log Metadata"} \cup
                     (IF record.kv = {} THEN {} ELSE {"Rust Log Attributes"}) |-> "event"]]

\* sentry_log::breadcrumb_from_record.
BreadcrumbFromRecord(record) ==
  [level |-> SentryLevel(record.level), message |-> "message", data |-> record.kv]

\* sentry_log::log_from_record.
LogFromRecord(record) ==
  [level |-> record.level, body |-> "message", trace_id |-> None,
   attributes |-> Extend([k \in record.kv |-> "event"],
                         [k \in {"logger.target", "sentry.origin"} |-> "integration"])]

\* Mutant: the event first, its own record as a breadcrumb after it.
LogItems_EventFirst(filter, record) ==
  (IF "Event" \in filter THEN <<Mapping("event", EventFromRecord(record))>> ELSE <<>>)
  \o (IF "Exception" \in filter THEN <<Mapping("event", EventFromRecord(record))>> ELSE <<>>)
  \o (IF "Breadcrumb" \in filter THEN <<Mapping("breadcrumb", BreadcrumbFromRecord(record))>> ELSE <<>>)
  \o (IF "Log" \in filter THEN <<Mapping("log", LogFromRecord(record))>> ELSE <<>>)

\* SentryLogger::log: the mappings of a record, for the flags of its filter.
LogItems(filter, record) ==
  (IF "Breadcrumb" \in filter THEN <<Mapping("breadcrumb", BreadcrumbFromRecord(record))>> ELSE <<>>)
  \o (IF "Event" \in filter THEN <<Mapping("event", EventFromRecord(record))>> ELSE <<>>)
  \o (IF "Exception" \in filter THEN <<Mapping("event", EventFromRecord(record))>> ELSE <<>>)
  \o (IF "Log" \in filter THEN <<Mapping("log", LogFromRecord(record))>> ELSE <<>>)

\* sentry_slog::default_filter.
SlogFilter(level) ==
  CASE level = "critical" -> "Exception"
    [] level \in {"error", "warning"} -> "Event"
    [] OTHER -> "Breadcrumb"

\* sentry_slog::convert_log_level.
SlogLevel(level) ==
  CASE level \in {"trace", "debug"} -> "debug" [] level = "critical" -> "error" [] OTHER -> level

\* sentry_slog: the pairs of the record and then those of the logger.
SlogExtra(record) == [k \in record.kv \cup {"logger"} |-> "event"]

\* SentryDrain::log: one mapping per record.
SlogItems(filter, record) ==
  CASE filter = "Breadcrumb" ->
         <<Mapping("breadcrumb", [level |-> SlogLevel(record.level), message |-> "message",
                                  data |-> DOMAIN SlogExtra(record)])>>
    [] filter \in {"Event", "Exception"} ->
         <<Mapping("event", [DefaultEvent EXCEPT !.message = "message", !.extra = SlogExtra(record),
                                                 !.level = SlogLevel(record.level)])>>
    [] OTHER -> <<>>
-----------------------------------------------------------------------------
(* tracing: the fields of an event are a function from field names to the  *)
(* kind of their values: "string", "number" (booleans are told apart       *)
(* nowhere), "null" (a float that is not a number) or "error"; an error    *)
(* that is stored as a list of texts is an "array".                        *)

\* default_event_filter.
EventFilter(level) ==
  CASE level = "error" -> {"Event", "Log"}
    [] level \in {"warn", "info"} -> {"Breadcrumb", "Log"}
    [] OTHER -> {}

Without(map, k) == [x \in DOMAIN map \ {k} |-> map[x]]

\* FieldVisitor: errors are kept as a list of texts, or become exceptions.
JsonValues(fields, store_errors) ==
  LET kept == { k \in DOMAIN fields : fields[k] # "error" \/ store_errors }
  IN  [k \in kept |-> IF fields[k] = "error" THEN "array" ELSE fields[k]]

\* extract_event_data: the field taken out for the message, if any.
MessageField(values) ==
  IF HasKey(values, "message") THEN "message" ELSE IF HasKey(values, "error") THEN "error" ELSE None

\* The message, which only a string can be, and the fields left.
ExtractEventData(fields, store_errors) ==
  LET values == JsonValues(fields, store_errors)
      field  == MessageField(values)
  IN  [message |-> IF field # None /\ values[field] = "string" THEN field ELSE None,
       values  |-> IF field = None THEN values ELSE Without(values, field)]

\* Data of spans the layer itself set (is_sentry_span_attribute).
LayerKeys == {"span:sentry.tracing.target", "span:code.module.name"}

\* extract_event_data_with_context: the data of the spans the event is in,
\* under the span's name.
WithSpanData(values, spans) ==
  Extend(values, [k \in spans \ LayerKeys |-> "string"])

\* The fields extract_and_remove_tags turns into tags: prefixed, with a value
\* that has a short text.
TagOf(fields) == { k \in {"tags.t"} \cap DOMAIN fields : fields[k] \notin {"array", "null"} }

\* event_from_event.  An event with both a message and an error gets the
\* message as a synthetic exception around the error, when stack traces are
\* attached; the last exception names tracing as its mechanism.
EventFromData(record, message, values, attach_stacktrace) ==
  LET errors  == IF \E k \in DOMAIN record.fields : record.fields[k] = "error"
                 THEN ExceptionsOf(<<"Outer", "Inner">>) ELSE <<>>
      wraps   == errors # <<>> /\ message # None /\ attach_stacktrace
      all     == IF wraps THEN Append(errors, [Exception("tracing") EXCEPT !.stacktrace = CurrentStacktrace])
                 ELSE errors
      left    == [k \in DOMAIN values \ { x \in {"tags.t"} : HasKey(values, x) /\ values[x] # "array" } |-> values[k]]
  IN  [DefaultEvent EXCEPT
         !.logger = "target", !.level = SentryLevel(record.level),
         !.message = IF wraps THEN None ELSE message,
         !.exception = IF all = <<>> THEN all ELSE [all EXCEPT ![Len(all)].mechanism = "tracing"],
         !.tags = [k \in TagOf(values) |-> "event"],
         !.contexts = Extend([k \in {"Rust Tracing Location"} |-> "event"],
                             IF DOMAIN left = {} THEN NoKeys
                             ELSE [k \in {"Rust Tracing Fields"} |-> DOMAIN left])]

EventFromEvent(record, attach_stacktrace) ==
  LET data == ExtractEventData(record.fields, FALSE)
  IN  EventFromData(record, data.message, WithSpanData(data.values, record.spans), attach_stacktrace)

\* breadcrumb_from_event.
BreadcrumbFromEvent(record) ==
  LET data == ExtractEventData(record.fields, TRUE)
  IN  [level |-> SentryLevel(record.level), message |-> data.message,
       data |-> DOMAIN WithSpanData(data.values, record.spans)]

\* log_from_event.
LogFromEvent(record) ==
  LET data == ExtractEventData(record.fields, TRUE)
  IN  [level |-> record.level, body |-> data.message, trace_id |-> None,
       attributes |-> Extend([k \in DOMAIN WithSpanData(data.values, record.spans) |-> "event"],
                             [k \in {"sentry.origin", "code.module.name"} |-> "integration"])]

\* SentryLayer::on_event.
TracingItems(filter, record, attach_stacktrace) ==
  (IF "Breadcrumb" \in filter THEN <<Mapping("breadcrumb", BreadcrumbFromEvent(record))>> ELSE <<>>)
  \o (IF "Event" \in filter THEN <<Mapping("event", EventFromEvent(record, attach_stacktrace))>> ELSE <<>>)
  \o (IF "Log" \in filter THEN <<Mapping("log", LogFromEvent(record))>> ELSE <<>>)
=============================================================================
