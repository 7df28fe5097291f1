----------------------------- MODULE MCPipeline -----------------------------
(* Scenarios for Pipeline: families of applications, each about one part.  *)
EXTENDS Pipeline

Text(scheme, user, password, host, port, path) ==
  [form |-> "url", scheme |-> scheme, username |-> user, password |-> password,
   host |-> host, port |-> port, path |-> path]

Host    == << <<"example">>, <<"com">> >>
OrgHost == << <<"o", "7">>, <<"ingest">>, <<"sentry">>, <<"io">> >>
Plain   == Text("https", "k", None, OrgHost, None, <<"/", "1">>)
Other   == Text("http", "k2", None, Host, None, <<"/", "2">>)

\* An application that is given a DSN and does nothing yet.
Base == [text |-> Plain, env |-> NoVariables, options |-> DefaultOptions, setters |-> <<>>, scope |-> DefaultScope,
         calls |-> {}, headers |-> FALSE, schedules |-> FALSE, answers |-> FALSE, requests |-> None]

Message(level) == [op |-> "message", level |-> level]
AnError        == [op |-> "error", chain |-> <<"Outer", "Inner">>]
APanic         == [op |-> "panic"]
AnEvent(event) == [op |-> "event", event |-> event]
Record(level, kv) == [level |-> level, kv |-> kv]
Logger(keys, format) == [op |-> "logger", level |-> "info", keys |-> keys, format |-> format]
Metric(type, keys) == [type |-> type, unit |-> "second", attributes |-> [k \in keys |-> "own"]]

\* Texts of DSNs, and the environment's.
DsnScenarios ==
  { [Base EXCEPT !.text = t, !.calls = {AnError}, !.requests = "whole"] :
      t \in { Text(s, u, p, h, port, path) :
                s \in {"https", "http", "ftp"}, u \in {"", "k"}, p \in {None, "", "s"}, h \in {None, Host, OrgHost},
                port \in {None, 443, 8080},
                path \in { <<>>, <<"/">>, <<"/", "1">>, <<"/", "1", "/">>, <<"/", "p", "/", "1">>,
                           <<"/", "p", "/", "q", "/", "1">>, <<"/", "/", "1">> } } }
  \cup { [Base EXCEPT !.text = t, !.env.SENTRY_DSN = v, !.calls = {AnError}, !.requests = "whole"] :
           t \in {None, [Plain EXCEPT !.form = "empty"], [Plain EXCEPT !.form = "malformed"]},
           v \in {None, Plain, Other, [Plain EXCEPT !.form = "malformed"]} }

\* Options against variables against what the event says.
OptionScenarios ==
  { [Base EXCEPT !.options.release = r, !.options.environment = e,
                 !.env.SENTRY_RELEASE = vr, !.env.SENTRY_ENVIRONMENT = ve, !.env.SSL_VERIFY = ssl,
                 !.env.debug_assertions = debug,
                 !.calls = { AnEvent([DefaultEvent EXCEPT !.release = own, !.environment = own]) : own \in {None, "own"} }] :
      r, e \in {None, "option"}, vr, ve \in {None, "variable"}, ssl \in {None, "false"}, debug \in BOOLEAN }
  \cup { [Base EXCEPT !.text.scheme = scheme, !.options.http_proxy = h, !.options.https_proxy = s,
                      !.env.HTTP_PROXY = vh, !.env.HTTPS_PROXY = vs,
                      !.env.http_proxy = lh, !.env.https_proxy = ls, !.requests = "whole", !.calls = {AnError}] :
           scheme \in {"http", "https"}, h \in {None, "http"}, s \in {None, "https"},
           vh \in {None, "HTTP"}, lh \in {None, "lower_http"}, vs \in {None, "HTTPS"}, ls \in {None, "lower_https"} }

\* Options built by setters, some of which panic.
SetTo(option, value) == [set |-> option, value |-> value]
SetterScenarios ==
  { [Base EXCEPT !.text = t, !.env.SENTRY_DSN = v, !.requests = "whole", !.calls = {AnError},
                 !.setters = <<SetTo("dsn", d), SetTo("maybe_release", r1), SetTo("maybe_release", r2),
                               SetTo("environment", "e"), SetTo("sample_rate", rate)>>] :
      t \in {None, Plain, [Plain EXCEPT !.form = "empty"]}, v \in {None, Plain},
      d \in {Other, [Plain EXCEPT !.form = "empty"]}, r1, r2 \in {None, "r1", "r2"}, rate \in {"all", "outside"} }
  \cup { [Base EXCEPT !.calls = {Message("warning")}, !.setters = s] :
           s \in { <<SetTo("attach_stacktrace", TRUE), SetTo("add_integration", "attach-stacktrace"),
                     SetTo("integrations", i), SetTo("add_integration", x), SetTo("before_send", b),
                     SetTo("in_app_exclude", {<<"app">>}), SetTo("in_app_include", in)>> :
                     i \in {<<>>, <<"contexts">>}, x \in {"dropper", "idle"}, b \in {None, "drop"}, in \in {{}, {<<"app">>}} } }

\* What drops events, and the session that counts them.
SessionScenarios ==
  { [Base EXCEPT !.options.release = "r", !.options.auto_session_tracking = TRUE, !.options.sample_rate = rate, !.options.before_send = b, !.options.integrations = i,
                 !.options.default_integrations = d, !.scope.event_processors = p, !.scope.level = level,
                 !.calls = {Message("info"), AnError, APanic}] :
      rate \in {"all", "some"}, b \in {None, "drop"},
      i \in { <<>>, <<"panic_custom">>, <<"dropper", "panic">> }, d \in BOOLEAN,
      p \in { <<>>, <<"tag", "drop">> }, level \in {None, "info"} }
  \cup { [Base EXCEPT !.options.release = "r", !.options.auto_session_tracking = TRUE, !.options.session_mode = "Request",
                      !.options.sample_rate = rate, !.calls = {Message("info"), AnError, APanic}] :
           rate \in {"none", "some"} }

\* Direct calls of the hub beside the global functions, with and without an
\* active client.
HubScenarios ==
  { [Base EXCEPT !.text = t, !.options.release = "r", !.options.auto_session_tracking = TRUE,
                 !.options.before_send_log = b, !.options.sample_rate = rate,
                 !.calls = { AnError, [op |-> "hub", level |-> "fatal"], Logger({"k"}, TRUE),
                             [op |-> "metric", metric |-> Metric("counter", {})] }] :
      t \in {None, Plain}, b \in {None, "drop"}, rate \in {"all", "some"} }

\* Stack traces, attached, of exceptions or of the event itself, under all kinds of
\* classification.
Marked(mark) == [function |-> <<"app", "::", "f">>, in_app |-> mark]
Stacked(mark) == [DefaultEvent EXCEPT !.stacktrace = <<Marked(mark), Frame(<<"lib", "::", "g">>)>>,
                                      !.exception = <<[Exception("own") EXCEPT !.stacktrace = <<Frame(<<"_<", "app", "::">>)>>]>>]
StackScenarios ==
  { [Base EXCEPT !.options.attach_stacktrace = a, !.options.in_app_include = in, !.options.in_app_exclude = ex,
                 !.calls = {Message("warning"), APanic, AnEvent(Stacked(FALSE)), AnEvent(Stacked(TRUE))}] :
      a \in BOOLEAN, in \in SUBSET { <<"app", "::">>, <<"lib">> } \cup { {<<"_<", "app">>, <<"<", "app">>} }, ex \in SUBSET { <<"app">>, <<"lib", "::">> } }
  \cup { [Base EXCEPT !.options.attach_stacktrace = a, !.options.in_app_include = in, !.options.in_app_exclude = ex,
                 !.calls = {[op |-> "anyhow", chain |-> <<"Outer", "Inner">>, captured |-> TRUE],
                            [op |-> "anyhow", chain |-> <<"Outer">>, captured |-> FALSE],
                            [op |-> "tracing", record |-> [level |-> "error", spans |-> {},
                               fields |-> [message |-> "string", cause |-> "error"]]]}] :
           a \in BOOLEAN, in \in SUBSET { <<"app", "::">>, <<"lib">> }, ex \in { {}, {<<"app">>} } }

\* Records of log, slog and tracing.
Fields == UNION { [ks -> {"string", "number", "null", "error"}] : ks \in SUBSET {"message", "error", "tags.t"} }
RecordScenarios ==
  { [Base EXCEPT !.options.max_breadcrumbs = max, !.options.before_send_log = b, !.options.before_breadcrumb = b,
                 !.options.enable_logs = on,
                 !.calls = { [op |-> "log", filter |-> LogFilter(l), record |-> Record(l, {"k"})] : l \in {"error", "info", "debug"} }
                           \cup { [op |-> "log", filter |-> {"Breadcrumb", "Event", "Exception", "Log"}, record |-> Record("error", {"k"})] }
                           \cup { [op |-> "slog", record |-> Record(l, {"k"})] : l \in {"critical", "warning", "info"} }] :
      max \in {0, 2}, b \in {None, "drop"}, on \in BOOLEAN }
AllSpanFields == {"span:k", "span:code.module.name"}
TracingScenarios ==
  { [Base EXCEPT !.options.attach_stacktrace = a,
                 !.calls = { [op |-> "tracing", record |-> [level |-> r[1], fields |-> f, spans |-> r[2]]] :
                               r \in rs }] :
      a \in BOOLEAN, f \in Fields,
      rs \in { {<<"error", {}>>}, {<<"error", AllSpanFields>>, <<"info", AllSpanFields>>} } }

\* Scopes with a user, a span, a trace of their own, and what they are applied to.
ASpan == [trace_id |-> "t1", span_id |-> "s1", sampled |-> TRUE]
AllUser == [k \in {"id", "username", "email"} |-> "scope"]
Transaction(keys) ==
  [trace_id |-> "t1", user |-> NoKeys, extra |-> NoKeys, tags |-> NoKeys, contexts |-> [k \in keys |-> "own"],
   release |-> None, environment |-> None, server_name |-> None]
AttributeCalls ==
  { [op |-> "metric", metric |-> Metric("gauge", keys)] : keys \in { {}, {"user.id"}, {"user.email", "server.address"} } }
    \cup { [op |-> "log", filter |-> {"Log"}, record |-> Record("info", {"k"})], Logger({"user.id", "os.name", "parent_span_id"}, FALSE) }
ContextCalls ==
  { AnEvent([DefaultEvent EXCEPT !.contexts = [k \in keys |-> "own"]]) : keys \in { {}, {"trace"}, {"os"} } }
    \cup { [op |-> "metric", metric |-> Metric("gauge", {})], Logger({"os.name"}, FALSE) }
Scoped(contexts) ==
  [Base EXCEPT !.scope.transaction = "name", !.scope.fingerprint = "fp", !.scope.tags = [k \in {"t"} |-> "scope"],
               !.scope.contexts = [k \in contexts |-> "scope"]]
ScopeScenarios ==
  { [Scoped({"app"}) EXCEPT !.options.send_default_pii = pii, !.scope.user = u, !.scope.span = span, !.calls = AttributeCalls] :
      pii \in BOOLEAN, u \in {NoKeys, AllUser, [k \in {"id"} |-> "scope"]}, span \in {None, ASpan} }
  \cup { [Scoped(c) EXCEPT !.scope.user = AllUser, !.scope.span = span, !.calls = ContextCalls] :
           c \in { {"app"}, {"trace"} }, span \in {None, ASpan} }
  \cup { [Base EXCEPT !.options.before_send_metric = b, !.options.enable_metrics = on, !.scope.span = span,
                      !.calls = { [op |-> "metric", metric |-> Metric("counter", {})],
                                  [op |-> "transaction", transaction |-> Transaction({"trace"})] }] :
           b \in {None, "drop"}, on \in BOOLEAN, span \in {None, ASpan} }

\* Attachments full of newlines and documents, cut anywhere on their way.
Attachment(buffer, ty) ==
  [type |-> "attachment", buffer |-> buffer, filename |-> "f", content_type |-> None, ty |-> ty]
Byte == [b |-> "byte"]
WireScenarios ==
  { [Base EXCEPT !.requests = "cut", !.options.release = "r", !.options.auto_session_tracking = TRUE,
                 !.options.sample_rate = "some", !.scope.attachments = a,
                 !.calls = {AnError, [op |-> "log", filter |-> {"Log"}, record |-> Record("info", {"k"})],
                            [op |-> "transaction", transaction |-> Transaction({})]}] :
      a \in { <<>>, <<Attachment(<<>>, None), Attachment(<<Byte, NL, Byte>>, "t")>>,
              <<Attachment(<<Json([type |-> "event", length |-> 1]), NL, Byte, NL>>, None), Attachment(<<NL>>, None)>> } }

\* Headers of requests.
Trace(text) == [name |-> "sentry-trace", value |-> text]
Baggage(text) == [name |-> "baggage", value |-> text]
Header == { Trace(<<"t1", "-", "s1">>), Trace(<<" ", "t2", "-", "s1", "-", "1">>), Trace(<<"t1", "-", "s1", "-", "0", " ">>),
            Trace(<<"t1", "-", "s1", "-", "1", "-", "x">>), Trace(<<"x", "-", "s1">>), Trace(<<"t1">>), Trace(<<>>),
            Baggage(<<"sentry-org_id", "=", "7">>), Baggage(<<"a", "=", "b", ",", "sentry-org_id", "=", "8", ";", "p">>),
            Baggage(<<"sentry-org_id", "=", "x">>), [name |-> "other", value |-> <<"t1">>] }
AllHeaders == UNION { [1..n -> Header] : n \in 0..2 } \cup { <<a, b, c>> : a, c \in Header, b \in {Trace(<<"t1">>), Baggage(<<"sentry-org_id", "=", "7">>)} }
HeaderScenarios ==
  { [Base EXCEPT !.headers = TRUE, !.text.form = form, !.scope.span = span] :
      form \in {"url", "malformed"}, span \in {None, ASpan, [ASpan EXCEPT !.sampled = FALSE]} }

\* Crontab texts of up to five tokens, in two of the segments.
CronTokens == {"*", "/", "-", ",", "0", "7", "13"}
Segment(i, s) == [j \in 1..5 |-> IF j = i THEN s ELSE <<"*">>]
AllSchedules ==
  { Segment(i, s) : i \in {2, 4}, s \in UNION { [1..n -> CronTokens] : n \in 1..5 } }
    \cup { Segment(i, <<s>>) : i \in 1..5, s \in {"mon", "jan", "60", "31", "0"} }
    \cup { SubSeq(Segment(1, <<"0">>), 1, n) : n \in 0..4 }
CrontabScenarios == { [Base EXCEPT !.schedules = TRUE, !.text.form = "malformed"] }

NumberOfToken == [t \in {"0", "7", "13", "31", "60"} |->
                    CASE t = "0" -> 0 [] t = "7" -> 7 [] t = "13" -> 13 [] t = "31" -> 31 [] OTHER -> 60]

\* Answers of the server: at most two groups, or one of the other headers.
Group(text, asks) == [text |-> text, asks |-> asks]
AllGroups ==
  { Group(<<n, ":">> \o <<"error", ":", "org">>, {"error"}) : n \in {"2", "0.5", "-1", "inf"} }
    \cup { Group(<<"1", ":", ":", "org", ":", "reason">>, {"global"}), Group(<<"2", ":", "error", ";", "session", ":">>, {"error", "session"}),
           Group(<<"1", ":", "foo", ":", "org">>, {}), Group(<<"1", ":", "session">>, {}), Group(<<"x", ":", ":", "org">>, {}) }
AllAnswers ==
  { [groups |-> g, retry_after |-> None, status |-> 200] : g \in { <<h>> : h \in AllGroups } \cup { <<g1, g2>> : g1, g2 \in { h \in AllGroups : h.text[1] = "2" \/ "global" \in h.asks } } }
    \cup { [groups |-> None, retry_after |-> r, status |-> s] : r \in {None, "0.5", "2", "inf", "date", "x"}, s \in {200, 429} }
    \cup { [groups |-> <<Group(<<"x", ":", ":", "org">>, {})>>, retry_after |-> "2", status |-> 429] }
Tenths == [t \in {"2", "1", "0.5", "-1", "inf"} |->
             CASE t = "2" -> 20 [] t = "1" -> 10 [] t = "0.5" -> 5 [] t = "-1" -> -10 [] OTHER -> 10000]
Dates == [t \in {"date"} |-> 2]
AnswerScenarios == { [Base EXCEPT !.answers = TRUE] }

AllScenarios ==
  DsnScenarios \cup OptionScenarios \cup SetterScenarios \cup SessionScenarios \cup HubScenarios \cup StackScenarios \cup RecordScenarios
    \cup TracingScenarios \cup ScopeScenarios \cup WireScenarios \cup HeaderScenarios \cup CrontabScenarios \cup AnswerScenarios
=============================================================================
