------------------------------ MODULE Options -------------------------------
(***************************************************************************)
(* The options of a client: their defaults, what sentry::init takes from   *)
(* the environment, and the integrations it puts in front of the           *)
(* application's own.  A callback or sampler is what it answers.           *)
(***************************************************************************)
EXTENDS Dsn

\* ClientOptions::default, the options the pipeline reads.
DefaultOptions ==
  [dsn |-> None, release |-> None, environment |-> None, server_name |-> None,
   sample_rate |-> "all", max_breadcrumbs |-> 2, attach_stacktrace |-> FALSE,
   send_default_pii |-> FALSE, in_app_include |-> {}, in_app_exclude |-> {},
   integrations |-> <<>>, default_integrations |-> TRUE,
   before_send |-> None, before_breadcrumb |-> None, before_send_log |-> None, before_send_metric |-> None,
   transport |-> None, http_proxy |-> None, https_proxy |-> None,
   accept_invalid_certs |-> FALSE, auto_session_tracking |-> FALSE,
   session_mode |-> "Application", enable_logs |-> TRUE, enable_metrics |-> TRUE]

\* An empty environment, and a release build.
NoVariables ==
  [SENTRY_DSN |-> None, SENTRY_RELEASE |-> None, SENTRY_ENVIRONMENT |-> None,
   HTTP_PROXY |-> None, http_proxy |-> None, HTTPS_PROXY |-> None, https_proxy |-> None,
   SSL_VERIFY |-> None, debug_assertions |-> FALSE]

\* ClientOptions::from((text, options)): init panics on a text that is no DSN.
FromTextAndOptions(text, options) ==
  LET dsn == IntoDsn(text) IN
  IF dsn.ok THEN Ok([options EXCEPT !.dsn = dsn.value]) ELSE Err("invalid value for DSN")

-----------------------------------------------------------------------------
(* The setters of ClientOptions, with which an application builds its      *)
(* options: some panic on what they are given.                             *)

\* ClientOptions::dsn, for which the empty text is an error too.
SetDsn(options, text) ==
  LET dsn == ParseDsn(text) IN
  IF dsn.ok THEN Ok([options EXCEPT !.dsn = dsn.value]) ELSE Err("invalid value for DSN")

\* ClientOptions::maybe_release: None leaves a release that was set before.
SetRelease(options, release) == [options EXCEPT !.release = IF release = None THEN @ ELSE release]

\* ClientOptions::sample_rate: "outside" stands for the rates not in [0, 1].
SetRate(options, rate) ==
  IF rate = "outside" THEN Err("outside the allowed range")
  ELSE Ok([options EXCEPT !.sample_rate = rate])

\* before_send, before_breadcrumb, before_send_log, before_send_metric.
SetCallback(options, callback, answer) == [options EXCEPT ![callback] = answer]

\* in_app_include, in_app_exclude and integrations replace what was there ...
SetList(options, list, values) == [options EXCEPT ![list] = values]

\* ... and add_integration appends.
AddIntegration(options, integration) == [options EXCEPT !.integrations = Append(@, integration)]

\* The other setters (the proxies, attach_stacktrace, ...) replace what was there.
Set(options, option, value) == [options EXCEPT ![option] = value]

Setter(options, call) ==
  CASE call.set = "dsn"             -> SetDsn(options, call.value)
    [] call.set = "sample_rate"     -> SetRate(options, call.value)
    [] call.set = "maybe_release"   -> Ok(SetRelease(options, call.value))
    [] call.set = "add_integration" -> Ok(AddIntegration(options, call.value))
    [] call.set \in {"before_send", "before_breadcrumb", "before_send_log", "before_send_metric"} ->
         Ok(SetCallback(options, call.set, call.value))
    [] call.set \in {"in_app_include", "in_app_exclude", "integrations"} ->
         Ok(SetList(options, call.set, call.value))
    [] OTHER -> Ok(Set(options, call.set, call.value))

\* The options after a chain of setters, or the first panic.
Built(options, setters) ==
  FoldLeft(LAMBDA acc, call : IF acc.ok THEN Setter(acc.value, call) ELSE acc, Ok(options), setters)
-----------------------------------------------------------------------------
(* sentry::init *)

DefaultIntegrations ==
  <<"attach-stacktrace", "debug-images", "contexts", "panic", "process-stacktrace">>

\* The default integrations go first: events pass them in this order.
OrderedIntegrations(options) ==
  (IF options.default_integrations THEN DefaultIntegrations ELSE <<>>) \o options.integrations

OrElse(option, otherwise) == IF option # None THEN option ELSE otherwise

\* A DSN of the environment that cannot be parsed counts as none.
EnvDsn(env) ==
  IF env.SENTRY_DSN = None THEN None
  ELSE LET dsn == ParseDsn(env.SENTRY_DSN) IN IF dsn.ok THEN dsn.value ELSE None

\* The environment an application is in that nobody named.
BuildEnvironment(env) == IF env.debug_assertions THEN "development" ELSE "production"

\* The variables of proxies: the one in capitals first.
HttpProxyVar(env)  == OrElse(env.HTTP_PROXY, env.http_proxy)
HttpsProxyVar(env) == OrElse(env.HTTPS_PROXY, env.https_proxy)

\* Mutant: the environment goes before the options.
ApplyDefaults_EnvFirst(options, env) ==
  LET http == OrElse(options.http_proxy, HttpProxyVar(env)) IN
  [options EXCEPT
     !.transport = OrElse(@, "default"), !.integrations = OrderedIntegrations(options),
     !.dsn = OrElse(EnvDsn(env), @), !.release = OrElse(env.SENTRY_RELEASE, @),
     !.environment = OrElse(OrElse(env.SENTRY_ENVIRONMENT, @), BuildEnvironment(env)),
     !.http_proxy = http, !.https_proxy = OrElse(OrElse(@, HttpsProxyVar(env)), http),
     !.accept_invalid_certs = IF env.SSL_VERIFY = None THEN @ ELSE env.SSL_VERIFY = "false"]

\* apply_defaults: an option that is set is kept, except that SSL_VERIFY decides
\* alone when it is there; anything but "false" asks for verification.
ApplyDefaults(options, env) ==
  LET http == OrElse(options.http_proxy, HttpProxyVar(env)) IN
  [options EXCEPT
     !.transport = OrElse(@, "default"), !.integrations = OrderedIntegrations(options),
     !.dsn = OrElse(@, EnvDsn(env)), !.release = OrElse(@, env.SENTRY_RELEASE),
     !.environment = OrElse(OrElse(@, env.SENTRY_ENVIRONMENT), BuildEnvironment(env)),
     !.http_proxy = http, !.https_proxy = OrElse(OrElse(@, HttpsProxyVar(env)), http),
     !.accept_invalid_certs = IF env.SSL_VERIFY = None THEN @ ELSE env.SSL_VERIFY = "false"]

\* Integration::setup: the contexts integration names the server, and the panic
\* integration hooks the panic handler (Pipeline).
SetUp(integration, options) ==
  IF integration = "contexts" THEN [options EXCEPT !.server_name = OrElse(@, "host")] ELSE options

\* Client::with_options, the part about options: the integrations are set up
\* in order after the transport was made.
SetUpAll(options) == FoldLeft(LAMBDA o, i : SetUp(i, o), options, options.integrations)

\* build_envelope_sender: something is sent only with a DSN and a transport.
HasSender(options) == options.dsn # None /\ options.transport # None
=============================================================================
