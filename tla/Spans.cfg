SPECIFICATION Spec
CONSTANTS
  Threads = {t1, t2}
  Requests = {r1, r2}
  Nodes = {n1, n2, n3}
  None = None
  Remote = Remote
  MainHub = MainHub
  MaxSpans = 0
  MaxEntered = 2
  TracingOptions <- MCTracingOptions
  Headers <- MCHeaders
  SdkOrgs <- MCOrgs
  Strategies <- MCStrategies
  Drivers = {"api", "tracing", "otel", "tower", "actix"}
INVARIANTS SettledOnce TraceTree CurrentSpan SpanMapMatches RequestsSettled RequestsIsolated
SYMMETRY MCSymmetry
CHECK_DEADLOCK FALSE
