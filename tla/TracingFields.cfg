CONSTANTS
  None = None
  Scenarios <- TracingScenarios
  HeaderLists <- AllHeaders
  Schedules <- AllSchedules
  NumberOf <- NumberOfToken
  TraceIds = {"t1", "t2", "scope_trace"}
  SpanIds = {"s1", "scope_span"}
  OrgIds = {"7", "8"}
  MaxCalls = 1
  TenthsOf <- Tenths
  DateOf <- Dates
  Answers <- AllAnswers
  DefaultDelay = 3
  LastTime = 9
  MaxAnswers = 2
  MaxNow = 4
  MaxInits = 2
SPECIFICATION Spec
INVARIANT FieldsKept
CHECK_DEADLOCK FALSE
