CONSTANTS
  None = None
  Scenarios <- AllScenarios
  HeaderLists <- AllHeaders
  Schedules <- AllSchedules
  NumberOf <- NumberOfToken
  TraceIds = {"t1", "t2", "scope_trace"}
  SpanIds = {"s1", "scope_span"}
  OrgIds = {"7", "8"}
  MaxCalls = 3
  TenthsOf <- Tenths
  DateOf <- Dates
  Answers <- AllAnswers
  DefaultDelay = 3
  LastTime = 9
  MaxAnswers = 2
  MaxNow = 4
  MaxInits = 2
SPECIFICATION Spec
INVARIANTS OneFate SessionCounts InAppDecided Precedence OneTrace
INVARIANTS RequestMatchesDsn ReadBack CrontabGrammar RecordsShown LimitsAsAsked
CHECK_DEADLOCK FALSE
