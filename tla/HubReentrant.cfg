SPECIFICATION Spec
CONSTANTS
  Threads = {main, t2}
  Main = main
  Tasks = {f1, f2}
  Clients = {c1}
  NoClient = none
  NoHub = nohub
  MaxBreadcrumbs = 1
  MaxCalls = 3
  MaxDepth = 2
  Apps <- MCLogging
PROPERTIES CallsReturn
CHECK_DEADLOCK FALSE
