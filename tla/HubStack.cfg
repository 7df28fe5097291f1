SPECIFICATION Spec
CONSTANTS
  Threads = {main, t2}
  Main = main
  Tasks = {f1, f2}
  Clients = {c1}
  NoClient = none
  NoHub = nohub
  MaxBreadcrumbs = 1
  MaxCalls = 4
  MaxDepth = 2
  Apps <- MCApps
INVARIANTS TypeOK EventsUnmixed GuardsInOrder
PROPERTIES CallsReturnUnlessReentered
CHECK_DEADLOCK FALSE
