SPECIFICATION Spec
CONSTANTS
  MaxConnects = 2
  MaxCommands = 1
  Overlap = FALSE
CHECK_DEADLOCK FALSE
INVARIANTS ShutDown ShownIsTrue OwnRouteNamed
