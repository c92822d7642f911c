SPECIFICATION FairSpec
CONSTANTS
  MAX_PENDING_CONNECTIONS = 2
  HandlerEnds = {"returns", "panics", "payload_drop_panics"}
  MaxConnections = 3
INVARIANTS ShutdownDrains ReportIsExact
PROPERTIES ImplementsTaskPool ShutdownReturns ConnectionsArePopped
CHECK_DEADLOCK FALSE
