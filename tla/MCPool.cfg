SPECIFICATION FairSpec
CONSTANTS
  MAX_WORKERS = 2
  StepScale = 1
  Bodies = {"returns", "panics", "payload_drop_panics"}
  StepBudgets = {0, 1, 2}
  MaxTasks = 2
  MaxRuns = 2
INVARIANTS Accounting NoSleeperAfterShutdown SilentReportIsComplete PoolContract
PROPERTIES ImplementsTaskPool RunReturns
CHECK_DEADLOCK FALSE
