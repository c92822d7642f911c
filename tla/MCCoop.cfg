SPECIFICATION Spec
CONSTANTS
  MaxId = 2
  Values = {"x"}
  StepBudgets = {0, 2}
  WorkerCounts = {0, 1}
  StepScale = 1
  MaxSpawns = 4
  MaxResumes = 2
INVARIANTS FuturesAreAccounted CutShortIsReported
CHECK_DEADLOCK FALSE
