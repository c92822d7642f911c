SPECIFICATION Spec
CONSTANTS
  Publishers = {"p1", "p2"}
  Readers = {"r1"}
  Packages <- TwoVersions
  Bodies = {"x"}
  MayPublish <- p1OwnsVersion1
  MayFail = FALSE
  MaxAttempts = 2
INVARIANT IndexRemembers
CHECK_DEADLOCK FALSE
