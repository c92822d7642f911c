SPECIFICATION Spec
CONSTANTS
  Publishers = {"p1", "p2"}
  Readers = {"r1"}
  Packages <- ThreePackages
  Bodies = {"x"}
  MayPublish <- p1OwnsVersion1
  MayFail = TRUE
  MaxAttempts = 3
INVARIANTS ListedIsFetched OnlyRacesForget
PROPERTIES TarballIsImmutable
CHECK_DEADLOCK FALSE
