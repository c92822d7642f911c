SPECIFICATION Spec
CONSTANTS
  Paths <- MCPaths
  Contents <- MCContents
  Kept <- MCKept
INVARIANTS
  ReplayIsExact
  CyclesAreFound
