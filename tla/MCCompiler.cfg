SPECIFICATION CompilerSpec
CONSTANTS
  MAX_CALL_DEPTH = 3
  HostStack = 6
INVARIANTS
  RunsAreContained
  CallsAreGranted
  TypesAreSound
  MatchesAreExact
  FoldingIsFaithful
  BorrowsAreReal
  EffectsAreExact
  GenericsAreExact
  ImplsAreCoherent
  SourceIsReadExactly
