SPECIFICATION ToolchainSpec
CONSTANT MaxU32 = 3
INVARIANTS
  ResolutionsHold
  ManifestsAreExact
  CommandsBehave
  RequestsAreServed
  MigrationsAreExact
  MessagesAreExact
  EditorIsExact
