CONSTANTS
  Uris = {a, b}
  MaxSends = 3
SPECIFICATION FairSpec
INVARIANTS AnswersAreExact MarkersMatchWhenQuiet
PROPERTIES KeepsUp
CHECK_DEADLOCK FALSE
