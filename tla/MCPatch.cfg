CONSTANTS
  Names = {"", "new", "m", "f", "g"}
  Source <- FiveLines
  Nodes = {1, 2, 4, 5}
  Header = {1}
  FinalNewline = {TRUE, FALSE}
  Identifiers = {"", "f", "new"}
  HeaderErrors = {{}}
  Heights = {0, 2}
  MaxOps = 3
SPECIFICATION Spec
INVARIANTS BottomUpIsExact PartialApply
CHECK_DEADLOCK FALSE
