CONSTANTS
  Names = {"", "new", "m", "f", "g"}
  Source <- FourLines
  Nodes = {1, 2, 4}
  Header = {1}
  FinalNewline = {TRUE, FALSE}
  Identifiers = {"", "f", "new"}
  HeaderErrors = {{}}
  Heights = {0, 2}
  MaxOps = 2
SPECIFICATION Spec
INVARIANTS TargetsByIdentity
CHECK_DEADLOCK FALSE
