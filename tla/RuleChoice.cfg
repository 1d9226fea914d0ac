SPECIFICATION Spec
CONSTANTS
  Ids = {1, 2, 3}
  RuleRows <- Rows
  TargetLabels <- Labels
  Blank = Blank
  Unknown = "Unknown"
  NoMatch = NoMatch
  Undecided = Undecided
INVARIANTS
  TypeOK
  LoopKeepsBest
PROPERTY ImplementsPrecedence
CHECK_DEADLOCK FALSE
