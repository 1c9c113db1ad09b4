CONSTANTS
  Programs <- SingleFunction
  PureGrouping = FALSE
SPECIFICATION GroupingSpec
INVARIANTS
  DifferingPathsWarned
CHECK_DEADLOCK FALSE
