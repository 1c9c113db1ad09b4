CONSTANTS
  Programs <- CrossingPrograms
  PureGrouping = FALSE
  Base = 0
SPECIFICATION Spec
INVARIANTS
  ElseBlocksNest
CHECK_DEADLOCK FALSE
