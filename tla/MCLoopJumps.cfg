CONSTANTS
  Programs <- AdjacentPrograms
  PureGrouping = FALSE
  Base = 0
  Signatures = FALSE
  AllocationsAscend = TRUE
SPECIFICATION GenSpec
INVARIANTS
  LoopJumpsInLoop
CHECK_DEADLOCK FALSE
