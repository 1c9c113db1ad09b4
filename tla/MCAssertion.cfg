CONSTANTS
  Programs <- ForwardFlow
  PureGrouping = FALSE
  Base = 0
  Signatures = FALSE
  AllocationsAscend = TRUE
SPECIFICATION GenSpec
INVARIANTS
  AssertionHolds
CHECK_DEADLOCK FALSE
