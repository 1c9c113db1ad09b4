CONSTANTS
  Programs <- NestedPrograms
  PureGrouping = FALSE
  Base = 0
  Signatures = FALSE
  AllocationsAscend = TRUE
SPECIFICATION GenSpec
INVARIANTS
  ConditionsRecovered
  LoopJumpsRecovered
  LoopJumpsSound
  ElsesRecovered
  SourceRecovered
CHECK_DEADLOCK FALSE
