CONSTANTS
  Programs <- SmallPrograms
  PureGrouping = FALSE
  Base = 0
  Signatures = TRUE
  AllocationsAscend = FALSE
SPECIFICATION GenSpec
INVARIANTS
  GenTypeOK
  IndentationBalanced
  StatementsPrintedOnce
  StackFollowsPath
PROPERTIES
  GenerationTerminates
CHECK_DEADLOCK FALSE
