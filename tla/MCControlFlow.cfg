CONSTANTS
  Programs <- SmallPrograms
  PureGrouping = FALSE
  Base = 0
SPECIFICATION Spec
INVARIANTS
  TypeOK
  AnalysisDefined
PROPERTIES
  ElseEndsKept
  FlaggedOnce
  AnalysisTerminates
CHECK_DEADLOCK FALSE
