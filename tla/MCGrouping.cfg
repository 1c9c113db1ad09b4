CONSTANTS
  Programs <- SmallPrograms
  PureGrouping = FALSE
SPECIFICATION GroupingSpec
INVARIANTS
  GroupingTypeOK
  GroupsTile
  FlowPreserved
  UnreachableUngrouped
  LevelsExact
  GroupsAreStatements
  EntriesAlive
PROPERTIES
  GroupingTerminates
  FormsBasicBlocks
CHECK_DEADLOCK FALSE
