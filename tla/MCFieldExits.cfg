CONSTANTS
  Files <- MainScripts
  ScriptsPerEntity = 3
  kSectionPointersSize = 28
SPECIFICATION FieldSpec
INVARIANTS
  OnStartEndsAtReturn
CHECK_DEADLOCK FALSE
