CONSTANTS
  Files <- SmallFields
  ScriptsPerEntity = 3
  kSectionPointersSize = 28
SPECIFICATION FieldSpec
INVARIANTS
  FieldTypeOK
  BodiesMatch
  OnStartEndsAtReturnApart
  OperandsPaired
  BlocksMatch
  CharacterIdsKept
  RequestsNameScripts
PROPERTIES
  DecompileEnds
CHECK_DEADLOCK FALSE
