CONSTANTS
  ScummScripts <- SmallScumm
  WorldScripts <- SmallWorld
  Rereads = 6
SPECIFICATION StackCodeSpec
INVARIANTS
  ScriptTypeOK
  ScriptsReadWhole
  JumpsHitInstructions
  LevelsTracked
  ValuesReadBack
  OperandsInOrder
CHECK_DEADLOCK FALSE
