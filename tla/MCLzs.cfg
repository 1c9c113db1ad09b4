CONSTANTS
  Nibble = 2
  ControlBits = 2
  Compressed <- SmallFiles
SPECIFICATION LzsSpec
INVARIANTS
  LzsTypeOK
PROPERTIES
  DecodesRing
CHECK_DEADLOCK FALSE
