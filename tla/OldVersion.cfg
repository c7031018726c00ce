SPECIFICATION SmoothSpec
CONSTANTS
  None = None
  MaxVersion = 3
  Keep = 1
INVARIANTS
  FourIsTheOldVersion
