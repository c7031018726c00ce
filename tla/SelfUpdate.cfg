SPECIFICATION Spec
CONSTANTS
  None = None
  MaxVersion = 3
  Keep = 1
INVARIANTS
  TypeOK
  InstalledPayloadKept
  HonestOutcome
  UndoAvailable
PROPERTIES
  ImplementsSwitch
