SPECIFICATION Spec
CONSTANTS
  None = None
  MaxVersion = 2
  Writers = {"root", "relay"}
INVARIANTS
  TypeOK
  RefreshNotStuck
PROPERTIES
  OutcomeShown
