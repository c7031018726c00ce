SPECIFICATION Spec
CONSTANTS
  None = None
  Required <- MCRequired
  Minimum <- MCMinimum
  Candidates <- MCCandidates
  Managers = {"dnf", "apt-get"}
  Inventories <- MCInventories
  MaxTx = 3
  MaxDeploys = 2
  MaxClock = 2
INVARIANTS
  TypeOK
  UndoneWasBracketed
  NeverUndoneTwice
  LatestIsLastWritten
  PanelAgrees
  CountsTheOutdated
PROPERTY SummaryTellsChange
