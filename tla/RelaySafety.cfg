SPECIFICATION Spec
CONSTANTS
  None = None
  Lost = Lost
  Conns = {c1, c2}
  Controllers = {k1}
  Uids = {u1, u2}
  Admins = {u1, u2}
  Uuids = {i1}
  Offered = {"console", "virtual"}
  MaxBridges = 2
  MaxAgain = 1
  MaxRestarts = 0
SYMMETRY Symmetry
INVARIANTS
  TypeOK
  OneSlotPerDesktop
  NoStaleHolder
  BridgeCap
  ActiveIsAttached
  SessionOfOneUser
PROPERTIES
  EndedOnPurpose
  ImplementsAccess
