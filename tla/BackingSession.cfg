SPECIFICATION Spec
CONSTANTS
  None = None
  Lost = Lost
  Conns = {c1, c2}
  Controllers = {}
  Uids = {u1}
  Admins = {}
  Uuids = {i1}
  Offered = {"console"}
  MaxBridges = 2
  MaxAgain = 0
  MaxRestarts = 0
INVARIANTS
  BackingSessionFree
