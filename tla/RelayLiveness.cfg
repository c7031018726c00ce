SPECIFICATION FairSpec
CONSTANTS
  None = None
  Lost = Lost
  Conns = {c1, c2}
  Controllers = {k1}
  Uids = {u1}
  Admins = {}
  Uuids = {i1}
  Offered = {"console", "wayland-vnc"}
  MaxBridges = 2
  MaxAgain = 0
  MaxRestarts = 1
PROPERTIES
  TerminatedEnds
  ImplementsFairAccess
  StaleEntriesPruned
