SPECIFICATION FairSpec
CONSTANTS
  None = None
  Lost = Lost
  Conns = {c1}
  Controllers = {k1}
  Uids = {u1}
  Admins = {}
  Uuids = {i1}
  Offered = {"wayland-vnc"}
  MaxBridges = 1
  MaxAgain = 0
  MaxRestarts = 1
PROPERTIES
  GhostsReaped
