SPECIFICATION FairSpec
CONSTANTS
  None = None
  Conns = {c1}
  Creds = {k1, k2, k3, k4, k5, k6}
  Ids = {d1, d2, d3, d4}
PROPERTIES
  DeadDesktopRecovers
  IdleReclaimed
