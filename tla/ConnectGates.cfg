SPECIFICATION Spec
CONSTANTS
  None = None
  h1 = h1
  h2 = h2
  Conns = {c1}
  Users = {u1, u2, u3}
  Tokens = {t1}
  Scenarios = {"console", "remote", "isolated"}
  AdminGroup = {u1}
  ShadowGroup = {u2}
  ShadowOn = TRUE
  RemoteAdminOnly = TRUE
  Hosts <- MCHosts
  Ports <- MCPorts
  AllowSpec <- MCAllowSpec
INVARIANTS
  TypeOK
  AdminIsProven
  TokenIsOwn
  SeatedUserGuarded
  NothingLeavesTheHost
