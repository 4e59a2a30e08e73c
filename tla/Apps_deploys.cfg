SPECIFICATION DeploySpec
CONSTANTS
  a = a
  b = b
  Sessions = {s1, s2}
  s1 = s1
  s2 = s2
  u1 = u1
  u2 = u2
  Slugs = {a, b}
  Nobody = Nobody
  OwnerOf <- TwoOwners
  Ready = {s1, s2}
  NumPorts = 1
  NumDeploys = 2
  MaxEvents = 1
  MayFail = TRUE
  MayCancel = TRUE
  Kinds = {TRUE, FALSE}
SYMMETRY Alike
VIEW DeployView
CHECK_DEADLOCK FALSE
INVARIANT PortsApart
INVARIANT FilesAreOwn
PROPERTY AloneServed
