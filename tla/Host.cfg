INIT HostInit
NEXT HostNext
CONSTANTS
  Agents = {a1, a2}
  Pids = {p1, p2, p3, p4}
  p1 = p1
  p2 = p2
  p3 = p3
  p4 = p4
  a1 = a1
  a2 = a2
  s1 = s1
  s2 = s2
  b1 = b1
  b2 = b2
  Nobody = Nobody
  NoOne = NoOne
  Proxy = Proxy
  Server = Server
  Init1 = Init1
  MaxStarts = 4
  MaxStops = 1
  Sessions = {s1, s2}
  Main = Main
  Detached = Detached
  BranchOf <- Branching
  Strategies = {"session", "current"}
  MaxEdits = 2
  MaxGit = 1
  MaxJobs = 2
  MaxPushes = 1
CHECK_DEADLOCK FALSE
SYMMETRY Symmetry
INVARIANTS
  HostTypeOK
PROPERTIES
  OnlyOwnStopped
  TurnEndClean
  
