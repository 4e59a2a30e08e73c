SPECIFICATION BusSpec
CONSTANTS
  NumEvents = 3
  Publishers = {"agent", "sub"}
  OwnerOf <- TwoThreads
  Deltas = {1}
  MaxQueue = 2
  Clients = {1, 2}
  MaxTime = 2
  Straddles = TRUE
  DbMayFail = TRUE
INVARIANT BusTypeOK
INVARIANT NoFrameUncounted
INVARIANT StreamIsSuffix
INVARIANT ThreadOrder
PROPERTY KeepsLifecycle
VIEW BusView
\* Events run out.
CHECK_DEADLOCK FALSE
