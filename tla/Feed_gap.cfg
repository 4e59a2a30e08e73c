SPECIFICATION Spec
CONSTANTS
  NumEvents = 1
  Publishers = {"agent"}
  OwnerOf <- OneThread
  Deltas = {}
  MaxQueue = 1
  Clients = {1, 2}
  NumSockets = 2
  MaxTime = 2
  Straddles = TRUE
  DbMayFail = FALSE
  FetchMayFail = FALSE
  Initial = 1
  Cap = 2
INVARIANT GapReplayed
\* Sockets and events run out.
CHECK_DEADLOCK FALSE
