SPECIFICATION Spec
CONSTANTS
  NumEvents = 1
  Publishers = {"agent"}
  OwnerOf <- OneThread
  Deltas = {}
  MaxQueue = 1
  Clients = {1, 2}
  NumSockets = 2
  MaxTime = 2
  Straddles = TRUE
  DbMayFail = FALSE
  FetchMayFail = TRUE
  Initial = 1
  Cap = 2
INVARIANT TypeOK
PROPERTY PageServed
INVARIANT AskedOnce
VIEW FeedView
\* Sockets and events run out.
CHECK_DEADLOCK FALSE
