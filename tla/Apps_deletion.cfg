SPECIFICATION DeletionSpec
CONSTANTS
  Sessions = {"s1", "s2"}
  Slugs = {"a"}
  Nobody = "nobody"
  NoSession = "none"
  OwnerOf <- OneOwner
  ProjectOf <- OneProject
  NumPorts = 1
  NumDeploys = 1
  NumDeletes = 1
  MaxPosts = 1
  Ready = {"s1"}
  MaxEvents = 1
  MayFail = TRUE
  MayCancel = FALSE
  Kinds = {TRUE}
CHECK_DEADLOCK FALSE
INVARIANT DeletionTypeOK
INVARIANT NoTrace
INVARIANT NeverStuck
VIEW DeletionView
