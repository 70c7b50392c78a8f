CONSTANTS
  Github = {g1}
  HackerOne = {h1}
  MaxTasks = 2
  Calls = {c1}
  Drain = drain
  None = None
  MaxRequests = 2
  MaxFaults = 1
SPECIFICATION Spec
INVARIANTS Inv PublishedOnce ScoringInHand RunInHand
PROPERTIES ClaimedIsKept ReconcileHeals
CHECK_DEADLOCK FALSE
