SPECIFICATION FairSpec

CONSTANTS
  NoGoal = NoGoal
  NoItem = NoItem
  Items = {i1, i2}
  Runs = {r1}
  Goals = {g1, g2}
  MaxAsg = 2
  MaxReviews = 1
  MaxOpen = 1
  MaxGoals = 1
  MaxRequests = 4
  Calls = {c1}
  ByHand = {"ACCEPTED", "READY"}
  ReviewRouted = TRUE
INVARIANT Inv
PROPERTY StaleDoesNotReopen SentBackWhenNobodyWorks LimitsKept ReviewGate GoalEndsClean StaleAssignmentEnds
CHECK_DEADLOCK FALSE
