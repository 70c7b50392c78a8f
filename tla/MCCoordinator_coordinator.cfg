SPECIFICATION FairSpec

CONSTANTS
  NoItem = NoItem
  NoAgent = NoAgent
  p2 = p2
  i1 = i1
  Items = {p1, p2, i1}
  Plans = {p1, p2}
  Needs <- OnePlanWaits
  Agents = {w1, w2}
  MaxAsg = 2
  MaxPerTick = 2
  ScanLimit = 2
  RoleLimit = 1
  MaxActive = 2
  Calls = {c1, c2}
  MaxRequests = 2
INVARIANT Inv PlannedOnce Woken
PROPERTY  ItemUntaken AgentFree LookedAt
CHECK_DEADLOCK FALSE
