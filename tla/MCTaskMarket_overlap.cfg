\* A GitHub task: reviews, the merge poller and the hourly callback overlap.
CONSTANTS
  Users = {alice, bob}
  Pool = pool
  Tasks = {t1}
  GithubTasks = {t1}
  Subs = {s1}
  NoTask = noTask
  NoSub = noSub
  NoUser = noUser
  Reqs = {r1, r2}
  Rewards = {1}
  StartBalance = 1
  PoolBalance = 1
  MaxRequests = 4
  MaxTries = 1
  Conns = {c1, c2}
  NoConn = noConn
  MaxDepth = 2
SPECIFICATION Spec
SYMMETRY Interchangeable
INVARIANTS Inv ApprovedWasPaid OnlyWorkersArePaid CompletedWasApproved LedgerExplainsBalances
CHECK_DEADLOCK FALSE
