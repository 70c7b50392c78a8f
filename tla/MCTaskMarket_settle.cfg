\* Two workers of one task are both paid.
CONSTANTS
  Users = {alice, bob}
  Pool = pool
  Tasks = {t1}
  GithubTasks = {}
  Subs = {s1, s2}
  NoTask = noTask
  NoSub = noSub
  NoUser = noUser
  Reqs = {r1}
  Rewards = {1}
  StartBalance = 1
  PoolBalance = 2
  MaxRequests = 5
  MaxTries = 1
  Conns = {c1}
  NoConn = noConn
  MaxDepth = 2
SPECIFICATION Spec
INVARIANT SettledOnce
CHECK_DEADLOCK FALSE
