\* Two payments of one worker overlap.
CONSTANTS
  Users = {alice, bob}
  Pool = pool
  Tasks = {t1}
  GithubTasks = {}
  Subs = {s1, s2}
  NoTask = noTask
  NoSub = noSub
  NoUser = noUser
  Reqs = {r1, r2}
  Rewards = {1}
  StartBalance = 1
  PoolBalance = 5
  MaxRequests = 5
  MaxTries = 1
  Conns = {c1, c2}
  NoConn = noConn
  MaxDepth = 2
SPECIFICATION Spec
INVARIANT PayoutOncePerWorker
CHECK_DEADLOCK FALSE
