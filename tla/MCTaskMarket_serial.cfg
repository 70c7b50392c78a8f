\* One request at a time, failures and crashes anywhere: what retries may rely on, and that the
\* hourly callback in the end reviews what nobody reviewed.
CONSTANTS
  Users = {alice, bob}
  Pool = pool
  Tasks = {t1}
  GithubTasks = {}
  Subs = {s1, s2}
  NoTask = noTask
  NoSub = noSub
  NoUser = noUser
  Reqs = {r1}
  Rewards = {0, 1, 2}
  StartBalance = 1
  PoolBalance = 1
  MaxRequests = 4
  MaxTries = 2
  Conns = {c1}
  NoConn = noConn
  MaxDepth = 2
SPECIFICATION FairSpec
INVARIANTS PayoutOncePerWorker NoOverdraft
PROPERTY VerdictIsFinal StaleIsReviewed
CHECK_DEADLOCK FALSE
