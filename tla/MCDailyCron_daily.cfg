SPECIFICATION FairSpec
CONSTANTS
  NoConn = NoConn
  a1 = a1
  a2 = a2
  b1 = b1
  b2 = b2
  serverA = serverA
  serverB = serverB
  Conns <- MCConns
  Servers <- MCServers
  ServerOf <- MCServerOf
  MaxDepth = 2
  Budget = 1
  Rewards = {1}
  MaxTries = 2
  MaxProblems = 1
  MaxDay = 2
INVARIANT InjectedOncePerDay OneRunAtATime
PROPERTY RunsEnd
CHECK_DEADLOCK FALSE
