SPECIFICATION Spec
CONSTANTS
  NoUser = NoUser
  Pool = Pool
  NoId = NoId
  Bonus = 3
  PoolBalance = 4
  ChainBalance = 4
  MaxTries = 2
  Amounts = {2, 3}
  Users = {u1}
  Ids = {i1}
  Reqs = {r1}
INVARIANT RefundedIsNotMined
CHECK_DEADLOCK FALSE
