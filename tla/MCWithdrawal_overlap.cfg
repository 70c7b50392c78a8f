SPECIFICATION Spec
CONSTANTS
  NoUser = NoUser
  Pool = Pool
  NoId = NoId
  Bonus = 3
  PoolBalance = 4
  ChainBalance = 4
  MaxTries = 2
  Amounts = {2, 3}
  Users = {u1, u2}
  Ids = {i1, i2, i3}
  Reqs = {r1, r2}
SYMMETRY Symmetry
INVARIANT Inv CompletedWasMined
PROPERTY SettledIsFinal ImplementsLedger
CHECK_DEADLOCK FALSE
