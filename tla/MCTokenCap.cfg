SPECIFICATION Spec
CONSTANTS
  pool = pool
  a1 = a1
  a2 = a2
  r1 = r1
  r2 = r2
  Accounts = {pool, a1}
  commonsPool = pool
  Releases = {r1}
  InitialSupply = 2
  EmissionPeriod = 2
  StarterCredit = 1
  MaxTime = 3
  MaxSupply = 20
  Amounts = {1}
INVARIANT EmissionCapped
CHECK_DEADLOCK FALSE
