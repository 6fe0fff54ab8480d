SPECIFICATION Spec
CONSTANTS
  pool = pool
  a1 = a1
  a2 = a2
  r1 = r1
  r2 = r2
  Accounts = {pool, a1, a2}
  commonsPool = pool
  Releases = {r1, r2}
  InitialSupply = 4
  EmissionPeriod = 2
  StarterCredit = 1
  MaxTime = 3
  MaxSupply = 8
  Amounts = {1}
SYMMETRY HolderSymmetry
INVARIANT SupplyIsBalances
INVARIANT CirculationIsCredit
CHECK_DEADLOCK FALSE
