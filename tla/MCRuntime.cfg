SPECIFICATION Spec
CONSTANTS
  v2 = v2
  v1 = v1
  Versions = {v1, v2}
  StarterAmount = 3
  Price = 2
  Loops = 2
  HALT_TIMEOUT = 2
  RECEIPT_TTL = 2
  StartTime = 3
  MaxTime = 5
  MaxStarts = 3
INVARIANT TypeOK
INVARIANT WalletAgrees
INVARIANT IncomeHasCost
INVARIANT NoDoubleCount
PROPERTY HeartbeatMatchesLedger
PROPERTY RunEnds
CHECK_DEADLOCK FALSE
