SPECIFICATION RankingSpec
CONSTANTS
  v2 = v2
  v1 = v1
  Versions = {v1, v2}
  StarterAmount = 3
  Price = 2
  Loops = 2
  HALT_TIMEOUT = 1
  RECEIPT_TTL = 1
  StartTime = 3
  MaxTime = 5
  MaxStarts = 2
  SURVIVAL_WINDOW = 1
  N_TOP = 1
SYMMETRY VersionSymmetry
INVARIANT AliveIsNotSilent
PROPERTY RankNeverFlatters
CHECK_DEADLOCK FALSE
