SPECIFICATION Spec
CONSTANTS
  v2 = v2
  v1 = v1
  Versions = {v1}
  StarterAmount = 3
  Price = 2
  Loops = 2
  HALT_TIMEOUT = 2
  RECEIPT_TTL = 2
  StartTime = 3
  MaxTime = 4
  MaxStarts = 2
PROPERTY HaltsOnlyWhenBroke
CHECK_DEADLOCK FALSE
