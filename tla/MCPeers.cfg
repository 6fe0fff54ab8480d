SPECIFICATION Spec
CONSTANTS
  v1 = v1
  v2 = v2
  Versions = {v1, v2}
  HALT_TIMEOUT = 1
  SURVIVAL_WINDOW = 1
  Ordered = {v1}
  StartTime = 3
  MaxTime = 6
INVARIANT TypeOK
INVARIANT RoutableSeenRecently
PROPERTY SuspectServesWindow
PROPERTY HaltedMeansSilent
