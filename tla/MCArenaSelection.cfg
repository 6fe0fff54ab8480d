SPECIFICATION Spec
CONSTANTS
  p1 = p1
  p2 = p2
  p3 = p3
  s1 = s1
  v1 = v1
  v2 = v2
  v3 = v3
  l1 = l1
  alice = alice
  bob = bob
  Nobody = Nobody
  Unfounded = Unfounded
  Lineages = {l1}
  Versions = {v1, v2, v3}
  Accounts = {alice, bob}
  LineageOf <- MCLineageOf
  ParentOf <- MCParentOf
  OperatorOf <- MCOperatorOf
  EPOCH_LENGTH = 1
  STALE_AFTER = 2
  HEARTBEAT_GRACE = 1
  DAY_LENGTH = 1
  COMMIT_PHASE = 0
  VERSION_BOND = 1
  DAILY_EXPENSE_CAP = 10
  HEARTBEAT_BURN = 1
  PROFIT_WINDOW_EPOCHS = 3
  SHARE_NUM = 1
  SHARE_DEN = 2
  StartTime = 1
  MaxTime = 4
  Genesis <- SelectionGenesis
  GenesisTotal = 3
  MaxMinted = 0
  MintAmounts = {}
  FundAmounts = {}
  DonateAmounts = {}
  ExpenseAmounts = {}
  MarketRewards = {}
  Advances = {1}
  Deadlines = {}
  Quorums <- OneQuorum
  Schedule <- SelectionSchedule
  Proofs = {p1, p2, p3}
  Salts = {s1}
  MaxRankedJobs = 2
  MaxMarketJobs = 0
SYMMETRY HeirSymmetry
CONSTRAINT SelectionStories
INVARIANT SeatAgrees
INVARIANT SuccessionEnds
PROPERTY ImplementsSeat
PROPERTY NoOutlierReveal
CHECK_DEADLOCK FALSE
