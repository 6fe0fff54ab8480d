SPECIFICATION Spec
CONSTANTS
  p1 = p1
  p2 = p2
  p3 = p3
  s1 = s1
  v1 = v1
  v2 = v2
  v3 = v3
  l1 = l1
  alice = alice
  bob = bob
  Nobody = Nobody
  Unfounded = Unfounded
  Lineages = {l1}
  Versions = {v1, v2}
  Accounts = {alice, bob}
  LineageOf <- MCLineageOf
  ParentOf <- MCParentOf
  OperatorOf <- MCOperatorOf
  EPOCH_LENGTH = 2
  STALE_AFTER = 4
  HEARTBEAT_GRACE = 2
  DAY_LENGTH = 1
  COMMIT_PHASE = 1
  VERSION_BOND = 1
  DAILY_EXPENSE_CAP = 10
  HEARTBEAT_BURN = 1
  PROFIT_WINDOW_EPOCHS = 3
  SHARE_NUM = 1
  SHARE_DEN = 2
  StartTime = 1
  MaxTime = 8
  Genesis <- BooksGenesis
  GenesisTotal = 15
  MaxMinted = 16
  MintAmounts = {1}
  FundAmounts = {2}
  DonateAmounts = {12}
  ExpenseAmounts = {1, 5, 6}
  MarketRewards = {}
  Advances = {1}
  Deadlines = {}
  Quorums <- BadQuorum
  Schedule <- StaleSchedule
  Proofs = {p1, p2}
  Salts = {}
  MaxRankedJobs = 2
  MaxMarketJobs = 0
SYMMETRY ProofSymmetry
CONSTRAINT BooksStories
INVARIANT StaleForfeitsBond
INVARIANT MarkCoversProfit
INVARIANT ClocksAgree
INVARIANT TypeOK
INVARIANT Conservation
CHECK_DEADLOCK FALSE
