SPECIFICATION FairSpec
CONSTANTS
  p1 = p1
  p2 = p2
  p3 = p3
  s1 = s1
  v1 = v1
  v2 = v2
  v3 = v3
  l1 = l1
  alice = alice
  bob = bob
  Nobody = Nobody
  Unfounded = Unfounded
  Lineages = {l1}
  Versions = {v1, v2}
  Accounts = {alice, bob}
  LineageOf <- MCLineageOf
  ParentOf <- MCParentOf
  OperatorOf <- MCOperatorOf
  EPOCH_LENGTH = 1
  STALE_AFTER = 2
  HEARTBEAT_GRACE = 1
  DAY_LENGTH = 1
  COMMIT_PHASE = 1
  VERSION_BOND = 1
  DAILY_EXPENSE_CAP = 10
  HEARTBEAT_BURN = 2
  PROFIT_WINDOW_EPOCHS = 3
  SHARE_NUM = 1
  SHARE_DEN = 2
  StartTime = 1
  MaxTime = 4
  Genesis <- MarketGenesis
  GenesisTotal = 7
  MaxMinted = 0
  MintAmounts = {}
  FundAmounts = {}
  DonateAmounts = {2}
  ExpenseAmounts = {1}
  MarketRewards = {3}
  Advances = {1}
  Deadlines = {2, 3}
  Quorums <- OneQuorum
  Schedule <- MarketSchedule
  Proofs = {p1}
  Salts = {}
  MaxRankedJobs = 1
  MaxMarketJobs = 1
INVARIANT Conservation
INVARIANT DeadVaultsEmpty
INVARIANT VaultsReconcile
INVARIANT RankIsSettledJobs
PROPERTY EscrowReleased
PROPERTY ImplementsEscrow
CHECK_DEADLOCK FALSE
