SPECIFICATION Spec
CONSTANTS
  v1 = v1
  v2 = v2
  v3 = v3
  l1 = l1
  alice = alice
  bob = bob
  p1 = p1
  p2 = p2
  p3 = p3
  s1 = s1
  Zero = Zero
  Arena = Arena
  Unfounded = Unfounded
  LineageOf <- MCLineageOf
  ParentOf <- MCParentOf
  OperatorOf <- MCOperatorOf
  Lineages = {l1}
  Versions = {v1, v2}
  Accounts = {alice, bob}
  EPOCH_LENGTH = 1
  STALE_AFTER = 2
  HEARTBEAT_GRACE = 1
  COMMIT_PHASE_BLOCKS = 0
  PROFIT_WINDOW_EPOCHS = 3
  VERSION_BOND = 1
  DAILY_EXPENSE_CAP = 1
  StartTime = 1
  MaxTime = 4
  Holdings <- Bob4
  Donations = {2}
  Fundings = {2}
  Gifts = {1}
  Expenses = {1}
  Schedule <- TwoLeaves
  Costs = {0, 1}
  Orders <- OneOrder
  Proofs = {p1, p2}
  Salts = {s1}
  MaxMarketJobs = 1
SYMMETRY ProofSymmetry
CONSTRAINT Stories
INVARIANT TypeOK
INVARIANT Accounted
INVARIANT DeadVaultsEmpty
INVARIANT RankIsSettledJobs
PROPERTY SurplusExplained
PROPERTY ImplementsSeat
PROPERTY EjectedEarnedNothing
PROPERTY NoOutlierReveal
PROPERTY ImplementsEscrow
CHECK_DEADLOCK FALSE
