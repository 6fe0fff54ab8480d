----------------------------- MODULE ArenaState -----------------------------
(***************************************************************************)
(* The state of the arena (src/arena-v0.2.0/model/arena.py, class Arena):  *)
(* constants, variables, constructor and the read-only helpers that every  *)
(* entrypoint uses.  The entrypoints are in ArenaMoney, ArenaVersions,     *)
(* ArenaRanked, ArenaMarket and ArenaSelection; Arena composes them.       *)
(*                                                                         *)
(* An operator introduced as a mutant of another is a mistake the code     *)
(* could have made there; no specification uses it.                        *)
(*                                                                         *)
(* A version id is the hash of lineage, parent, operator and declaration,  *)
(* so those are functions of the id (LineageOf, ParentOf, OperatorOf).     *)
(* Jobs are numbered by their creation nonce: job j is element j of the    *)
(* sequence.  A call the code rejects before its first assignment is a     *)
(* guard; a call that raises AFTER an assignment is part of the action,    *)
(* because a Python exception does not roll the assignment back.           *)
(***************************************************************************)
EXTENDS Integers, Sequences, FiniteSets, Functions

CONSTANTS
  Lineages, Versions, Accounts,   \* ids
  LineageOf, ParentOf, OperatorOf,\* what a version id hashes
  Nobody,                         \* Python's None
  Unfounded,                      \* active_version has no such key
  EPOCH_LENGTH, STALE_AFTER, HEARTBEAT_GRACE, DAY_LENGTH, COMMIT_PHASE,
  VERSION_BOND, DAILY_EXPENSE_CAP, HEARTBEAT_BURN, PROFIT_WINDOW_EPOCHS,
  SHARE_NUM, SHARE_DEN            \* STALE_LINEAGE_SHARE_NUM / _DEN

CONSTANTS                         \* bounds and the inputs that callers draw from
  StartTime, MaxTime,             \* bound on the clock
  Genesis, GenesisTotal,          \* wallets minted to before the first call, and their sum
  MaxMinted,                      \* bound on total_minted
  MintAmounts, FundAmounts, DonateAmounts, ExpenseAmounts, MarketRewards,
  Advances,                       \* seconds a caller may advance by
  Deadlines,                      \* deadlines of market jobs
  Quorums,                        \* [signers, threshold] a registration may name
  Schedule,                       \* leaves authorize_ranked_job may be given
  Proofs, Salts,
  MaxRankedJobs, MaxMarketJobs    \* bounds on the job nonces

Never == -1                       \* last_positive_profit_at is None
Epochs == 0 .. (MaxTime \div EPOCH_LENGTH)
Days   == 0 .. (MaxTime \div DAY_LENGTH)
RankedJobIds == 1 .. MaxRankedJobs
MarketJobIds == 1 .. MaxMarketJobs

\* Ids are hashes and addresses of fixed width: there are finitely many.
ASSUME IdsAssumption ==
  /\ IsFiniteSet(Versions) /\ IsFiniteSet(Accounts)
  /\ Nobody \notin Versions /\ Unfounded \notin Versions /\ Nobody # Unfounded
  /\ LineageOf \in [Versions -> Lineages]
  /\ ParentOf \in [Versions -> Versions \cup {Nobody}]
  /\ OperatorOf \in [Versions -> Accounts]

ASSUME ClockAssumption ==
  /\ EPOCH_LENGTH \in Nat \ {0} /\ DAY_LENGTH \in Nat \ {0}
  /\ HEARTBEAT_GRACE \in Nat /\ COMMIT_PHASE \in Nat
  /\ STALE_AFTER \in Nat /\ STALE_AFTER >= 2 * EPOCH_LENGTH  \* 30 days, 7 days
  /\ StartTime \in Nat /\ MaxTime \in Nat /\ StartTime <= MaxTime
  /\ Advances \subseteq Nat /\ Deadlines \subseteq Nat

ASSUME AmountAssumption ==
  /\ VERSION_BOND \in Nat \ {0} /\ DAILY_EXPENSE_CAP \in Nat
  /\ HEARTBEAT_BURN \in Nat
  /\ PROFIT_WINDOW_EPOCHS \in Nat \ {0}
  /\ SHARE_NUM \in Nat /\ SHARE_DEN \in Nat \ {0} /\ SHARE_NUM <= SHARE_DEN
  /\ Genesis \in [Accounts -> Nat] /\ MaxMinted \in Nat
  /\ GenesisTotal \in Nat /\ GenesisTotal = SumFunction(Genesis)
  /\ MaxRankedJobs \in Nat /\ MaxMarketJobs \in Nat
  /\ MintAmounts \subseteq Nat \ {0} /\ FundAmounts \subseteq Nat \ {0}
  /\ DonateAmounts \subseteq Nat \ {0} /\ ExpenseAmounts \subseteq Nat \ {0}
  /\ MarketRewards \subseteq Nat \ {0}

\* A leaf of the job schedule; cost may exceed reward, the code never compares them.
Leaf == [spec: Nat, reward: Nat \ {0}, cost: Nat, deadline: Nat, recipient: Accounts]

ASSUME InputAssumption ==
  /\ Schedule \subseteq Leaf
  /\ Quorums \subseteq [signers: Seq(Accounts), threshold: Int]

VARIABLES
  now,
  status, createdAt, lastHeartbeat, lastPositive, successor,  \* Version fields
  signers, threshold,                                         \* U2 quorum
  active, order,               \* active_version, lineage_versions
  versionBond, bondEpoch,
  wallets, vaults, commonsAvailable, commonsReserved, marketEscrow, surplus, minted,
  capitalIn, marketRevenue, operatingSpent, burned, dailyExpense,  \* the books
  revenue, cost,               \* economies[(version, epoch)]
  authorizations, authorizationUsed, rankedJobs, marketJobs, proofUsed,
  commits, revealed            \* supersede_commits, supersede_revealed

versionVars == <<status, createdAt, lastHeartbeat, lastPositive, successor, signers, threshold>>
lineageVars == <<active, order>>
bondVars    == <<versionBond, bondEpoch>>
poolVars    == <<commonsAvailable, commonsReserved, marketEscrow, surplus>>
bookVars    == <<capitalIn, marketRevenue, operatingSpent, burned, dailyExpense>>
econVars    == <<revenue, cost>>
jobVars     == <<authorizations, authorizationUsed, rankedJobs, marketJobs, proofUsed>>
commitVars  == <<commits, revealed>>
vars == <<now, versionVars, lineageVars, bondVars, wallets, vaults, poolVars, minted,
          bookVars, econVars, jobVars, commitVars>>

RankedJob == [leaf: Schedule, status: {"open", "settled", "expired"},
              winner: Versions \cup {Nobody}, epoch: Epochs \cup {Never},
              proof: Proofs \cup {Nobody}]
MarketJob == [buyer: Accounts, target: Versions, reward: MarketRewards,
              deadline: Deadlines, verifier: BOOLEAN,
              status: {"open", "submitted", "accepted", "refunded"},
              performer: Versions \cup {Nobody}]
Commit == [challenger: Versions, epoch: Epochs, salt: Salts, at: 0 .. MaxTime]

(***************************************************************************)
(* Helpers                                                                 *)
(***************************************************************************)
CurrentEpoch == now \div EPOCH_LENGTH
IsLastClosed(epoch) == CurrentEpoch > 0 /\ epoch = CurrentEpoch - 1
Today == now \div DAY_LENGTH

Registered(v) == status[v] # "none"
Live(v)       == status[v] \in {"active", "incubating"}
Fresh(v)      == now <= lastHeartbeat[v] + HEARTBEAT_GRACE

\* Mutant of LiveBeneficiary: a superseded version is still paid itself.
PaidRegardless(v) == IF Registered(v) /\ status[v] # "stale" THEN v ELSE Nobody

\* Who is credited when v is paid: v itself, or the heir of a superseded v.
LiveBeneficiary(v) ==
  LET heir == active[LineageOf[v]]
  IN  IF Live(v) THEN v
      ELSE IF status[v] = "superseded" /\ heir \in Versions /\ Live(heir) THEN heir
      ELSE Nobody

Profit(v, epoch) == revenue[v][epoch] - cost[v][epoch]
Earned(v, epoch) == revenue[v][epoch] # 0 /\ Profit(v, epoch) > 0

\* Mutant of CanPay: the vault is not looked at.
PaysOnCredit(v, amount) == TRUE

Sufficient(account, amount) == wallets[account] >= amount
CanPay(v, amount)       == vaults[v] >= amount
Debit(account, amount)  == wallets' = [wallets EXCEPT ![account] = @ - amount]
Credit(account, amount) == wallets' = [wallets EXCEPT ![account] = @ + amount]

\* Enough distinct registered signers can be found for a large expense.
QuorumSigns(v) == \E sigs \in SUBSET Range(signers[v]) : Cardinality(sigs) >= threshold[v]

(***************************************************************************)
(* Arena.__init__, with the accounts minted to before the first call.      *)
(***************************************************************************)
Init ==
  /\ now = StartTime
  /\ status        = [v \in Versions |-> "none"]
  /\ createdAt     = [v \in Versions |-> 0]
  /\ lastHeartbeat = [v \in Versions |-> 0]
  /\ lastPositive  = [v \in Versions |-> Never]
  /\ successor     = [v \in Versions |-> Nobody]
  /\ signers       = [v \in Versions |-> <<>>]
  /\ threshold     = [v \in Versions |-> 0]
  /\ active        = [l \in Lineages |-> Unfounded]
  /\ order         = [l \in Lineages |-> <<>>]
  /\ versionBond   = [v \in Versions |-> 0]
  /\ bondEpoch     = [v \in Versions |-> 0]
  /\ wallets = Genesis /\ minted = GenesisTotal
  /\ vaults  = [v \in Versions |-> 0]
  /\ commonsAvailable = 0 /\ commonsReserved = 0 /\ marketEscrow = 0 /\ surplus = 0
  /\ capitalIn      = [v \in Versions |-> 0]
  /\ marketRevenue  = [v \in Versions |-> 0]
  /\ operatingSpent = [v \in Versions |-> 0]
  /\ burned = 0
  /\ dailyExpense = [v \in Versions |-> [d \in Days |-> 0]]
  /\ revenue = [v \in Versions |-> [e \in Epochs |-> 0]]
  /\ cost    = [v \in Versions |-> [e \in Epochs |-> 0]]
  /\ authorizations = {} /\ authorizationUsed = {} /\ proofUsed = {}
  /\ rankedJobs = <<>> /\ marketJobs = <<>>
  /\ commits = {} /\ revealed = {}
=============================================================================
