------------------------------ MODULE EohArena ------------------------------
(***************************************************************************)
(* The arena contract (src/arena-v0.2.0/contracts/EohArena.sol).  It has   *)
(* the entrypoints of the reference model, with three differences that     *)
(* matter here: a call that reverts undoes everything, so every check is a *)
(* guard wherever it stands in the function; the tokens are held by an     *)
(* external ERC-20, next to the contract's own accounts of them; and most  *)
(* of the v0.2.0 hardening is declared but not wired into the entrypoints. *)
(*                                                                         *)
(* The recipient of an expense or of a cost may be the arena itself.       *)
(* Amounts are far below 2^128, so checked arithmetic only matters where   *)
(* something is subtracted: Accounted shows that no subtraction of a       *)
(* reserve or a vault can underflow.  The lock of nonReentrant is 1        *)
(* between calls and no call re-enters a settlement token's transfer.      *)
(* Counters no entrypoint reads (capitalIn, marketRevenue) are left out.   *)
(* reclaimBond is left out: versionBond is never assigned, so the call     *)
(* always reverts.                                                         *)
(***************************************************************************)
EXTENDS Integers, Sequences, FiniteSets, Functions

CONSTANTS
  Lineages, Versions, Accounts,
  LineageOf, ParentOf, OperatorOf,     \* what a version id hashes
  Zero,                                \* bytes32(0)
  Arena,                               \* the contract's own address
  Unfounded,                           \* seat of a lineage that does not exist
  EPOCH_LENGTH, STALE_AFTER, HEARTBEAT_GRACE, COMMIT_PHASE_BLOCKS,
  PROFIT_WINDOW_EPOCHS, VERSION_BOND, DAILY_EXPENSE_CAP

CONSTANTS                              \* bounds and inputs
  StartTime, MaxTime, Holdings,        \* Holdings: the accounts' tokens at deployment
  Donations, Fundings, Gifts, Expenses,\* amounts given to a vault, the commons, past the protocol; spent
  Schedule,                            \* leaves [spec, reward, deadline] the authorizer accepts
  Costs,                               \* costs a work verifier may report
  Orders,                              \* [reward, deadline] of market jobs
  Proofs, Salts, MaxMarketJobs

Epochs == 0 .. (MaxTime \div EPOCH_LENGTH)

ASSUME EohAssumption ==
  /\ IsFiniteSet(Versions)            \* bytes32
  /\ Arena \notin Accounts /\ Zero \notin Versions /\ Unfounded \notin Versions \cup {Zero}
  /\ LineageOf \in [Versions -> Lineages] /\ OperatorOf \in [Versions -> Accounts]
  /\ ParentOf \in [Versions -> Versions \cup {Zero}]
  /\ EPOCH_LENGTH \in Nat \ {0} /\ STALE_AFTER \in Nat /\ HEARTBEAT_GRACE \in Nat
  /\ COMMIT_PHASE_BLOCKS \in Nat /\ PROFIT_WINDOW_EPOCHS \in Nat \ {0}
  /\ StartTime \in Nat \ {0} /\ MaxTime \in Nat    \* block.timestamp is never 0
  /\ StartTime <= MaxTime
  /\ \A leaf \in Schedule : leaf.reward \in Nat /\ leaf.deadline \in Nat
  /\ \A order \in Orders : order.reward \in Nat /\ order.deadline \in Nat
  /\ Holdings \in [Accounts -> Nat]
  /\ Donations \cup Fundings \cup Gifts \cup Expenses \subseteq Nat \ {0} /\ Costs \subseteq Nat

VARIABLES
  now,                    \* block.timestamp
  tokens,                 \* settlementToken.balanceOf
  versions, active,       \* _versions, activeVersion
  founded,                \* lineageExists
  vaultBalance, operatingSpent, economy,
  pool,                   \* commonsAvailable, commonsReserved, marketEscrowReserved, totalVaultBalance
  rankedJobs, marketJobs, proofUsed, jobAuthorizationUsed,
  supersedeCommits, supersedeRevealed

seatVars == <<versions, active, founded>>
vaultVars == <<vaultBalance, operatingSpent, economy, pool>>
jobVars == <<rankedJobs, marketJobs, proofUsed, jobAuthorizationUsed>>
commitVars == <<supersedeCommits, supersedeRevealed>>
vars == <<now, tokens, seatVars, vaultVars, jobVars, commitVars>>

Init ==
  /\ now = StartTime
  /\ tokens = [a \in Accounts \cup {Arena} |-> IF a = Arena THEN 0 ELSE Holdings[a]]
  /\ versions = [v \in Versions |-> [status |-> "none", createdAt |-> 0, lastHeartbeat |-> 0,
                                     lastPositiveProfitAt |-> 0, successor |-> Zero]]
  /\ active = [l \in Lineages |-> Zero] /\ founded = {}
  /\ vaultBalance = [v \in Versions |-> 0] /\ operatingSpent = [v \in Versions |-> 0]
  /\ economy = [v \in Versions |-> [e \in Epochs |-> [revenue |-> 0, cost |-> 0]]]
  /\ pool = [available |-> 0, reserved |-> 0, market |-> 0, vaults |-> 0]
  /\ rankedJobs = <<>> /\ marketJobs = <<>> /\ proofUsed = {} /\ jobAuthorizationUsed = {}
  /\ supersedeCommits = <<>> /\ supersedeRevealed = {}

-----------------------------------------------------------------------------
CurrentEpoch == now \div EPOCH_LENGTH
IsLastClosed(epoch) == CurrentEpoch > 0 /\ epoch = CurrentEpoch - 1
Status(v) == versions[v].status
Live(v)   == Status(v) \in {"incubating", "active"}
Fresh(v)  == now <= versions[v].lastHeartbeat + HEARTBEAT_GRACE
Profit(v, epoch) == economy[v][epoch].revenue - economy[v][epoch].cost

LiveBeneficiary(v) ==
  LET current == active[LineageOf[v]]
  IN  IF Live(v) THEN v
      ELSE IF Status(v) = "superseded" /\ current # Zero /\ Live(current) THEN current
      ELSE Zero

\* Mutant of CanPay: the vault is not looked at.
PaysOnCredit(v, amount) == TRUE
CanPay(v, amount) == vaultBalance[v] >= amount

\* SafeTransfer reverts when the token refuses.
Transfer(from, to, amount) ==
  /\ tokens[from] >= amount
  /\ tokens' = [tokens EXCEPT ![from] = @ - amount, ![to] = @ + amount]

\* Mutant of Deposit: the vault's total is forgotten.
DepositUntotalled(v, amount) ==
  /\ vaultBalance' = [vaultBalance EXCEPT ![v] = @ + amount]
  /\ UNCHANGED pool
Deposit(v, amount) ==
  /\ vaultBalance' = [vaultBalance EXCEPT ![v] = @ + amount]
  /\ pool' = [pool EXCEPT !.vaults = @ + amount]

AccountedTokenBalance == pool.available + pool.reserved + pool.market + pool.vaults
Surplus == tokens[Arena] - AccountedTokenBalance

Tick ==
  /\ now < MaxTime
  /\ now' = now + 1
  /\ UNCHANGED <<tokens, seatVars, vaultVars, jobVars, commitVars>>

\* A token transfer to the contract's address that uses no entrypoint.
Gift(donor, amount) ==
  /\ Transfer(donor, Arena, amount)
  /\ UNCHANGED <<now, seatVars, vaultVars, jobVars, commitVars>>

-----------------------------------------------------------------------------
(* Versions *)

StoreVersion(v, status) ==
  versions' = [versions EXCEPT ![v] = [status |-> status, createdAt |-> now,
    lastHeartbeat |-> now, lastPositiveProfitAt |-> 0, successor |-> Zero]]

CreateLineage(sender, v) ==
  /\ sender = OperatorOf[v] /\ ParentOf[v] = Zero
  /\ LineageOf[v] \notin founded /\ Status(v) = "none"
  /\ founded' = founded \cup {LineageOf[v]}
  /\ StoreVersion(v, "active")
  /\ active' = [active EXCEPT ![LineageOf[v]] = v]
  /\ UNCHANGED <<now, tokens, vaultVars, jobVars, commitVars>>

RegisterVersion(sender, v) ==
  /\ sender = OperatorOf[v] /\ ParentOf[v] \in Versions
  /\ LineageOf[v] \in founded
  /\ Status(ParentOf[v]) # "none" /\ LineageOf[ParentOf[v]] = LineageOf[v]
  /\ Status(v) = "none"
  /\ StoreVersion(v, "incubating")
  /\ UNCHANGED <<now, tokens, active, founded, vaultVars, jobVars, commitVars>>

Heartbeat(sender, v) ==
  /\ sender = OperatorOf[v] /\ Live(v)
  /\ versions' = [versions EXCEPT ![v].lastHeartbeat = now]
  /\ UNCHANGED <<now, tokens, active, founded, vaultVars, jobVars, commitVars>>

-----------------------------------------------------------------------------
(* Money *)

Donate(donor, v, amount) ==
  LET beneficiary == LiveBeneficiary(v)
  IN  /\ beneficiary # Zero
      /\ Transfer(donor, Arena, amount)
      /\ Deposit(beneficiary, amount)
      /\ UNCHANGED <<now, seatVars, operatingSpent, economy, jobVars, commitVars>>

FundCommons(donor, amount) ==
  /\ Transfer(donor, Arena, amount)
  /\ pool' = [pool EXCEPT !.available = @ + amount]
  /\ UNCHANGED <<now, seatVars, vaultBalance, operatingSpent, economy, jobVars, commitVars>>

AbsorbSurplus ==
  /\ Surplus > 0
  /\ pool' = [pool EXCEPT !.available = @ + Surplus]
  /\ UNCHANGED <<now, tokens, seatVars, vaultBalance, operatingSpent, economy, jobVars,
                 commitVars>>

SettleOperatingExpense(sender, v, recipient, amount, proof) ==
  /\ sender = OperatorOf[v] /\ Live(v)
  /\ CanPay(v, amount) /\ proof \notin proofUsed
  /\ proofUsed' = proofUsed \cup {proof}
  /\ Deposit(v, -amount)
  /\ operatingSpent' = [operatingSpent EXCEPT ![v] = @ + amount]
  /\ Transfer(Arena, recipient, amount)
  /\ UNCHANGED <<now, seatVars, economy, rankedJobs, marketJobs, jobAuthorizationUsed,
                 commitVars>>

-----------------------------------------------------------------------------
(* Ranked jobs *)

CreateRankedJob(leaf) ==
  /\ leaf.deadline > now /\ pool.available >= leaf.reward
  /\ leaf \notin jobAuthorizationUsed
  /\ jobAuthorizationUsed' = jobAuthorizationUsed \cup {leaf}
  /\ pool' = [pool EXCEPT !.available = @ - leaf.reward, !.reserved = @ + leaf.reward]
  /\ rankedJobs' = Append(rankedJobs, [reward |-> leaf.reward, deadline |-> leaf.deadline,
       status |-> "open", epoch |-> 0, winner |-> Zero, cost |-> 0])
  /\ UNCHANGED <<now, tokens, seatVars, vaultBalance, operatingSpent, economy, marketJobs,
                 proofUsed, commitVars>>

\* Mutant of BookRanked: the reward is booked for the epoch that closed last.
BookLate(v, reward, cost) ==
  economy' = [economy EXCEPT ![v][IF CurrentEpoch > 0 THEN CurrentEpoch - 1 ELSE 0] =
    [revenue |-> @.revenue + reward, cost |-> @.cost + cost]]
BookRanked(v, reward, cost) ==
  economy' = [economy EXCEPT ![v][CurrentEpoch] =
    [revenue |-> @.revenue + reward, cost |-> @.cost + cost]]

\* Mutant of MarkProfit: reads the economy before the settlement is booked.
MarkBeforeBooking(v, reward, cost) ==
  versions' = [versions EXCEPT ![v].lastPositiveProfitAt =
    IF Profit(v, CurrentEpoch) > 0 THEN now ELSE @]
MarkProfit(v, reward, cost) ==
  versions' = [versions EXCEPT ![v].lastPositiveProfitAt =
    IF Profit(v, CurrentEpoch) + reward - cost > 0 THEN now ELSE @]

\* The verifier reports cost and recipient; the cost is paid before the reward is credited.
\* The cost of a job is history: the contract adds it to the economy and emits it.
SubmitRankedResult(sender, j, v, proof, cost, recipient) ==
  LET job == rankedJobs[j]
  IN  /\ j \in DOMAIN rankedJobs /\ job.status = "open" /\ now <= job.deadline
      /\ sender = OperatorOf[v] /\ Live(v) /\ Fresh(v)
      /\ proof \notin proofUsed /\ CanPay(v, cost)
      /\ proofUsed' = proofUsed \cup {proof}
      /\ rankedJobs' = [rankedJobs EXCEPT ![j] =
           [@ EXCEPT !.status = "settled", !.epoch = CurrentEpoch, !.winner = v, !.cost = cost]]
      /\ Transfer(Arena, recipient, cost)
      /\ vaultBalance' = [vaultBalance EXCEPT ![v] = @ - cost + job.reward]
      /\ pool' = [pool EXCEPT !.reserved = @ - job.reward, !.vaults = @ - cost + job.reward]
      /\ BookRanked(v, job.reward, cost)
      /\ MarkProfit(v, job.reward, cost)
      /\ UNCHANGED <<now, active, founded, operatingSpent, marketJobs, jobAuthorizationUsed,
                     commitVars>>

ExpireRankedJob(j) ==
  /\ j \in DOMAIN rankedJobs
  /\ rankedJobs[j].status = "open" /\ now > rankedJobs[j].deadline
  /\ rankedJobs' = [rankedJobs EXCEPT ![j] = [@ EXCEPT !.status = "expired"]]
  /\ pool' = [pool EXCEPT !.reserved  = @ - rankedJobs[j].reward,
                          !.available = @ + rankedJobs[j].reward]
  /\ UNCHANGED <<now, tokens, seatVars, vaultBalance, operatingSpent, economy, marketJobs,
                 proofUsed, jobAuthorizationUsed, commitVars>>

-----------------------------------------------------------------------------
(* Market escrow *)

OpenMarketJob(buyer, target, order) ==
  /\ LiveBeneficiary(target) # Zero /\ order.deadline > now
  /\ Len(marketJobs) < MaxMarketJobs
  /\ Transfer(buyer, Arena, order.reward)
  /\ pool' = [pool EXCEPT !.market = @ + order.reward]
  /\ marketJobs' = Append(marketJobs, [buyer |-> buyer, target |-> target,
       reward |-> order.reward, deadline |-> order.deadline, performer |-> Zero,
       status |-> "open"])
  /\ UNCHANGED <<now, seatVars, vaultBalance, operatingSpent, economy, rankedJobs, proofUsed,
                 jobAuthorizationUsed, commitVars>>

SubmitMarketResult(sender, j) ==
  LET performer == LiveBeneficiary(marketJobs[j].target)
  IN  /\ j \in DOMAIN marketJobs
      /\ marketJobs[j].status = "open" /\ now <= marketJobs[j].deadline
      /\ performer # Zero /\ sender = OperatorOf[performer] /\ Fresh(performer)
      /\ marketJobs' = [marketJobs EXCEPT ![j] =
           [@ EXCEPT !.performer = performer, !.status = "submitted"]]
      /\ UNCHANGED <<now, tokens, seatVars, vaultVars, rankedJobs, proofUsed,
                     jobAuthorizationUsed, commitVars>>

\* Mutant of Payee: whoever performed is paid, live or not.
PayPerformer(j) == marketJobs[j].performer
Payee(j) == LiveBeneficiary(marketJobs[j].performer)

\* Mutant of RewardToCommons: the reward is released and given to nobody.
RewardToNobody(reward) ==
  /\ pool' = [pool EXCEPT !.market = @ - reward]
  /\ UNCHANGED vaultBalance
RewardToCommons(reward) ==
  /\ pool' = [pool EXCEPT !.market = @ - reward, !.available = @ + reward]
  /\ UNCHANGED vaultBalance

AcceptMarketResult(sender, j) ==
  LET reward == marketJobs[j].reward
      beneficiary == Payee(j)
  IN  /\ j \in DOMAIN marketJobs
      /\ marketJobs[j].status = "submitted" /\ sender = marketJobs[j].buyer
      /\ marketJobs' = [marketJobs EXCEPT ![j] = [@ EXCEPT !.status = "accepted"]]
      /\ \/ beneficiary = Zero /\ RewardToCommons(reward)
         \/ /\ beneficiary # Zero
            /\ pool' = [pool EXCEPT !.market = @ - reward, !.vaults = @ + reward]
            /\ vaultBalance' = [vaultBalance EXCEPT ![beneficiary] = @ + reward]
      /\ UNCHANGED <<now, tokens, seatVars, operatingSpent, economy, rankedJobs, proofUsed,
                     jobAuthorizationUsed, commitVars>>

\* Mutant of MayRefund: whoever asks gets the tokens.
MayRefundAnyone(sender, job) == job.status \in {"open", "submitted"} /\ now > job.deadline
MayRefund(sender, job) ==
  job.status \in {"open", "submitted"} /\ now > job.deadline /\ sender = job.buyer

RefundMarketJob(sender, j) ==
  /\ j \in DOMAIN marketJobs /\ MayRefund(sender, marketJobs[j])
  /\ marketJobs' = [marketJobs EXCEPT ![j] = [@ EXCEPT !.status = "refunded"]]
  /\ pool' = [pool EXCEPT !.market = @ - marketJobs[j].reward]
  /\ Transfer(Arena, sender, marketJobs[j].reward)
  /\ UNCHANGED <<now, seatVars, vaultBalance, operatingSpent, economy, rankedJobs, proofUsed,
                 jobAuthorizationUsed, commitVars>>

-----------------------------------------------------------------------------
(* Selection *)

\* medianProfit sorts the window and takes the element at count / 2.
Window(epoch) == {e \in Epochs : e <= epoch /\ e > epoch - PROFIT_WINDOW_EPOCHS}
MedianProfit(v, epoch) ==
  LET window == Window(epoch)
      Rank(p) == Cardinality({e \in window : Profit(v, e) < p})
      UpTo(p) == Cardinality({e \in window : Profit(v, e) <= p})
      middle == Cardinality(window) \div 2
  IN  CHOOSE p \in {Profit(v, e) : e \in window} : Rank(p) <= middle /\ middle < UpTo(p)

\* Mutant of RevealMetric: the reveal compares one epoch.
OneEpochMetric(v, epoch) == Profit(v, epoch)
RevealMetric(v, epoch) == MedianProfit(v, epoch)

MayChallenge(challenger, epoch) ==
  LET incumbent == active[LineageOf[challenger]]
  IN  /\ IsLastClosed(epoch)
      /\ Status(challenger) = "incubating" /\ Fresh(challenger)
      /\ incumbent \notin {Zero, challenger}
      /\ economy[challenger][epoch].revenue # 0

\* Mutant of Succeed: the incumbent goes back to incubating.
SucceedKeepingRival(challenger) ==
  LET incumbent == active[LineageOf[challenger]]
  IN  /\ vaultBalance' = [vaultBalance EXCEPT ![incumbent] = 0,
                                              ![challenger] = @ + vaultBalance[incumbent]]
      /\ versions' = [versions EXCEPT ![incumbent].status = "incubating",
           ![incumbent].successor = challenger, ![challenger].status = "active"]
      /\ active' = [active EXCEPT ![LineageOf[challenger]] = challenger]

\* The vault moves inside the contract: totalVaultBalance stays.
Succeed(challenger) ==
  LET incumbent == active[LineageOf[challenger]]
  IN  /\ vaultBalance' = [vaultBalance EXCEPT ![incumbent] = 0,
                                              ![challenger] = @ + vaultBalance[incumbent]]
      /\ versions' = [versions EXCEPT ![incumbent].status = "superseded",
           ![incumbent].successor = challenger, ![challenger].status = "active"]
      /\ active' = [active EXCEPT ![LineageOf[challenger]] = challenger]

SelectionUnchanged == UNCHANGED <<now, tokens, founded, operatingSpent, economy, jobVars>>

Supersede(challenger, epoch) ==
  /\ MayChallenge(challenger, epoch)
  /\ Profit(challenger, epoch) > 0
  /\ Profit(challenger, epoch) > Profit(active[LineageOf[challenger]], epoch)
  /\ Succeed(challenger)
  /\ SelectionUnchanged /\ UNCHANGED <<pool, commitVars>>

CommitSupersede(challenger, epoch, salt) ==
  LET hash == <<challenger, epoch, salt>>
  IN  /\ IsLastClosed(epoch) /\ Status(challenger) # "none"
      /\ hash \notin DOMAIN supersedeCommits
      /\ supersedeCommits' = [h \in DOMAIN supersedeCommits \cup {hash} |->
                                IF h = hash THEN now ELSE supersedeCommits[h]]
      /\ UNCHANGED <<now, tokens, seatVars, vaultVars, jobVars, supersedeRevealed>>

\* A lost comparison reverts, so the commit can be revealed again.
RevealSupersede(challenger, epoch, salt) ==
  LET hash == <<challenger, epoch, salt>>
  IN  /\ hash \in DOMAIN supersedeCommits \ supersedeRevealed
      /\ now >= supersedeCommits[hash] + COMMIT_PHASE_BLOCKS
      /\ MayChallenge(challenger, epoch)
      /\ RevealMetric(challenger, epoch) > 0
      /\ RevealMetric(challenger, epoch) > RevealMetric(active[LineageOf[challenger]], epoch)
      /\ supersedeRevealed' = supersedeRevealed \cup {hash}
      /\ Succeed(challenger)
      /\ SelectionUnchanged /\ UNCHANGED <<pool, supersedeCommits>>

EjectStale(v) ==
  LET reference == IF versions[v].lastPositiveProfitAt = 0 THEN versions[v].createdAt
                   ELSE versions[v].lastPositiveProfitAt
  IN  /\ Live(v) /\ now > reference + STALE_AFTER
      /\ vaultBalance' = [vaultBalance EXCEPT ![v] = 0]
      /\ pool' = [pool EXCEPT !.vaults = @ - vaultBalance[v],
                              !.available = @ + vaultBalance[v]]
      /\ versions' = [versions EXCEPT ![v].status = "stale"]
      /\ active' = [active EXCEPT ![LineageOf[v]] = IF @ = v THEN Zero ELSE @]
      /\ SelectionUnchanged /\ UNCHANGED commitVars

ClaimVacancy(v, epoch) ==
  /\ IsLastClosed(epoch)
  /\ Status(v) = "incubating" /\ active[LineageOf[v]] = Zero /\ Fresh(v)
  /\ economy[v][epoch].revenue # 0 /\ Profit(v, epoch) > 0
  /\ versions' = [versions EXCEPT ![v].status = "active"]
  /\ active' = [active EXCEPT ![LineageOf[v]] = v]
  /\ SelectionUnchanged /\ UNCHANGED <<vaultBalance, pool, commitVars>>

-----------------------------------------------------------------------------
MoneyStep ==
  \/ \E a \in Accounts :
       \/ \E n \in Gifts : Gift(a, n)
       \/ \E n \in Fundings : FundCommons(a, n)
       \/ \E n \in Donations, v \in Versions : Donate(a, v, n)
       \/ \E v \in Versions, r \in Accounts \cup {Arena}, n \in Expenses, p \in Proofs :
            SettleOperatingExpense(a, v, r, n, p)
  \/ AbsorbSurplus

VersionStep ==
  \E a \in Accounts, v \in Versions :
    CreateLineage(a, v) \/ RegisterVersion(a, v) \/ Heartbeat(a, v)

JobStep ==
  \/ \E leaf \in Schedule : CreateRankedJob(leaf)
  \/ \E j \in DOMAIN rankedJobs :
       \/ \E a \in Accounts, r \in Accounts \cup {Arena}, v \in Versions, p \in Proofs, n \in Costs :
            SubmitRankedResult(a, j, v, p, n, r)
       \/ ExpireRankedJob(j)
  \/ \E a \in Accounts :
       \/ \E v \in Versions, o \in Orders : OpenMarketJob(a, v, o)
       \/ \E j \in DOMAIN marketJobs :
            SubmitMarketResult(a, j) \/ AcceptMarketResult(a, j) \/ RefundMarketJob(a, j)

SelectionStep ==
  \E v \in Versions :
    \/ EjectStale(v)
    \/ \E e \in Epochs :
         \/ Supersede(v, e) \/ ClaimVacancy(v, e)
         \/ \E s \in Salts : CommitSupersede(v, e, s) \/ RevealSupersede(v, e, s)

Next == Tick \/ MoneyStep \/ VersionStep \/ JobStep \/ SelectionStep

Spec == Init /\ [][Next]_vars
=============================================================================
