------------------------------- MODULE Arena --------------------------------
(***************************************************************************)
(* The reference model of the earn-or-halt arena as one state machine: the *)
(* entrypoints of ArenaMoney, ArenaVersions, ArenaRanked, ArenaMarket and  *)
(* ArenaSelection, called by anybody in any order, and what must hold of   *)
(* the whole.                                                              *)
(***************************************************************************)
EXTENDS ArenaMoney, ArenaRanked, ArenaMarket, ArenaSelection

TimeStep == AdvanceToNextEpoch \/ \E seconds \in Advances : Advance(seconds)

MoneyStep ==
  \/ \E a \in Accounts, n \in MintAmounts : Mint(a, n)
  \/ \E a \in Accounts, n \in FundAmounts : FundCommons(a, n) \/ DirectTransferToArena(a, n)
  \/ AbsorbSurplus
  \/ \E a \in Accounts, v \in Versions, n \in DonateAmounts : Donate(a, v, n)
  \/ \E a, r \in Accounts, v \in Versions, n \in ExpenseAmounts, p \in Proofs :
       SettleOperatingExpense(a, v, r, n, p)

VersionStep ==
  \E a \in Accounts, v \in Versions :
    \/ \E f \in Accounts, q \in Quorums : CreateLineage(a, f, v, q) \/ RegisterVersion(a, f, v, q)
    \/ ReclaimBond(a, v)
    \/ Heartbeat(a, v)

RankedStep ==
  \/ \E leaf \in Schedule : AuthorizeRankedJob(leaf) \/ CreateRankedJob(leaf)
  \/ \E j \in RankedJobIds :
       \/ \E a \in Accounts, v \in Versions, p \in Proofs : SubmitRankedResult(a, j, v, p)
       \/ ExpireRankedJob(j)

MarketStep ==
  \/ \E b \in Accounts, v \in Versions, n \in MarketRewards, d \in Deadlines, w \in BOOLEAN :
       OpenMarketJob(b, v, n, d, w)
  \/ \E j \in MarketJobIds, a \in Accounts :
       \/ \E ok \in BOOLEAN : SubmitMarketResult(a, j, ok)
       \/ AcceptMarketResult(a, j) \/ RefundMarketJob(a, j)

SelectionStep ==
  \/ \E v \in Versions, e \in Epochs :
       \/ Supersede(v, e) \/ ClaimVacancy(v, e)
       \/ \E s \in Salts : CommitSupersede(v, e, s) \/ RevealSupersede(v, e, s)
  \/ \E v \in Versions, heir \in Versions \cup {Nobody} : EjectStale(v, heir)

Next == TimeStep \/ MoneyStep \/ VersionStep \/ RankedStep \/ MarketStep \/ SelectionStep

Spec == Init /\ [][Next]_vars

-----------------------------------------------------------------------------
VersionTypes ==
  /\ status \in [Versions -> {"none", "incubating", "active", "superseded", "stale"}]
  /\ createdAt \in [Versions -> Nat] /\ lastHeartbeat \in [Versions -> Nat]
  /\ lastPositive \in [Versions -> Nat \cup {Never}]
  /\ successor \in [Versions -> Versions \cup {Nobody}]
  /\ signers \in [Versions -> Seq(Accounts)] /\ threshold \in [Versions -> Nat]
LineageTypes ==
  /\ active \in [Lineages -> Versions \cup {Nobody, Unfounded}]
  /\ order \in [Lineages -> Seq(Versions)]
BondTypes == versionBond \in [Versions -> Nat] /\ bondEpoch \in [Versions -> Nat]
MoneyTypes ==
  /\ wallets \in [Accounts -> Nat] /\ vaults \in [Versions -> Nat]
  /\ commonsAvailable \in Nat /\ commonsReserved \in Int
  /\ marketEscrow \in Int /\ surplus \in Nat /\ minted \in Nat
BookTypes ==
  /\ capitalIn \in [Versions -> Nat] /\ marketRevenue \in [Versions -> Nat]
  /\ operatingSpent \in [Versions -> Nat] /\ burned \in Nat
  /\ dailyExpense \in [Versions -> [Days -> Nat]]
EconTypes == revenue \in [Versions -> [Epochs -> Nat]] /\ cost \in [Versions -> [Epochs -> Nat]]
JobTypes ==
  /\ authorizations \subseteq Schedule /\ authorizationUsed \subseteq Schedule
  /\ rankedJobs \in Seq(RankedJob) /\ marketJobs \in Seq(MarketJob)
  /\ proofUsed \subseteq Proofs
CommitTypes == commits \subseteq Commit /\ revealed \subseteq Versions \X Epochs \X Salts

(* Every variable keeps its type; in particular no wallet, vault or commons
   balance ever goes negative (ImplementsEscrow says what the escrows hold). *)
TypeOK ==
  /\ now \in 0 .. MaxTime
  /\ VersionTypes /\ LineageTypes /\ BondTypes /\ MoneyTypes
  /\ BookTypes /\ EconTypes /\ JobTypes /\ CommitTypes

RankedWhere(Test(_)) == {j \in DOMAIN rankedJobs : Test(rankedJobs[j])}
Rewards(jobs) == SumFunction([j \in jobs |-> rankedJobs[j].leaf.reward])
Costs(jobs)   == SumFunction([j \in jobs |-> rankedJobs[j].leaf.cost])
OpenMarketJobs == {j \in DOMAIN marketJobs : marketJobs[j].status \in {"open", "submitted"}}

(* conservation_total() = total_minted after every call, including the calls
   that raise half-way (a registration with a bad quorum, a reclaim the
   commons cannot pay, a reveal that loses). *)
Conservation ==
  SumFunction(wallets) + SumFunction(vaults) + commonsAvailable + commonsReserved
    + marketEscrow + surplus = minted

(* The economies that selection compares are exactly the settled ranked jobs
   of that version and epoch: donations, market income, refunds, expired jobs
   and inherited vaults never count (FORMAL_PROPERTIES I1-I3). *)
RankIsSettledJobs ==
  \A v \in Versions, e \in Epochs :
    LET won == RankedWhere(LAMBDA job : job.status = "settled" /\ job.winner = v /\ job.epoch = e)
    IN  revenue[v][e] = Rewards(won) /\ cost[v][e] = Costs(won)

(* The books explain the vaults: what came in as capital, market revenue and
   ranked rewards, less costs, expenses and burns, is what the vaults hold,
   however it was inherited, until an ejection sends a share to the commons. *)
VaultsReconcile ==
  LET Total(book) == SumFunction([v \in Versions |-> SumFunction(book[v])])
      booked == SumFunction(capitalIn) + SumFunction(marketRevenue) + Total(revenue)
                  - Total(cost) - SumFunction(operatingSpent) - burned
  IN  /\ SumFunction(vaults) <= booked
      /\ (\A v \in Versions : status[v] # "stale") => SumFunction(vaults) = booked

(* The seat and the statuses agree: a version is ACTIVE exactly when it holds
   its lineage's pointer (assert_invariants checks one direction), and only a
   lineage that was founded has registered versions. *)
SeatAgrees ==
  /\ \A v \in Versions : status[v] = "active" <=> active[LineageOf[v]] = v
  /\ \A l \in Lineages : active[l] \in Versions => LineageOf[active[l]] = l
  /\ \A v \in Versions : Registered(v) => active[LineageOf[v]] # Unfounded

(* Money never rests with a version that may not spend it: the vault of an
   unregistered, superseded or stale version is empty, whatever donations,
   market payments and settlements were in flight when it lost its status. *)
DeadVaultsEmpty == \A v \in Versions : ~Live(v) => vaults[v] = 0

(* Ejection always forfeits the bond: the three clocks involved (30 days
   without profit, two epochs since the bond, the last closed epoch) never
   line up so that a stale version keeps a reclaimable bond. *)
StaleForfeitsBond == \A v \in Versions : status[v] = "stale" => versionBond[v] = 0

(* A version with positive profit in some epoch carries a profit mark at least
   as late as the start of that epoch, although the profit is a running sum
   and the mark is set settlement by settlement: ejection and the heir rule
   read the mark, selection reads the profit. *)
MarkCoversProfit ==
  \A v \in Versions, e \in Epochs :
    Profit(v, e) > 0 => lastPositive[v] # Never /\ lastPositive[v] >= e * EPOCH_LENGTH

(* The clocks that ejection, reclaim and the heir rule compare tell one story:
   a version's bond dates from its registration, its profit mark lies between
   registration and now, and nothing is on the books of a version before it is
   registered. *)
ClocksAgree ==
  \A v \in Versions :
    /\ Registered(v) => /\ createdAt[v] <= now
                        /\ bondEpoch[v] = createdAt[v] \div EPOCH_LENGTH
                        /\ lastPositive[v] # Never => lastPositive[v] \in createdAt[v] .. now
    /\ ~Registered(v) => \A e \in Epochs : revenue[v][e] = 0 /\ cost[v][e] = 0

(* A version that lost its seat names a registered successor of its own
   lineage, and following successors never returns to a version already
   passed: whatever superseded versions are taken, the succession leads out of
   them, so every challenge chain ends (PROTOCOL 7). *)
Superseded == {v \in Versions : status[v] = "superseded"}
SuccessionEnds ==
  /\ \A v \in Superseded : LET heir == successor[v] IN
       heir \in Versions /\ Registered(heir) /\ LineageOf[heir] = LineageOf[v]
  /\ \A cycle \in SUBSET Superseded : cycle # {} => \E v \in cycle : successor[v] \notin cycle

(* A reveal that takes the seat needed at least two profitable epochs of its
   three-epoch window: one outlier epoch cannot lift a version (I17).  Stated
   for windows that lie wholly after epoch 0. *)
NoOutlierReveal ==
  [][\A v \in Versions, e \in Epochs, s \in Salts :
       /\ Hash(v, e, s) \in revealed' \ revealed /\ active' # active
       /\ Cardinality(Window(e)) >= 3
       => Cardinality({x \in Window(e) : Profit(v, x) > 0}) >= 2]_vars

(* Escrow is never stuck: if time passes, somebody calls expire_ranked_job and
   buyers ask for the refunds they are owed, every job is resolved, even when
   the performer's lineage has died or the buyer refuses to accept. *)
EscrowReleased ==
  /\ \A j \in RankedJobIds : (j \in RankedWhere(LAMBDA job : job.status = "open"))
                             ~> ~(j \in RankedWhere(LAMBDA job : job.status = "open"))
  /\ \A j \in MarketJobIds : (j \in OpenMarketJobs) ~> (j \notin OpenMarketJobs)

Keepers == /\ WF_vars(AdvanceToNextEpoch)
           /\ \A j \in RankedJobIds : WF_vars(ExpireRankedJob(j))
           /\ \A j \in MarketJobIds, b \in Accounts : WF_vars(RefundMarketJob(b, j))
FairSpec == Spec /\ Keepers

Seat == INSTANCE LineageSeat WITH
  Empty <- Nobody, seat <- active,
  contenders <- {v \in Versions : status[v] = "incubating"},
  retired <- {v \in Versions : status[v] \in {"superseded", "stale"}}

MarketEscrow == INSTANCE Escrow WITH
  deposits <- {[id |-> j, payer |-> marketJobs[j].buyer, amount |-> marketJobs[j].reward] :
                 j \in OpenMarketJobs},
  closed <- DOMAIN marketJobs \ OpenMarketJobs, pool <- marketEscrow, funds <- wallets

OpenRankedJobs == {j \in DOMAIN rankedJobs : rankedJobs[j].status = "open"}
RankedEscrow == INSTANCE Escrow WITH
  deposits <- {[id |-> rankedJobs[j].leaf, payer |-> "commons",
                amount |-> rankedJobs[j].leaf.reward] : j \in OpenRankedJobs},
  closed <- {rankedJobs[j].leaf : j \in DOMAIN rankedJobs \ OpenRankedJobs},
  pool <- commonsReserved, funds <- [commons |-> commonsAvailable]

(* Both escrows implement the abstract one: the customers' with the buyers as
   payers, the ranked one with the commons as payer and the authorizations as
   ids.  A pool holds the rewards of the unresolved jobs, never more and never
   less: what a buyer or the commons offered is paid out once or comes back in
   full to the one who offered it, and an authorization locks one reward ever,
   although an acceptance, a refund, a late result and an expiry compete. *)
ImplementsEscrow == MarketEscrow!EscrowSpec /\ RankedEscrow!EscrowSpec

(* Selection, ejection and vacancy claims implement the abstract seat. *)
ImplementsSeat == Seat!SeatSpec

=============================================================================
