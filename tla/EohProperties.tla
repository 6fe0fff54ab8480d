--------------------------- MODULE EohProperties ----------------------------
(***************************************************************************)
(* What must hold of the arena contract (EohArena.sol).                    *)
(***************************************************************************)
EXTENDS EohArena

(* Every variable keeps its type; no vault and no reserve is ever negative,
   so none of the contract's checked subtractions reverts by itself. *)
TypeOK ==
  /\ now \in StartTime .. MaxTime /\ tokens \in [Accounts \cup {Arena} -> Nat]
  /\ versions \in [Versions -> [status: {"none", "incubating", "active", "superseded", "stale"},
       createdAt: Nat, lastHeartbeat: Nat, lastPositiveProfitAt: Nat,
       successor: Versions \cup {Zero}]]
  /\ active \in [Lineages -> Versions \cup {Zero}] /\ founded \subseteq Lineages
  /\ vaultBalance \in [Versions -> Nat] /\ operatingSpent \in [Versions -> Nat]
  /\ economy \in [Versions -> [Epochs -> [revenue: Nat, cost: Nat]]]
  /\ pool \in [available: Nat, reserved: Nat, market: Nat, vaults: Nat]
  /\ proofUsed \subseteq Proofs /\ jobAuthorizationUsed \subseteq Schedule
  /\ DOMAIN supersedeCommits \subseteq Versions \X Epochs \X Salts
  /\ supersedeRevealed \subseteq DOMAIN supersedeCommits

RankedWhere(Test(_)) == {j \in DOMAIN rankedJobs : Test(rankedJobs[j])}
Rewards(jobs) == SumFunction([j \in jobs |-> rankedJobs[j].reward])
Unresolved == {j \in DOMAIN marketJobs : marketJobs[j].status \in {"open", "submitted"}}

(* The contract's running totals are the sums they stand for (it never adds
   the vaults up), and the token covers all of them: every vault, every open
   reward and every unresolved escrow could be paid at once. *)
Accounted ==
  /\ pool.vaults = SumFunction(vaultBalance)
  /\ pool.reserved = Rewards(RankedWhere(LAMBDA job : job.status = "open"))
  /\ pool.market = SumFunction([j \in Unresolved |-> marketJobs[j].reward])
  /\ Surplus >= 0

(* The tokens beyond the totals change in three ways: a transfer that uses no
   entrypoint adds to them, their absorption takes all of them into the
   commons ("deliberately not assigned to any version or rank"), and a version
   that pays an expense or a cost to the arena itself - the contract refuses
   only address(0) - adds exactly what is recorded as spent.  Every other call
   moves exactly the tokens it books. *)
Spent(v) == operatingSpent[v] + economy[v][CurrentEpoch].cost
SurplusExplained ==
  [][Surplus' # Surplus =>
       \/ /\ Surplus' > Surplus
          /\ UNCHANGED <<now, seatVars, vaultVars, jobVars, commitVars>>
       \/ /\ Surplus' = 0 /\ UNCHANGED tokens
          /\ pool'.available = pool.available + Surplus
       \/ /\ UNCHANGED <<now, tokens>> /\ proofUsed' # proofUsed
          /\ \E v \in Versions : Surplus' - Surplus = Spent(v)' - Spent(v)]_vars

(* No vault of a version that lost its status holds money, whatever payments
   named it while the seat changed hands. *)
DeadVaultsEmpty == \A v \in Versions : ~Live(v) => vaultBalance[v] = 0

(* The economies that selection compares are the jobs the version settled in
   that epoch and nothing else: their rewards and the costs verified for them,
   whatever was donated, spent, escrowed or inherited. *)
VerifiedCosts(jobs) == SumFunction([j \in jobs |-> rankedJobs[j].cost])
RankIsSettledJobs ==
  \A v \in Versions, e \in Epochs :
    LET won == RankedWhere(LAMBDA job : job.status = "settled" /\ job.winner = v /\ job.epoch = e)
    IN  economy[v][e].revenue = Rewards(won) /\ economy[v][e].cost = VerifiedCosts(won)

(* "Economic death after one month without positive verified profit": an
   ejected version was profitable in no epoch that began within STALE_AFTER of
   its ejection, although ejection looks at a mark and not at the economies. *)
EjectedEarnedNothing ==
  [][\A v \in Versions : Status(v) # "stale" /\ versions'[v].status = "stale" =>
       \A e \in Epochs : Profit(v, e) > 0 => e * EPOCH_LENGTH < now - STALE_AFTER]_vars

(* A reveal takes the seat only with two profitable epochs of its full window:
   "defeats single-epoch outlier". *)
NoOutlierReveal ==
  [][\A v \in Versions, e \in Epochs, s \in Salts :
       /\ <<v, e, s>> \in supersedeRevealed' \ supersedeRevealed
       /\ Cardinality(Window(e)) >= 3
       => Cardinality({x \in Window(e) : Profit(v, x) > 0}) >= 2]_vars

MarketEscrow == INSTANCE Escrow WITH
  deposits <- {[id |-> j, payer |-> marketJobs[j].buyer, amount |-> marketJobs[j].reward] :
                 j \in Unresolved},
  closed <- DOMAIN marketJobs \ Unresolved,
  pool <- pool.market, funds <- [a \in Accounts |-> tokens[a]]

OpenRanked == RankedWhere(LAMBDA job : job.status = "open")
RankedEscrow == INSTANCE Escrow WITH
  deposits <- {[id |-> j, payer |-> "commons", amount |-> rankedJobs[j].reward] :
                 j \in OpenRanked},
  closed <- DOMAIN rankedJobs \ OpenRanked,
  pool <- pool.reserved, funds <- [commons |-> pool.available]

(* The contract implements the same abstract escrow as the reference model, with
   the accounts' own tokens as the buyers' funds: a refund moves the buyer's
   whole reward back to the buyer and to nobody else. *)
ImplementsEscrow == MarketEscrow!EscrowSpec /\ RankedEscrow!EscrowSpec

Seat == INSTANCE LineageSeat WITH
  Empty <- Zero,
  seat <- [l \in Lineages |-> IF l \in founded THEN active[l] ELSE Unfounded],
  contenders <- {v \in Versions : Status(v) = "incubating"},
  retired <- {v \in Versions : Status(v) \in {"superseded", "stale"}}

(* The contract implements the same abstract seat as the reference model. *)
ImplementsSeat == Seat!SeatSpec
=============================================================================
