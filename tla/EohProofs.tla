----------------------------- MODULE EohProofs ------------------------------
(***************************************************************************)
(* Proofs about the arena contract for every value of its constants:       *)
(* that competition for the seat implements LineageSeat and both escrows   *)
(* implement Escrow, that no money rests with a version that is not        *)
(* live, that whoever is ejected earned nothing within STALE_AFTER, that   *)
(* no single epoch wins a reveal, that tokens and accounts move together,  *)
(* and that the four totals are the sums they stand for.                   *)
(***************************************************************************)
EXTENDS EohProperties, SequenceTheorems, SumProofs, TLAPS

Statuses == {"none", "incubating", "active", "superseded", "stale"}
Version  == [status: Statuses, createdAt: Nat, lastHeartbeat: Nat, lastPositiveProfitAt: Nat,
             successor: Versions \cup {Zero}]
RankedJob == [reward: Nat, deadline: Nat, status: {"open", "settled", "expired"}, epoch: Nat,
              winner: Versions \cup {Zero}, cost: Nat]
MarketJob == [buyer: Accounts, target: Versions, reward: Nat, deadline: Nat,
              performer: Versions \cup {Zero},
              status: {"open", "submitted", "accepted", "refunded"}]

ClockTypes == now \in Nat /\ now <= MaxTime
SeatTypes ==
  /\ versions \in [Versions -> Version] /\ active \in [Lineages -> Versions \cup {Zero}]
  /\ founded \subseteq Lineages
MoneyTypes ==
  /\ tokens \in [Accounts \cup {Arena} -> Nat] /\ vaultBalance \in [Versions -> Nat]
  /\ pool \in [available: Int, reserved: Int, market: Int, vaults: Int]
EconTypes == economy \in [Versions -> [Epochs -> [revenue: Nat, cost: Nat]]]
JobTypes  == rankedJobs \in Seq(RankedJob) /\ marketJobs \in Seq(MarketJob)

\* Submitted work names the version that performed it.
Performed == \A j \in DOMAIN marketJobs :
  marketJobs[j].status = "submitted" => marketJobs[j].performer \in Versions

ContractTypes ==
  ClockTypes /\ SeatTypes /\ MoneyTypes /\ EconTypes /\ JobTypes /\ Performed

LEMMA DivBounds ==
  ASSUME NEW d \in Nat \ {0}, NEW t \in Nat
  PROVE  t \div d \in Nat /\ (t \div d) * d <= t
OBVIOUS

LEMMA DivMonotone ==
  ASSUME NEW d \in Nat \ {0}, NEW t \in Nat, NEW m \in Nat, t <= m
  PROVE  t \div d \in 0 .. (m \div d)
OBVIOUS

\* The clock stays within the epochs that have an economy.
LEMMA EpochNow ==
  ASSUME ClockTypes
  PROVE  /\ CurrentEpoch \in Epochs /\ CurrentEpoch \in Nat
         /\ CurrentEpoch * EPOCH_LENGTH <= now
BY EohAssumption, DivBounds, DivMonotone DEF ClockTypes, CurrentEpoch, Epochs

\* Changing one job keeps a job list well typed.
LEMMA JobUpdate ==
  ASSUME NEW S, NEW jobs \in Seq(S), NEW j \in DOMAIN jobs
  PROVE  /\ jobs[j] \in S
         /\ \A job \in S : [jobs EXCEPT ![j] = job] \in Seq(S)
<1>1. j \in 1 .. Len(jobs)
  BY LenProperties
<1>. QED
  BY <1>1, ElementOfSeq, ExceptSeq

\* A transfer between two accounts moves naturals.
LEMMA TransferTypes ==
  ASSUME MoneyTypes, NEW from \in Accounts \cup {Arena}, NEW to \in Accounts \cup {Arena},
         NEW n \in Nat, Transfer(from, to, n)
  PROVE  tokens' \in [Accounts \cup {Arena} -> Nat]
BY DEF MoneyTypes, Transfer

\* A beneficiary is a live version, whoever the money was meant for.
LEMMA BeneficiaryLives ==
  ASSUME SeatTypes, NEW v \in Versions
  PROVE  /\ LiveBeneficiary(v) \in Versions \cup {Zero}
         /\ LiveBeneficiary(v) # Zero =>
              LiveBeneficiary(v) \in Versions /\ Live(LiveBeneficiary(v))
BY EohAssumption DEF SeatTypes, LiveBeneficiary

LEMMA InitTypes == Init => ContractTypes
<1>. SUFFICES ASSUME Init PROVE ContractTypes
  OBVIOUS
<1>1. ClockTypes /\ SeatTypes /\ MoneyTypes
  BY EohAssumption DEF Init, ClockTypes, SeatTypes, MoneyTypes, Version, Statuses
<1>2. EconTypes /\ JobTypes /\ Performed
  BY DEF Init, EconTypes, JobTypes, Performed
<1>. QED
  BY <1>1, <1>2 DEF ContractTypes

(***************************************************************************)
(* Types, one group of entrypoints after the other.                        *)
(***************************************************************************)
LEMMA FrameTypes ==
  /\ SeatTypes /\ UNCHANGED seatVars => SeatTypes'
  /\ MoneyTypes /\ UNCHANGED <<tokens, vaultBalance, pool>> => MoneyTypes'
  /\ EconTypes /\ UNCHANGED economy => EconTypes'
  /\ JobTypes /\ Performed /\ UNCHANGED <<rankedJobs, marketJobs>> => JobTypes' /\ Performed'
BY DEF SeatTypes, seatVars, MoneyTypes, EconTypes, JobTypes, Performed

Pool == [available: Int, reserved: Int, market: Int, vaults: Int]

LEMMA PoolFields ==
  ASSUME NEW q \in Pool
  PROVE  q.available \in Int /\ q.reserved \in Int /\ q.market \in Int /\ q.vaults \in Int
BY DEF Pool

LEMMA PoolUpdates ==
  ASSUME NEW q \in Pool, NEW a \in Int, NEW b \in Int
  PROVE  /\ [q EXCEPT !.available = a, !.reserved = b] \in Pool
         /\ [q EXCEPT !.reserved = a, !.available = b] \in Pool
         /\ [q EXCEPT !.reserved = a, !.vaults = b] \in Pool
         /\ [q EXCEPT !.market = a] \in Pool
         /\ [q EXCEPT !.market = a, !.available = b] \in Pool
         /\ [q EXCEPT !.market = a, !.vaults = b] \in Pool
         /\ [q EXCEPT !.vaults = a, !.available = b] \in Pool
BY DEF Pool

\* Moving an amount between totals of the pool.
LEMMA PoolMoves ==
  ASSUME pool \in Pool, NEW n \in Int, NEW m \in Int
  PROVE  /\ [pool EXCEPT !.available = @ - n, !.reserved = @ + n] \in Pool
         /\ [pool EXCEPT !.reserved = @ - n, !.available = @ + n] \in Pool
         /\ [pool EXCEPT !.reserved = @ - n, !.vaults = @ - m + n] \in Pool
         /\ [pool EXCEPT !.market = @ + n] \in Pool
         /\ [pool EXCEPT !.market = @ - n] \in Pool
         /\ [pool EXCEPT !.market = @ - n, !.available = @ + n] \in Pool
         /\ [pool EXCEPT !.market = @ - n, !.vaults = @ + n] \in Pool
         /\ [pool EXCEPT !.vaults = @ - n, !.available = @ + n] \in Pool
<1>1. /\ pool.available - n \in Int /\ pool.available + n \in Int
      /\ pool.reserved - n \in Int /\ pool.reserved + n \in Int
      /\ pool.market - n \in Int /\ pool.market + n \in Int
      /\ pool.vaults - n \in Int /\ pool.vaults + n \in Int /\ pool.vaults - m + n \in Int
  BY PoolFields
<1>. QED
  BY <1>1, PoolUpdates

\* Every group of types, from what a step does to its variables.
LEMMA TypesFrom ==
  ASSUME ContractTypes, UNCHANGED now,
         SeatTypes', EconTypes', JobTypes', Performed',
         tokens' \in [Accounts \cup {Arena} -> Nat], vaultBalance' \in [Versions -> Nat],
         pool' \in Pool
  PROVE  ContractTypes'
BY DEF ContractTypes, ClockTypes, MoneyTypes, Pool

LEMMA TypesNow ==
  ASSUME ContractTypes
  PROVE  /\ tokens \in [Accounts \cup {Arena} -> Nat] /\ vaultBalance \in [Versions -> Nat]
         /\ pool \in Pool
         /\ rankedJobs \in Seq(RankedJob) /\ marketJobs \in Seq(MarketJob)
         /\ \A j \in DOMAIN rankedJobs : rankedJobs[j] \in RankedJob
         /\ \A j \in DOMAIN marketJobs : marketJobs[j] \in MarketJob
         /\ versions \in [Versions -> Version]
         /\ economy \in [Versions -> [Epochs -> [revenue: Nat, cost: Nat]]]
         /\ now \in Nat
BY JobUpdate DEF ContractTypes, ClockTypes, MoneyTypes, Pool, JobTypes, SeatTypes, EconTypes

LEMMA MoneyStepTypes == ContractTypes /\ MoneyStep => ContractTypes'
<1>. SUFFICES ASSUME ContractTypes, MoneyStep PROVE ContractTypes'
  OBVIOUS
<1>. USE EohAssumption DEF ContractTypes
<1>1. ASSUME NEW a \in Accounts, NEW n \in Gifts, Gift(a, n) PROVE ContractTypes'
  <2>1. MoneyTypes'
    BY <1>1, TransferTypes DEF Gift, MoneyTypes, vaultVars
  <2>. QED
    BY <1>1, <2>1, FrameTypes DEF Gift, ClockTypes, vaultVars, jobVars
<1>2. ASSUME NEW a \in Accounts, NEW n \in Fundings, FundCommons(a, n) PROVE ContractTypes'
  <2>1. MoneyTypes'
    BY <1>2, TransferTypes DEF FundCommons, MoneyTypes
  <2>. QED
    BY <1>2, <2>1, FrameTypes DEF FundCommons, ClockTypes, jobVars
<1>3. ASSUME NEW a \in Accounts, NEW n \in Donations, NEW v \in Versions, Donate(a, v, n)
      PROVE  ContractTypes'
  <2>1. LiveBeneficiary(v) \in Versions
    BY <1>3, BeneficiaryLives DEF Donate
  <2>2. MoneyTypes'
    BY <1>3, <2>1, TransferTypes DEF Donate, Deposit, MoneyTypes
  <2>. QED
    BY <1>3, <2>2, FrameTypes DEF Donate, ClockTypes, jobVars
<1>4. ASSUME NEW a \in Accounts, NEW v \in Versions, NEW r \in Accounts \cup {Arena}, NEW n \in Expenses,
             NEW p \in Proofs, SettleOperatingExpense(a, v, r, n, p)
      PROVE  ContractTypes'
  <2>0. /\ n \in Nat /\ vaultBalance[v] >= n /\ Transfer(Arena, r, n)
        /\ vaultBalance' = [vaultBalance EXCEPT ![v] = @ + -n]
        /\ pool' = [pool EXCEPT !.vaults = @ + -n]
    BY <1>4 DEF SettleOperatingExpense, Deposit, CanPay
  <2>1. MoneyTypes'
    <3>1. tokens' \in [Accounts \cup {Arena} -> Nat]
      BY <2>0, TransferTypes
    <3>2. vaultBalance' \in [Versions -> Nat]
      BY <2>0 DEF MoneyTypes
    <3>3. pool' \in [available: Int, reserved: Int, market: Int, vaults: Int]
      BY <2>0 DEF MoneyTypes
    <3>. QED
      BY <3>1, <3>2, <3>3 DEF MoneyTypes
  <2>. QED
    BY <1>4, <2>1, FrameTypes DEF SettleOperatingExpense, ClockTypes
<1>5. CASE AbsorbSurplus
  <2>1. Surplus \in Int
    BY DEF MoneyTypes, Surplus, AccountedTokenBalance
  <2>2. MoneyTypes'
    BY <1>5, <2>1 DEF AbsorbSurplus, MoneyTypes
  <2>. QED
    BY <1>5, <2>2, FrameTypes DEF AbsorbSurplus, ClockTypes, jobVars
<1>. QED
  BY <1>1, <1>2, <1>3, <1>4, <1>5 DEF MoneyStep

LEMMA VersionStepTypes == ContractTypes /\ VersionStep => ContractTypes'
<1>. SUFFICES ASSUME ContractTypes, NEW a \in Accounts, NEW v \in Versions,
                     CreateLineage(a, v) \/ RegisterVersion(a, v) \/ Heartbeat(a, v)
              PROVE  ContractTypes'
  BY DEF VersionStep
<1>. USE EohAssumption DEF ContractTypes
<1>1. SeatTypes'
  <2>1. CASE CreateLineage(a, v)
    BY <2>1 DEF CreateLineage, StoreVersion, SeatTypes, Version, Statuses, ClockTypes
  <2>2. CASE RegisterVersion(a, v)
    BY <2>2 DEF RegisterVersion, StoreVersion, SeatTypes, Version, Statuses, ClockTypes
  <2>3. CASE Heartbeat(a, v)
    BY <2>3 DEF Heartbeat, SeatTypes, Version, ClockTypes
  <2>. QED
    BY <2>1, <2>2, <2>3
<1>2. UNCHANGED <<now, vaultVars, jobVars, tokens>>
  BY DEF CreateLineage, RegisterVersion, Heartbeat
<1>. QED
  BY <1>1, <1>2, FrameTypes DEF ClockTypes, vaultVars, jobVars

LEMMA CreatedTypes ==
  ASSUME ContractTypes, NEW leaf \in Schedule, CreateRankedJob(leaf)
  PROVE  ContractTypes'
<1>1. leaf.reward \in Nat /\ leaf.deadline \in Nat
  BY EohAssumption
<1>. DEFINE job == [reward |-> leaf.reward, deadline |-> leaf.deadline, status |-> "open",
                    epoch |-> 0, winner |-> Zero, cost |-> 0]
<1>2. job \in RankedJob
  BY <1>1 DEF RankedJob
<1>3. rankedJobs' \in Seq(RankedJob)
  BY <1>2, TypesNow, AppendProperties DEF CreateRankedJob
<1>4. pool' \in Pool
  <2>1. pool \in Pool /\ leaf.reward \in Int
    BY <1>1, TypesNow
  <2>2. pool' = [pool EXCEPT !.available = @ - leaf.reward, !.reserved = @ + leaf.reward]
    BY DEF CreateRankedJob
  <2>. QED
    BY <2>1, <2>2, PoolMoves
<1>5. UNCHANGED <<now, tokens, seatVars, vaultBalance, economy, marketJobs>>
  BY DEF CreateRankedJob
<1>. QED
  BY <1>3, <1>4, <1>5, TypesNow, TypesFrom, FrameTypes
     DEF ContractTypes, JobTypes, Performed

LEMMA SettledTypes ==
  ASSUME ContractTypes, NEW j \in DOMAIN rankedJobs, NEW a \in Accounts, NEW r \in Accounts \cup {Arena},
         NEW v \in Versions, NEW p \in Proofs, NEW n \in Costs,
         SubmitRankedResult(a, j, v, p, n, r)
  PROVE  ContractTypes'
<1>. DEFINE reward == rankedJobs[j].reward
            job == [rankedJobs[j] EXCEPT !.status = "settled", !.epoch = CurrentEpoch,
                                         !.winner = v, !.cost = n]
<1>1. rankedJobs[j] \in RankedJob /\ reward \in Nat /\ n \in Nat
  BY TypesNow, EohAssumption DEF RankedJob
<1>2. CurrentEpoch \in Nat /\ CurrentEpoch \in Epochs
  BY EpochNow DEF ContractTypes
<1>3. job \in RankedJob
  BY <1>1, <1>2 DEF RankedJob
<1>4. rankedJobs' \in Seq(RankedJob)
  BY <1>3, TypesNow, JobUpdate DEF SubmitRankedResult
<1>5. tokens' \in [Accounts \cup {Arena} -> Nat]
  BY <1>1, TransferTypes, EohAssumption DEF SubmitRankedResult, ContractTypes
<1>6. vaultBalance' \in [Versions -> Nat]
  <2>1. vaultBalance[v] >= n /\ vaultBalance[v] \in Nat
    BY TypesNow DEF SubmitRankedResult, CanPay
  <2>2. vaultBalance[v] - n + reward \in Nat
    BY <1>1, <2>1
  <2>. QED
    BY <2>2, TypesNow DEF SubmitRankedResult
<1>7. pool' \in Pool
  <2>1. pool \in Pool /\ reward \in Int /\ n \in Int
    BY <1>1, TypesNow
  <2>2. pool' = [pool EXCEPT !.reserved = @ - reward, !.vaults = @ - n + reward]
    BY DEF SubmitRankedResult
  <2>. QED
    BY <2>1, <2>2, PoolMoves
<1>8. EconTypes'
  <2>0. economy[v][CurrentEpoch] \in [revenue: Nat, cost: Nat]
    BY <1>2, TypesNow
  <2>1. /\ economy[v][CurrentEpoch].revenue + reward \in Nat
        /\ economy[v][CurrentEpoch].cost + n \in Nat
    BY <1>1, <2>0
  <2>. QED
    BY <1>2, <2>1, TypesNow DEF SubmitRankedResult, BookRanked, EconTypes
<1>9. SeatTypes'
  <2>1. PICK mark \in Nat : versions' = [versions EXCEPT ![v].lastPositiveProfitAt = mark]
    BY TypesNow DEF SubmitRankedResult, MarkProfit, Version
  <2>. QED
    BY <2>1 DEF SubmitRankedResult, ContractTypes, SeatTypes, Version
<1>10. UNCHANGED <<now, marketJobs>>
  BY DEF SubmitRankedResult
<1>. QED
  BY <1>4, <1>5, <1>6, <1>7, <1>8, <1>9, <1>10, TypesFrom DEF ContractTypes, JobTypes, Performed

LEMMA ExpiredTypes ==
  ASSUME ContractTypes, NEW j \in DOMAIN rankedJobs, ExpireRankedJob(j)
  PROVE  ContractTypes'
<1>1. rankedJobs[j] \in RankedJob /\ rankedJobs[j].reward \in Nat
  BY TypesNow DEF RankedJob
<1>2. [rankedJobs[j] EXCEPT !.status = "expired"] \in RankedJob
  BY <1>1 DEF RankedJob
<1>3. rankedJobs' \in Seq(RankedJob)
  BY <1>2, TypesNow, JobUpdate DEF ExpireRankedJob
<1>4. pool' \in Pool
  <2>1. pool \in Pool /\ rankedJobs[j].reward \in Int
    BY <1>1, TypesNow
  <2>2. pool' = [pool EXCEPT !.reserved  = @ - rankedJobs[j].reward,
                            !.available = @ + rankedJobs[j].reward]
    BY DEF ExpireRankedJob
  <2>. QED
    BY <2>1, <2>2, PoolMoves
<1>5. UNCHANGED <<now, tokens, seatVars, vaultBalance, economy, marketJobs>>
  BY DEF ExpireRankedJob
<1>. QED
  BY <1>3, <1>4, <1>5, TypesNow, TypesFrom, FrameTypes
     DEF ContractTypes, JobTypes, Performed

\* A market job moves on to a state a job may be in.
LEMMA MarketJobMoves ==
  ASSUME ContractTypes, NEW j \in DOMAIN marketJobs,
         NEW s \in {"submitted", "accepted", "refunded"}, NEW w \in Versions \cup {Zero},
         s = "submitted" => w \in Versions,
         marketJobs' = [marketJobs EXCEPT ![j] = [@ EXCEPT !.performer = w, !.status = s]]
  PROVE  marketJobs' \in Seq(MarketJob) /\ Performed'
<1>. DEFINE job == [marketJobs[j] EXCEPT !.performer = w, !.status = s]
<1>1. job \in MarketJob /\ job.status = s /\ job.performer = w
  BY TypesNow DEF MarketJob
<1>2. /\ marketJobs' \in Seq(MarketJob) /\ DOMAIN marketJobs' = DOMAIN marketJobs
      /\ marketJobs'[j] = job
      /\ \A i \in DOMAIN marketJobs : i # j => marketJobs'[i] = marketJobs[i]
  BY <1>1, TypesNow, JobUpdate
<1>. QED
  BY <1>1, <1>2 DEF Performed, ContractTypes

\* ... and what it does not name stays.
LEMMA MarketStatusMoves ==
  ASSUME ContractTypes, NEW j \in DOMAIN marketJobs, NEW s \in {"accepted", "refunded"},
         marketJobs' = [marketJobs EXCEPT ![j] = [@ EXCEPT !.status = s]]
  PROVE  marketJobs' \in Seq(MarketJob) /\ Performed'
<1>. DEFINE job == [marketJobs[j] EXCEPT !.status = s]
<1>1. job \in MarketJob /\ job.status = s
  BY TypesNow DEF MarketJob
<1>2. /\ marketJobs' \in Seq(MarketJob) /\ DOMAIN marketJobs' = DOMAIN marketJobs
      /\ marketJobs'[j] = job
      /\ \A i \in DOMAIN marketJobs : i # j => marketJobs'[i] = marketJobs[i]
  BY <1>1, TypesNow, JobUpdate
<1>. QED
  BY <1>1, <1>2 DEF Performed, ContractTypes

LEMMA OpenedTypes ==
  ASSUME ContractTypes, NEW a \in Accounts, NEW v \in Versions, NEW o \in Orders,
         OpenMarketJob(a, v, o)
  PROVE  ContractTypes'
<1>1. o.reward \in Nat /\ o.deadline \in Nat
  BY EohAssumption
<1>. DEFINE job == [buyer |-> a, target |-> v, reward |-> o.reward, deadline |-> o.deadline,
                    performer |-> Zero, status |-> "open"]
<1>2. job \in MarketJob /\ job.status = "open"
  BY <1>1 DEF MarketJob
<1>3. marketJobs' = Append(marketJobs, job)
  BY DEF OpenMarketJob
<1>4. marketJobs' \in Seq(MarketJob) /\ Performed'
  <2>1. /\ marketJobs' \in Seq(MarketJob) /\ DOMAIN marketJobs = 1 .. Len(marketJobs)
        /\ DOMAIN marketJobs' = 1 .. Len(marketJobs) + 1
        /\ marketJobs'[Len(marketJobs) + 1] = job
        /\ \A i \in 1 .. Len(marketJobs) : marketJobs'[i] = marketJobs[i]
        /\ Len(marketJobs) \in Nat
    BY <1>2, <1>3, TypesNow, AppendProperties, LenProperties
  <2>. QED
    BY <1>2, <2>1 DEF Performed, ContractTypes
<1>5. tokens' \in [Accounts \cup {Arena} -> Nat]
  BY <1>1, TransferTypes, EohAssumption DEF OpenMarketJob, ContractTypes
<1>6. pool' \in Pool
  <2>1. pool \in Pool /\ o.reward \in Int
    BY <1>1, TypesNow
  <2>2. pool' = [pool EXCEPT !.market = @ + o.reward]
    BY DEF OpenMarketJob
  <2>. QED
    BY <2>1, <2>2, PoolMoves
<1>7. UNCHANGED <<now, seatVars, vaultBalance, economy, rankedJobs>>
  BY DEF OpenMarketJob
<1>. QED
  BY <1>4, <1>5, <1>6, <1>7, TypesNow, TypesFrom, FrameTypes
     DEF ContractTypes, JobTypes
LEMMA MarketTypes ==
  ASSUME ContractTypes, NEW j \in DOMAIN marketJobs, NEW a \in Accounts,
         SubmitMarketResult(a, j) \/ AcceptMarketResult(a, j) \/ RefundMarketJob(a, j)
  PROVE  ContractTypes'
<1>. DEFINE reward == marketJobs[j].reward
<1>1. marketJobs[j] \in MarketJob /\ reward \in Nat /\ reward \in Int /\ pool \in Pool
  BY TypesNow DEF MarketJob
<1>2. CASE SubmitMarketResult(a, j)
  <2>. DEFINE performer == LiveBeneficiary(marketJobs[j].target)
  <2>1. performer \in Versions
    BY <1>1, <1>2, BeneficiaryLives DEF SubmitMarketResult, MarketJob, ContractTypes
  <2>2. marketJobs' = [marketJobs EXCEPT ![j] = [@ EXCEPT !.performer = performer,
                                                          !.status = "submitted"]]
    BY <1>2 DEF SubmitMarketResult
  <2>. HIDE DEF performer
  <2>3. marketJobs' \in Seq(MarketJob) /\ Performed'
    BY <2>1, <2>2, MarketJobMoves
  <2>4. UNCHANGED <<now, tokens, seatVars, vaultBalance, economy, pool, rankedJobs>>
    BY <1>2 DEF SubmitMarketResult, vaultVars
  <2>. QED
    BY <2>3, <2>4, TypesNow, TypesFrom, FrameTypes DEF ContractTypes, JobTypes
<1>3. CASE AcceptMarketResult(a, j)
  <2>1. marketJobs' = [marketJobs EXCEPT ![j] = [@ EXCEPT !.status = "accepted"]]
    BY <1>3 DEF AcceptMarketResult
  <2>2. marketJobs' \in Seq(MarketJob) /\ Performed'
    BY <2>1, MarketStatusMoves
  <2>3. pool' \in Pool
    <3>1. \/ pool' = [pool EXCEPT !.market = @ - reward, !.available = @ + reward]
          \/ pool' = [pool EXCEPT !.market = @ - reward, !.vaults = @ + reward]
      BY <1>3 DEF AcceptMarketResult, RewardToCommons
    <3>. QED
      BY <1>1, <3>1, PoolMoves
  <2>4. vaultBalance' \in [Versions -> Nat]
    <3>1. \/ UNCHANGED vaultBalance
          \/ vaultBalance' = [vaultBalance EXCEPT ![Payee(j)] = @ + reward]
      BY <1>3 DEF AcceptMarketResult, RewardToCommons
    <3>2. vaultBalance \in [Versions -> Nat] /\ reward \in Nat
      BY <1>1, TypesNow
    <3>. HIDE DEF reward
    <3>3. ASSUME NEW v PROVE [vaultBalance EXCEPT ![v] = @ + reward] \in [Versions -> Nat]
      <4>1. CASE v \in Versions
        BY <3>2, <4>1
      <4>2. CASE v \notin Versions
        BY <3>2, <4>2
      <4>. QED
        BY <4>1, <4>2
    <3>. QED
      BY <3>1, <3>2, <3>3
  <2>5. UNCHANGED <<now, tokens, seatVars, economy, rankedJobs>>
    BY <1>3 DEF AcceptMarketResult
  <2>. QED
    BY <2>2, <2>3, <2>4, <2>5, TypesNow, TypesFrom, FrameTypes DEF ContractTypes, JobTypes
<1>4. CASE RefundMarketJob(a, j)
  <2>1. marketJobs' = [marketJobs EXCEPT ![j] = [@ EXCEPT !.status = "refunded"]]
    BY <1>4 DEF RefundMarketJob
  <2>2. marketJobs' \in Seq(MarketJob) /\ Performed'
    BY <2>1, MarketStatusMoves
  <2>3. pool' \in Pool
    <3>1. pool' = [pool EXCEPT !.market = @ - reward]
      BY <1>4 DEF RefundMarketJob
    <3>. QED
      BY <1>1, <3>1, PoolMoves
  <2>4. tokens' \in [Accounts \cup {Arena} -> Nat]
    BY <1>1, <1>4, TransferTypes, EohAssumption DEF RefundMarketJob, ContractTypes
  <2>5. UNCHANGED <<now, seatVars, vaultBalance, economy, rankedJobs>>
    BY <1>4 DEF RefundMarketJob
  <2>. QED
    BY <2>2, <2>3, <2>4, <2>5, TypesNow, TypesFrom, FrameTypes DEF ContractTypes, JobTypes
<1>. QED
  BY <1>2, <1>3, <1>4

LEMMA JobStepTypes == ContractTypes /\ JobStep => ContractTypes'
BY CreatedTypes, SettledTypes, ExpiredTypes, OpenedTypes, MarketTypes DEF JobStep

\* The seat changes hands with the vault.
LEMMA SucceedTypes ==
  ASSUME ContractTypes, NEW v \in Versions, NEW e, MayChallenge(v, e), Succeed(v),
         UNCHANGED founded
  PROVE  SeatTypes' /\ vaultBalance' \in [Versions -> Nat]
<1>. DEFINE incumbent == active[LineageOf[v]]
<1>1. incumbent \in Versions /\ LineageOf[v] \in Lineages
  BY EohAssumption DEF MayChallenge, ContractTypes, SeatTypes
<1>2. active' \in [Lineages -> Versions \cup {Zero}]
  BY <1>1 DEF Succeed, ContractTypes, SeatTypes
<1>3. versions' \in [Versions -> Version]
  <2>. DEFINE retired == [versions EXCEPT ![incumbent].status = "superseded"]
              linked  == [retired EXCEPT ![incumbent].successor = v]
  <2>1. retired \in [Versions -> Version]
    BY <1>1, TypesNow, ZenonT(60) DEF Version, Statuses
  <2>2. linked \in [Versions -> Version]
    BY <1>1, <2>1 DEF Version
  <2>. HIDE DEF linked
  <2>3. [linked EXCEPT ![v].status = "active"] \in [Versions -> Version]
    BY <2>2 DEF Version, Statuses
  <2>. USE DEF linked
  <2>. QED
    BY <2>3 DEF Succeed
<1>4. vaultBalance' \in [Versions -> Nat]
  <2>. DEFINE emptied == [vaultBalance EXCEPT ![incumbent] = 0]
  <2>1. emptied \in [Versions -> Nat] /\ vaultBalance[incumbent] \in Nat
    BY <1>1, TypesNow
  <2>2. [emptied EXCEPT ![v] = @ + vaultBalance[incumbent]] \in [Versions -> Nat]
    BY <2>1
  <2>. QED
    BY <2>2 DEF Succeed
<1>. QED
  BY <1>2, <1>3, <1>4 DEF ContractTypes, SeatTypes

LEMMA SelectionStepTypes == ContractTypes /\ SelectionStep => ContractTypes'
<1>. SUFFICES ASSUME ContractTypes, SelectionStep PROVE ContractTypes'
  OBVIOUS
<1>. USE DEF SelectionUnchanged
<1>1. ASSUME NEW v \in Versions, NEW e \in Epochs, MayChallenge(v, e), Succeed(v),
             SelectionUnchanged, UNCHANGED pool
      PROVE  ContractTypes'
  BY <1>1, SucceedTypes, TypesNow, TypesFrom, FrameTypes DEF ContractTypes, jobVars
<1>2. ASSUME NEW v \in Versions, NEW e \in Epochs, NEW s \in Salts, CommitSupersede(v, e, s)
      PROVE  ContractTypes'
  <2>1. UNCHANGED <<now, tokens, seatVars, vaultVars, jobVars>>
    BY <1>2 DEF CommitSupersede
  <2>2. UNCHANGED <<vaultBalance, economy, pool, rankedJobs, marketJobs>>
    BY <2>1 DEF vaultVars, jobVars
  <2>. QED
    BY <2>1, <2>2, TypesNow, TypesFrom, FrameTypes DEF ContractTypes
<1>3. ASSUME NEW v \in Versions, NEW e \in Epochs, ClaimVacancy(v, e) PROVE ContractTypes'
  <2>1. SeatTypes'
    <3>1. versions' = [versions EXCEPT ![v].status = "active"]
      BY <1>3 DEF ClaimVacancy
    <3>2. versions' \in [Versions -> Version]
      BY <3>1, TypesNow DEF Version, Statuses
    <3>3. active' \in [Lineages -> Versions \cup {Zero}] /\ UNCHANGED founded
      BY <1>3 DEF ClaimVacancy, ContractTypes, SeatTypes
    <3>. QED
      BY <3>2, <3>3 DEF ContractTypes, SeatTypes
  <2>2. UNCHANGED <<now, tokens, vaultBalance, economy, pool, rankedJobs, marketJobs>>
    BY <1>3 DEF ClaimVacancy, jobVars
  <2>. QED
    BY <2>1, <2>2, TypesNow, TypesFrom, FrameTypes DEF ContractTypes
<1>4. ASSUME NEW v \in Versions, EjectStale(v) PROVE ContractTypes'
  <2>1. SeatTypes'
    <3>1. versions' = [versions EXCEPT ![v].status = "stale"]
      BY <1>4 DEF EjectStale
    <3>2. versions' \in [Versions -> Version]
      BY <3>1, TypesNow DEF Version, Statuses
    <3>3. active' \in [Lineages -> Versions \cup {Zero}] /\ UNCHANGED founded
      BY <1>4, EohAssumption DEF EjectStale, ContractTypes, SeatTypes
    <3>. QED
      BY <3>2, <3>3 DEF ContractTypes, SeatTypes
  <2>2. vaultBalance' \in [Versions -> Nat]
    BY <1>4, TypesNow DEF EjectStale
  <2>3. pool' \in Pool
    <3>1. pool \in Pool /\ vaultBalance[v] \in Int
      BY TypesNow
    <3>2. pool' = [pool EXCEPT !.vaults = @ - vaultBalance[v], !.available = @ + vaultBalance[v]]
      BY <1>4 DEF EjectStale
    <3>. QED
      BY <3>1, <3>2, PoolMoves
  <2>4. UNCHANGED <<now, tokens, economy, jobVars>>
    BY <1>4 DEF EjectStale
  <2>. QED
    BY <2>1, <2>2, <2>3, <2>4, TypesNow, TypesFrom, FrameTypes DEF ContractTypes, jobVars
<1>5. ASSUME NEW v \in Versions, NEW e \in Epochs, Supersede(v, e) PROVE ContractTypes'
  BY <1>1, <1>5 DEF Supersede
<1>6. ASSUME NEW v \in Versions, NEW e \in Epochs, NEW s \in Salts, RevealSupersede(v, e, s)
      PROVE  ContractTypes'
  BY <1>1, <1>6 DEF RevealSupersede
<1>. QED
  BY <1>2, <1>3, <1>4, <1>5, <1>6 DEF SelectionStep

LEMMA TickTypes == ContractTypes /\ Tick => ContractTypes'
<1>. SUFFICES ASSUME ContractTypes, Tick PROVE ContractTypes'
  OBVIOUS
<1>1. ClockTypes'
  BY EohAssumption DEF ContractTypes, ClockTypes, Tick
<1>2. UNCHANGED <<tokens, seatVars, vaultVars, jobVars>>
  BY DEF Tick
<1>. QED
  BY <1>1, <1>2, FrameTypes DEF ContractTypes, vaultVars, jobVars

LEMMA StutterTypes == ContractTypes /\ UNCHANGED vars => ContractTypes'
BY FrameTypes DEF vars, vaultVars, jobVars, ContractTypes, ClockTypes

LEMMA TypesInductive == ContractTypes /\ [Next]_vars => ContractTypes'
BY TickTypes, MoneyStepTypes, VersionStepTypes, JobStepTypes, SelectionStepTypes, StutterTypes
   DEF Next

(* No call of the contract, in any order, overdraws an account or a vault: the
   checks before each debit are enough. *)
THEOREM ContractTypesCorrect == Spec => []ContractTypes
BY InitTypes, TypesInductive, PTL DEF Spec
(***************************************************************************)
(* The seat.  Every call is one of five effects on statuses, the pointer   *)
(* and the lineages that exist.                                            *)
(***************************************************************************)
StatusOf == [v \in Versions |-> versions[v].status]

Founds(v) ==
  /\ LineageOf[v] \notin founded /\ StatusOf[v] = "none"
  /\ StatusOf' = [StatusOf EXCEPT ![v] = "active"]
  /\ active' = [active EXCEPT ![LineageOf[v]] = v]
  /\ founded' = founded \cup {LineageOf[v]}

Joins(v) ==
  /\ LineageOf[v] \in founded /\ StatusOf[v] = "none"
  /\ StatusOf' = [StatusOf EXCEPT ![v] = "incubating"]
  /\ UNCHANGED <<active, founded>>

Succeeds(v) ==
  LET incumbent == active[LineageOf[v]]
  IN  /\ StatusOf[v] = "incubating" /\ incumbent \notin {Zero, v}
      /\ StatusOf' = [StatusOf EXCEPT ![incumbent] = "superseded", ![v] = "active"]
      /\ active' = [active EXCEPT ![LineageOf[v]] = v]
      /\ UNCHANGED founded

Ejects(v) ==
  /\ StatusOf[v] \in {"incubating", "active"}
  /\ StatusOf' = [StatusOf EXCEPT ![v] = "stale"]
  /\ active' = [active EXCEPT ![LineageOf[v]] = IF @ = v THEN Zero ELSE @]
  /\ UNCHANGED founded

Claims(v) ==
  /\ StatusOf[v] = "incubating" /\ active[LineageOf[v]] = Zero
  /\ StatusOf' = [StatusOf EXCEPT ![v] = "active"]
  /\ active' = [active EXCEPT ![LineageOf[v]] = v]
  /\ UNCHANGED founded

SeatEffect ==
  \/ UNCHANGED <<StatusOf, active, founded>>
  \/ \E v \in Versions : Founds(v) \/ Joins(v) \/ Succeeds(v) \/ Ejects(v) \/ Claims(v)

\* Calls about money and jobs leave the seat alone.
LEMMA QuietSteps ==
  ASSUME ContractTypes, Tick \/ MoneyStep \/ JobStep
  PROVE  UNCHANGED <<StatusOf, active, founded>>
<1>. USE DEF seatVars
<1>1. CASE UNCHANGED <<versions, active, founded>>
  BY <1>1 DEF StatusOf
<1>2. CASE Tick \/ MoneyStep
  BY <1>1, <1>2 DEF Tick, MoneyStep, Gift, FundCommons, Donate, SettleOperatingExpense,
     AbsorbSurplus
<1>3. ASSUME NEW leaf \in Schedule, CreateRankedJob(leaf)
      PROVE  UNCHANGED <<StatusOf, active, founded>>
  BY <1>1, <1>3 DEF CreateRankedJob
<1>4. ASSUME NEW j \in DOMAIN rankedJobs, NEW a \in Accounts, NEW r \in Accounts \cup {Arena},
             NEW v \in Versions, NEW p \in Proofs, NEW n \in Costs,
             SubmitRankedResult(a, j, v, p, n, r)
      PROVE  UNCHANGED <<StatusOf, active, founded>>
  <2>1. PICK mark : versions' = [versions EXCEPT ![v].lastPositiveProfitAt = mark]
    BY <1>4 DEF SubmitRankedResult, MarkProfit
  <2>2. \A w \in Versions : versions'[w].status = versions[w].status
    BY <2>1, TypesNow DEF Version
  <2>. QED
    BY <1>4, <2>2 DEF SubmitRankedResult, StatusOf
<1>5. ASSUME NEW j \in DOMAIN rankedJobs, ExpireRankedJob(j)
      PROVE  UNCHANGED <<StatusOf, active, founded>>
  BY <1>1, <1>5 DEF ExpireRankedJob
<1>6. ASSUME NEW a \in Accounts,
             \/ \E v \in Versions, o \in Orders : OpenMarketJob(a, v, o)
             \/ \E j \in DOMAIN marketJobs :
                  SubmitMarketResult(a, j) \/ AcceptMarketResult(a, j) \/ RefundMarketJob(a, j)
      PROVE  UNCHANGED <<StatusOf, active, founded>>
  BY <1>1, <1>6 DEF OpenMarketJob, SubmitMarketResult, AcceptMarketResult, RefundMarketJob
<1>. QED
  BY <1>2, <1>3, <1>4, <1>5, <1>6 DEF JobStep

LEMMA VersionEffects ==
  ASSUME ContractTypes, NEW a \in Accounts, NEW v \in Versions,
         CreateLineage(a, v) \/ RegisterVersion(a, v) \/ Heartbeat(a, v)
  PROVE  SeatEffect
<1>. USE DEF Status
<1>1. CASE CreateLineage(a, v)
  <2>1. StatusOf' = [StatusOf EXCEPT ![v] = "active"]
    BY <1>1, TypesNow DEF CreateLineage, StoreVersion, StatusOf
  <2>2. Founds(v)
    BY <1>1, <2>1 DEF CreateLineage, Founds, StatusOf
  <2>. QED
    BY <2>2 DEF SeatEffect
<1>2. CASE RegisterVersion(a, v)
  <2>1. StatusOf' = [StatusOf EXCEPT ![v] = "incubating"]
    BY <1>2, TypesNow DEF RegisterVersion, StoreVersion, StatusOf
  <2>2. Joins(v)
    BY <1>2, <2>1 DEF RegisterVersion, Joins, StatusOf
  <2>. QED
    BY <2>2 DEF SeatEffect
<1>3. CASE Heartbeat(a, v)
  <2>1. \A w \in Versions : versions'[w].status = versions[w].status
    BY <1>3, TypesNow DEF Heartbeat, Version
  <2>. QED
    BY <1>3, <2>1 DEF Heartbeat, StatusOf, SeatEffect
<1>. QED
  BY <1>1, <1>2, <1>3

LEMMA SelectionEffects ==
  ASSUME ContractTypes, SelectionStep PROVE SeatEffect
<1>. USE DEF Status, SelectionUnchanged
<1>1. ASSUME NEW v \in Versions, NEW e, MayChallenge(v, e), Succeed(v), UNCHANGED founded
      PROVE  Succeeds(v)
  <2>1. active[LineageOf[v]] \in Versions
    BY <1>1, EohAssumption DEF MayChallenge, ContractTypes, SeatTypes
  <2>2. \A w \in Versions : versions'[w].status =
          IF w = v THEN "active"
          ELSE IF w = active[LineageOf[v]] THEN "superseded" ELSE versions[w].status
    BY <1>1, <2>1, TypesNow DEF Succeed, Version
  <2>3. StatusOf' = [StatusOf EXCEPT ![active[LineageOf[v]]] = "superseded", ![v] = "active"]
    BY <2>1, <2>2 DEF StatusOf
  <2>. QED
    BY <1>1, <2>3 DEF Succeeds, Succeed, MayChallenge, StatusOf
<1>2. ASSUME NEW v \in Versions, NEW e \in Epochs, Supersede(v, e) PROVE Succeeds(v)
  BY <1>1, <1>2 DEF Supersede
<1>3. ASSUME NEW v \in Versions, NEW e \in Epochs, NEW s \in Salts, RevealSupersede(v, e, s)
      PROVE  Succeeds(v)
  BY <1>1, <1>3 DEF RevealSupersede
<1>4. ASSUME NEW v \in Versions, NEW e \in Epochs, NEW s \in Salts, CommitSupersede(v, e, s)
      PROVE  UNCHANGED <<StatusOf, active, founded>>
  BY <1>4 DEF CommitSupersede, seatVars, StatusOf
<1>5. ASSUME NEW v \in Versions, NEW e \in Epochs, ClaimVacancy(v, e) PROVE Claims(v)
  <2>1. StatusOf' = [StatusOf EXCEPT ![v] = "active"]
    BY <1>5, TypesNow DEF ClaimVacancy, StatusOf, Version
  <2>. QED
    BY <1>5, <2>1 DEF ClaimVacancy, Claims, StatusOf
<1>6. ASSUME NEW v \in Versions, EjectStale(v) PROVE Ejects(v)
  <2>1. StatusOf' = [StatusOf EXCEPT ![v] = "stale"]
    BY <1>6, TypesNow DEF EjectStale, StatusOf, Version
  <2>. QED
    BY <1>6, <2>1 DEF EjectStale, Ejects, StatusOf, Live
<1>. QED
  BY <1>2, <1>3, <1>4, <1>5, <1>6 DEF SelectionStep, SeatEffect

LEMMA StepEffects == ContractTypes /\ [Next]_vars => SeatEffect
<1>. SUFFICES ASSUME ContractTypes, [Next]_vars PROVE SeatEffect
  OBVIOUS
<1>1. CASE Tick \/ MoneyStep \/ JobStep
  BY <1>1, QuietSteps DEF SeatEffect
<1>2. CASE VersionStep
  BY <1>2, VersionEffects DEF VersionStep
<1>3. CASE SelectionStep
  BY <1>3, SelectionEffects
<1>4. CASE UNCHANGED vars
  BY <1>4 DEF vars, seatVars, StatusOf, SeatEffect
<1>. QED
  BY <1>1, <1>2, <1>3, <1>4 DEF Next

\* Pointers, statuses and lineages agree.
SeatInv ==
  /\ \A v \in Versions : StatusOf[v] = "active" <=> active[LineageOf[v]] = v
  /\ \A l \in Lineages : active[l] # Zero => l \in founded /\ LineageOf[active[l]] = l
  /\ \A v \in Versions : StatusOf[v] # "none" => LineageOf[v] \in founded

LEMMA SeatFacts ==
  ASSUME ContractTypes
  PROVE  /\ StatusOf \in [Versions -> Statuses]
         /\ active \in [Lineages -> Versions \cup {Zero}] /\ founded \subseteq Lineages
         /\ \A v \in Versions : LineageOf[v] \in Lineages
BY TypesNow, EohAssumption DEF StatusOf, Version, ContractTypes, SeatTypes

LEMMA SeatInduction ==
  ASSUME ContractTypes, SeatInv, SeatEffect PROVE SeatInv'
<1>. USE EohAssumption, SeatFacts
<1>1. CASE UNCHANGED <<StatusOf, active, founded>>
  BY <1>1 DEF SeatInv
<1>2. ASSUME NEW v \in Versions, Founds(v) PROVE SeatInv'
  BY <1>2 DEF SeatInv, Founds
<1>3. ASSUME NEW v \in Versions, Joins(v) PROVE SeatInv'
  BY <1>3 DEF SeatInv, Joins
<1>4. ASSUME NEW v \in Versions, Succeeds(v) PROVE SeatInv'
  BY <1>4 DEF SeatInv, Succeeds
<1>5. ASSUME NEW v \in Versions, Ejects(v) PROVE SeatInv'
  BY <1>5 DEF SeatInv, Ejects
<1>6. ASSUME NEW v \in Versions, Claims(v) PROVE SeatInv'
  BY <1>6 DEF SeatInv, Claims
<1>. QED
  BY <1>1, <1>2, <1>3, <1>4, <1>5, <1>6 DEF SeatEffect

LEMMA SeatStepImplemented ==
  ASSUME ContractTypes, SeatInv, SeatEffect
  PROVE  [Seat!SeatNext]_(Seat!seatVars)
<1>. USE EohAssumption, SeatFacts DEF Seat!seatVars, Statuses
<1>0. /\ {v \in Versions : Status(v) = "incubating"} = {v \in Versions : StatusOf[v] = "incubating"}
      /\ {v \in Versions : Status(v) \in {"superseded", "stale"}} =
           {v \in Versions : StatusOf[v] \in {"superseded", "stale"}}
      /\ {v \in Versions : Status(v) = "incubating"}' =
           {v \in Versions : StatusOf'[v] = "incubating"}
      /\ {v \in Versions : Status(v) \in {"superseded", "stale"}}' =
           {v \in Versions : StatusOf'[v] \in {"superseded", "stale"}}
  BY DEF Status, StatusOf
<1>1. CASE UNCHANGED <<StatusOf, active, founded>>
  BY <1>0, <1>1
<1>2. ASSUME NEW v \in Versions, Founds(v) PROVE Seat!Found(v)
  BY <1>0, <1>2 DEF SeatInv, Founds, Seat!Found
<1>3. ASSUME NEW v \in Versions, Joins(v) PROVE Seat!Join(v)
  BY <1>0, <1>3 DEF SeatInv, Joins, Seat!Join
<1>4. ASSUME NEW v \in Versions, Succeeds(v) PROVE Seat!HandOver(v)
  BY <1>0, <1>4 DEF SeatInv, Succeeds, Seat!HandOver
<1>5. ASSUME NEW v \in Versions, Ejects(v) PROVE Seat!Retire(v)
  BY <1>0, <1>5 DEF SeatInv, Ejects, Seat!Retire
<1>6. ASSUME NEW v \in Versions, Claims(v) PROVE Seat!Claim(v)
  BY <1>0, <1>6 DEF SeatInv, Claims, Seat!Claim
<1>. QED
  BY <1>1, <1>2, <1>3, <1>4, <1>5, <1>6 DEF SeatEffect, Seat!SeatNext

LEMMA SeatInvariant == Spec => []SeatInv
<1>1. Init => SeatInv
  BY EohAssumption DEF Init, SeatInv, StatusOf
<1>2. ContractTypes /\ SeatInv /\ [Next]_vars => SeatInv'
  BY StepEffects, SeatInduction
<1>. QED
  BY <1>1, <1>2, ContractTypesCorrect, PTL DEF Spec

(* The contract's seat is the abstract one for any number of lineages and
   versions: founded once, handed over, vacated or claimed, never taken back by
   whoever lost it. *)
THEOREM ContractSeatImplemented == Spec => ImplementsSeat
<1>1. Init => Seat!SeatInit
  BY EohAssumption DEF Init, Seat!SeatInit, Status
<1>2. ContractTypes /\ SeatInv /\ [Next]_vars => [Seat!SeatNext]_(Seat!seatVars)
  BY StepEffects, SeatStepImplemented
<1>. QED
  BY <1>1, <1>2, ContractTypesCorrect, SeatInvariant, PTL
     DEF Spec, ImplementsSeat, Seat!SeatSpec
(***************************************************************************)
(* Money never rests with a version that is not live.                      *)
(***************************************************************************)
LEMMA LiveNow ==
  ASSUME NEW v \in Versions PROVE Live(v) <=> StatusOf[v] \in {"incubating", "active"}
BY DEF Live, Status, StatusOf

\* Statuses are kept, and only live versions are paid.
LEMMA PaidWhileLive ==
  ASSUME DeadVaultsEmpty, UNCHANGED StatusOf,
         \A v \in Versions : ~Live(v) => vaultBalance'[v] = vaultBalance[v]
  PROVE  DeadVaultsEmpty'
<1>1. \A v \in Versions : Live(v)' <=> Live(v)
  BY DEF Live, Status, StatusOf
<1>. QED
  BY <1>1 DEF DeadVaultsEmpty

LEMMA VaultsOfLive ==
  ASSUME ContractTypes, Tick \/ MoneyStep \/ JobStep, NEW w \in Versions, ~Live(w)
  PROVE  vaultBalance'[w] = vaultBalance[w]
<1>. USE TypesNow
<1>1. CASE UNCHANGED vaultBalance
  BY <1>1
<1>2. CASE Tick
  BY <1>2 DEF Tick, vaultVars
<1>3. CASE MoneyStep
  <2>1. ASSUME NEW a \in Accounts, NEW v \in Versions, NEW n \in Donations, Donate(a, v, n)
        PROVE  vaultBalance'[w] = vaultBalance[w]
    BY <2>1, BeneficiaryLives DEF Donate, Deposit, ContractTypes
  <2>2. ASSUME NEW a \in Accounts, NEW r \in Accounts \cup {Arena}, NEW v \in Versions,
               NEW n \in Expenses, NEW p \in Proofs, SettleOperatingExpense(a, v, r, n, p)
        PROVE  vaultBalance'[w] = vaultBalance[w]
    BY <2>2 DEF SettleOperatingExpense, Deposit
  <2>. QED
    BY <1>1, <1>3, <2>1, <2>2 DEF MoneyStep, Gift, FundCommons, AbsorbSurplus, vaultVars
<1>4. CASE JobStep
  <2>1. ASSUME NEW j \in DOMAIN rankedJobs, NEW a \in Accounts, NEW r \in Accounts \cup {Arena},
               NEW v \in Versions, NEW p \in Proofs, NEW n \in Costs,
               SubmitRankedResult(a, j, v, p, n, r)
        PROVE  vaultBalance'[w] = vaultBalance[w]
    BY <2>1 DEF SubmitRankedResult
  <2>2. ASSUME NEW a \in Accounts, NEW j \in DOMAIN marketJobs, AcceptMarketResult(a, j)
        PROVE  vaultBalance'[w] = vaultBalance[w]
    <3>1. marketJobs[j].performer \in Versions
      BY <2>2 DEF AcceptMarketResult, ContractTypes, Performed
    <3>2. Payee(j) \in Versions \cup {Zero} /\ (Payee(j) # Zero => Live(Payee(j)))
      BY <3>1, BeneficiaryLives DEF Payee, ContractTypes
    <3>3. \/ UNCHANGED vaultBalance
          \/ /\ Payee(j) # Zero
             /\ vaultBalance' = [vaultBalance EXCEPT ![Payee(j)] = @ + marketJobs[j].reward]
      BY <2>2 DEF AcceptMarketResult, RewardToCommons
    <3>. QED
      BY <3>2, <3>3
  <2>3. ASSUME NEW a \in Accounts, NEW j \in DOMAIN marketJobs,
               SubmitMarketResult(a, j) \/ RefundMarketJob(a, j)
        PROVE  UNCHANGED vaultBalance
    BY <2>3 DEF SubmitMarketResult, RefundMarketJob, vaultVars
  <2>4. ASSUME NEW a \in Accounts, NEW v \in Versions, NEW o \in Orders, OpenMarketJob(a, v, o)
        PROVE  UNCHANGED vaultBalance
    BY <2>4 DEF OpenMarketJob
  <2>5. ASSUME NEW leaf \in Schedule, CreateRankedJob(leaf) PROVE UNCHANGED vaultBalance
    BY <2>5 DEF CreateRankedJob
  <2>6. ASSUME NEW j \in DOMAIN rankedJobs, ExpireRankedJob(j) PROVE UNCHANGED vaultBalance
    BY <2>6 DEF ExpireRankedJob
  <2>. QED
    BY <1>1, <1>4, <2>1, <2>2, <2>3, <2>4, <2>5, <2>6 DEF JobStep
<1>. QED
  BY <1>2, <1>3, <1>4

LEMMA DeadVaultsVersion ==
  ASSUME ContractTypes, DeadVaultsEmpty, VersionStep PROVE DeadVaultsEmpty'
<1>. SUFFICES ASSUME NEW a \in Accounts, NEW v \in Versions,
                     CreateLineage(a, v) \/ RegisterVersion(a, v) \/ Heartbeat(a, v)
              PROVE  DeadVaultsEmpty'
  BY DEF VersionStep
<1>1. UNCHANGED vaultBalance
  BY DEF CreateLineage, RegisterVersion, Heartbeat, vaultVars
<1>2. \A w \in Versions : Live(w) => Live(w)'
  BY TypesNow DEF CreateLineage, RegisterVersion, Heartbeat, StoreVersion, Live, Status, Version
<1>. QED
  BY <1>1, <1>2 DEF DeadVaultsEmpty

LEMMA DeadVaultsSelection ==
  ASSUME ContractTypes, DeadVaultsEmpty, SelectionStep PROVE DeadVaultsEmpty'
<1>. USE TypesNow
<1>1. ASSUME NEW v \in Versions, NEW e, MayChallenge(v, e), Succeed(v) PROVE DeadVaultsEmpty'
  <2>. DEFINE incumbent == active[LineageOf[v]]
  <2>1. incumbent \in Versions /\ incumbent # v
    BY <1>1, EohAssumption DEF MayChallenge, ContractTypes, SeatTypes
  <2>2. \A w \in Versions : vaultBalance'[w] =
          IF w = v THEN vaultBalance[v] + vaultBalance[incumbent]
          ELSE IF w = incumbent THEN 0 ELSE vaultBalance[w]
    BY <1>1, <2>1 DEF Succeed
  <2>3. \A w \in Versions : versions'[w].status =
          IF w = v THEN "active"
          ELSE IF w = incumbent THEN "superseded" ELSE versions[w].status
    BY <1>1, <2>1 DEF Succeed, Version
  <2>. QED
    BY <2>2, <2>3 DEF DeadVaultsEmpty, Live, Status
<1>2. ASSUME NEW v \in Versions, NEW e \in Epochs, ClaimVacancy(v, e) PROVE DeadVaultsEmpty'
  BY <1>2 DEF ClaimVacancy, DeadVaultsEmpty, Live, Status, Version
<1>3. ASSUME NEW v \in Versions, EjectStale(v) PROVE DeadVaultsEmpty'
  BY <1>3 DEF EjectStale, DeadVaultsEmpty, Live, Status, Version
<1>4. ASSUME NEW v \in Versions, NEW e \in Epochs, NEW s \in Salts, CommitSupersede(v, e, s)
      PROVE  DeadVaultsEmpty'
  BY <1>4 DEF CommitSupersede, seatVars, vaultVars, DeadVaultsEmpty, Live, Status
<1>. QED
  BY <1>1, <1>2, <1>3, <1>4 DEF SelectionStep, Supersede, RevealSupersede

(* In the contract too, no payment that named a version before it lost its
   status leaves money with it. *)
THEOREM ContractDeadVaults == Spec => []DeadVaultsEmpty
<1>1. Init => DeadVaultsEmpty
  BY DEF Init, DeadVaultsEmpty
<1>2. ContractTypes /\ DeadVaultsEmpty /\ [Next]_vars => DeadVaultsEmpty'
  <2>. SUFFICES ASSUME ContractTypes, DeadVaultsEmpty, [Next]_vars PROVE DeadVaultsEmpty'
    OBVIOUS
  <2>1. CASE Tick \/ MoneyStep \/ JobStep
    BY <2>1, QuietSteps, VaultsOfLive, PaidWhileLive
  <2>2. CASE UNCHANGED vars
    BY <2>2 DEF vars, seatVars, vaultVars, DeadVaultsEmpty, Live, Status
  <2>. QED
    BY <2>1, <2>2, DeadVaultsVersion, DeadVaultsSelection DEF Next
<1>. QED
  BY <1>1, <1>2, ContractTypesCorrect, PTL DEF Spec
(***************************************************************************)
(* Ejection looks at a mark, the theorem at the economies: the mark of a   *)
(* version is never older than an epoch in which it is profitable.         *)
(***************************************************************************)
Mark(v)   == versions[v].lastPositiveProfitAt
Begins(e) == e * EPOCH_LENGTH

MarkInv ==
  /\ now > 0
  /\ \A v \in Versions :
       /\ Mark(v) <= now
       /\ \A e \in Epochs : Profit(v, e) > 0 => Mark(v) > 0 /\ Mark(v) >= Begins(e)
       /\ Status(v) = "none" => \A e \in Epochs : Profit(v, e) <= 0

LEMMA MarkFacts ==
  ASSUME ContractTypes
  PROVE  /\ \A e \in Epochs : Begins(e) \in Int
         /\ \A v \in Versions : Mark(v) \in Nat
         /\ \A v \in Versions, e \in Epochs : Profit(v, e) \in Int
         /\ CurrentEpoch \in Epochs /\ Begins(CurrentEpoch) <= now
<1>1. \A e \in Epochs : Begins(e) \in Int
  BY EohAssumption DEF Epochs, Begins
<1>2. CurrentEpoch \in Epochs /\ Begins(CurrentEpoch) <= now
  BY EpochNow DEF ContractTypes, Begins
<1>3. \A v \in Versions : Mark(v) \in Nat
  BY TypesNow DEF Mark, Version
<1>4. \A v \in Versions, e \in Epochs : Profit(v, e) \in Int
  BY TypesNow DEF Profit
<1>. QED
  BY <1>1, <1>2, <1>3, <1>4

\* Steps that settle and register nothing.
LEMMA MarkKept ==
  ASSUME ContractTypes, ContractTypes', MarkInv, UNCHANGED economy, now' >= now,
         \A v \in Versions :
           Mark(v)' = Mark(v) /\ (Status(v)' = "none" => Status(v) = "none")
  PROVE  MarkInv'
<1>1. \A v \in Versions, e \in Epochs : Profit(v, e)' = Profit(v, e)
  BY DEF Profit
<1>2. now' \in Nat /\ now \in Nat
  BY TypesNow DEF ContractTypes, ClockTypes
<1>. QED
  BY <1>1, <1>2, MarkFacts DEF MarkInv

LEMMA MarkAtSettlement ==
  ASSUME ContractTypes, MarkInv, NEW j \in DOMAIN rankedJobs, NEW a \in Accounts,
         NEW r \in Accounts \cup {Arena}, NEW v \in Versions, NEW p \in Proofs, NEW n \in Costs,
         SubmitRankedResult(a, j, v, p, n, r)
  PROVE  MarkInv'
<1>. DEFINE reward == rankedJobs[j].reward
            gain   == Profit(v, CurrentEpoch) + reward - n
<1>1. reward \in Int /\ n \in Int /\ now \in Nat /\ CurrentEpoch \in Epochs /\ gain \in Int
  <2>1. reward \in Int
    BY TypesNow DEF RankedJob
  <2>2. n \in Int
    BY EohAssumption
  <2>3. now \in Nat /\ CurrentEpoch \in Epochs /\ Profit(v, CurrentEpoch) \in Int
    BY TypesNow, MarkFacts
  <2>. QED
    BY <2>1, <2>2, <2>3
<1>2. UNCHANGED now
  BY DEF SubmitRankedResult
<1>3. /\ \A e \in Epochs : e = CurrentEpoch => Profit(v, e)' = gain
      /\ \A w \in Versions, e \in Epochs : w # v \/ e # CurrentEpoch =>
           Profit(w, e)' = Profit(w, e)
  <2>1. economy' = [economy EXCEPT ![v][CurrentEpoch] =
                     [revenue |-> @.revenue + reward, cost |-> @.cost + n]]
    BY DEF SubmitRankedResult, BookRanked
  <2>2. economy[v][CurrentEpoch].revenue \in Int /\ economy[v][CurrentEpoch].cost \in Int
    BY <1>1, TypesNow
  <2>3. economy'[v][CurrentEpoch] = [revenue |-> economy[v][CurrentEpoch].revenue + reward,
                                     cost |-> economy[v][CurrentEpoch].cost + n]
    BY <1>1, <2>1, TypesNow
  <2>4. \A w \in Versions, e \in Epochs : w # v \/ e # CurrentEpoch =>
          economy'[w][e] = economy[w][e]
    BY <2>1, TypesNow
  <2>. QED
    BY <1>1, <2>2, <2>3, <2>4 DEF Profit
<1>4. /\ Mark(v)' = IF gain > 0 THEN now ELSE Mark(v)
      /\ \A w \in Versions : w # v => Mark(w)' = Mark(w)
      /\ \A w \in Versions : Status(w)' = Status(w)
  <2>1. versions' = [versions EXCEPT ![v].lastPositiveProfitAt = IF gain > 0 THEN now ELSE @]
    BY DEF SubmitRankedResult, MarkProfit
  <2>. HIDE DEF gain
  <2>. QED
    BY <2>1, TypesNow DEF Mark, Status, Version
<1>5. Status(v) # "none"
  BY DEF SubmitRankedResult, Live
<1>. HIDE DEF gain, reward
<1>6. ASSUME NEW w \in Versions PROVE
        /\ Mark(w)' <= now
        /\ \A e \in Epochs : Profit(w, e)' > 0 => Mark(w)' > 0 /\ Mark(w)' >= Begins(e)
        /\ Status(w)' = "none" => \A e \in Epochs : Profit(w, e)' <= 0
  <2>1. CASE w # v
    BY <1>3, <1>4, <2>1 DEF MarkInv
  <2>2. CASE w = v
    <3>1. Mark(v)' <= now /\ Mark(v)' \in Nat /\ Mark(v)' >= Mark(v) /\ Mark(v) \in Nat
      BY <1>1, <1>4, MarkFacts DEF MarkInv
    <3>2. ASSUME NEW e \in Epochs, Profit(v, e)' > 0
          PROVE  Mark(v)' > 0 /\ Mark(v)' >= Begins(e)
      <4>1. CASE e = CurrentEpoch
        <5>1. Mark(v)' = now
          BY <1>3, <1>4, <3>2, <4>1
        <5>. QED
          BY <4>1, <5>1, MarkFacts DEF MarkInv
      <4>2. CASE e # CurrentEpoch
        <5>1. Mark(v) > 0 /\ Mark(v) >= Begins(e)
          BY <1>3, <3>2, <4>2 DEF MarkInv
        <5>. QED
          BY <3>1, <5>1, MarkFacts
      <4>. QED
        BY <4>1, <4>2
    <3>. QED
      BY <1>4, <1>5, <2>2, <3>1, <3>2
  <2>. QED
    BY <2>1, <2>2
<1>. QED
  BY <1>2, <1>6 DEF MarkInv, Begins

LEMMA MarkAtRegistration ==
  ASSUME ContractTypes, MarkInv, NEW a \in Accounts, NEW v \in Versions,
         CreateLineage(a, v) \/ RegisterVersion(a, v)
  PROVE  MarkInv'
<1>1. /\ Status(v) = "none" /\ UNCHANGED <<now, economy>>
      /\ Mark(v)' = 0 /\ Status(v)' # "none"
      /\ \A w \in Versions : w # v => Mark(w)' = Mark(w) /\ Status(w)' = Status(w)
  BY TypesNow DEF CreateLineage, RegisterVersion, StoreVersion, Mark, Status, vaultVars
<1>2. \A w \in Versions, e \in Epochs : Profit(w, e)' = Profit(w, e)
  BY <1>1 DEF Profit
<1>3. ASSUME NEW w \in Versions PROVE
        /\ Mark(w)' <= now
        /\ \A e \in Epochs : Profit(w, e)' > 0 => Mark(w)' > 0 /\ Mark(w)' >= Begins(e)
        /\ Status(w)' = "none" => \A e \in Epochs : Profit(w, e)' <= 0
  <2>1. CASE w # v
    BY <1>1, <1>2, <2>1 DEF MarkInv
  <2>2. CASE w = v
    <3>1. \A e \in Epochs : Profit(v, e)' <= 0 /\ Profit(v, e)' \in Int
      BY <1>1, <1>2, MarkFacts DEF MarkInv
    <3>2. Mark(v)' <= now
      BY <1>1, TypesNow DEF MarkInv
    <3>. QED
      BY <1>1, <2>2, <3>1, <3>2
  <2>. QED
    BY <2>1, <2>2
<1>. QED
  BY <1>1, <1>3 DEF MarkInv, Begins

LEMMA MarkInduction ==
  ASSUME ContractTypes, ContractTypes', MarkInv, [Next]_vars PROVE MarkInv'
<1>. USE TypesNow
<1>1. CASE UNCHANGED <<versions, economy>> /\ now' >= now
  BY <1>1, MarkKept DEF Mark, Status
<1>2. CASE Tick \/ MoneyStep \/ UNCHANGED vars
  BY <1>1, <1>2 DEF Tick, MoneyStep, Gift, FundCommons, Donate, SettleOperatingExpense,
     AbsorbSurplus, seatVars, vaultVars, vars
<1>3. CASE VersionStep
  <2>1. ASSUME NEW a \in Accounts, NEW v \in Versions, Heartbeat(a, v) PROVE MarkInv'
    <3>1. \A w \in Versions : Mark(w)' = Mark(w) /\ Status(w)' = Status(w)
      BY <2>1 DEF Heartbeat, Mark, Status, Version
    <3>. QED
      BY <2>1, <3>1, MarkKept DEF Heartbeat, vaultVars
  <2>. QED
    BY <1>3, <2>1, MarkAtRegistration DEF VersionStep
<1>4. CASE JobStep
  <2>1. ASSUME NEW leaf \in Schedule, CreateRankedJob(leaf) PROVE MarkInv'
    BY <1>1, <2>1 DEF CreateRankedJob, seatVars
  <2>2. ASSUME NEW j \in DOMAIN rankedJobs, ExpireRankedJob(j) PROVE MarkInv'
    BY <1>1, <2>2 DEF ExpireRankedJob, seatVars
  <2>3. ASSUME NEW a \in Accounts,
               \/ \E v \in Versions, o \in Orders : OpenMarketJob(a, v, o)
               \/ \E j \in DOMAIN marketJobs :
                    SubmitMarketResult(a, j) \/ AcceptMarketResult(a, j) \/ RefundMarketJob(a, j)
        PROVE  MarkInv'
    <3>1. UNCHANGED <<versions, economy, now>>
      BY <2>3 DEF OpenMarketJob, SubmitMarketResult, AcceptMarketResult, RefundMarketJob,
         seatVars, vaultVars
    <3>. QED
      BY <1>1, <3>1
  <2>. QED
    BY <1>4, <2>1, <2>2, <2>3, MarkAtSettlement DEF JobStep
<1>5. CASE SelectionStep
  <2>. USE DEF SelectionUnchanged
  <2>1. ASSUME NEW v \in Versions, NEW e, MayChallenge(v, e), Succeed(v), UNCHANGED <<now, economy>>
        PROVE  MarkInv'
    <3>0. PICK incumbent :
            versions' = [versions EXCEPT ![incumbent].status = "superseded",
                           ![incumbent].successor = v, ![v].status = "active"]
      BY <2>1 DEF Succeed
    <3>1. \A w \in Versions : Mark(w)' = Mark(w) /\ (Status(w)' = "none" => Status(w) = "none")
      BY <3>0, TypesNow DEF Mark, Status, Version
    <3>. QED
      BY <2>1, <3>1, MarkKept
  <2>2. ASSUME NEW v \in Versions, NEW e \in Epochs, ClaimVacancy(v, e) PROVE MarkInv'
    <3>1. \A w \in Versions : Mark(w)' = Mark(w) /\ (Status(w)' = "none" => Status(w) = "none")
      BY <2>2 DEF ClaimVacancy, Mark, Status, Version
    <3>. QED
      BY <2>2, <3>1, MarkKept DEF ClaimVacancy
  <2>3. ASSUME NEW v \in Versions, EjectStale(v) PROVE MarkInv'
    <3>1. \A w \in Versions : Mark(w)' = Mark(w) /\ (Status(w)' = "none" => Status(w) = "none")
      BY <2>3 DEF EjectStale, Mark, Status, Version
    <3>. QED
      BY <2>3, <3>1, MarkKept DEF EjectStale
  <2>4. ASSUME NEW v \in Versions, NEW e \in Epochs, NEW s \in Salts, CommitSupersede(v, e, s)
        PROVE  MarkInv'
    BY <1>1, <2>4 DEF CommitSupersede, seatVars, vaultVars
  <2>. QED
    BY <1>5, <2>1, <2>2, <2>3, <2>4 DEF SelectionStep, Supersede, RevealSupersede
<1>. QED
  BY <1>2, <1>3, <1>4, <1>5 DEF Next

LEMMA MarkInvariant == Spec => []MarkInv
<1>1. Init => MarkInv
  BY EohAssumption DEF Init, MarkInv, Mark, Status, Profit, Begins
<1>2. ContractTypes /\ ContractTypes' /\ MarkInv /\ [Next]_vars => MarkInv'
  BY MarkInduction
<1>. QED
  BY <1>1, <1>2, ContractTypesCorrect, PTL DEF Spec

\* Only ejection makes a version stale.
LEMMA StaleByEjection ==
  ASSUME ContractTypes, [Next]_vars, NEW v \in Versions,
         Status(v) # "stale", versions'[v].status = "stale"
  PROVE  EjectStale(v)
<1>. USE TypesNow
<1>1. StatusOf[v] # "stale" /\ StatusOf'[v] = "stale"
  BY DEF StatusOf, Status
<1>2. ~(Tick \/ MoneyStep \/ JobStep)
  BY <1>1, QuietSteps
<1>3. ~VersionStep
  <2>1. ASSUME NEW a \in Accounts, NEW w \in Versions, CreateLineage(a, w) \/ RegisterVersion(a, w)
        PROVE  FALSE
    <3>1. PICK s \in {"active", "incubating"} : StoreVersion(w, s)
      BY <2>1 DEF CreateLineage, RegisterVersion
    <3>2. versions'[v].status = s \/ versions'[v] = versions[v]
      BY <3>1 DEF StoreVersion
    <3>. QED
      BY <3>2 DEF Status
  <2>2. ASSUME NEW a \in Accounts, NEW w \in Versions, Heartbeat(a, w) PROVE FALSE
    BY <2>2 DEF Heartbeat, Status, Version
  <2>. QED
    BY <2>1, <2>2 DEF VersionStep
<1>4. CASE SelectionStep
  <2>1. ASSUME NEW w \in Versions, NEW e, MayChallenge(w, e), Succeed(w) PROVE FALSE
    BY <2>1 DEF Succeed, Status, Version
  <2>2. ASSUME NEW w \in Versions, NEW e \in Epochs, ClaimVacancy(w, e) PROVE FALSE
    BY <2>2 DEF ClaimVacancy, Status, Version
  <2>3. ASSUME NEW w \in Versions, NEW e \in Epochs, NEW s \in Salts, CommitSupersede(w, e, s)
        PROVE  FALSE
    BY <2>3 DEF CommitSupersede, seatVars, Status
  <2>4. ASSUME NEW w \in Versions, EjectStale(w) PROVE w = v
    BY <2>4 DEF EjectStale, Status, Version
  <2>. QED
    BY <1>4, <2>1, <2>2, <2>3, <2>4 DEF SelectionStep, Supersede, RevealSupersede
<1>5. ~UNCHANGED vars
  BY DEF vars, seatVars, Status
<1>. QED
  BY <1>2, <1>3, <1>4, <1>5 DEF Next

(* Whoever the contract ejects was profitable in no epoch that began within
   STALE_AFTER, for any lengths of epochs and of the staleness period. *)
THEOREM EjectionCorrect == Spec => EjectedEarnedNothing
<1>1. ASSUME ContractTypes, MarkInv, [Next]_vars, NEW v \in Versions,
             Status(v) # "stale", versions'[v].status = "stale",
             NEW e \in Epochs, Profit(v, e) > 0
      PROVE  e * EPOCH_LENGTH < now - STALE_AFTER
  <2>1. EjectStale(v)
    BY <1>1, StaleByEjection
  <2>2. Mark(v) > 0 /\ Mark(v) >= Begins(e) /\ Mark(v) \in Nat /\ Begins(e) \in Int
    BY <1>1, MarkFacts DEF MarkInv
  <2>3. now > Mark(v) + STALE_AFTER
    BY <2>1, <2>2 DEF EjectStale, Mark
  <2>4. Begins(e) < now - STALE_AFTER
    BY <1>1, <2>2, <2>3, TypesNow, EohAssumption
  <2>. QED
    BY <2>4 DEF Begins
<1>. DEFINE Ejected ==
       \A v \in Versions : Status(v) # "stale" /\ versions'[v].status = "stale" =>
         \A e \in Epochs : Profit(v, e) > 0 => e * EPOCH_LENGTH < now - STALE_AFTER
<1>2. ContractTypes /\ MarkInv /\ [Next]_vars => [Ejected]_vars
  BY <1>1
<1>. QED
  BY <1>2, ContractTypesCorrect, MarkInvariant, PTL DEF Spec, EjectedEarnedNothing

\* What medianProfit returns for a window with epochs in it.
LEMMA MedianIs ==
  ASSUME ContractTypes, NEW v \in Versions, NEW e \in Epochs
  PROVE  LET gains == [x \in Window(e) |-> Profit(v, x)]
         IN  /\ IsFiniteSet(Window(e)) /\ \A x \in Window(e) : gains[x] \in Int
             /\ Window(e) # {} =>
                  /\ MedianProfit(v, e) \in Int
                  /\ Cardinality(Below(gains, Window(e), MedianProfit(v, e)))
                       <= Cardinality(Window(e)) \div 2
<1>. DEFINE gains == [x \in Window(e) |-> Profit(v, x)]
            half  == Cardinality(Window(e)) \div 2
            IsMedian(p) == /\ Cardinality(Below(gains, Window(e), p)) <= half
                           /\ half < Cardinality(UpTo(gains, Window(e), p))
<1>1. IsFiniteSet(Window(e)) /\ Window(e) \subseteq Epochs
  <2>1. MaxTime \div EPOCH_LENGTH \in Int
    BY EohAssumption
  <2>2. IsFiniteSet(Epochs) /\ Window(e) \in SUBSET Epochs
    BY <2>1, FS_Interval DEF Window, Epochs
  <2>. QED
    BY <2>2, FS_Subset
<1>2. \A x \in Window(e) : gains[x] = Profit(v, x) /\ gains[x] \in Int
  BY <1>1, MarkFacts
<1>3. Cardinality(Window(e)) \in Nat
  BY <1>1, FS_CardinalityType
<1>4. ASSUME Window(e) # {} PROVE \E x \in Window(e) : IsMedian(gains[x])
  <2>1. half \in Nat /\ half < Cardinality(Window(e))
    BY <1>1, <1>3, <1>4, FS_EmptySet
  <2>. HIDE DEF gains, half
  <2>. QED
    BY <1>1, <1>2, <2>1, OrderStatistic
<1>5. MedianProfit(v, e) = CHOOSE p \in {Profit(v, x) : x \in Window(e)} : IsMedian(p)
  <2>1. \A p : /\ {x \in Window(e) : Profit(v, x) < p} = Below(gains, Window(e), p)
               /\ {x \in Window(e) : Profit(v, x) <= p} = UpTo(gains, Window(e), p)
    BY <1>2 DEF Below, UpTo
  <2>. QED
    BY <2>1 DEF MedianProfit
<1>6. ASSUME Window(e) # {} PROVE MedianProfit(v, e) \in Int /\ IsMedian(MedianProfit(v, e))
  <2>1. \E p \in {Profit(v, x) : x \in Window(e)} : IsMedian(p)
    BY <1>2, <1>4, <1>6
  <2>2. {Profit(v, x) : x \in Window(e)} \subseteq Int
    BY <1>2
  <2>. HIDE DEF IsMedian
  <2>. QED
    BY <1>5, <2>1, <2>2
<1>. QED
  BY <1>1, <1>2, <1>6

\* Only selection reveals.
LEMMA RevealsElsewhere ==
  ASSUME Tick \/ MoneyStep \/ VersionStep \/ JobStep PROVE UNCHANGED supersedeRevealed
<1>1. CASE Tick
  BY <1>1 DEF Tick, commitVars
<1>2. CASE MoneyStep
  BY <1>2 DEF MoneyStep, Gift, FundCommons, Donate, SettleOperatingExpense, AbsorbSurplus, commitVars
<1>3. CASE VersionStep
  BY <1>3 DEF VersionStep, CreateLineage, RegisterVersion, Heartbeat, commitVars
<1>4. CASE JobStep
  <2>1. ASSUME NEW leaf, CreateRankedJob(leaf) PROVE UNCHANGED supersedeRevealed
    BY <2>1 DEF CreateRankedJob, commitVars
  <2>2. ASSUME NEW a, NEW r, NEW j, NEW v, NEW p, NEW n, SubmitRankedResult(a, j, v, p, n, r)
        PROVE  UNCHANGED supersedeRevealed
    BY <2>2 DEF SubmitRankedResult, commitVars
  <2>3. ASSUME NEW j, ExpireRankedJob(j) PROVE UNCHANGED supersedeRevealed
    BY <2>3 DEF ExpireRankedJob, commitVars
  <2>4. ASSUME NEW a, NEW v, NEW o, OpenMarketJob(a, v, o) PROVE UNCHANGED supersedeRevealed
    BY <2>4 DEF OpenMarketJob, commitVars
  <2>5. ASSUME NEW a, NEW j,
               SubmitMarketResult(a, j) \/ AcceptMarketResult(a, j) \/ RefundMarketJob(a, j)
        PROVE  UNCHANGED supersedeRevealed
    BY <2>5 DEF SubmitMarketResult, AcceptMarketResult, RefundMarketJob, commitVars
  <2>. QED
    BY <1>4, <2>1, <2>2, <2>3, <2>4, <2>5, Zenon DEF JobStep
<1>. QED
  BY <1>1, <1>2, <1>3, <1>4

(* A reveal takes the seat only with two profitable epochs of its full window,
   for any window of three or more epochs and any number of versions. *)
THEOREM ContractRevealCorrect == Spec => NoOutlierReveal
<1>1. ASSUME ContractTypes, [Next]_vars, NEW v \in Versions, NEW e \in Epochs, NEW s \in Salts,
             <<v, e, s>> \in supersedeRevealed' \ supersedeRevealed, Cardinality(Window(e)) >= 3
      PROVE  Cardinality({x \in Window(e) : Profit(v, x) > 0}) >= 2
  <2>1. RevealSupersede(v, e, s)
    <3>1. supersedeRevealed' # supersedeRevealed
      BY <1>1
    <3>2. ~Tick /\ ~MoneyStep /\ ~VersionStep /\ ~JobStep
      BY <3>1, RevealsElsewhere
    <3>3. PICK w \in Versions : \/ EjectStale(w)
                                \/ \E d \in Epochs :
                                     \/ Supersede(w, d) \/ ClaimVacancy(w, d)
                                     \/ \E t \in Salts : \/ CommitSupersede(w, d, t)
                                                         \/ RevealSupersede(w, d, t)
      BY <1>1, <3>1, <3>2, Zenon DEF Next, SelectionStep, vars, commitVars
    <3>4. ~EjectStale(w) /\ \A d \in Epochs : ~Supersede(w, d) /\ ~ClaimVacancy(w, d)
      BY <3>1 DEF EjectStale, Supersede, ClaimVacancy, commitVars
    <3>5. \A d \in Epochs, t \in Salts : ~CommitSupersede(w, d, t)
      BY <3>1 DEF CommitSupersede
    <3>6. PICK d \in Epochs, t \in Salts : RevealSupersede(w, d, t)
      BY <3>3, <3>4, <3>5
    <3>7. <<v, e, s>> = <<w, d, t>>
      BY <1>1, <3>6 DEF RevealSupersede
    <3>. QED
      BY <3>6, <3>7
  <2>. DEFINE gains == [x \in Window(e) |-> Profit(v, x)]
  <2>2. Window(e) # {}
    BY <1>1, FS_EmptySet
  <2>3. MedianProfit(v, e) \in Int /\ MedianProfit(v, e) > 0
    BY <1>1, <2>1, <2>2, MedianIs DEF RevealSupersede, RevealMetric
  <2>4. Cardinality({x \in Window(e) : gains[x] > 0}) >= 2
    <3>1. /\ IsFiniteSet(Window(e)) /\ \A x \in Window(e) : gains[x] \in Int
          /\ Cardinality(Below(gains, Window(e), MedianProfit(v, e)))
               <= Cardinality(Window(e)) \div 2
      BY <1>1, <2>2, MedianIs
    <3>. HIDE DEF gains
    <3>. QED
      BY <1>1, <2>3, <3>1, MoreThanOne
  <2>5. {x \in Window(e) : gains[x] > 0} = {x \in Window(e) : Profit(v, x) > 0}
    OBVIOUS
  <2>. QED
    BY <2>4, <2>5
<1>. DEFINE Sound == \A v \in Versions, e \in Epochs, s \in Salts :
                       /\ <<v, e, s>> \in supersedeRevealed' \ supersedeRevealed
                       /\ Cardinality(Window(e)) >= 3
                       => Cardinality({x \in Window(e) : Profit(v, x) > 0}) >= 2
<1>2. ContractTypes /\ [Next]_vars => [Sound]_vars
  BY <1>1
<1>. QED
  BY <1>2, ContractTypesCorrect, PTL DEF Spec, NoOutlierReveal

(***************************************************************************)
(* The customers' escrow.                                                  *)
(***************************************************************************)
MarketDeposit(j) == [id |-> j, payer |-> marketJobs[j].buyer, amount |-> marketJobs[j].reward]
MarketStepOK == [MarketEscrow!EscrowNext]_(MarketEscrow!escrowVars)

LEMMA JobIndices ==
  ASSUME ContractTypes
  PROVE  /\ DOMAIN rankedJobs = 1 .. Len(rankedJobs) /\ Len(rankedJobs) \in Nat
         /\ DOMAIN marketJobs = 1 .. Len(marketJobs) /\ Len(marketJobs) \in Nat
BY TypesNow, LenProperties

\* A step that keeps which jobs wait, for whom and for how much.
\* Every job keeps its buyer and its reward, and stays unresolved or resolved.
MarketStays ==
  /\ DOMAIN marketJobs' = DOMAIN marketJobs
  /\ \A j \in DOMAIN marketJobs :
       /\ marketJobs'[j].buyer = marketJobs[j].buyer
       /\ marketJobs'[j].reward = marketJobs[j].reward
       /\ marketJobs'[j].status \in {"open", "submitted"}
            <=> marketJobs[j].status \in {"open", "submitted"}
  /\ pool'.market = pool.market

\* A new job locks its reward.
MarketOpens(new, reward) ==
  /\ new \notin Unresolved /\ Unresolved' = Unresolved \cup {new}
  /\ \A i \in Unresolved : marketJobs'[i] = marketJobs[i]
  /\ marketJobs'[new].reward = reward /\ reward \in Nat
  /\ pool'.market = pool.market + reward

\* A job is accepted or refunded and its reward is released.
MarketCloses(j) ==
  /\ j \in Unresolved /\ Unresolved' = Unresolved \ {j}
  /\ \A i \in Unresolved \ {j} : marketJobs'[i] = marketJobs[i]
  /\ pool'.market = pool.market - marketJobs[j].reward

LEMMA MarketKept ==
  ASSUME MarketStays PROVE MarketStepOK /\ Unresolved' = Unresolved
<1>1. Unresolved' = Unresolved
  BY DEF Unresolved, MarketStays
<1>2. MarketEscrow!Elsewhere
  BY <1>1 DEF MarketEscrow!Elsewhere, Unresolved, MarketStays
<1>. QED
  BY <1>1, <1>2 DEF MarketStepOK, MarketEscrow!EscrowNext

\* Selection moves vaults only, and what it takes from them it gives to the commons.
LEMMA SelectionLeavesEscrows ==
  ASSUME ContractTypes, SelectionStep
  PROVE  /\ UNCHANGED <<rankedJobs, marketJobs>>
         /\ pool'.market = pool.market /\ pool'.reserved = pool.reserved
<1>1. ASSUME NEW v \in Versions, EjectStale(v)
      PROVE  /\ UNCHANGED <<rankedJobs, marketJobs>>
             /\ pool'.market = pool.market /\ pool'.reserved = pool.reserved
  BY <1>1, TypesNow DEF EjectStale, SelectionUnchanged, jobVars, Pool
<1>2. ASSUME NEW v \in Versions, NEW e \in Epochs,
             \/ Supersede(v, e) \/ ClaimVacancy(v, e)
             \/ \E s \in Salts : CommitSupersede(v, e, s) \/ RevealSupersede(v, e, s)
      PROVE  UNCHANGED <<rankedJobs, marketJobs, pool>>
  BY <1>2 DEF Supersede, ClaimVacancy, CommitSupersede, RevealSupersede, SelectionUnchanged,
     vaultVars, jobVars
<1>. QED
  BY <1>1, <1>2 DEF SelectionStep

LEMMA MarketUntouched ==
  ASSUME ContractTypes,
         \/ Tick \/ MoneyStep \/ VersionStep \/ SelectionStep \/ UNCHANGED vars
         \/ \E leaf \in Schedule : CreateRankedJob(leaf)
         \/ \E j \in DOMAIN rankedJobs :
              \/ \E a \in Accounts, r \in Accounts \cup {Arena}, v \in Versions, p \in Proofs, n \in Costs :
                   SubmitRankedResult(a, j, v, p, n, r)
              \/ ExpireRankedJob(j)
  PROVE  MarketStays
<1>. SUFFICES UNCHANGED marketJobs /\ pool'.market = pool.market
  BY DEF MarketStays
<1>. USE TypesNow DEF Pool
<1>1. CASE Tick \/ MoneyStep \/ VersionStep \/ UNCHANGED vars
  <2>1. CASE MoneyStep
    BY <2>1 DEF MoneyStep, Gift, FundCommons, Donate, SettleOperatingExpense, Deposit,
       AbsorbSurplus, vaultVars, jobVars
  <2>2. CASE Tick \/ VersionStep \/ UNCHANGED vars
    BY <2>2 DEF Tick, VersionStep, CreateLineage, RegisterVersion, Heartbeat, vaultVars, jobVars,
       vars
  <2>. QED
    BY <1>1, <2>1, <2>2
<1>2. CASE SelectionStep
  BY <1>2, SelectionLeavesEscrows
<1>3. ASSUME NEW leaf \in Schedule, CreateRankedJob(leaf)
      PROVE  UNCHANGED marketJobs /\ pool'.market = pool.market
  BY <1>3 DEF CreateRankedJob
<1>4. ASSUME NEW j \in DOMAIN rankedJobs, NEW a \in Accounts, NEW r \in Accounts \cup {Arena},
             NEW v \in Versions, NEW p \in Proofs, NEW n \in Costs,
             SubmitRankedResult(a, j, v, p, n, r)
      PROVE  UNCHANGED marketJobs /\ pool'.market = pool.market
  BY <1>4 DEF SubmitRankedResult
<1>5. ASSUME NEW j \in DOMAIN rankedJobs, ExpireRankedJob(j)
      PROVE  UNCHANGED marketJobs /\ pool'.market = pool.market
  BY <1>5 DEF ExpireRankedJob
<1>. QED
  BY <1>1, <1>2, <1>3, <1>4, <1>5

LEMMA MarketOpened ==
  ASSUME ContractTypes, NEW b \in Accounts, NEW v \in Versions, NEW o \in Orders,
         OpenMarketJob(b, v, o)
  PROVE  MarketStepOK /\ MarketOpens(Len(marketJobs) + 1, o.reward)
<1>. DEFINE new == Len(marketJobs) + 1
            job == [buyer |-> b, target |-> v, reward |-> o.reward, deadline |-> o.deadline,
                    performer |-> Zero, status |-> "open"]
            deposit == [id |-> new, payer |-> b, amount |-> o.reward]
<1>1. o.reward \in Nat /\ pool \in Pool /\ tokens \in [Accounts \cup {Arena} -> Nat] /\ b # Arena
  BY TypesNow, EohAssumption
<1>2. marketJobs' = Append(marketJobs, job)
  BY DEF OpenMarketJob
<1>3. /\ DOMAIN marketJobs = 1 .. Len(marketJobs) /\ Len(marketJobs) \in Nat
      /\ DOMAIN marketJobs' = 1 .. new /\ marketJobs'[new] = job
      /\ \A i \in DOMAIN marketJobs : marketJobs'[i] = marketJobs[i]
  BY <1>2, TypesNow, JobIndices, AppendProperties
<1>4. Unresolved' = Unresolved \cup {new} /\ new \notin DOMAIN marketJobs
  BY <1>3 DEF Unresolved
<1>5. {MarketDeposit(i) : i \in Unresolved}' =
        {MarketDeposit(i) : i \in Unresolved} \cup {deposit}
  BY <1>3, <1>4 DEF MarketDeposit, Unresolved
<1>6. (DOMAIN marketJobs \ Unresolved)' = DOMAIN marketJobs \ Unresolved
  BY <1>3, <1>4
<1>7. \A i \in Unresolved : i # new
  BY <1>4 DEF Unresolved
<1>8. /\ o.reward \in 0 .. tokens[b] /\ pool'.market = pool.market + o.reward
      /\ [a \in Accounts |-> tokens'[a]] =
           [[a \in Accounts |-> tokens[a]] EXCEPT ![b] = @ - o.reward]
  <2>1. o.reward \in 0 .. tokens[b] /\ pool'.market = pool.market + o.reward
    BY <1>1 DEF OpenMarketJob, Transfer, Pool
  <2>2. \A a \in Accounts : tokens'[a] = IF a = b THEN tokens[b] - o.reward ELSE tokens[a]
    BY <1>1, EohAssumption DEF OpenMarketJob, Transfer
  <2>. QED
    BY <2>1, <2>2
<1>9. MarketEscrow!Lock(deposit)
  BY <1>4, <1>5, <1>6, <1>7, <1>8 DEF MarketEscrow!Lock, MarketDeposit
<1>10. deposit \in {MarketDeposit(i) : i \in Unresolved}'
  BY <1>5
<1>11. MarketEscrow!EscrowNext
  BY <1>9, <1>10 DEF MarketEscrow!EscrowNext, MarketEscrow!Lock, MarketDeposit
<1>12. MarketOpens(new, o.reward)
  BY <1>1, <1>3, <1>4, <1>8 DEF MarketOpens, Unresolved
<1>. QED
  BY <1>11, <1>12 DEF MarketStepOK

LEMMA MarketPerformed ==
  ASSUME ContractTypes, NEW a \in Accounts, NEW j \in DOMAIN marketJobs, SubmitMarketResult(a, j)
  PROVE  MarketStays
<1>. DEFINE performer == LiveBeneficiary(marketJobs[j].target)
            job == [marketJobs[j] EXCEPT !.performer = performer, !.status = "submitted"]
<1>1. marketJobs[j] \in MarketJob /\ marketJobs[j].status = "open"
  BY TypesNow DEF SubmitMarketResult
<1>2. marketJobs' = [marketJobs EXCEPT ![j] = job] /\ pool'.market = pool.market
  BY DEF SubmitMarketResult, vaultVars
<1>. HIDE DEF performer
<1>3. /\ job.status = "submitted" /\ job.buyer = marketJobs[j].buyer
      /\ job.reward = marketJobs[j].reward
  BY <1>1 DEF MarketJob
<1>. QED
  BY <1>1, <1>2, <1>3, TypesNow DEF MarketStays

LEMMA MarketResolved ==
  ASSUME ContractTypes, NEW b \in Accounts, NEW j \in DOMAIN marketJobs,
         AcceptMarketResult(b, j) \/ RefundMarketJob(b, j)
  PROVE  MarketStepOK /\ MarketCloses(j)
<1>1. /\ marketJobs[j] \in MarketJob /\ marketJobs[j].reward \in Nat /\ j \in Unresolved
      /\ pool \in Pool /\ tokens \in [Accounts \cup {Arena} -> Nat]
      /\ b = marketJobs[j].buyer /\ b # Arena
  BY TypesNow, EohAssumption
     DEF AcceptMarketResult, RefundMarketJob, MayRefund, Unresolved, MarketJob
<1>2. PICK s \in {"accepted", "refunded"} :
        marketJobs' = [marketJobs EXCEPT ![j] = [@ EXCEPT !.status = s]]
  BY DEF AcceptMarketResult, RefundMarketJob
<1>3. /\ DOMAIN marketJobs' = DOMAIN marketJobs
      /\ \A i \in DOMAIN marketJobs \ {j} : marketJobs'[i] = marketJobs[i]
      /\ marketJobs'[j].status = s
  BY <1>1, <1>2, TypesNow DEF MarketJob
<1>4. Unresolved' = Unresolved \ {j}
  BY <1>1, <1>3 DEF Unresolved
<1>5. {MarketDeposit(i) : i \in Unresolved}' =
        {MarketDeposit(i) : i \in Unresolved} \ {MarketDeposit(j)}
  BY <1>1, <1>3, <1>4 DEF MarketDeposit, Unresolved
<1>6. (DOMAIN marketJobs \ Unresolved)' = (DOMAIN marketJobs \ Unresolved) \cup {j}
  BY <1>3, <1>4
<1>7. pool'.market = pool.market - marketJobs[j].reward
  BY <1>1 DEF AcceptMarketResult, RefundMarketJob, RewardToCommons, Pool
<1>8. MarketEscrow!Release(MarketDeposit(j))
  BY <1>1, <1>5, <1>6, <1>7 DEF MarketEscrow!Release, MarketDeposit
<1>9. MarketEscrow!Pay(MarketDeposit(j)) \/ MarketEscrow!Return(MarketDeposit(j))
  <2>1. CASE AcceptMarketResult(b, j)
    BY <1>8, <2>1 DEF AcceptMarketResult, MarketEscrow!Pay
  <2>2. CASE RefundMarketJob(b, j)
    <3>1. [a \in Accounts |-> tokens'[a]] =
            [[a \in Accounts |-> tokens[a]] EXCEPT ![b] = @ + marketJobs[j].reward]
      BY <1>1, <2>2, EohAssumption DEF RefundMarketJob, Transfer
    <3>. QED
      BY <1>1, <1>8, <3>1 DEF MarketEscrow!Return, MarketDeposit
  <2>. QED
    BY <2>1, <2>2
<1>10. MarketDeposit(j) \in {MarketDeposit(i) : i \in Unresolved}
  BY <1>1
<1>11. MarketEscrow!EscrowNext
  BY <1>9, <1>10 DEF MarketEscrow!EscrowNext, MarketEscrow!Pay, MarketEscrow!Return,
     MarketEscrow!Release, MarketDeposit
<1>12. MarketCloses(j)
  BY <1>1, <1>3, <1>4, <1>7 DEF MarketCloses, Unresolved
<1>. QED
  BY <1>11, <1>12 DEF MarketStepOK

MarketEffect ==
  \/ MarketStays
  \/ \E new, reward : MarketOpens(new, reward)
  \/ \E j \in DOMAIN marketJobs : MarketCloses(j)

LEMMA MarketSteps == ContractTypes /\ [Next]_vars => MarketStepOK /\ MarketEffect
BY MarketUntouched, MarketOpened, MarketPerformed, MarketResolved, MarketKept
   DEF Next, JobStep, MarketEffect

(***************************************************************************)
(* The commons' escrow of ranked rewards.                                  *)
(***************************************************************************)
RankedDeposit(j) == [id |-> j, payer |-> "commons", amount |-> rankedJobs[j].reward]
RankedStepOK == [RankedEscrow!EscrowNext]_(RankedEscrow!escrowVars)

LEMMA OpenRankedIs ==
  /\ OpenRanked = {j \in DOMAIN rankedJobs : rankedJobs[j].status = "open"}
  /\ OpenRanked' = {j \in DOMAIN rankedJobs' : rankedJobs'[j].status = "open"}
BY DEF OpenRanked, RankedWhere

LEMMA RankedIdle ==
  ASSUME ContractTypes,
         \/ Tick \/ MoneyStep \/ VersionStep \/ SelectionStep \/ UNCHANGED vars
         \/ \E a \in Accounts :
              \/ \E v \in Versions, o \in Orders : OpenMarketJob(a, v, o)
              \/ \E j \in DOMAIN marketJobs :
                   SubmitMarketResult(a, j) \/ AcceptMarketResult(a, j) \/ RefundMarketJob(a, j)
  PROVE  UNCHANGED rankedJobs /\ pool'.reserved = pool.reserved
<1>. USE TypesNow DEF Pool
<1>1. CASE MoneyStep
  BY <1>1 DEF MoneyStep, Gift, FundCommons, Donate, SettleOperatingExpense, Deposit,
     AbsorbSurplus, vaultVars, jobVars
<1>2. CASE Tick \/ VersionStep \/ UNCHANGED vars
  BY <1>2 DEF Tick, VersionStep, CreateLineage, RegisterVersion, Heartbeat, vaultVars, jobVars,
     vars
<1>3. CASE SelectionStep
  BY <1>3, SelectionLeavesEscrows
<1>4. ASSUME NEW a \in Accounts, NEW v \in Versions, NEW o \in Orders, OpenMarketJob(a, v, o)
      PROVE  UNCHANGED rankedJobs /\ pool'.reserved = pool.reserved
  BY <1>4 DEF OpenMarketJob
<1>5. ASSUME NEW a \in Accounts, NEW j \in DOMAIN marketJobs,
             SubmitMarketResult(a, j) \/ AcceptMarketResult(a, j) \/ RefundMarketJob(a, j)
      PROVE  UNCHANGED rankedJobs /\ pool'.reserved = pool.reserved
  BY <1>5 DEF SubmitMarketResult, AcceptMarketResult, RefundMarketJob, RewardToCommons, vaultVars
<1>. QED
  BY <1>1, <1>2, <1>3, <1>4, <1>5

LEMMA RankedUntouched ==
  ASSUME UNCHANGED rankedJobs, pool'.reserved = pool.reserved
  PROVE  RankedStepOK
<1>1. RankedEscrow!Elsewhere
  BY OpenRankedIs DEF RankedEscrow!Elsewhere
<1>. QED
  BY <1>1 DEF RankedStepOK, RankedEscrow!EscrowNext

\* A new job takes its reward out of the commons.
RankedOpens(new, reward) ==
  /\ new \notin DOMAIN rankedJobs /\ DOMAIN rankedJobs' = DOMAIN rankedJobs \cup {new}
  /\ \A i \in DOMAIN rankedJobs : rankedJobs'[i] = rankedJobs[i]
  /\ OpenRanked' = OpenRanked \cup {new}
  /\ rankedJobs'[new].status = "open" /\ rankedJobs'[new].reward = reward
  /\ reward \in 0 .. pool.available
  /\ pool'.reserved = pool.reserved + reward /\ pool'.available = pool.available - reward

\* A job that was open is settled or expires.
RankedCloses(j) ==
  /\ j \in OpenRanked /\ OpenRanked' = OpenRanked \ {j}
  /\ DOMAIN rankedJobs' = DOMAIN rankedJobs
  /\ \A i \in DOMAIN rankedJobs \ {j} : rankedJobs'[i] = rankedJobs[i]
  /\ pool'.reserved = pool.reserved - rankedJobs[j].reward
  /\ pool'.available \in {pool.available, pool.available + rankedJobs[j].reward}

LEMMA RankedOpened ==
  ASSUME ContractTypes, NEW leaf \in Schedule, CreateRankedJob(leaf)
  PROVE  RankedOpens(Len(rankedJobs) + 1, leaf.reward)
<1>. DEFINE new == Len(rankedJobs) + 1
            job == [reward |-> leaf.reward, deadline |-> leaf.deadline, status |-> "open",
                    epoch |-> 0, winner |-> Zero, cost |-> 0]
<1>1. leaf.reward \in Nat /\ pool \in Pool
  BY TypesNow, EohAssumption
<1>2. rankedJobs' = Append(rankedJobs, job)
  BY DEF CreateRankedJob
<1>3. /\ DOMAIN rankedJobs = 1 .. Len(rankedJobs) /\ Len(rankedJobs) \in Nat
      /\ DOMAIN rankedJobs' = 1 .. new /\ rankedJobs'[new] = job
      /\ \A i \in DOMAIN rankedJobs : rankedJobs'[i] = rankedJobs[i]
  BY <1>2, TypesNow, JobIndices, AppendProperties
<1>4. OpenRanked' = OpenRanked \cup {new} /\ new \notin DOMAIN rankedJobs
  BY <1>3, OpenRankedIs
<1>5. DOMAIN rankedJobs' = DOMAIN rankedJobs \cup {new}
  BY <1>3
<1>6. /\ leaf.reward \in 0 .. pool.available /\ pool'.reserved = pool.reserved + leaf.reward
      /\ pool'.available = pool.available - leaf.reward
  BY <1>1 DEF CreateRankedJob, Pool
<1>. QED
  BY <1>3, <1>4, <1>5, <1>6 DEF RankedOpens

LEMMA RankedLocked ==
  ASSUME NEW new, NEW reward, RankedOpens(new, reward) PROVE RankedStepOK
<1>. DEFINE deposit == [id |-> new, payer |-> "commons", amount |-> reward]
<1>1. {RankedDeposit(i) : i \in OpenRanked}' = {RankedDeposit(i) : i \in OpenRanked} \cup {deposit}
  BY OpenRankedIs DEF RankedDeposit, RankedOpens
<1>2. (DOMAIN rankedJobs \ OpenRanked)' = DOMAIN rankedJobs \ OpenRanked
  BY OpenRankedIs DEF RankedOpens
<1>3. \A i \in OpenRanked : i # new
  BY OpenRankedIs DEF RankedOpens
<1>4. RankedEscrow!Lock(deposit)
  BY <1>1, <1>2, <1>3 DEF RankedEscrow!Lock, RankedDeposit, RankedOpens
<1>5. deposit \in {RankedDeposit(i) : i \in OpenRanked}'
  BY <1>1
<1>6. RankedEscrow!EscrowNext
  BY <1>4, <1>5 DEF RankedEscrow!EscrowNext, RankedEscrow!Lock, RankedDeposit
<1>. QED
  BY <1>6 DEF RankedStepOK

LEMMA RankedClosed ==
  ASSUME ContractTypes, NEW j \in DOMAIN rankedJobs,
         \/ \E a \in Accounts, r \in Accounts \cup {Arena}, v \in Versions, p \in Proofs, n \in Costs :
              SubmitRankedResult(a, j, v, p, n, r)
         \/ ExpireRankedJob(j)
  PROVE  RankedCloses(j)
<1>1. /\ rankedJobs[j] \in RankedJob /\ rankedJobs[j].reward \in Nat /\ pool \in Pool
      /\ j \in OpenRanked
  BY TypesNow, OpenRankedIs DEF SubmitRankedResult, ExpireRankedJob, RankedJob
<1>2. PICK job : /\ rankedJobs' = [rankedJobs EXCEPT ![j] = job]
                 /\ job.status \in {"settled", "expired"}
  <2>1. ASSUME NEW a \in Accounts, NEW r \in Accounts \cup {Arena}, NEW v \in Versions, NEW p \in Proofs,
               NEW n \in Costs, SubmitRankedResult(a, j, v, p, n, r)
        PROVE  \E job : /\ rankedJobs' = [rankedJobs EXCEPT ![j] = job]
                        /\ job.status \in {"settled", "expired"}
    <3>. DEFINE settled == [rankedJobs[j] EXCEPT !.status = "settled", !.epoch = CurrentEpoch,
                                                 !.winner = v, !.cost = n]
    <3>1. rankedJobs' = [rankedJobs EXCEPT ![j] = settled]
      BY <2>1 DEF SubmitRankedResult
    <3>2. settled.status = "settled"
      BY <1>1 DEF RankedJob
    <3>. QED
      BY <3>1, <3>2
  <2>2. CASE ExpireRankedJob(j)
    <3>. DEFINE expired == [rankedJobs[j] EXCEPT !.status = "expired"]
    <3>1. rankedJobs' = [rankedJobs EXCEPT ![j] = expired]
      BY <2>2 DEF ExpireRankedJob
    <3>2. expired.status = "expired"
      BY <1>1 DEF RankedJob
    <3>. QED
      BY <3>1, <3>2
  <2>. QED
    BY <2>1, <2>2
<1>3. /\ DOMAIN rankedJobs' = DOMAIN rankedJobs
      /\ \A i \in DOMAIN rankedJobs \ {j} : rankedJobs'[i] = rankedJobs[i]
      /\ rankedJobs'[j].status \in {"settled", "expired"}
  BY <1>2, TypesNow
<1>4. OpenRanked' = OpenRanked \ {j}
  BY <1>1, <1>3, OpenRankedIs
<1>5. /\ pool'.reserved = pool.reserved - rankedJobs[j].reward
      /\ pool'.available \in {pool.available, pool.available + rankedJobs[j].reward}
  <2>. DEFINE reward == rankedJobs[j].reward
  <2>1. ASSUME NEW a, NEW v, NEW p, NEW n, NEW r, SubmitRankedResult(a, j, v, p, n, r)
        PROVE  pool'.reserved = pool.reserved - reward /\ pool'.available = pool.available
    <3>1. pool' = [pool EXCEPT !.reserved = @ - reward, !.vaults = @ - n + reward]
      BY <2>1 DEF SubmitRankedResult
    <3>. QED
      BY <1>1, <3>1 DEF Pool
  <2>2. CASE ExpireRankedJob(j)
    <3>1. pool' = [pool EXCEPT !.reserved = @ - reward, !.available = @ + reward]
      BY <2>2 DEF ExpireRankedJob
    <3>. QED
      BY <1>1, <3>1 DEF Pool
  <2>. QED
    BY <1>1, <2>1, <2>2
<1>. QED
  BY <1>1, <1>3, <1>4, <1>5 DEF RankedCloses

LEMMA RankedReleased ==
  ASSUME ContractTypes, NEW j \in DOMAIN rankedJobs, RankedCloses(j) PROVE RankedStepOK
<1>1. rankedJobs[j].reward \in Nat /\ pool \in Pool
  BY TypesNow DEF RankedJob
<1>2. {RankedDeposit(i) : i \in OpenRanked}' =
        {RankedDeposit(i) : i \in OpenRanked} \ {RankedDeposit(j)}
  BY OpenRankedIs DEF RankedDeposit, RankedCloses
<1>3. (DOMAIN rankedJobs \ OpenRanked)' = (DOMAIN rankedJobs \ OpenRanked) \cup {j}
  BY DEF RankedCloses
<1>4. RankedEscrow!Release(RankedDeposit(j))
  BY <1>1, <1>2, <1>3 DEF RankedEscrow!Release, RankedDeposit, RankedCloses
<1>5. RankedEscrow!Pay(RankedDeposit(j)) \/ RankedEscrow!Return(RankedDeposit(j))
  BY <1>4 DEF RankedEscrow!Pay, RankedEscrow!Return, RankedDeposit, RankedCloses
<1>6. RankedDeposit(j) \in {RankedDeposit(i) : i \in OpenRanked}
  BY DEF RankedCloses
<1>7. RankedEscrow!EscrowNext
  BY <1>5, <1>6 DEF RankedEscrow!EscrowNext, RankedEscrow!Pay, RankedEscrow!Return,
     RankedEscrow!Release, RankedDeposit
<1>. QED
  BY <1>7 DEF RankedStepOK

RankedEffect ==
  \/ UNCHANGED rankedJobs /\ pool'.reserved = pool.reserved
  \/ \E leaf \in Schedule : RankedOpens(Len(rankedJobs) + 1, leaf.reward)
  \/ \E j \in DOMAIN rankedJobs : RankedCloses(j)

LEMMA RankedEffects == ContractTypes /\ [Next]_vars => RankedEffect
BY RankedIdle, RankedOpened, RankedClosed DEF Next, JobStep, RankedEffect

LEMMA RankedSteps == ContractTypes /\ [Next]_vars => RankedStepOK
BY RankedEffects, RankedUntouched, RankedLocked, RankedReleased DEF RankedEffect

(* Both escrows of the contract behave as the abstract one, with the customers'
   own tokens and the commons as payers, for any orders and any schedule. *)
THEOREM ContractEscrowImplemented == Spec => ImplementsEscrow
<1>1. Init => MarketEscrow!EscrowInit /\ RankedEscrow!EscrowInit
  BY OpenRankedIs DEF Init, MarketEscrow!EscrowInit, RankedEscrow!EscrowInit, Unresolved
<1>2. ContractTypes /\ [Next]_vars
        => /\ [MarketEscrow!EscrowNext]_(MarketEscrow!escrowVars)
           /\ [RankedEscrow!EscrowNext]_(RankedEscrow!escrowVars)
  BY MarketSteps, RankedSteps DEF MarketStepOK, RankedStepOK
<1>. QED
  BY <1>1, <1>2, ContractTypesCorrect, PTL
     DEF Spec, ImplementsEscrow, MarketEscrow!EscrowSpec, RankedEscrow!EscrowSpec

(***************************************************************************)
(* What every call does to the tokens beyond the totals.                   *)
(***************************************************************************)
LEMMA TransferMoves ==
  ASSUME ContractTypes, NEW a \in Accounts, NEW n \in Int
  PROVE  /\ Transfer(a, Arena, n) => tokens'[Arena] = tokens[Arena] + n
         /\ Transfer(Arena, a, n) => tokens'[Arena] = tokens[Arena] - n
BY TypesNow, EohAssumption DEF Transfer

\* Tokens the arena pays to itself stay where they are.
LEMMA SelfTransfer ==
  ASSUME ContractTypes, NEW n \in Int, Transfer(Arena, Arena, n)
  PROVE  UNCHANGED tokens
<1>1. tokens[Arena] \in Int /\ tokens \in [Accounts \cup {Arena} -> Nat]
  BY TypesNow
<1>2. tokens[Arena] - n + n = tokens[Arena]
  BY <1>1
<1>3. tokens' \in [Accounts \cup {Arena} -> Nat] /\ tokens'[Arena] = tokens[Arena] - n + n
      /\ \A a \in Accounts \cup {Arena} : a # Arena => tokens'[a] = tokens[a]
  BY <1>1, <1>2 DEF Transfer
<1>. QED
  BY <1>1, <1>2, <1>3

LEMMA SurplusIdle ==
  ASSUME UNCHANGED <<tokens, pool>> PROVE Surplus' = Surplus
BY DEF Surplus, AccountedTokenBalance

\* The surplus is a difference of integers.
LEMMA SurplusFacts ==
  ASSUME ContractTypes
  PROVE  /\ tokens[Arena] \in Int /\ pool.available \in Int /\ pool.reserved \in Int
         /\ pool.market \in Int /\ pool.vaults \in Int
         /\ pool = [available |-> pool.available, reserved |-> pool.reserved,
                    market |-> pool.market, vaults |-> pool.vaults]
         /\ Surplus = tokens[Arena] - (pool.available + pool.reserved + pool.market + pool.vaults)
         /\ Surplus' =
              tokens'[Arena] - (pool'.available + pool'.reserved + pool'.market + pool'.vaults)
BY TypesNow DEF Pool, Surplus, AccountedTokenBalance

\* A transfer in goes to one total.
LEMMA SurplusFed ==
  ASSUME ContractTypes, NEW n \in Int,
         tokens'[Arena] = tokens[Arena] + n,
         \/ pool' = [pool EXCEPT !.available = @ + n]
         \/ pool' = [pool EXCEPT !.market = @ + n]
         \/ pool' = [pool EXCEPT !.vaults = @ + n]
  PROVE  Surplus' = Surplus
<1>. DEFINE held == tokens[Arena]
            available == pool.available
            reserved == pool.reserved
            market == pool.market
            vaults == pool.vaults
<1>1. /\ held \in Int /\ available \in Int /\ reserved \in Int /\ market \in Int /\ vaults \in Int
      /\ Surplus = held - (available + reserved + market + vaults)
      /\ Surplus' =
           tokens'[Arena] - (pool'.available + pool'.reserved + pool'.market + pool'.vaults)
  BY SurplusFacts
<1>2. \/ /\ pool'.available = available + n /\ pool'.reserved = reserved
         /\ pool'.market = market /\ pool'.vaults = vaults
      \/ /\ pool'.available = available /\ pool'.reserved = reserved
         /\ pool'.market = market + n /\ pool'.vaults = vaults
      \/ /\ pool'.available = available /\ pool'.reserved = reserved
         /\ pool'.market = market /\ pool'.vaults = vaults + n
  BY TypesNow DEF Pool
<1>. HIDE DEF held, available, reserved, market, vaults
<1>3. tokens'[Arena] = held + n
  BY DEF held
<1>. QED
  BY <1>1, <1>2, <1>3

\* A transfer out comes from one total.
LEMMA SurplusDrawn ==
  ASSUME ContractTypes, NEW n \in Int,
         tokens'[Arena] = tokens[Arena] - n,
         \/ pool' = [pool EXCEPT !.market = @ - n]
         \/ pool' = [pool EXCEPT !.vaults = @ + -n]
  PROVE  Surplus' = Surplus
<1>. DEFINE held == tokens[Arena]
            available == pool.available
            reserved == pool.reserved
            market == pool.market
            vaults == pool.vaults
<1>1. /\ held \in Int /\ available \in Int /\ reserved \in Int /\ market \in Int /\ vaults \in Int
      /\ Surplus = held - (available + reserved + market + vaults)
      /\ Surplus' =
           tokens'[Arena] - (pool'.available + pool'.reserved + pool'.market + pool'.vaults)
  BY SurplusFacts
<1>2. \/ /\ pool'.available = available /\ pool'.reserved = reserved
         /\ pool'.market = market - n /\ pool'.vaults = vaults
      \/ /\ pool'.available = available /\ pool'.reserved = reserved
         /\ pool'.market = market /\ pool'.vaults = vaults + -n
  BY TypesNow DEF Pool
<1>. HIDE DEF held, available, reserved, market, vaults
<1>3. tokens'[Arena] = held - n
  BY DEF held
<1>. QED
  BY <1>1, <1>2, <1>3

\* A settlement pays the cost out and moves the reward.
LEMMA SurplusSettled ==
  ASSUME ContractTypes, NEW n \in Int, NEW m \in Int,
         tokens'[Arena] = tokens[Arena] - m,
         pool' = [pool EXCEPT !.reserved = @ - n, !.vaults = @ - m + n]
  PROVE  Surplus' = Surplus
<1>. DEFINE held == tokens[Arena]
            available == pool.available
            reserved == pool.reserved
            market == pool.market
            vaults == pool.vaults
<1>1. /\ held \in Int /\ available \in Int /\ reserved \in Int /\ market \in Int /\ vaults \in Int
      /\ Surplus = held - (available + reserved + market + vaults)
      /\ Surplus' =
           tokens'[Arena] - (pool'.available + pool'.reserved + pool'.market + pool'.vaults)
  BY SurplusFacts
<1>2. /\ pool'.available = available /\ pool'.reserved = reserved - n
      /\ pool'.market = market /\ pool'.vaults = vaults - m + n
  BY TypesNow DEF Pool
<1>. HIDE DEF held, available, reserved, market, vaults
<1>3. tokens'[Arena] = held - m
  BY DEF held
<1>. QED
  BY <1>1, <1>2, <1>3

\* A payment that leaves the tokens in the arena frees them.
LEMMA SurplusFreed ==
  ASSUME ContractTypes, NEW n \in Int, NEW m \in Int,
         tokens'[Arena] = tokens[Arena],
         \/ pool' = [pool EXCEPT !.vaults = @ + -m]
         \/ pool' = [pool EXCEPT !.reserved = @ - n, !.vaults = @ - m + n]
  PROVE  Surplus' = Surplus + m
<1>. DEFINE held == tokens[Arena]
            available == pool.available
            reserved == pool.reserved
            market == pool.market
            vaults == pool.vaults
<1>1. /\ held \in Int /\ available \in Int /\ reserved \in Int /\ market \in Int /\ vaults \in Int
      /\ Surplus = held - (available + reserved + market + vaults)
      /\ Surplus' =
           tokens'[Arena] - (pool'.available + pool'.reserved + pool'.market + pool'.vaults)
  BY SurplusFacts
<1>2. \/ /\ pool'.available = available /\ pool'.reserved = reserved
         /\ pool'.market = market /\ pool'.vaults = vaults + -m
      \/ /\ pool'.available = available /\ pool'.reserved = reserved - n
         /\ pool'.market = market /\ pool'.vaults = vaults - m + n
  BY TypesNow DEF Pool
<1>. HIDE DEF held, available, reserved, market, vaults
<1>3. tokens'[Arena] = held
  BY DEF held
<1>. QED
  BY <1>1, <1>2, <1>3

\* What one total loses another one gets.
LEMMA SurplusShifted ==
  ASSUME ContractTypes, NEW n \in Int,
         tokens'[Arena] = tokens[Arena],
         \/ pool' = [pool EXCEPT !.available = @ - n, !.reserved = @ + n]
         \/ pool' = [pool EXCEPT !.reserved = @ - n, !.available = @ + n]
         \/ pool' = [pool EXCEPT !.market = @ - n, !.available = @ + n]
         \/ pool' = [pool EXCEPT !.market = @ - n, !.vaults = @ + n]
         \/ pool' = [pool EXCEPT !.vaults = @ - n, !.available = @ + n]
  PROVE  Surplus' = Surplus
<1>. DEFINE held == tokens[Arena]
            available == pool.available
            reserved == pool.reserved
            market == pool.market
            vaults == pool.vaults
<1>1. /\ held \in Int /\ available \in Int /\ reserved \in Int /\ market \in Int /\ vaults \in Int
      /\ Surplus = held - (available + reserved + market + vaults)
      /\ Surplus' =
           tokens'[Arena] - (pool'.available + pool'.reserved + pool'.market + pool'.vaults)
  BY SurplusFacts
<1>2. \/ /\ pool'.available = available - n /\ pool'.reserved = reserved + n
         /\ pool'.market = market /\ pool'.vaults = vaults
      \/ /\ pool'.available = available + n /\ pool'.reserved = reserved - n
         /\ pool'.market = market /\ pool'.vaults = vaults
      \/ /\ pool'.available = available + n /\ pool'.reserved = reserved
         /\ pool'.market = market - n /\ pool'.vaults = vaults
      \/ /\ pool'.available = available /\ pool'.reserved = reserved
         /\ pool'.market = market - n /\ pool'.vaults = vaults + n
      \/ /\ pool'.available = available + n /\ pool'.reserved = reserved
         /\ pool'.market = market /\ pool'.vaults = vaults - n
  BY TypesNow DEF Pool
<1>. HIDE DEF held, available, reserved, market, vaults
<1>3. tokens'[Arena] = held
  BY DEF held
<1>. QED
  BY <1>1, <1>2, <1>3

\* Version v pays n to the arena itself.
PaidToArena(v, n) ==
  \/ \E a \in Accounts, p \in Proofs : SettleOperatingExpense(a, v, Arena, n, p)
  \/ \E a \in Accounts, j \in DOMAIN rankedJobs, p \in Proofs :
       SubmitRankedResult(a, j, v, p, n, Arena)

SelfPayment ==
  \E v \in Versions, n \in Nat :
    PaidToArena(v, n) /\ UNCHANGED tokens /\ Surplus' = Surplus + n

\* A step that is neither a gift nor the commons taking the surplus.
LEMMA SurplusSteps ==
  ASSUME ContractTypes, [Next]_vars,
         ~\E a \in Accounts, n \in Gifts : Gift(a, n), ~AbsorbSurplus
  PROVE  Surplus' = Surplus \/ SelfPayment
<1>1. CASE Tick \/ VersionStep \/ UNCHANGED vars
  BY <1>1, SurplusIdle DEF Tick, VersionStep, CreateLineage, RegisterVersion, Heartbeat,
     vaultVars, vars
<1>2. CASE MoneyStep
  <2>1. ASSUME NEW a \in Accounts, NEW n \in Fundings, FundCommons(a, n)
        PROVE  Surplus' = Surplus
    <3>1. n \in Int /\ tokens'[Arena] = tokens[Arena] + n
      BY <2>1, TransferMoves, EohAssumption DEF FundCommons
    <3>. QED
      BY <2>1, <3>1, SurplusFed DEF FundCommons
  <2>2. ASSUME NEW a \in Accounts, NEW n \in Donations, NEW v \in Versions, Donate(a, v, n)
        PROVE  Surplus' = Surplus
    <3>1. n \in Int /\ tokens'[Arena] = tokens[Arena] + n
      BY <2>2, TransferMoves, EohAssumption DEF Donate
    <3>. QED
      BY <2>2, <3>1, SurplusFed DEF Donate, Deposit
  <2>3. ASSUME NEW a \in Accounts, NEW v \in Versions, NEW r \in Accounts \cup {Arena}, NEW n \in Expenses,
               NEW p \in Proofs, SettleOperatingExpense(a, v, r, n, p)
        PROVE  Surplus' = Surplus \/ SelfPayment
    <3>1. n \in Int /\ n \in Nat /\ pool' = [pool EXCEPT !.vaults = @ + -n]
      BY <2>3, EohAssumption DEF SettleOperatingExpense, Deposit
    <3>2. CASE r \in Accounts
      <4>1. tokens'[Arena] = tokens[Arena] - n
        BY <2>3, <3>1, <3>2, TransferMoves DEF SettleOperatingExpense
      <4>. QED
        BY <3>1, <4>1, SurplusDrawn
    <3>3. CASE r = Arena
      <4>1. UNCHANGED tokens
        BY <2>3, <3>1, <3>3, SelfTransfer DEF SettleOperatingExpense
      <4>2. Surplus' = Surplus + n
        BY <3>1, <4>1, SurplusFreed
      <4>. QED
        BY <2>3, <3>1, <3>3, <4>1, <4>2 DEF SelfPayment, PaidToArena
    <3>. QED
      BY <3>2, <3>3
  <2>. QED
    BY <1>2, <2>1, <2>2, <2>3 DEF MoneyStep
<1>3. CASE JobStep
  <2>1. ASSUME NEW leaf \in Schedule, CreateRankedJob(leaf) PROVE Surplus' = Surplus
    <3>1. leaf.reward \in Int /\ tokens'[Arena] = tokens[Arena]
      BY <2>1, TypesNow, EohAssumption DEF CreateRankedJob
    <3>. QED
      BY <2>1, <3>1, SurplusShifted DEF CreateRankedJob
  <2>2. ASSUME NEW j \in DOMAIN rankedJobs, NEW a \in Accounts, NEW r \in Accounts \cup {Arena},
               NEW v \in Versions, NEW p \in Proofs, NEW n \in Costs,
               SubmitRankedResult(a, j, v, p, n, r)
        PROVE  Surplus' = Surplus \/ SelfPayment
    <3>. DEFINE reward == rankedJobs[j].reward
    <3>1. /\ reward \in Int /\ n \in Int /\ n \in Nat
          /\ pool' = [pool EXCEPT !.reserved = @ - reward, !.vaults = @ - n + reward]
      BY <2>2, TypesNow, EohAssumption DEF SubmitRankedResult, RankedJob
    <3>. HIDE DEF reward
    <3>2. CASE r \in Accounts
      <4>1. tokens'[Arena] = tokens[Arena] - n
        BY <2>2, <3>1, <3>2, TransferMoves DEF SubmitRankedResult
      <4>. QED
        BY <3>1, <4>1, SurplusSettled
    <3>3. CASE r = Arena
      <4>1. UNCHANGED tokens
        BY <2>2, <3>1, <3>3, SelfTransfer DEF SubmitRankedResult
      <4>2. Surplus' = Surplus + n
        BY <3>1, <4>1, SurplusFreed
      <4>. QED
        BY <2>2, <3>1, <3>3, <4>1, <4>2 DEF SelfPayment, PaidToArena
    <3>. QED
      BY <3>2, <3>3
  <2>3. ASSUME NEW j \in DOMAIN rankedJobs, ExpireRankedJob(j) PROVE Surplus' = Surplus
    <3>1. rankedJobs[j].reward \in Int
      BY TypesNow DEF RankedJob
    <3>2. tokens'[Arena] = tokens[Arena]
      BY <2>3, TypesNow DEF ExpireRankedJob
    <3>. QED
      BY <2>3, <3>1, <3>2, SurplusShifted DEF ExpireRankedJob
  <2>4. ASSUME NEW a \in Accounts, NEW v \in Versions, NEW o \in Orders, OpenMarketJob(a, v, o)
        PROVE  Surplus' = Surplus
    <3>1. o.reward \in Int /\ tokens'[Arena] = tokens[Arena] + o.reward
      BY <2>4, TransferMoves, EohAssumption DEF OpenMarketJob
    <3>. QED
      BY <2>4, <3>1, SurplusFed DEF OpenMarketJob
  <2>5. ASSUME NEW a \in Accounts, NEW j \in DOMAIN marketJobs, SubmitMarketResult(a, j)
        PROVE  Surplus' = Surplus
    BY <2>5, SurplusIdle DEF SubmitMarketResult, vaultVars
  <2>6. ASSUME NEW a \in Accounts, NEW j \in DOMAIN marketJobs, AcceptMarketResult(a, j)
        PROVE  Surplus' = Surplus
    <3>1. marketJobs[j].reward \in Int /\ tokens'[Arena] = tokens[Arena]
      BY <2>6, TypesNow DEF AcceptMarketResult, MarketJob
    <3>. QED
      BY <2>6, <3>1, SurplusShifted DEF AcceptMarketResult, RewardToCommons
  <2>7. ASSUME NEW a \in Accounts, NEW j \in DOMAIN marketJobs, RefundMarketJob(a, j)
        PROVE  Surplus' = Surplus
    <3>1. marketJobs[j].reward \in Int
      BY TypesNow DEF MarketJob
    <3>2. tokens'[Arena] = tokens[Arena] - marketJobs[j].reward
      BY <2>7, <3>1, TransferMoves DEF RefundMarketJob
    <3>. QED
      BY <2>7, <3>1, <3>2, SurplusDrawn DEF RefundMarketJob
  <2>. QED
    BY <1>3, <2>1, <2>2, <2>3, <2>4, <2>5, <2>6, <2>7 DEF JobStep
<1>4. CASE SelectionStep
  <2>1. ASSUME NEW v \in Versions, EjectStale(v) PROVE Surplus' = Surplus
    <3>1. vaultBalance[v] \in Int /\ tokens'[Arena] = tokens[Arena]
      BY <2>1, TypesNow, EohAssumption DEF EjectStale, SelectionUnchanged
    <3>. QED
      BY <2>1, <3>1, SurplusShifted DEF EjectStale
  <2>2. ASSUME NEW v \in Versions, NEW e \in Epochs,
               \/ Supersede(v, e) \/ ClaimVacancy(v, e)
               \/ \E s \in Salts : CommitSupersede(v, e, s) \/ RevealSupersede(v, e, s)
        PROVE  Surplus' = Surplus
    BY <2>2, SurplusIdle DEF Supersede, ClaimVacancy, CommitSupersede, RevealSupersede,
       SelectionUnchanged, vaultVars
  <2>. QED
    BY <1>4, <2>1, <2>2 DEF SelectionStep
<1>. QED
  BY <1>1, <1>2, <1>3, <1>4 DEF Next

LEMMA SurplusGiven ==
  ASSUME ContractTypes, NEW a \in Accounts, NEW n \in Gifts, Gift(a, n)
  PROVE  Surplus' = Surplus + n /\ n \in Nat \ {0}
<1>1. n \in Nat \ {0} /\ tokens'[Arena] = tokens[Arena] + n /\ UNCHANGED pool
  BY TransferMoves, EohAssumption DEF Gift, vaultVars
<1>. QED
  BY <1>1, SurplusFacts

LEMMA SurplusAbsorbed ==
  ASSUME ContractTypes, AbsorbSurplus
  PROVE  /\ Surplus' = 0 /\ UNCHANGED tokens
         /\ pool'.available = pool.available + Surplus
<1>1. /\ Surplus \in Int /\ UNCHANGED tokens /\ pool' = [pool EXCEPT !.available = @ + Surplus]
  BY SurplusFacts DEF AbsorbSurplus
<1>2. /\ pool'.available = pool.available + Surplus /\ pool'.reserved = pool.reserved
      /\ pool'.market = pool.market /\ pool'.vaults = pool.vaults
  BY <1>1, TypesNow DEF Pool
<1>. QED
  BY <1>1, <1>2, SurplusFacts

(* The arena always holds the tokens it accounts for. *)
THEOREM TokensCover == Spec => [](Surplus >= 0)
<1>1. Init => Surplus >= 0
  BY EohAssumption DEF Init, Surplus, AccountedTokenBalance
<1>2. ContractTypes /\ Surplus >= 0 /\ [Next]_vars => (Surplus >= 0)'
  <2>. SUFFICES ASSUME ContractTypes, Surplus >= 0, [Next]_vars PROVE (Surplus >= 0)'
    OBVIOUS
  <2>1. Surplus \in Int
    BY SurplusFacts
  <2>. QED
    BY <2>1, SurplusGiven, SurplusAbsorbed, SurplusSteps DEF SelfPayment
<1>. QED
  BY <1>1, <1>2, ContractTypesCorrect, PTL DEF Spec

(***************************************************************************)
(* The running totals are the sums they stand for.                         *)
(***************************************************************************)
RewardBook(jobs, S) == [j \in S |-> jobs[j].reward]

LEMMA TotalsGrow ==
  ASSUME NEW S, IsFiniteSet(S), NEW x \in S
  PROVE  \A p \in [S -> Int], q \in [S \ {x} -> Int] :
           (\A j \in S \ {x} : p[j] = q[j]) => SumFunction(p) = SumFunction(q) + p[x]
<1>. SUFFICES ASSUME NEW p \in [S -> Int], NEW q \in [S \ {x} -> Int],
                     \A j \in S \ {x} : p[j] = q[j]
              PROVE  SumFunction(p) = SumFunction(q) + p[x]
  OBVIOUS
<1>. QED
  BY TotalAdded

\* A book of rewards with one more job.
LEMMA BookGrows ==
  ASSUME NEW S, IsFiniteSet(S), NEW x \in S, NEW jobs, NEW later,
         \A j \in S : later[j].reward \in Int,
         \A j \in S \ {x} : later[j].reward = jobs[j].reward
  PROVE  SumFunction(RewardBook(later, S)) =
           SumFunction(RewardBook(jobs, S \ {x})) + later[x].reward
<1>. DEFINE f == RewardBook(jobs, S \ {x})
            g == RewardBook(later, S)
<1>1. /\ g \in [S -> Int] /\ g[x] = later[x].reward /\ f \in [S \ {x} -> Int]
      /\ \A j \in S \ {x} : g[j] = f[j]
  BY DEF RewardBook
<1>. HIDE DEF f, g
<1>2. \A p \in [S -> Int], q \in [S \ {x} -> Int] :
        (\A j \in S \ {x} : p[j] = q[j]) => SumFunction(p) = SumFunction(q) + p[x]
  BY TotalsGrow
<1>3. SumFunction(g) = SumFunction(f) + g[x]
  BY <1>1, <1>2
<1>. QED
  BY <1>1, <1>3 DEF f, g

LEMMA BookKept ==
  ASSUME NEW S, NEW jobs, NEW later, \A j \in S : later[j].reward = jobs[j].reward
  PROVE  RewardBook(later, S) = RewardBook(jobs, S)
BY DEF RewardBook

\* The same of the costs of ranked jobs.
CostBook(jobs, S) == [j \in S |-> jobs[j].cost]

LEMMA CostsGrow ==
  ASSUME NEW S, IsFiniteSet(S), NEW x \in S, NEW jobs, NEW later,
         \A j \in S : later[j].cost \in Int,
         \A j \in S \ {x} : later[j].cost = jobs[j].cost
  PROVE  SumFunction(CostBook(later, S)) =
           SumFunction(CostBook(jobs, S \ {x})) + later[x].cost
<1>. DEFINE f == CostBook(jobs, S \ {x})
            g == CostBook(later, S)
<1>1. /\ g \in [S -> Int] /\ g[x] = later[x].cost /\ f \in [S \ {x} -> Int]
      /\ \A j \in S \ {x} : g[j] = f[j]
  BY DEF CostBook
<1>. HIDE DEF f, g
<1>2. \A p \in [S -> Int], q \in [S \ {x} -> Int] :
        (\A j \in S \ {x} : p[j] = q[j]) => SumFunction(p) = SumFunction(q) + p[x]
  BY TotalsGrow
<1>3. SumFunction(g) = SumFunction(f) + g[x]
  BY <1>1, <1>2
<1>. QED
  BY <1>1, <1>3 DEF f, g

LEMMA CostsKept ==
  ASSUME NEW S, NEW jobs, NEW later, \A j \in S : later[j].cost = jobs[j].cost
  PROVE  CostBook(later, S) = CostBook(jobs, S)
BY DEF CostBook

LEMMA JobsFinite ==
  ASSUME ContractTypes
  PROVE  /\ IsFiniteSet(DOMAIN rankedJobs) /\ IsFiniteSet(DOMAIN marketJobs)
         /\ \A S \in SUBSET (DOMAIN rankedJobs) : IsFiniteSet(S)
         /\ \A S \in SUBSET (DOMAIN marketJobs) : IsFiniteSet(S)
<1>1. IsFiniteSet(DOMAIN rankedJobs) /\ IsFiniteSet(DOMAIN marketJobs)
  BY TypesNow, JobIndices, FS_Interval
<1>. QED
  BY <1>1, FS_Subset

LEMMA RewardsInt ==
  ASSUME ContractTypes
  PROVE  /\ \A j \in DOMAIN rankedJobs : rankedJobs[j].reward \in Nat
         /\ \A j \in DOMAIN marketJobs : marketJobs[j].reward \in Nat
BY TypesNow DEF RankedJob, MarketJob

ReservedIsSum == pool.reserved = SumFunction(RewardBook(rankedJobs, OpenRanked))
MarketIsSum   == pool.market = SumFunction(RewardBook(marketJobs, Unresolved))
VaultsAreSum  == pool.vaults = SumFunction(vaultBalance)

LEMMA AccountedIs ==
  Accounted <=> VaultsAreSum /\ ReservedIsSum /\ MarketIsSum /\ Surplus >= 0
<1>1. Rewards(RankedWhere(LAMBDA job : job.status = "open")) =
        SumFunction(RewardBook(rankedJobs, OpenRanked))
  BY DEF RewardBook, Rewards, OpenRanked, RankedWhere
<1>2. SumFunction([j \in Unresolved |-> marketJobs[j].reward]) =
        SumFunction(RewardBook(marketJobs, Unresolved))
  BY DEF RewardBook
<1>. QED
  BY <1>1, <1>2 DEF Accounted, VaultsAreSum, ReservedIsSum, MarketIsSum

LEMMA ReservedInduction ==
  ASSUME ContractTypes, ContractTypes', ReservedIsSum, RankedEffect
  PROVE  ReservedIsSum'
<1>. DEFINE total == SumFunction(RewardBook(rankedJobs, OpenRanked))
            later == SumFunction(RewardBook(rankedJobs', OpenRanked'))
<1>0. /\ pool.reserved = total /\ pool.reserved \in Int /\ pool'.reserved \in Int
      /\ OpenRanked \in SUBSET (DOMAIN rankedJobs)
      /\ OpenRanked' \in SUBSET (DOMAIN rankedJobs')
  BY SurplusFacts, OpenRankedIs DEF ReservedIsSum, ContractTypes, MoneyTypes
<1>1. CASE UNCHANGED rankedJobs /\ pool'.reserved = pool.reserved
  BY <1>0, <1>1, OpenRankedIs DEF ReservedIsSum
<1>2. ASSUME NEW new, NEW reward, RankedOpens(new, reward) PROVE pool'.reserved = later
  <2>1. /\ IsFiniteSet(OpenRanked') /\ new \in OpenRanked' /\ OpenRanked = OpenRanked' \ {new}
        /\ rankedJobs'[new].reward = reward /\ pool'.reserved = pool.reserved + reward
    <3>1. IsFiniteSet(OpenRanked)
      BY <1>0, JobsFinite
    <3>2. new \notin OpenRanked /\ OpenRanked' = OpenRanked \cup {new}
      BY <1>2, OpenRankedIs DEF RankedOpens
    <3>3. IsFiniteSet(OpenRanked') /\ new \in OpenRanked' /\ OpenRanked = OpenRanked' \ {new}
      BY <3>1, <3>2, FS_AddElement
    <3>. QED
      BY <1>2, <3>3 DEF RankedOpens
  <2>2. \A j \in OpenRanked' : rankedJobs'[j].reward \in Int
    BY <1>0, <1>2, RewardsInt, OpenRankedIs DEF RankedOpens
  <2>3. \A j \in OpenRanked' \ {new} : rankedJobs'[j].reward = rankedJobs[j].reward
    BY <1>0, <1>2, <2>1 DEF RankedOpens
  <2>4. later = SumFunction(RewardBook(rankedJobs, OpenRanked' \ {new})) + rankedJobs'[new].reward
    BY <2>1, <2>2, <2>3, BookGrows
  <2>. QED
    BY <1>0, <2>1, <2>4
<1>3. ASSUME NEW j \in DOMAIN rankedJobs, RankedCloses(j) PROVE pool'.reserved = later
  <2>1. /\ IsFiniteSet(OpenRanked) /\ j \in OpenRanked /\ OpenRanked' = OpenRanked \ {j}
        /\ pool'.reserved = pool.reserved - rankedJobs[j].reward /\ rankedJobs[j].reward \in Int
    BY <1>0, <1>3, JobsFinite, RewardsInt DEF RankedCloses
  <2>2. \A i \in OpenRanked : rankedJobs[i].reward \in Int
    BY <1>0, RewardsInt
  <2>3. \A i \in OpenRanked \ {j} : rankedJobs[i].reward = rankedJobs'[i].reward
    BY <1>0, <1>3 DEF RankedCloses
  <2>4. total = SumFunction(RewardBook(rankedJobs', OpenRanked \ {j})) + rankedJobs[j].reward
    BY <2>1, <2>2, <2>3, BookGrows
  <2>5. total = later + rankedJobs[j].reward
    BY <2>1, <2>4
  <2>6. later \in Int
    <3>1. RewardBook(rankedJobs', OpenRanked') \in [OpenRanked' -> Int]
      BY <2>1, <2>2, <2>3 DEF RewardBook
    <3>. QED
      BY <2>1, <3>1, FS_Subset, TotalInt
  <2>. QED
    BY <1>0, <2>1, <2>5, <2>6
<1>. QED
  BY <1>1, <1>2, <1>3 DEF RankedEffect, ReservedIsSum

LEMMA MarketInduction ==
  ASSUME ContractTypes, ContractTypes', MarketIsSum, MarketEffect
  PROVE  MarketIsSum'
<1>. DEFINE total == SumFunction(RewardBook(marketJobs, Unresolved))
            later == SumFunction(RewardBook(marketJobs', Unresolved'))
<1>0. /\ pool.market = total /\ pool.market \in Int /\ pool'.market \in Int
      /\ Unresolved \in SUBSET (DOMAIN marketJobs)
      /\ IsFiniteSet(Unresolved)
  BY SurplusFacts, JobsFinite DEF MarketIsSum, ContractTypes, MoneyTypes, Unresolved
<1>1. CASE MarketStays
  <2>1. /\ Unresolved' = Unresolved /\ pool'.market = pool.market
        /\ \A j \in Unresolved : marketJobs'[j].reward = marketJobs[j].reward
    BY <1>0, <1>1, MarketKept DEF MarketStays
  <2>2. RewardBook(marketJobs', Unresolved) = RewardBook(marketJobs, Unresolved)
    BY <2>1, BookKept
  <2>. QED
    BY <1>0, <2>1, <2>2 DEF MarketIsSum
<1>2. ASSUME NEW new, NEW reward, MarketOpens(new, reward) PROVE pool'.market = later
  <2>1. /\ IsFiniteSet(Unresolved') /\ new \in Unresolved' /\ Unresolved = Unresolved' \ {new}
        /\ marketJobs'[new].reward = reward /\ reward \in Nat
        /\ pool'.market = pool.market + reward
    BY <1>0, <1>2, FS_AddElement DEF MarketOpens
  <2>2. \A j \in Unresolved' \ {new} : marketJobs'[j].reward = marketJobs[j].reward
    BY <1>2, <2>1 DEF MarketOpens
  <2>3. \A j \in Unresolved' : marketJobs'[j].reward \in Int
    BY <1>0, <2>1, <2>2, RewardsInt
  <2>4. later = SumFunction(RewardBook(marketJobs, Unresolved' \ {new})) + marketJobs'[new].reward
    BY <2>1, <2>2, <2>3, BookGrows
  <2>. QED
    BY <1>0, <2>1, <2>4
<1>3. ASSUME NEW j \in DOMAIN marketJobs, MarketCloses(j) PROVE pool'.market = later
  <2>1. /\ j \in Unresolved /\ Unresolved' = Unresolved \ {j}
        /\ pool'.market = pool.market - marketJobs[j].reward /\ marketJobs[j].reward \in Int
    BY <1>3, RewardsInt DEF MarketCloses
  <2>2. \A i \in Unresolved : marketJobs[i].reward \in Int
    BY <1>0, RewardsInt
  <2>3. \A i \in Unresolved \ {j} : marketJobs[i].reward = marketJobs'[i].reward
    BY <1>3 DEF MarketCloses
  <2>4. total = SumFunction(RewardBook(marketJobs', Unresolved \ {j})) + marketJobs[j].reward
    BY <1>0, <2>1, <2>2, <2>3, BookGrows
  <2>5. total = later + marketJobs[j].reward
    BY <2>1, <2>4
  <2>6. later \in Int
    <3>1. RewardBook(marketJobs', Unresolved') \in [Unresolved' -> Int]
      BY <2>1, <2>2, <2>3 DEF RewardBook
    <3>. QED
      BY <1>0, <2>1, <3>1, FS_Subset, TotalInt
  <2>. QED
    BY <1>0, <2>1, <2>5, <2>6
<1>. QED
  BY <1>1, <1>2, <1>3 DEF MarketEffect, MarketIsSum

\* What a call does to the vaults: nothing, one payment, or a succession.
VaultsStay == UNCHANGED vaultBalance /\ pool'.vaults = pool.vaults
VaultPaid(v, n) ==
  /\ vaultBalance' = [vaultBalance EXCEPT ![v] = @ + n] /\ pool'.vaults = pool.vaults + n
VaultInherited(from, to) ==
  /\ vaultBalance' = [vaultBalance EXCEPT ![from] = 0, ![to] = @ + vaultBalance[from]]
  /\ pool'.vaults = pool.vaults
VaultEffect ==
  \/ VaultsStay
  \/ \E v \in Versions, n \in Int : VaultPaid(v, n)
  \/ \E from \in Versions, to \in Versions : from # to /\ VaultInherited(from, to)

LEMMA VaultMoney == ContractTypes /\ MoneyStep => VaultEffect
<1>. SUFFICES ASSUME ContractTypes, MoneyStep PROVE VaultEffect
  OBVIOUS
<1>0. pool \in Pool /\ Donations \subseteq Int /\ Expenses \subseteq Int
  BY TypesNow, EohAssumption
<1>1. ASSUME NEW a \in Accounts, NEW n, Gift(a, n) \/ FundCommons(a, n) PROVE VaultsStay
  BY <1>0, <1>1 DEF Gift, FundCommons, vaultVars, VaultsStay, Pool
<1>2. ASSUME NEW a \in Accounts, NEW n \in Donations, NEW v \in Versions, Donate(a, v, n)
      PROVE  LiveBeneficiary(v) \in Versions /\ n \in Int /\ VaultPaid(LiveBeneficiary(v), n)
  <2>1. LiveBeneficiary(v) \in Versions
    BY <1>2, BeneficiaryLives DEF Donate, ContractTypes
  <2>. QED
    BY <1>0, <1>2, <2>1 DEF Donate, Deposit, VaultPaid, Pool
<1>3. ASSUME NEW a \in Accounts, NEW v \in Versions, NEW r \in Accounts \cup {Arena}, NEW n \in Expenses,
             NEW p \in Proofs, SettleOperatingExpense(a, v, r, n, p)
      PROVE  -n \in Int /\ VaultPaid(v, -n)
  BY <1>0, <1>3 DEF SettleOperatingExpense, Deposit, VaultPaid, Pool
<1>4. CASE AbsorbSurplus
  BY <1>0, <1>4 DEF AbsorbSurplus, VaultEffect, VaultsStay, Pool
<1>. QED
  BY <1>1, <1>2, <1>3, <1>4 DEF MoneyStep, VaultEffect

LEMMA VaultSettled ==
  ASSUME ContractTypes, NEW j \in DOMAIN rankedJobs, NEW a, NEW r,
         NEW v \in Versions, NEW p, NEW n \in Costs, SubmitRankedResult(a, j, v, p, n, r)
  PROVE  rankedJobs[j].reward - n \in Int /\ VaultPaid(v, rankedJobs[j].reward - n)
<1>. DEFINE reward == rankedJobs[j].reward
<1>1. /\ reward \in Int /\ n \in Int /\ vaultBalance[v] \in Int /\ pool \in Pool
      /\ pool.vaults \in Int
  BY TypesNow, RewardsInt, PoolFields, EohAssumption
<1>2. /\ vaultBalance' = [vaultBalance EXCEPT ![v] = @ - n + reward]
      /\ pool' = [pool EXCEPT !.reserved = @ - reward, !.vaults = @ - n + reward]
  BY DEF SubmitRankedResult
<1>3. pool'.vaults = pool.vaults - n + reward
  BY <1>1, <1>2 DEF Pool
<1>. HIDE DEF reward
<1>4. /\ reward - n \in Int
      /\ vaultBalance[v] - n + reward = vaultBalance[v] + (reward - n)
      /\ pool.vaults - n + reward = pool.vaults + (reward - n)
  BY <1>1
<1>5. vaultBalance' = [vaultBalance EXCEPT ![v] = @ + (reward - n)]
  BY <1>2, <1>4
<1>6. VaultPaid(v, reward - n)
  BY <1>3, <1>4, <1>5 DEF VaultPaid
<1>. QED
  BY <1>4, <1>6 DEF reward

LEMMA VaultJobs == ContractTypes /\ JobStep => VaultEffect
<1>. SUFFICES ASSUME ContractTypes, JobStep PROVE VaultEffect
  OBVIOUS
<1>0. pool \in Pool
  BY TypesNow
<1>1. ASSUME NEW leaf \in Schedule, CreateRankedJob(leaf) PROVE VaultsStay
  BY <1>0, <1>1 DEF CreateRankedJob, VaultsStay, Pool
<1>2. ASSUME NEW j \in DOMAIN rankedJobs, ExpireRankedJob(j) PROVE VaultsStay
  BY <1>0, <1>2 DEF ExpireRankedJob, VaultsStay, Pool
<1>3. ASSUME NEW a \in Accounts, NEW v \in Versions, NEW o \in Orders, OpenMarketJob(a, v, o)
      PROVE  VaultsStay
  BY <1>0, <1>3 DEF OpenMarketJob, VaultsStay, Pool
<1>4. ASSUME NEW a \in Accounts, NEW j \in DOMAIN marketJobs,
             SubmitMarketResult(a, j) \/ RefundMarketJob(a, j)
      PROVE  VaultsStay
  BY <1>0, <1>4 DEF SubmitMarketResult, RefundMarketJob, vaultVars, VaultsStay, Pool
<1>5. ASSUME NEW a \in Accounts, NEW j \in DOMAIN marketJobs, AcceptMarketResult(a, j)
      PROVE  VaultEffect
  <2>. DEFINE reward == marketJobs[j].reward
              payee  == Payee(j)
  <2>1. /\ reward \in Int
        /\ \/ UNCHANGED vaultBalance
              /\ pool' = [pool EXCEPT !.market = @ - reward, !.available = @ + reward]
           \/ /\ payee # Zero
              /\ pool' = [pool EXCEPT !.market = @ - reward, !.vaults = @ + reward]
              /\ vaultBalance' = [vaultBalance EXCEPT ![payee] = @ + reward]
    BY <1>5, RewardsInt DEF AcceptMarketResult, RewardToCommons
  <2>2. payee \in Versions \cup {Zero}
    BY <1>5, BeneficiaryLives DEF AcceptMarketResult, ContractTypes, Performed, Payee
  <2>. HIDE DEF reward, payee
  <2>3. VaultsStay \/ (payee \in Versions /\ VaultPaid(payee, reward))
    BY <1>0, <2>1, <2>2 DEF VaultsStay, VaultPaid, Pool
  <2>. QED
    BY <2>1, <2>3 DEF VaultEffect
<1>. QED
  BY <1>1, <1>2, <1>3, <1>4, <1>5, VaultSettled DEF JobStep, VaultEffect

LEMMA VaultSelection == ContractTypes /\ SelectionStep => VaultEffect
<1>. SUFFICES ASSUME ContractTypes, SelectionStep PROVE VaultEffect
  OBVIOUS
<1>0. pool \in Pool /\ vaultBalance \in [Versions -> Nat]
  BY TypesNow
<1>1. ASSUME NEW v \in Versions, EjectStale(v)
      PROVE  -vaultBalance[v] \in Int /\ VaultPaid(v, -vaultBalance[v])
  <2>1. /\ vaultBalance[v] \in Int /\ pool.vaults \in Int
        /\ vaultBalance' = [vaultBalance EXCEPT ![v] = 0]
        /\ pool'.vaults = pool.vaults - vaultBalance[v]
    BY <1>0, <1>1 DEF EjectStale, Pool
  <2>2. vaultBalance' = [vaultBalance EXCEPT ![v] = @ + -vaultBalance[v]]
    <3>1. vaultBalance[v] + -vaultBalance[v] = 0
      BY <2>1
    <3>. QED
      BY <2>1, <3>1, Zenon
  <2>3. pool'.vaults = pool.vaults + -vaultBalance[v] /\ -vaultBalance[v] \in Int
    BY <2>1
  <2>. QED
    BY <2>2, <2>3, Zenon DEF VaultPaid
<1>2. ASSUME NEW v \in Versions, NEW e \in Epochs,
             Supersede(v, e) \/ \E s \in Salts : RevealSupersede(v, e, s)
      PROVE  VaultEffect
  <2>. DEFINE incumbent == active[LineageOf[v]]
  <2>1. MayChallenge(v, e) /\ Succeed(v) /\ UNCHANGED pool
    BY <1>2 DEF Supersede, RevealSupersede
  <2>2. incumbent \in Versions /\ incumbent # v
    BY <2>1, EohAssumption DEF MayChallenge, ContractTypes, SeatTypes
  <2>3. VaultInherited(incumbent, v)
    BY <2>1 DEF Succeed, VaultInherited
  <2>. HIDE DEF incumbent
  <2>. QED
    BY <2>2, <2>3 DEF VaultEffect
<1>3. ASSUME NEW v \in Versions, NEW e \in Epochs,
             ClaimVacancy(v, e) \/ \E s \in Salts : CommitSupersede(v, e, s)
      PROVE  VaultsStay
  BY <1>3 DEF ClaimVacancy, CommitSupersede, vaultVars, VaultsStay
<1>. QED
  BY <1>1, <1>2, <1>3 DEF SelectionStep, VaultEffect

LEMMA VaultEffects == ContractTypes /\ [Next]_vars => VaultEffect
<1>1. ContractTypes /\ (Tick \/ VersionStep \/ UNCHANGED vars) => VaultsStay
  BY DEF Tick, VersionStep, CreateLineage, RegisterVersion, Heartbeat, vaultVars, vars, VaultsStay
<1>. QED
  BY <1>1, VaultMoney, VaultJobs, VaultSelection DEF Next, VaultEffect

LEMMA VaultsInduction ==
  ASSUME ContractTypes, ContractTypes', VaultsAreSum, VaultEffect
  PROVE  VaultsAreSum'
<1>0. /\ IsFiniteSet(Versions) /\ vaultBalance \in [Versions -> Int]
      /\ vaultBalance' \in [Versions -> Int]
      /\ pool.vaults = SumFunction(vaultBalance) /\ pool.vaults \in Int
  BY EohAssumption, SurplusFacts DEF VaultsAreSum, ContractTypes, MoneyTypes
<1>1. CASE VaultsStay
  BY <1>0, <1>1 DEF VaultsStay, VaultsAreSum
<1>2. ASSUME NEW v \in Versions, NEW n \in Int, VaultPaid(v, n)
      PROVE  pool'.vaults = SumFunction(vaultBalance')
  <2>1. /\ vaultBalance'[v] = vaultBalance[v] + n /\ vaultBalance[v] \in Int
        /\ \A w \in Versions \ {v} : vaultBalance'[w] = vaultBalance[w]
        /\ pool'.vaults = pool.vaults + n
    BY <1>0, <1>2 DEF VaultPaid
  <2>2. SumFunction(vaultBalance') = SumFunction(vaultBalance) - vaultBalance[v] + vaultBalance'[v]
    BY <1>0, <2>1, TotalMoved
  <2>. QED
    BY <1>0, <2>1, <2>2
<1>3. ASSUME NEW from \in Versions, NEW to \in Versions, from # to, VaultInherited(from, to)
      PROVE  pool'.vaults = SumFunction(vaultBalance')
  <2>1. /\ vaultBalance'[from] = 0 /\ vaultBalance'[to] = vaultBalance[to] + vaultBalance[from]
        /\ vaultBalance[from] \in Int /\ vaultBalance[to] \in Int
        /\ \A w \in Versions \ {from, to} : vaultBalance'[w] = vaultBalance[w]
        /\ pool'.vaults = pool.vaults
    BY <1>0, <1>3 DEF VaultInherited
  <2>2. SumFunction(vaultBalance') = SumFunction(vaultBalance) - vaultBalance[from]
          - vaultBalance[to] + vaultBalance'[from] + vaultBalance'[to]
    BY <1>0, <1>3, <2>1, TotalMovedTwo
  <2>. QED
    BY <1>0, <2>1, <2>2
<1>. QED
  BY <1>1, <1>2, <1>3 DEF VaultEffect, VaultsAreSum

LEMMA TotalsInit == Init => VaultsAreSum /\ ReservedIsSum /\ MarketIsSum
<1>. SUFFICES ASSUME Init PROVE VaultsAreSum /\ ReservedIsSum /\ MarketIsSum
  OBVIOUS
<1>1. /\ vaultBalance \in [Versions -> Int] /\ \A v \in Versions : vaultBalance[v] = 0
      /\ pool.vaults = 0 /\ pool.reserved = 0 /\ pool.market = 0
      /\ OpenRanked = {} /\ Unresolved = {}
  BY OpenRankedIs DEF Init, Unresolved
<1>2. SumFunction(vaultBalance) = 0
  BY <1>1, EohAssumption, TotalZero
<1>3. RewardBook(rankedJobs, {}) \in [{} -> Int] /\ RewardBook(marketJobs, {}) \in [{} -> Int]
  BY DEF RewardBook
<1>4. /\ SumFunction(RewardBook(rankedJobs, {})) = 0
      /\ SumFunction(RewardBook(marketJobs, {})) = 0
  BY <1>3, FS_EmptySet, TotalZero
<1>. QED
  BY <1>1, <1>2, <1>4 DEF VaultsAreSum, ReservedIsSum, MarketIsSum

(* The contract never adds its vaults, rewards or escrows up: that each of its
   four running totals is the sum it stands for, and that the tokens it holds
   cover them all at once, after any sequence of calls by anyone. *)
THEOREM AccountsCorrect == Spec => []Accounted
<1>. DEFINE Totals == VaultsAreSum /\ ReservedIsSum /\ MarketIsSum
<1>1. ContractTypes /\ ContractTypes' /\ [Next]_vars /\ Totals => Totals'
  BY RankedEffects, MarketSteps, VaultEffects, ReservedInduction, MarketInduction, VaultsInduction
<1>2. Init => Totals
  BY TotalsInit
<1>3. Totals /\ Surplus >= 0 => Accounted
  BY AccountedIs
<1>. HIDE DEF Totals
<1>. QED
  BY <1>1, <1>2, <1>3, ContractTypesCorrect, TokensCover, PTL DEF Spec

(***************************************************************************)
(* Types of the whole state: the records no sum is about, and the totals   *)
(* that are never negative because they are sums of what is not.           *)
(***************************************************************************)
RecordTypes ==
  /\ now \in StartTime .. MaxTime
  /\ operatingSpent \in [Versions -> Nat]
  /\ proofUsed \subseteq Proofs /\ jobAuthorizationUsed \subseteq Schedule
  /\ DOMAIN supersedeCommits \subseteq Versions \X Epochs \X Salts
  /\ supersedeRevealed \subseteq DOMAIN supersedeCommits
  /\ pool.available \in Nat

recordVars == <<now, operatingSpent, proofUsed, jobAuthorizationUsed, commitVars>>

LEMMA RecordsIdle ==
  ASSUME RecordTypes, UNCHANGED recordVars, pool'.available \in Nat PROVE RecordTypes'
BY DEF RecordTypes, recordVars, commitVars

LEMMA RecordsMoney ==
  ASSUME ContractTypes, RecordTypes, MoneyStep PROVE RecordTypes'
<1>0. pool \in Pool /\ pool.available \in Nat
  BY TypesNow DEF RecordTypes
<1>1. ASSUME NEW a \in Accounts, NEW n \in Gifts, Gift(a, n) PROVE RecordTypes'
  BY <1>0, <1>1, RecordsIdle DEF Gift, vaultVars, jobVars, recordVars
<1>2. ASSUME NEW a \in Accounts, NEW n \in Fundings, FundCommons(a, n) PROVE RecordTypes'
  <2>1. n \in Nat
    BY EohAssumption
  <2>2. pool'.available \in Nat
    BY <1>0, <1>2, <2>1 DEF FundCommons, Pool
  <2>. QED
    BY <1>2, <2>2, RecordsIdle DEF FundCommons, jobVars, recordVars
<1>3. ASSUME NEW a \in Accounts, NEW n \in Donations, NEW v \in Versions, Donate(a, v, n)
      PROVE  RecordTypes'
  <2>1. pool'.available \in Nat
    BY <1>0, <1>3 DEF Donate, Deposit, Pool
  <2>. QED
    BY <1>3, <2>1, RecordsIdle DEF Donate, jobVars, recordVars
<1>4. ASSUME NEW a \in Accounts, NEW v \in Versions, NEW r \in Accounts \cup {Arena}, NEW n \in Expenses,
             NEW p \in Proofs, SettleOperatingExpense(a, v, r, n, p)
      PROVE  RecordTypes'
  <2>1. n \in Nat
    BY EohAssumption
  <2>2. pool'.available \in Nat
    BY <1>0, <1>4 DEF SettleOperatingExpense, Deposit, Pool
  <2>3. operatingSpent' \in [Versions -> Nat] /\ proofUsed' \subseteq Proofs
    BY <1>4, <2>1 DEF SettleOperatingExpense, RecordTypes
  <2>. QED
    BY <1>4, <2>2, <2>3 DEF SettleOperatingExpense, RecordTypes, commitVars
<1>5. CASE AbsorbSurplus
  <2>1. Surplus \in Nat
    BY <1>5, SurplusFacts DEF AbsorbSurplus
  <2>2. pool'.available \in Nat
    BY <1>0, <1>5, <2>1 DEF AbsorbSurplus, Pool
  <2>. QED
    BY <1>5, <2>2, RecordsIdle DEF AbsorbSurplus, jobVars, recordVars
<1>. QED
  BY <1>1, <1>2, <1>3, <1>4, <1>5 DEF MoneyStep

LEMMA RecordsJobs ==
  ASSUME ContractTypes, RecordTypes, JobStep PROVE RecordTypes'
<1>0. pool \in Pool /\ pool.available \in Nat
  BY TypesNow DEF RecordTypes
<1>1. ASSUME NEW leaf \in Schedule, CreateRankedJob(leaf) PROVE RecordTypes'
  <2>1. pool'.available \in Nat
    <3>1. leaf.reward \in Nat /\ pool.available >= leaf.reward
          /\ pool'.available = pool.available - leaf.reward
      BY <1>0, <1>1, EohAssumption DEF CreateRankedJob, Pool
    <3>. QED
      BY <1>0, <3>1
  <2>2. jobAuthorizationUsed' \subseteq Schedule
    BY <1>1 DEF CreateRankedJob, RecordTypes
  <2>. QED
    BY <1>1, <2>1, <2>2 DEF CreateRankedJob, RecordTypes, commitVars
<1>2. ASSUME NEW j \in DOMAIN rankedJobs, NEW a \in Accounts, NEW r \in Accounts \cup {Arena},
             NEW v \in Versions, NEW p \in Proofs, NEW n \in Costs,
             SubmitRankedResult(a, j, v, p, n, r)
      PROVE  RecordTypes'
  <2>1. pool'.available \in Nat
    BY <1>0, <1>2 DEF SubmitRankedResult, Pool
  <2>2. proofUsed' \subseteq Proofs
    BY <1>2 DEF SubmitRankedResult, RecordTypes
  <2>. QED
    BY <1>2, <2>1, <2>2 DEF SubmitRankedResult, RecordTypes, commitVars
<1>3. ASSUME NEW j \in DOMAIN rankedJobs, ExpireRankedJob(j) PROVE RecordTypes'
  <2>1. pool'.available \in Nat
    BY <1>0, <1>3, RewardsInt DEF ExpireRankedJob, Pool
  <2>. QED
    BY <1>3, <2>1, RecordsIdle DEF ExpireRankedJob, recordVars
<1>4. ASSUME NEW a \in Accounts, NEW v \in Versions, NEW o \in Orders, OpenMarketJob(a, v, o)
      PROVE  RecordTypes'
  <2>1. pool'.available \in Nat
    BY <1>0, <1>4 DEF OpenMarketJob, Pool
  <2>. QED
    BY <1>4, <2>1, RecordsIdle DEF OpenMarketJob, recordVars
<1>5. ASSUME NEW a \in Accounts, NEW j \in DOMAIN marketJobs,
             SubmitMarketResult(a, j) \/ AcceptMarketResult(a, j) \/ RefundMarketJob(a, j)
      PROVE  RecordTypes'
  <2>. DEFINE reward == marketJobs[j].reward
  <2>1. reward \in Nat
    BY RewardsInt
  <2>2. \/ UNCHANGED pool
        \/ pool' = [pool EXCEPT !.market = @ - reward]
        \/ pool' = [pool EXCEPT !.market = @ - reward, !.available = @ + reward]
        \/ pool' = [pool EXCEPT !.market = @ - reward, !.vaults = @ + reward]
    BY <1>5 DEF SubmitMarketResult, AcceptMarketResult, RefundMarketJob, RewardToCommons, vaultVars
  <2>. HIDE DEF reward
  <2>3. pool'.available \in {pool.available, pool.available + reward}
    BY <1>0, <2>2 DEF Pool
  <2>4. pool'.available \in Nat
    BY <1>0, <2>1, <2>3
  <2>. QED
    BY <1>5, <2>4, RecordsIdle
       DEF SubmitMarketResult, AcceptMarketResult, RefundMarketJob, vaultVars, recordVars
<1>. QED
  BY <1>1, <1>2, <1>3, <1>4, <1>5 DEF JobStep

LEMMA RecordsSelection ==
  ASSUME ContractTypes, RecordTypes, SelectionStep PROVE RecordTypes'
<1>0. pool \in Pool /\ pool.available \in Nat
  BY TypesNow DEF RecordTypes
<1>1. ASSUME NEW v \in Versions, EjectStale(v) PROVE RecordTypes'
  <2>1. pool'.available \in Nat
    <3>1. vaultBalance[v] \in Nat
      BY TypesNow
    <3>. QED
      BY <1>0, <1>1, <3>1 DEF EjectStale, Pool
  <2>. QED
    BY <1>1, <2>1, RecordsIdle DEF EjectStale, SelectionUnchanged, jobVars, recordVars
<1>2. ASSUME NEW v \in Versions, NEW e \in Epochs, Supersede(v, e) \/ ClaimVacancy(v, e)
      PROVE  RecordTypes'
  BY <1>0, <1>2, RecordsIdle
     DEF Supersede, ClaimVacancy, SelectionUnchanged, jobVars, recordVars
<1>3. ASSUME NEW v \in Versions, NEW e \in Epochs, NEW s \in Salts, CommitSupersede(v, e, s)
      PROVE  RecordTypes'
  <2>1. DOMAIN supersedeCommits' = DOMAIN supersedeCommits \cup {<<v, e, s>>}
    BY <1>3 DEF CommitSupersede
  <2>2. <<v, e, s>> \in Versions \X Epochs \X Salts
    OBVIOUS
  <2>. QED
    BY <1>3, <2>1, <2>2 DEF CommitSupersede, RecordTypes, vaultVars, jobVars
<1>4. ASSUME NEW v \in Versions, NEW e \in Epochs, NEW s \in Salts, RevealSupersede(v, e, s)
      PROVE  RecordTypes'
  <2>1. supersedeRevealed' \subseteq DOMAIN supersedeCommits /\ UNCHANGED supersedeCommits
    BY <1>4 DEF RevealSupersede, RecordTypes
  <2>. QED
    BY <1>4, <2>1 DEF RevealSupersede, SelectionUnchanged, RecordTypes, jobVars
<1>. QED
  BY <1>1, <1>2, <1>3, <1>4 DEF SelectionStep

LEMMA RecordsInduction ==
  ASSUME ContractTypes, RecordTypes, [Next]_vars PROVE RecordTypes'
<1>1. CASE Tick
  <2>1. now' \in StartTime .. MaxTime
    BY <1>1, EohAssumption DEF Tick, RecordTypes
  <2>. QED
    BY <1>1, <2>1 DEF Tick, RecordTypes, vaultVars, jobVars, commitVars
<1>2. CASE VersionStep \/ UNCHANGED vars
  <2>1. UNCHANGED <<recordVars, pool>>
    BY <1>2 DEF VersionStep, CreateLineage, RegisterVersion, Heartbeat, vars, vaultVars, jobVars,
       recordVars
  <2>. QED
    BY <2>1, RecordsIdle DEF RecordTypes
<1>. QED
  BY <1>1, <1>2, RecordsMoney, RecordsJobs, RecordsSelection DEF Next

LEMMA RecordsInit == Init => RecordTypes
BY EohAssumption DEF Init, RecordTypes

\* A total of an accounted contract is a natural number.
LEMMA AccountedNat ==
  ASSUME ContractTypes, Accounted
  PROVE  pool.reserved \in Nat /\ pool.market \in Nat /\ pool.vaults \in Nat
<1>1. VaultsAreSum /\ ReservedIsSum /\ MarketIsSum
  BY AccountedIs
<1>2. IsFiniteSet(Versions) /\ vaultBalance \in [Versions -> Nat]
  BY TypesNow, EohAssumption
<1>3. IsFiniteSet(OpenRanked) /\ IsFiniteSet(Unresolved)
  BY JobsFinite, OpenRankedIs DEF Unresolved
<1>4. /\ RewardBook(rankedJobs, OpenRanked) \in [OpenRanked -> Nat]
      /\ RewardBook(marketJobs, Unresolved) \in [Unresolved -> Nat]
  BY RewardsInt, OpenRankedIs DEF RewardBook, Unresolved
<1>. QED
  BY <1>1, <1>2, <1>3, <1>4, TotalNat DEF VaultsAreSum, ReservedIsSum, MarketIsSum

(* Types of the whole contract: no total, vault or token balance is ever
   negative, so none of the checked subtractions of its entrypoints reverts. *)
THEOREM ContractTypeOK == Spec => []TypeOK
<1>1. ContractTypes /\ RecordTypes /\ Accounted => TypeOK
  <2>. SUFFICES ASSUME ContractTypes, RecordTypes, Accounted PROVE TypeOK
    OBVIOUS
  <2>1. pool \in [available: Nat, reserved: Nat, market: Nat, vaults: Nat]
    BY TypesNow, AccountedNat DEF RecordTypes, Pool
  <2>. QED
    BY <2>1, TypesNow
       DEF TypeOK, RecordTypes, ContractTypes, SeatTypes, EconTypes, Version, Statuses
<1>2. Init => RecordTypes
  BY RecordsInit
<1>3. ContractTypes /\ RecordTypes /\ [Next]_vars => RecordTypes'
  BY RecordsInduction
<1>. QED
  BY <1>1, <1>2, <1>3, ContractTypesCorrect, AccountsCorrect, PTL DEF Spec

(***************************************************************************)
(* Tokens and accounts move together.                                      *)
(***************************************************************************)
\* What the arena pays to itself is recorded as spent, whichever way it is paid.
LEMMA SelfPaymentSpent ==
  ASSUME ContractTypes, TypeOK, NEW v \in Versions, NEW n \in Nat, PaidToArena(v, n)
  PROVE  UNCHANGED now /\ proofUsed' # proofUsed /\ Spent(v)' - Spent(v) = n
<1>0. /\ operatingSpent \in [Versions -> Nat] /\ operatingSpent[v] \in Nat
      /\ economy \in [Versions -> [Epochs -> [revenue: Nat, cost: Nat]]]
      /\ CurrentEpoch \in Epochs /\ economy[v][CurrentEpoch].cost \in Nat
  <2>1. CurrentEpoch \in Epochs
    BY EpochNow DEF ContractTypes
  <2>. QED
    BY <2>1, TypesNow DEF TypeOK
<1>1. UNCHANGED now /\ CurrentEpoch' = CurrentEpoch /\ proofUsed' # proofUsed
  BY DEF PaidToArena, SettleOperatingExpense, SubmitRankedResult, CurrentEpoch
<1>2. ASSUME NEW a, NEW p, SettleOperatingExpense(a, v, Arena, n, p)
      PROVE  /\ operatingSpent'[v] = operatingSpent[v] + n
             /\ economy'[v][CurrentEpoch].cost = economy[v][CurrentEpoch].cost
  BY <1>0, <1>2 DEF SettleOperatingExpense
<1>3. ASSUME NEW a, NEW j, NEW p, SubmitRankedResult(a, j, v, p, n, Arena)
      PROVE  /\ operatingSpent'[v] = operatingSpent[v]
             /\ economy'[v][CurrentEpoch].cost = economy[v][CurrentEpoch].cost + n
  BY <1>0, <1>3 DEF SubmitRankedResult, BookRanked
<1>. DEFINE spent == operatingSpent[v]
            cost == economy[v][CurrentEpoch].cost
<1>4. /\ Spent(v) = spent + cost /\ spent \in Nat /\ cost \in Nat
      /\ \/ Spent(v)' = (spent + n) + cost
         \/ Spent(v)' = spent + (cost + n)
  BY <1>0, <1>1, <1>2, <1>3 DEF Spent, PaidToArena
<1>. HIDE DEF spent, cost
<1>. QED
  BY <1>1, <1>4

(* Every entrypoint moves exactly the tokens it books, for any prices and
   proofs: what the token contract says and what the arena accounts for part
   only by a transfer that uses no entrypoint or by what a version is recorded
   to have spent on the arena itself, and meet again only in the commons. *)
THEOREM TokensCorrect == Spec => SurplusExplained
<1>. DEFINE Explained ==
       Surplus' # Surplus =>
         \/ /\ Surplus' > Surplus
            /\ UNCHANGED <<now, seatVars, vaultVars, jobVars, commitVars>>
         \/ /\ Surplus' = 0 /\ UNCHANGED tokens
            /\ pool'.available = pool.available + Surplus
         \/ /\ UNCHANGED <<now, tokens>> /\ proofUsed' # proofUsed
            /\ \E v \in Versions : Surplus' - Surplus = Spent(v)' - Spent(v)
<1>1. ContractTypes /\ TypeOK /\ [Next]_vars => [Explained]_vars
  <2>. SUFFICES ASSUME ContractTypes, TypeOK, [Next]_vars PROVE Explained
    OBVIOUS
  <2>0. Surplus \in Int
    BY SurplusFacts
  <2>1. ASSUME NEW a \in Accounts, NEW n \in Gifts, Gift(a, n) PROVE Explained
    BY <2>0, <2>1, SurplusGiven DEF Gift
  <2>2. CASE AbsorbSurplus
    BY <2>2, SurplusAbsorbed
  <2>3. CASE SelfPayment
    <3>1. PICK v \in Versions, n \in Nat :
            PaidToArena(v, n) /\ UNCHANGED tokens /\ Surplus' = Surplus + n
      BY <2>3 DEF SelfPayment
    <3>2. UNCHANGED now /\ proofUsed' # proofUsed /\ Spent(v)' - Spent(v) = n
      BY <3>1, SelfPaymentSpent
    <3>3. Surplus' - Surplus = n
      BY <2>0, <3>1
    <3>. QED
      BY <3>1, <3>2, <3>3
  <2>. QED
    BY <2>1, <2>2, <2>3, SurplusSteps
<1>. QED
  BY <1>1, ContractTypesCorrect, ContractTypeOK, PTL DEF Spec, SurplusExplained

(***************************************************************************)
(* The economies are settled work.                                         *)
(***************************************************************************)
SettledBy(v, e) ==
  {j \in DOMAIN rankedJobs : /\ rankedJobs[j].status = "settled" /\ rankedJobs[j].winner = v
                             /\ rankedJobs[j].epoch = e}

RevenueIs(v, e) ==
  economy[v][e].revenue = SumFunction(RewardBook(rankedJobs, SettledBy(v, e)))
CostIs(v, e) ==
  economy[v][e].cost = SumFunction(CostBook(rankedJobs, SettledBy(v, e)))

LEMMA RankIs ==
  RankIsSettledJobs <=> \A v \in Versions, e \in Epochs : RevenueIs(v, e) /\ CostIs(v, e)
<1>1. ASSUME NEW v, NEW e
      PROVE  RankedWhere(LAMBDA job : job.status = "settled" /\ job.winner = v /\ job.epoch = e)
               = SettledBy(v, e)
  BY DEF RankedWhere, SettledBy
<1>2. ASSUME NEW S
      PROVE  /\ Rewards(S) = SumFunction(RewardBook(rankedJobs, S))
             /\ VerifiedCosts(S) = SumFunction(CostBook(rankedJobs, S))
  BY DEF Rewards, VerifiedCosts, RewardBook, CostBook
<1>. QED
  BY <1>1, <1>2 DEF RankIsSettledJobs, RevenueIs, CostIs

\* Job j is settled for version v, now.
SettledFor(j, v, cost) ==
  /\ DOMAIN rankedJobs' = DOMAIN rankedJobs /\ rankedJobs[j].status = "open"
  /\ \A i \in DOMAIN rankedJobs \ {j} : rankedJobs'[i] = rankedJobs[i]
  /\ rankedJobs'[j].status = "settled" /\ rankedJobs'[j].reward = rankedJobs[j].reward
  /\ rankedJobs'[j].winner = v /\ rankedJobs'[j].epoch = CurrentEpoch
  /\ rankedJobs'[j].cost = cost
  /\ BookRanked(v, rankedJobs[j].reward, cost)

\* No job is settled: those that are stay as they are.
SettledKept ==
  /\ UNCHANGED economy
  /\ \A i \in DOMAIN rankedJobs : rankedJobs[i].status = "settled" =>
       i \in DOMAIN rankedJobs' /\ rankedJobs'[i] = rankedJobs[i]
  /\ \A i \in DOMAIN rankedJobs' : rankedJobs'[i].status = "settled" =>
       i \in DOMAIN rankedJobs /\ rankedJobs'[i] = rankedJobs[i]

LEMMA SettlementEffect ==
  ASSUME ContractTypes, NEW j \in DOMAIN rankedJobs, NEW a, NEW r, NEW v \in Versions, NEW p,
         NEW n \in Costs, SubmitRankedResult(a, j, v, p, n, r)
  PROVE  SettledFor(j, v, n)
<1>. DEFINE job == [rankedJobs[j] EXCEPT !.status = "settled", !.epoch = CurrentEpoch,
                                         !.winner = v, !.cost = n]
<1>1. rankedJobs[j] \in RankedJob
  BY TypesNow
<1>2. rankedJobs' = [rankedJobs EXCEPT ![j] = job]
  BY DEF SubmitRankedResult
<1>3. /\ job.status = "settled" /\ job.reward = rankedJobs[j].reward
      /\ job.winner = v /\ job.epoch = CurrentEpoch /\ job.cost = n
  BY <1>1 DEF RankedJob
<1>. HIDE DEF job
<1>4. rankedJobs[j].status = "open" /\ BookRanked(v, rankedJobs[j].reward, n)
  BY DEF SubmitRankedResult
<1>. QED
  BY <1>2, <1>3, <1>4, TypesNow DEF SettledFor

LEMMA OtherEffects ==
  ASSUME ContractTypes, [Next]_vars
  PROVE  \/ SettledKept
         \/ \E j \in DOMAIN rankedJobs, v \in Versions, n \in Costs : SettledFor(j, v, n)
<1>1. CASE Tick \/ MoneyStep \/ VersionStep \/ SelectionStep \/ UNCHANGED vars
  <2>1. UNCHANGED <<rankedJobs, economy>>
    <3>1. CASE MoneyStep
      BY <3>1 DEF MoneyStep, Gift, FundCommons, Donate, SettleOperatingExpense, AbsorbSurplus,
         vaultVars, jobVars
    <3>2. CASE Tick \/ VersionStep \/ UNCHANGED vars
      BY <3>2 DEF Tick, VersionStep, CreateLineage, RegisterVersion, Heartbeat, vaultVars,
         jobVars, vars
    <3>3. CASE SelectionStep
      <4>1. ASSUME NEW v, NEW e, NEW s,
                   \/ EjectStale(v) \/ Supersede(v, e) \/ ClaimVacancy(v, e)
                   \/ CommitSupersede(v, e, s) \/ RevealSupersede(v, e, s)
            PROVE  UNCHANGED economy
        BY <4>1 DEF EjectStale, Supersede, ClaimVacancy, CommitSupersede, RevealSupersede,
           SelectionUnchanged, vaultVars
      <4>. QED
        BY <3>3, <4>1, SelectionLeavesEscrows DEF SelectionStep
    <3>. QED
      BY <1>1, <3>1, <3>2, <3>3
  <2>. QED
    BY <2>1 DEF SettledKept
<1>2. ASSUME NEW leaf \in Schedule, CreateRankedJob(leaf) PROVE SettledKept
  <2>1. UNCHANGED economy
    BY <1>2 DEF CreateRankedJob
  <2>2. RankedOpens(Len(rankedJobs) + 1, leaf.reward)
    BY <1>2, RankedOpened
  <2>. QED
    BY <2>1, <2>2 DEF RankedOpens, SettledKept
<1>3. ASSUME NEW j \in DOMAIN rankedJobs, ExpireRankedJob(j) PROVE SettledKept
  <2>1. rankedJobs[j] \in RankedJob /\ rankedJobs[j].status = "open" /\ UNCHANGED economy
        /\ rankedJobs' = [rankedJobs EXCEPT ![j] = [@ EXCEPT !.status = "expired"]]
    BY <1>3, TypesNow DEF ExpireRankedJob
  <2>2. /\ DOMAIN rankedJobs' = DOMAIN rankedJobs /\ rankedJobs'[j].status = "expired"
        /\ \A i \in DOMAIN rankedJobs \ {j} : rankedJobs'[i] = rankedJobs[i]
    BY <2>1, TypesNow DEF RankedJob
  <2>. QED
    BY <2>1, <2>2 DEF SettledKept
<1>4. ASSUME NEW a \in Accounts,
             \/ \E v \in Versions, o \in Orders : OpenMarketJob(a, v, o)
             \/ \E j \in DOMAIN marketJobs :
                  SubmitMarketResult(a, j) \/ AcceptMarketResult(a, j) \/ RefundMarketJob(a, j)
      PROVE  SettledKept
  BY <1>4 DEF OpenMarketJob, SubmitMarketResult, AcceptMarketResult, RefundMarketJob, vaultVars,
     SettledKept
<1>. QED
  BY <1>1, <1>2, <1>3, <1>4, SettlementEffect DEF Next, JobStep

\* Jobs that stay as they are keep their sums.
LEMMA SumsKept ==
  ASSUME NEW v \in Versions, NEW e \in Epochs, RevenueIs(v, e), CostIs(v, e),
         SettledBy(v, e)' = SettledBy(v, e), economy'[v][e] = economy[v][e],
         \A i \in SettledBy(v, e) : rankedJobs'[i] = rankedJobs[i]
  PROVE  RevenueIs(v, e)' /\ CostIs(v, e)'
<1>1. /\ RewardBook(rankedJobs', SettledBy(v, e)) = RewardBook(rankedJobs, SettledBy(v, e))
      /\ CostBook(rankedJobs', SettledBy(v, e)) = CostBook(rankedJobs, SettledBy(v, e))
  BY BookKept, CostsKept
<1>. QED
  BY <1>1 DEF RevenueIs, CostIs

\* A job that joins them adds its reward and its cost.
LEMMA SumsGrow ==
  ASSUME ContractTypes, NEW v \in Versions, NEW e \in Epochs, RevenueIs(v, e), CostIs(v, e),
         NEW j \in DOMAIN rankedJobs, NEW n \in Costs, SettledFor(j, v, n), e = CurrentEpoch
  PROVE  RevenueIs(v, e)' /\ CostIs(v, e)'
<1>0. /\ economy \in [Versions -> [Epochs -> [revenue: Nat, cost: Nat]]]
      /\ IsFiniteSet(SettledBy(v, e)) /\ rankedJobs[j].reward \in Int /\ n \in Int
      /\ \A i \in SettledBy(v, e) : rankedJobs[i].reward \in Int /\ rankedJobs[i].cost \in Int
  <2>1. SettledBy(v, e) \in SUBSET (DOMAIN rankedJobs)
    BY DEF SettledBy
  <2>2. \A i \in DOMAIN rankedJobs : rankedJobs[i].cost \in Nat
    BY TypesNow DEF RankedJob
  <2>3. IsFiniteSet(SettledBy(v, e))
    BY <2>1, JobsFinite
  <2>4. n \in Int
    BY EohAssumption
  <2>. QED
    BY <2>1, <2>2, <2>3, <2>4, TypesNow, RewardsInt
<1>1. /\ economy'[v][e].revenue = economy[v][e].revenue + rankedJobs[j].reward
      /\ economy'[v][e].cost = economy[v][e].cost + n
  BY <1>0 DEF SettledFor, BookRanked
<1>2. /\ j \notin SettledBy(v, e) /\ SettledBy(v, e)' = SettledBy(v, e) \cup {j}
      /\ rankedJobs'[j].reward = rankedJobs[j].reward /\ rankedJobs'[j].cost = n
      /\ \A i \in SettledBy(v, e) : rankedJobs'[i] = rankedJobs[i]
  BY DEF SettledBy, SettledFor
<1>. DEFINE after == SettledBy(v, e)'
<1>3. /\ IsFiniteSet(after) /\ j \in after /\ after \ {j} = SettledBy(v, e)
      /\ \A i \in after : rankedJobs'[i].reward \in Int /\ rankedJobs'[i].cost \in Int
      /\ \A i \in after \ {j} : rankedJobs'[i] = rankedJobs[i]
  BY <1>0, <1>2, FS_AddElement
<1>. HIDE DEF after
<1>4. SumFunction(RewardBook(rankedJobs', after)) =
        SumFunction(RewardBook(rankedJobs, after \ {j})) + rankedJobs'[j].reward
  BY <1>3, BookGrows
<1>5. SumFunction(CostBook(rankedJobs', after)) =
        SumFunction(CostBook(rankedJobs, after \ {j})) + rankedJobs'[j].cost
  BY <1>3, CostsGrow
<1>6. RevenueIs(v, e)'
  BY <1>1, <1>2, <1>3, <1>4 DEF after, RevenueIs
<1>7. CostIs(v, e)'
  BY <1>1, <1>2, <1>3, <1>5 DEF after, CostIs
<1>. QED
  BY <1>6, <1>7

LEMMA RankInduction ==
  ASSUME ContractTypes, [Next]_vars,
         \A v \in Versions, e \in Epochs : RevenueIs(v, e) /\ CostIs(v, e)
  PROVE  \A v \in Versions, e \in Epochs : RevenueIs(v, e)' /\ CostIs(v, e)'
<1>. SUFFICES ASSUME NEW v \in Versions, NEW e \in Epochs PROVE RevenueIs(v, e)' /\ CostIs(v, e)'
  OBVIOUS
<1>1. CASE SettledKept
  <2>1. /\ SettledBy(v, e)' = SettledBy(v, e) /\ UNCHANGED economy
        /\ \A j \in SettledBy(v, e) : rankedJobs'[j] = rankedJobs[j]
    BY <1>1 DEF SettledKept, SettledBy
  <2>. QED
    BY <2>1, SumsKept
<1>2. ASSUME NEW j \in DOMAIN rankedJobs, NEW w \in Versions, NEW n \in Costs,
             SettledFor(j, w, n)
      PROVE  RevenueIs(v, e)' /\ CostIs(v, e)'
  <2>1. CASE v = w /\ e = CurrentEpoch
    BY <1>2, <2>1, SumsGrow
  <2>2. CASE v # w \/ e # CurrentEpoch
    <3>1. economy'[v][e] = economy[v][e]
      BY <1>2, <2>2, TypesNow DEF SettledFor, BookRanked
    <3>2. /\ SettledBy(v, e)' = SettledBy(v, e)
          /\ \A i \in SettledBy(v, e) : rankedJobs'[i] = rankedJobs[i]
      BY <1>2, <2>2 DEF SettledFor, SettledBy
    <3>. QED
      BY <3>1, <3>2, SumsKept
  <2>. QED
    BY <2>1, <2>2
<1>. QED
  BY <1>1, <1>2, OtherEffects

(* The economies that selection and ejection of the contract compare hold the
   rewards and the verified costs of the jobs a version settled in that epoch
   and nothing else, whatever money reached or left its vault otherwise. *)
THEOREM ContractRankCorrect == Spec => []RankIsSettledJobs
<1>. DEFINE Books == \A v \in Versions, e \in Epochs : RevenueIs(v, e) /\ CostIs(v, e)
<1>1. Init => Books
  <2>. SUFFICES ASSUME Init, NEW v \in Versions, NEW e \in Epochs
                PROVE  RevenueIs(v, e) /\ CostIs(v, e)
    OBVIOUS
  <2>1. SettledBy(v, e) = {} /\ economy[v][e].revenue = 0 /\ economy[v][e].cost = 0
    BY DEF Init, SettledBy
  <2>2. RewardBook(rankedJobs, {}) \in [{} -> Int] /\ CostBook(rankedJobs, {}) \in [{} -> Int]
    BY DEF RewardBook, CostBook
  <2>3. SumFunction(RewardBook(rankedJobs, {})) = 0 /\ SumFunction(CostBook(rankedJobs, {})) = 0
    BY <2>2, FS_EmptySet, TotalZero
  <2>. QED
    BY <2>1, <2>3 DEF RevenueIs, CostIs
<1>2. ContractTypes /\ [Next]_vars /\ Books => Books'
  BY RankInduction
<1>3. Books => RankIsSettledJobs
  BY RankIs
<1>. HIDE DEF Books
<1>. QED
  BY <1>1, <1>2, <1>3, ContractTypesCorrect, PTL DEF Spec
=============================================================================
