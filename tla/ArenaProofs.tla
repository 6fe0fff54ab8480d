---------------------------- MODULE ArenaProofs -----------------------------
(***************************************************************************)
(* Proofs about Arena for every value of its constants: that every call    *)
(* keeps the state well typed, that seats and statuses agree and selection *)
(* implements LineageSeat, that successions end, that no money rests with  *)
(* a version that is not live, that ejection forfeits the bond, and that   *)
(* no single epoch wins a reveal.                                          *)
(***************************************************************************)
EXTENDS Arena, SequenceTheorems, SumProofs, TLAPS

(***************************************************************************)
(* Arithmetic of the clock.                                                *)
(***************************************************************************)
LEMMA DivMonotone ==
  ASSUME NEW d \in Nat \ {0}, NEW t \in Nat, NEW m \in Nat, t <= m
  PROVE  t \div d \in 0 .. (m \div d)
OBVIOUS

LEMMA DivBounds ==
  ASSUME NEW d \in Nat \ {0}, NEW t \in Nat
  PROVE  /\ t \div d \in Nat
         /\ (t \div d) * d <= t
         /\ t < (t \div d) * d + d
OBVIOUS

\* The clock never leaves the epochs and days the economies are indexed by.
LEMMA ClockTypes ==
  ASSUME now \in 0 .. MaxTime
  PROVE  /\ now \in Nat /\ CurrentEpoch \in Epochs /\ CurrentEpoch \in Nat
         /\ Today \in Days
BY ClockAssumption, DivMonotone DEF CurrentEpoch, Today, Epochs, Days

\* The heir's share of a stale vault is part of that vault.
LEMMA ShareBounded ==
  ASSUME NEW total \in Nat
  PROVE  LineageShare(total) \in 0 .. total
<1>1. SHARE_NUM \in Nat /\ SHARE_DEN \in Nat \ {0} /\ SHARE_NUM <= SHARE_DEN
  BY AmountAssumption
<1>2. total * SHARE_NUM \in Nat /\ total * SHARE_NUM <= total * SHARE_DEN
  BY <1>1
<1>3. DEFINE q == (total * SHARE_NUM) \div SHARE_DEN
<1>4. q \in Nat /\ q * SHARE_DEN <= total * SHARE_NUM
  BY <1>1, <1>2, DivBounds
<1>5. q * SHARE_DEN <= total * SHARE_DEN
  BY <1>1, <1>2, <1>4
<1>6. q <= total
  BY <1>1, <1>4, <1>5
<1>. QED
  BY <1>4, <1>6 DEF LineageShare

(***************************************************************************)
(* Types.  A group of variables that a call leaves alone keeps its types.  *)
(***************************************************************************)
LEMMA FrameTypes ==
  /\ VersionTypes /\ UNCHANGED versionVars => VersionTypes'
  /\ LineageTypes /\ UNCHANGED lineageVars => LineageTypes'
  /\ BondTypes /\ UNCHANGED bondVars => BondTypes'
  /\ BookTypes /\ UNCHANGED bookVars => BookTypes'
  /\ EconTypes /\ UNCHANGED econVars => EconTypes'
  /\ JobTypes /\ UNCHANGED jobVars => JobTypes'
  /\ CommitTypes /\ UNCHANGED commitVars => CommitTypes'
BY DEF VersionTypes, versionVars, LineageTypes, lineageVars, BondTypes, bondVars,
       BookTypes, bookVars, EconTypes, econVars, JobTypes, jobVars, CommitTypes, commitVars

LEMMA InitTypes == Init => TypeOK
<1>. SUFFICES ASSUME Init PROVE TypeOK
  OBVIOUS
<1>1. now \in 0 .. MaxTime /\ MoneyTypes
  BY ClockAssumption, AmountAssumption DEF Init, MoneyTypes
<1>2. VersionTypes /\ LineageTypes /\ BondTypes
  BY DEF Init, VersionTypes, LineageTypes, BondTypes
<1>3. BookTypes /\ EconTypes /\ JobTypes /\ CommitTypes
  BY DEF Init, BookTypes, EconTypes, JobTypes, CommitTypes
<1>. QED
  BY <1>1, <1>2, <1>3 DEF TypeOK

LEMMA TimeTypes == TypeOK /\ TimeStep => TypeOK'
<1>. SUFFICES ASSUME TypeOK, TimeStep PROVE TypeOK'
  OBVIOUS
<1>1. CASE AdvanceToNextEpoch
  <2>1. CurrentEpoch \in Nat
    BY ClockTypes DEF TypeOK
  <2>2. now' \in 0 .. MaxTime
    BY <1>1, <2>1, ClockAssumption DEF AdvanceToNextEpoch
  <2>. QED
    BY <1>1, <2>2, FrameTypes DEF TypeOK, MoneyTypes, AdvanceToNextEpoch, poolVars
<1>2. ASSUME NEW seconds \in Advances, Advance(seconds) PROVE TypeOK'
  BY <1>2, FrameTypes, ClockAssumption DEF TypeOK, MoneyTypes, Advance, poolVars
<1>. QED
  BY <1>1, <1>2 DEF TimeStep

LEMMA MoneyStepTypes == TypeOK /\ MoneyStep => TypeOK'
<1>. SUFFICES ASSUME TypeOK, MoneyStep PROVE TypeOK'
  OBVIOUS
<1>. USE FrameTypes, AmountAssumption DEF TypeOK, MoneyTypes, poolVars
<1>1. ASSUME NEW a \in Accounts, NEW n \in MintAmounts, Mint(a, n) PROVE TypeOK'
  BY <1>1 DEF Mint, Credit
<1>2. ASSUME NEW a \in Accounts, NEW n \in FundAmounts, FundCommons(a, n) PROVE TypeOK'
  BY <1>2 DEF FundCommons, Debit, Sufficient
<1>3. ASSUME NEW a \in Accounts, NEW n \in FundAmounts, DirectTransferToArena(a, n)
      PROVE  TypeOK'
  BY <1>3 DEF DirectTransferToArena, Debit, Sufficient
<1>4. CASE AbsorbSurplus
  BY <1>4 DEF AbsorbSurplus
<1>5. ASSUME NEW a \in Accounts, NEW v \in Versions, NEW n \in DonateAmounts, Donate(a, v, n)
      PROVE  TypeOK'
  BY <1>5 DEF BookTypes, Donate, Endow, Debit, Sufficient
<1>6. ASSUME NEW a \in Accounts, NEW r \in Accounts, NEW v \in Versions,
             NEW n \in ExpenseAmounts, NEW p \in Proofs, SettleOperatingExpense(a, v, r, n, p)
      PROVE  TypeOK'
  <2>1. Today \in Days
    BY ClockTypes
  <2>2. MoneyTypes'
    BY <1>6 DEF SettleOperatingExpense, Spend, CanPay, Credit
  <2>3. BookTypes'
    BY <1>6, <2>1 DEF BookTypes, SettleOperatingExpense, Spend
  <2>4. JobTypes'
    BY <1>6 DEF JobTypes, SettleOperatingExpense
  <2>. QED
    BY <1>6, <2>2, <2>3, <2>4 DEF SettleOperatingExpense
<1>. QED
  BY <1>1, <1>2, <1>3, <1>4, <1>5, <1>6 DEF MoneyStep

LEMMA VersionStepTypes == TypeOK /\ VersionStep => TypeOK'
<1>. SUFFICES ASSUME TypeOK, NEW a \in Accounts, NEW v \in Versions,
                     \/ \E f \in Accounts, q \in Quorums :
                          CreateLineage(a, f, v, q) \/ RegisterVersion(a, f, v, q)
                     \/ ReclaimBond(a, v)
                     \/ Heartbeat(a, v)
              PROVE  TypeOK'
  BY DEF VersionStep
<1>1. CurrentEpoch \in Nat /\ now \in Nat /\ LineageOf[v] \in Lineages
  BY ClockTypes, IdsAssumption DEF TypeOK
<1>2. ASSUME NEW f \in Accounts, TakeBond(f, v),
             UNCHANGED <<vaults, commonsReserved, marketEscrow, surplus, minted>>
      PROVE  BondTypes' /\ MoneyTypes'
  BY <1>1, <1>2, AmountAssumption
     DEF TypeOK, BondTypes, MoneyTypes, TakeBond, Debit, Sufficient
<1>3. ASSUME NEW f \in Accounts, NEW q \in Quorums, NEW s \in {"active", "incubating"},
             ValidQuorum(a, q), StoreVersion(v, q, s)
      PROVE  VersionTypes' /\ order' \in [Lineages -> Seq(Versions)]
  <2>1. q.signers \in Seq(Accounts) /\ q.threshold \in Nat
    BY <1>3, InputAssumption DEF ValidQuorum
  <2>2. VersionTypes'
    BY <1>1, <1>3, <2>1 DEF TypeOK, VersionTypes, StoreVersion
  <2>3. Append(order[LineageOf[v]], v) \in Seq(Versions)
    BY <1>1, AppendProperties DEF TypeOK, LineageTypes
  <2>. QED
    BY <1>1, <1>3, <2>2, <2>3 DEF TypeOK, LineageTypes, StoreVersion
<1>4. ASSUME NEW f \in Accounts, NEW q \in Quorums, CreateLineage(a, f, v, q)
      PROVE  TypeOK'
  <2>1. BondTypes' /\ MoneyTypes'
    BY <1>2, <1>4 DEF CreateLineage
  <2>2. VersionTypes' /\ LineageTypes'
    BY <1>3, <1>4, FrameTypes DEF TypeOK, LineageTypes, CreateLineage
  <2>. QED
    BY <1>4, <2>1, <2>2, FrameTypes DEF TypeOK, CreateLineage
<1>5. ASSUME NEW f \in Accounts, NEW q \in Quorums, RegisterVersion(a, f, v, q)
      PROVE  TypeOK'
  <2>1. BondTypes' /\ MoneyTypes'
    BY <1>2, <1>5 DEF RegisterVersion
  <2>2. VersionTypes' /\ LineageTypes'
    BY <1>3, <1>5, FrameTypes DEF TypeOK, LineageTypes, RegisterVersion
  <2>. QED
    BY <1>5, <2>1, <2>2, FrameTypes DEF TypeOK, RegisterVersion
<1>6. CASE ReclaimBond(a, v)
  BY <1>6, FrameTypes
     DEF TypeOK, BondTypes, MoneyTypes, ReclaimBond, Credit, versionVars
<1>7. CASE Heartbeat(a, v)
  <2>1. MoneyTypes'
    BY <1>7, AmountAssumption DEF TypeOK, MoneyTypes, Heartbeat, CanPay
  <2>2. BookTypes'
    BY <1>7, AmountAssumption DEF TypeOK, BookTypes, Heartbeat
  <2>3. VersionTypes'
    BY <1>1, <1>7 DEF TypeOK, VersionTypes, Heartbeat
  <2>. QED
    BY <1>7, <2>1, <2>2, <2>3, FrameTypes DEF TypeOK, Heartbeat
<1>. QED
  BY <1>4, <1>5, <1>6, <1>7

\* Changing one job keeps a job list well typed.
LEMMA JobUpdate ==
  ASSUME NEW S, NEW jobs \in Seq(S), NEW j \in DOMAIN jobs
  PROVE  /\ jobs[j] \in S
         /\ \A job \in S : [jobs EXCEPT ![j] = job] \in Seq(S)
<1>1. j \in 1 .. Len(jobs)
  BY LenProperties
<1>. QED
  BY <1>1, ElementOfSeq, ExceptSeq

LEMMA RankedStepTypes == TypeOK /\ RankedStep => TypeOK'
<1>. SUFFICES ASSUME TypeOK, RankedStep PROVE TypeOK'
  OBVIOUS
<1>1. ASSUME NEW leaf \in Schedule, AuthorizeRankedJob(leaf) PROVE TypeOK'
  BY <1>1, FrameTypes DEF TypeOK, MoneyTypes, JobTypes, AuthorizeRankedJob, poolVars
<1>2. ASSUME NEW leaf \in Schedule, CreateRankedJob(leaf) PROVE TypeOK'
  <2>1. leaf.reward \in Nat
    BY InputAssumption DEF Leaf
  <2>2. [leaf |-> leaf, status |-> "open", winner |-> Nobody, epoch |-> Never,
         proof |-> Nobody] \in RankedJob
    BY DEF RankedJob
  <2>3. JobTypes'
    BY <1>2, <2>2, AppendProperties DEF TypeOK, JobTypes, CreateRankedJob, Authorized
  <2>4. MoneyTypes'
    BY <1>2, <2>1, SMTT(30) DEF TypeOK, MoneyTypes, CreateRankedJob
  <2>. QED
    BY <1>2, <2>3, <2>4, FrameTypes DEF TypeOK, CreateRankedJob
<1>3. ASSUME NEW j \in RankedJobIds, j \in DOMAIN rankedJobs
      PROVE  /\ rankedJobs[j] \in RankedJob
             /\ rankedJobs[j].leaf.reward \in Nat /\ rankedJobs[j].leaf.cost \in Nat
             /\ rankedJobs[j].leaf.recipient \in Accounts
  <2>1. rankedJobs[j] \in RankedJob
    BY <1>3, JobUpdate DEF TypeOK, JobTypes
  <2>2. rankedJobs[j].leaf \in Leaf
    BY <2>1, InputAssumption DEF RankedJob
  <2>. QED
    BY <2>1, <2>2 DEF Leaf
<1>4. ASSUME NEW j \in RankedJobIds, NEW a \in Accounts, NEW v \in Versions,
             NEW p \in Proofs, SubmitRankedResult(a, j, v, p)
      PROVE  TypeOK'
  <2>. DEFINE leaf == rankedJobs[j].leaf
  <2>1. /\ j \in DOMAIN rankedJobs /\ rankedJobs[j] \in RankedJob
        /\ leaf.reward \in Nat /\ leaf.cost \in Nat /\ leaf.recipient \in Accounts
    BY <1>3, <1>4 DEF SubmitRankedResult
  <2>2. now \in Nat /\ CurrentEpoch \in Epochs
    BY ClockTypes DEF TypeOK
  <2>3. JobTypes'
    <3>1. [rankedJobs[j] EXCEPT !.status = "settled", !.winner = v, !.epoch = CurrentEpoch,
             !.proof = p] \in RankedJob
      BY <2>1, <2>2 DEF RankedJob
    <3>2. rankedJobs' \in Seq(RankedJob)
      BY <1>4, <2>1, <3>1, JobUpdate
         DEF TypeOK, JobTypes, SubmitRankedResult, SettleRankedJob
    <3>. QED
      BY <1>4, <3>2 DEF TypeOK, JobTypes, SubmitRankedResult
  <2>4. MoneyTypes'
    BY <1>4, <2>1 DEF TypeOK, MoneyTypes, SubmitRankedResult, CanPay, Credit
  <2>5. EconTypes'
    BY <1>4, <2>1, <2>2 DEF TypeOK, EconTypes, SubmitRankedResult, BookRanked
  <2>6. VersionTypes'
    BY <1>4, <2>2 DEF TypeOK, VersionTypes, SubmitRankedResult, MarkProfit
  <2>. QED
    BY <1>4, <2>3, <2>4, <2>5, <2>6, FrameTypes DEF TypeOK, SubmitRankedResult
<1>5. ASSUME NEW j \in RankedJobIds, ExpireRankedJob(j) PROVE TypeOK'
  <2>1. /\ j \in DOMAIN rankedJobs /\ rankedJobs[j] \in RankedJob
        /\ rankedJobs[j].leaf.reward \in Nat
    BY <1>3, <1>5 DEF ExpireRankedJob
  <2>2. [rankedJobs[j] EXCEPT !.status = "expired"] \in RankedJob
    BY <2>1 DEF RankedJob
  <2>3. rankedJobs' \in Seq(RankedJob)
    BY <1>5, <2>1, <2>2, JobUpdate DEF TypeOK, JobTypes, ExpireRankedJob
  <2>4. JobTypes'
    BY <1>5, <2>3 DEF TypeOK, JobTypes, ExpireRankedJob
  <2>5. MoneyTypes'
    BY <1>5, <2>1 DEF TypeOK, MoneyTypes, ExpireRankedJob
  <2>. QED
    BY <1>5, <2>4, <2>5, FrameTypes DEF TypeOK, ExpireRankedJob
<1>. QED
  BY <1>1, <1>2, <1>4, <1>5 DEF RankedStep

\* Releasing a reward pays a vault or the commons, never both.
LEMMA PayRewardTypes ==
  ASSUME TypeOK, NEW b \in Versions \cup {Nobody}, NEW n \in Nat, PayReward(b, n),
         UNCHANGED <<wallets, commonsReserved, surplus, minted, capitalIn,
                     operatingSpent, burned, dailyExpense>>
  PROVE  MoneyTypes' /\ BookTypes'
<1>1. CASE b \in Versions
  <2>1. vaults' \in [Versions -> Nat] /\ marketRevenue' \in [Versions -> Nat]
    <3>1. vaults \in [Versions -> Nat] /\ marketRevenue \in [Versions -> Nat]
      BY DEF TypeOK, MoneyTypes, BookTypes
    <3>2. /\ vaults' = [vaults EXCEPT ![b] = @ + n]
          /\ marketRevenue' = [marketRevenue EXCEPT ![b] = @ + n]
      BY <1>1 DEF PayReward
    <3>. QED
      BY <1>1, <3>1, <3>2
  <2>2. marketEscrow' \in Int /\ UNCHANGED commonsAvailable
    BY <1>1 DEF PayReward, TypeOK, MoneyTypes
  <2>3. MoneyTypes'
    BY <2>1, <2>2 DEF TypeOK, MoneyTypes
  <2>4. BookTypes'
    BY <2>1 DEF TypeOK, BookTypes
  <2>. QED
    BY <2>3, <2>4
<1>2. CASE b \notin Versions
  <2>1. MoneyTypes'
    BY <1>2 DEF PayReward, TypeOK, MoneyTypes
  <2>2. BookTypes'
    BY <1>2 DEF PayReward, TypeOK, BookTypes
  <2>. QED
    BY <2>1, <2>2
<1>. QED
  BY <1>1, <1>2

\* The beneficiary of a payment is a version or nobody.
LEMMA BeneficiaryTypes ==
  ASSUME NEW v \in Versions PROVE LiveBeneficiary(v) \in Versions \cup {Nobody}
BY DEF LiveBeneficiary

LEMMA MarketStepTypes == TypeOK /\ MarketStep => TypeOK'
<1>. SUFFICES ASSUME TypeOK, MarketStep PROVE TypeOK'
  OBVIOUS
<1>1. ASSUME NEW b \in Accounts, NEW v \in Versions, NEW n \in MarketRewards,
             NEW d \in Deadlines, NEW w \in BOOLEAN, OpenMarketJob(b, v, n, d, w)
      PROVE  TypeOK'
  <2>1. n \in Nat
    BY AmountAssumption
  <2>2. [buyer |-> b, target |-> v, reward |-> n, deadline |-> d, verifier |-> w,
         status |-> "open", performer |-> Nobody] \in MarketJob
    BY DEF MarketJob
  <2>3. JobTypes'
    BY <1>1, <2>2, AppendProperties DEF TypeOK, JobTypes, OpenMarketJob
  <2>4. MoneyTypes'
    BY <1>1, <2>1 DEF TypeOK, MoneyTypes, OpenMarketJob, Debit, Sufficient
  <2>. QED
    BY <1>1, <2>3, <2>4, FrameTypes DEF TypeOK, OpenMarketJob
<1>2. ASSUME NEW j \in MarketJobIds, j \in DOMAIN marketJobs
      PROVE  /\ marketJobs[j] \in MarketJob
             /\ marketJobs[j].reward \in Nat /\ marketJobs[j].target \in Versions
             /\ marketJobs[j].performer \in Versions \cup {Nobody}
             /\ \A job \in MarketJob : [marketJobs EXCEPT ![j] = job] \in Seq(MarketJob)
  <2>1. /\ marketJobs[j] \in MarketJob
        /\ \A job \in MarketJob : [marketJobs EXCEPT ![j] = job] \in Seq(MarketJob)
    BY <1>2, JobUpdate DEF TypeOK, JobTypes
  <2>. QED
    BY <2>1, AmountAssumption DEF MarketJob
<1>3. ASSUME NEW j \in MarketJobIds, NEW a \in Accounts, NEW ok \in BOOLEAN,
             SubmitMarketResult(a, j, ok)
      PROVE  TypeOK'
  <2>. DEFINE job == marketJobs[j]
              performer == LiveBeneficiary(job.target)
  <2>1. j \in DOMAIN marketJobs /\ performer \in Versions
    BY <1>3 DEF SubmitMarketResult
  <2>2. JobTypes'
    <3>1. PICK s \in {"submitted", "accepted"} :
            marketJobs' = [marketJobs EXCEPT ![j] = [@ EXCEPT !.performer = performer,
                                                               !.status = s]]
      BY <1>3 DEF SubmitMarketResult
    <3>2. [marketJobs[j] EXCEPT !.performer = performer, !.status = s] \in MarketJob
      BY <1>2, <2>1 DEF MarketJob
    <3>3. marketJobs' \in Seq(MarketJob)
      BY <1>2, <2>1, <3>1, <3>2
    <3>. QED
      BY <1>3, <3>3 DEF TypeOK, JobTypes, SubmitMarketResult
  <2>3. MoneyTypes' /\ BookTypes'
    <3>1. CASE PayReward(performer, job.reward)
      BY <1>2, <1>3, <2>1, <3>1, PayRewardTypes DEF SubmitMarketResult
    <3>2. CASE UNCHANGED <<marketEscrow, vaults, marketRevenue, commonsAvailable>>
      BY <1>3, <3>2 DEF TypeOK, MoneyTypes, BookTypes, SubmitMarketResult
    <3>. QED
      BY <1>3, <3>1, <3>2 DEF SubmitMarketResult
  <2>. QED
    BY <1>3, <2>2, <2>3, FrameTypes DEF TypeOK, SubmitMarketResult
<1>4. ASSUME NEW j \in MarketJobIds, NEW a \in Accounts, AcceptMarketResult(a, j)
      PROVE  TypeOK'
  <2>. DEFINE job == marketJobs[j]
              performer == IF job.performer = Nobody THEN job.target ELSE job.performer
  <2>1. j \in DOMAIN marketJobs
    BY <1>4 DEF AcceptMarketResult
  <2>2. performer \in Versions /\ job.reward \in Nat
    BY <1>2, <2>1
  <2>3. JobTypes'
    <3>1. [marketJobs[j] EXCEPT !.status = "accepted"] \in MarketJob
      BY <1>2, <2>1 DEF MarketJob
    <3>2. marketJobs' \in Seq(MarketJob)
      BY <1>2, <1>4, <2>1, <3>1 DEF AcceptMarketResult
    <3>. QED
      BY <1>4, <3>2 DEF TypeOK, JobTypes, AcceptMarketResult
  <2>4. LiveBeneficiary(performer) \in Versions \cup {Nobody}
    BY <2>2, BeneficiaryTypes
  <2>5. PayReward(LiveBeneficiary(performer), job.reward)
    BY <1>4 DEF AcceptMarketResult
  <2>6. MoneyTypes' /\ BookTypes'
    BY <1>4, <2>2, <2>4, <2>5, PayRewardTypes DEF AcceptMarketResult
  <2>. QED
    BY <1>4, <2>3, <2>6, FrameTypes DEF TypeOK, AcceptMarketResult
<1>5. ASSUME NEW j \in MarketJobIds, NEW a \in Accounts, RefundMarketJob(a, j)
      PROVE  TypeOK'
  <2>1. j \in DOMAIN marketJobs
    BY <1>5 DEF RefundMarketJob
  <2>2. [marketJobs[j] EXCEPT !.status = "refunded"] \in MarketJob
    BY <1>2, <2>1 DEF MarketJob
  <2>3. marketJobs' \in Seq(MarketJob)
    BY <1>2, <1>5, <2>1, <2>2 DEF RefundMarketJob
  <2>4. JobTypes'
    BY <1>5, <2>3 DEF TypeOK, JobTypes, RefundMarketJob
  <2>5. MoneyTypes'
    BY <1>2, <1>5, <2>1, SMTT(30) DEF TypeOK, MoneyTypes, RefundMarketJob, Credit
  <2>. QED
    BY <1>5, <2>4, <2>5, FrameTypes DEF TypeOK, RefundMarketJob
<1>. QED
  BY <1>1, <1>3, <1>4, <1>5 DEF MarketStep

LEMMA SelectionStepTypes == TypeOK /\ SelectionStep => TypeOK'
<1>. SUFFICES ASSUME TypeOK, SelectionStep PROVE TypeOK'
  OBVIOUS
<1>1. /\ now \in Nat /\ CurrentEpoch \in Nat
      /\ \A v \in Versions : LineageOf[v] \in Lineages
  BY ClockTypes, IdsAssumption DEF TypeOK
<1>2. ASSUME NEW v \in Versions, NEW e \in Epochs, NEW m \in BOOLEAN,
             MaySupersede(v, e, m), Succeed(v), SupersedeUnchanged
      PROVE  VersionTypes' /\ LineageTypes' /\ MoneyTypes'
  <2>1. active[LineageOf[v]] \in Versions
    BY <1>2 DEF MaySupersede
  <2>2. VersionTypes'
    BY <1>2, <2>1 DEF TypeOK, VersionTypes, Succeed, SupersedeUnchanged
  <2>3. LineageTypes'
    BY <1>1, <1>2 DEF TypeOK, LineageTypes, Succeed, SupersedeUnchanged
  <2>4. MoneyTypes'
    BY <1>2, <2>1 DEF TypeOK, MoneyTypes, Succeed, SupersedeUnchanged, poolVars
  <2>. QED
    BY <2>2, <2>3, <2>4
<1>3. ASSUME NEW v \in Versions, NEW e \in Epochs, Supersede(v, e) PROVE TypeOK'
  <2>1. VersionTypes' /\ LineageTypes' /\ MoneyTypes'
    BY <1>2, <1>3 DEF Supersede
  <2>. QED
    BY <1>3, <2>1, FrameTypes DEF TypeOK, Supersede, SupersedeUnchanged
<1>4. ASSUME NEW v \in Versions, NEW e \in Epochs, NEW s \in Salts, CommitSupersede(v, e, s)
      PROVE  TypeOK'
  <2>1. [challenger |-> v, epoch |-> e, salt |-> s, at |-> now] \in Commit
    BY DEF TypeOK, Commit
  <2>2. CommitTypes'
    BY <1>4, <2>1 DEF TypeOK, CommitTypes, CommitSupersede
  <2>3. MoneyTypes'
    BY <1>4 DEF TypeOK, MoneyTypes, CommitSupersede, poolVars
  <2>. QED
    BY <1>4, <2>2, <2>3, FrameTypes DEF TypeOK, CommitSupersede
<1>5. ASSUME NEW v \in Versions, NEW e \in Epochs, NEW s \in Salts, RevealSupersede(v, e, s)
      PROVE  TypeOK'
  <2>1. CommitTypes'
    BY <1>5 DEF TypeOK, CommitTypes, RevealSupersede, Hash
  <2>2. CASE MaySupersede(v, e, TRUE) /\ Succeed(v)
    <3>1. VersionTypes' /\ LineageTypes' /\ MoneyTypes'
      BY <1>2, <1>5, <2>2 DEF RevealSupersede
    <3>. QED
      BY <1>5, <2>1, <3>1, FrameTypes DEF TypeOK, RevealSupersede, SupersedeUnchanged
  <2>3. CASE UNCHANGED <<status, successor, active, vaults>>
    <3>1. UNCHANGED <<now, versionVars, lineageVars, bondVars, bookVars, econVars, jobVars>>
      BY <1>5, <2>3 DEF RevealSupersede, SupersedeUnchanged, versionVars, lineageVars
    <3>2. MoneyTypes'
      BY <1>5, <2>3 DEF TypeOK, MoneyTypes, RevealSupersede, SupersedeUnchanged, poolVars
    <3>. QED
      BY <2>1, <3>1, <3>2, FrameTypes DEF TypeOK
  <2>. QED
    BY <1>5, <2>2, <2>3 DEF RevealSupersede
<1>6. ASSUME NEW v \in Versions, NEW e \in Epochs, ClaimVacancy(v, e) PROVE TypeOK'
  <2>1. VersionTypes'
    BY <1>6 DEF TypeOK, VersionTypes, ClaimVacancy
  <2>2. LineageTypes'
    BY <1>1, <1>6 DEF TypeOK, LineageTypes, ClaimVacancy
  <2>3. MoneyTypes'
    BY <1>6 DEF TypeOK, MoneyTypes, ClaimVacancy, poolVars
  <2>. QED
    BY <1>6, <2>1, <2>2, <2>3, FrameTypes DEF TypeOK, ClaimVacancy
<1>7. ASSUME NEW v \in Versions, NEW heir \in Versions \cup {Nobody}, EjectStale(v, heir)
      PROVE  TypeOK'
  <2>. DEFINE share == IF heir \in Versions THEN LineageShare(vaults[v]) ELSE 0
  <2>1. vaults \in [Versions -> Nat] /\ vaults[v] \in Nat
    BY DEF TypeOK, MoneyTypes
  <2>2. share \in 0 .. vaults[v]
    BY <2>1, ShareBounded
  <2>. HIDE DEF share
  <2>3. vaults' \in [Versions -> Nat]
    BY <1>7, <2>1, <2>2 DEF EjectStale, DivideVault, share
  <2>4. commonsAvailable' \in Nat
    BY <1>7, <2>1, <2>2 DEF TypeOK, MoneyTypes, EjectStale, DivideVault, share
  <2>5. MoneyTypes'
    BY <1>7, <2>3, <2>4 DEF TypeOK, MoneyTypes, EjectStale
  <2>6. BondTypes'
    BY <1>7 DEF TypeOK, BondTypes, EjectStale
  <2>7. VersionTypes'
    BY <1>7 DEF TypeOK, VersionTypes, EjectStale
  <2>8. LineageTypes'
    BY <1>7 DEF TypeOK, LineageTypes, EjectStale
  <2>. QED
    BY <1>7, <2>5, <2>6, <2>7, <2>8, FrameTypes DEF TypeOK, EjectStale
<1>. QED
  BY <1>3, <1>4, <1>5, <1>6, <1>7 DEF SelectionStep

LEMMA StutterTypes == TypeOK /\ UNCHANGED vars => TypeOK'
BY FrameTypes DEF TypeOK, MoneyTypes, vars, poolVars

(* Every reachable state is well typed: no call overdraws a wallet, a vault or
   the commons, and no epoch, day or job escapes its range. *)
THEOREM TypeCorrect == Spec => []TypeOK
<1>1. TypeOK /\ [Next]_vars => TypeOK'
  BY TimeTypes, MoneyStepTypes, VersionStepTypes, RankedStepTypes, MarketStepTypes,
     SelectionStepTypes, StutterTypes DEF Next
<1>. QED
  BY InitTypes, <1>1, PTL DEF Spec

-----------------------------------------------------------------------------
(***************************************************************************)
(* The active seat.  Every call is first reduced to what it does to the    *)
(* statuses, the pointers and the successors; invariants and refinement    *)
(* are then argued about those five effects only.                          *)
(***************************************************************************)
Founded(v) ==
  /\ active[LineageOf[v]] = Unfounded
  /\ status' = [status EXCEPT ![v] = "active"]
  /\ active' = [active EXCEPT ![LineageOf[v]] = v]
  /\ successor' = [successor EXCEPT ![v] = Nobody]

Joined(v) ==
  /\ active[LineageOf[v]] # Unfounded /\ status[v] = "none"
  /\ status' = [status EXCEPT ![v] = "incubating"]
  /\ active' = active
  /\ successor' = [successor EXCEPT ![v] = Nobody]

Succeeded(v) ==
  LET incumbent == active[LineageOf[v]]
  IN  /\ status[v] = "incubating" /\ incumbent \in Versions /\ incumbent # v
      /\ status' = [status EXCEPT ![incumbent] = "superseded", ![v] = "active"]
      /\ active' = [active EXCEPT ![LineageOf[v]] = v]
      /\ successor' = [successor EXCEPT ![incumbent] = v]

Ejected(v) ==
  /\ Live(v)
  /\ status' = [status EXCEPT ![v] = "stale"]
  /\ active' = [active EXCEPT ![LineageOf[v]] = IF @ = v THEN Nobody ELSE @]
  /\ successor' = successor

Claimed(v) ==
  /\ status[v] = "incubating" /\ active[LineageOf[v]] \notin Versions
  /\ status' = [status EXCEPT ![v] = "active"]
  /\ active' = [active EXCEPT ![LineageOf[v]] = v]
  /\ successor' = successor

SeatEffect ==
  \/ UNCHANGED <<status, active, successor>>
  \/ \E v \in Versions : Founded(v) \/ Joined(v) \/ Succeeded(v) \/ Ejected(v) \/ Claimed(v)

LEMMA QuietSteps ==
  TimeStep \/ MoneyStep \/ RankedStep \/ MarketStep => UNCHANGED <<status, active, successor>>
<1>1. TimeStep => UNCHANGED <<status, active, successor>>
  BY DEF TimeStep, Advance, AdvanceToNextEpoch, versionVars, lineageVars
<1>2. MoneyStep => UNCHANGED <<status, active, successor>>
  BY DEF MoneyStep, Mint, FundCommons, DirectTransferToArena, AbsorbSurplus, Donate, Endow,
         SettleOperatingExpense, versionVars, lineageVars
<1>3. RankedStep => UNCHANGED <<status, active, successor>>
  <2>1. ASSUME NEW leaf \in Schedule, AuthorizeRankedJob(leaf) \/ CreateRankedJob(leaf)
        PROVE  UNCHANGED <<status, active, successor>>
    BY <2>1 DEF AuthorizeRankedJob, CreateRankedJob, versionVars, lineageVars
  <2>2. ASSUME NEW j \in RankedJobIds, NEW a \in Accounts, NEW v \in Versions,
               NEW p \in Proofs, SubmitRankedResult(a, j, v, p)
        PROVE  UNCHANGED <<status, active, successor>>
    BY <2>2 DEF SubmitRankedResult, lineageVars
  <2>3. ASSUME NEW j \in RankedJobIds, ExpireRankedJob(j)
        PROVE  UNCHANGED <<status, active, successor>>
    BY <2>3 DEF ExpireRankedJob, versionVars, lineageVars
  <2>. QED
    BY <2>1, <2>2, <2>3 DEF RankedStep
<1>4. MarketStep => UNCHANGED <<status, active, successor>>
  BY ZenonT(60) DEF MarketStep, OpenMarketJob, SubmitMarketResult, AcceptMarketResult,
         RefundMarketJob, versionVars, lineageVars
<1>. QED
  BY <1>1, <1>2, <1>3, <1>4

LEMMA VersionEffects ==
  ASSUME VersionStep PROVE SeatEffect
<1>. SUFFICES ASSUME NEW a \in Accounts, NEW v \in Versions,
                     \/ \E f \in Accounts, q \in Quorums :
                          CreateLineage(a, f, v, q) \/ RegisterVersion(a, f, v, q)
                     \/ ReclaimBond(a, v)
                     \/ Heartbeat(a, v)
              PROVE  SeatEffect
  BY DEF VersionStep
<1>1. ASSUME NEW f \in Accounts, NEW q \in Quorums, CreateLineage(a, f, v, q)
      PROVE  UNCHANGED <<status, active, successor>> \/ Founded(v)
  BY <1>1 DEF CreateLineage, StoreVersion, Founded, versionVars, lineageVars
<1>2. ASSUME NEW f \in Accounts, NEW q \in Quorums, RegisterVersion(a, f, v, q)
      PROVE  UNCHANGED <<status, active, successor>> \/ Joined(v)
  BY <1>2 DEF RegisterVersion, StoreVersion, Joined, Registered, versionVars
<1>3. CASE ReclaimBond(a, v)
  BY <1>3 DEF ReclaimBond, SeatEffect, versionVars, lineageVars
<1>4. CASE Heartbeat(a, v)
  BY <1>4 DEF Heartbeat, SeatEffect, lineageVars
<1>. QED
  BY <1>1, <1>2, <1>3, <1>4 DEF SeatEffect

LEMMA SelectionEffects ==
  ASSUME SelectionStep PROVE SeatEffect
<1>1. ASSUME NEW v \in Versions, NEW e \in Epochs, NEW m \in BOOLEAN,
             MaySupersede(v, e, m), Succeed(v)
      PROVE  Succeeded(v)
  BY <1>1 DEF MaySupersede, Succeed, Succeeded
<1>2. ASSUME NEW v \in Versions, NEW e \in Epochs, Supersede(v, e) PROVE Succeeded(v)
  BY <1>1, <1>2 DEF Supersede
<1>3. ASSUME NEW v \in Versions, NEW e \in Epochs, ClaimVacancy(v, e) PROVE Claimed(v)
  BY <1>3 DEF ClaimVacancy, Vacant, Claimed
<1>4. ASSUME NEW v \in Versions, NEW e \in Epochs, NEW s \in Salts, CommitSupersede(v, e, s)
      PROVE  UNCHANGED <<status, active, successor>>
  BY <1>4 DEF CommitSupersede, versionVars, lineageVars
<1>5. ASSUME NEW v \in Versions, NEW e \in Epochs, NEW s \in Salts, RevealSupersede(v, e, s)
      PROVE  UNCHANGED <<status, active, successor>> \/ Succeeded(v)
  BY <1>1, <1>5 DEF RevealSupersede
<1>6. ASSUME NEW v \in Versions, NEW heir \in Versions \cup {Nobody}, EjectStale(v, heir)
      PROVE  Ejected(v)
  BY <1>6 DEF EjectStale, Ejected
<1>. QED
  BY <1>2, <1>3, <1>4, <1>5, <1>6 DEF SelectionStep, SeatEffect

LEMMA StepEffects == [Next]_vars => SeatEffect
BY QuietSteps, VersionEffects, SelectionEffects
   DEF Next, vars, versionVars, lineageVars, SeatEffect

(***************************************************************************)
(* Seats and statuses agree.                                               *)
(***************************************************************************)
LEMMA SeatInduction ==
  ASSUME TypeOK, SeatAgrees, SeatEffect PROVE SeatAgrees'
<1>. USE IdsAssumption
<1>1. /\ status \in [Versions -> {"none", "incubating", "active", "superseded", "stale"}]
      /\ active \in [Lineages -> Versions \cup {Nobody, Unfounded}]
      /\ \A v \in Versions : LineageOf[v] \in Lineages
  BY DEF TypeOK, VersionTypes, LineageTypes
<1>2. CASE UNCHANGED <<status, active, successor>>
  BY <1>2 DEF SeatAgrees, Registered
<1>3. ASSUME NEW v \in Versions, Founded(v) PROVE SeatAgrees'
  BY <1>1, <1>3 DEF SeatAgrees, Registered, Founded
<1>4. ASSUME NEW v \in Versions, Joined(v) PROVE SeatAgrees'
  BY <1>1, <1>4 DEF SeatAgrees, Registered, Joined
<1>5. ASSUME NEW v \in Versions, Succeeded(v) PROVE SeatAgrees'
  BY <1>1, <1>5 DEF SeatAgrees, Registered, Succeeded
<1>6. ASSUME NEW v \in Versions, Ejected(v) PROVE SeatAgrees'
  BY <1>1, <1>6 DEF SeatAgrees, Registered, Ejected, Live
<1>7. ASSUME NEW v \in Versions, Claimed(v) PROVE SeatAgrees'
  BY <1>1, <1>7 DEF SeatAgrees, Registered, Claimed
<1>. QED
  BY <1>2, <1>3, <1>4, <1>5, <1>6, <1>7 DEF SeatEffect

LEMMA SeatInitially == Init => SeatAgrees
BY IdsAssumption DEF Init, SeatAgrees, Registered

(* In every reachable state a version is ACTIVE exactly when it holds the
   pointer of its lineage, for any number of versions, lineages and calls. *)
THEOREM SeatCorrect == Spec => []SeatAgrees
<1>1. TypeOK /\ SeatAgrees /\ [Next]_vars => SeatAgrees'
  BY StepEffects, SeatInduction
<1>. QED
  BY SeatInitially, TypeCorrect, <1>1, PTL DEF Spec

(***************************************************************************)
(* Successions end.  A successor is active when it is recorded, so that no *)
(* set of superseded versions that it closes can contain it.               *)
(***************************************************************************)
LEMMA SuccessionKept ==
  ASSUME SuccessionEnds, Superseded' = Superseded,
         \A v \in Superseded : successor'[v] = successor[v],
         \A v \in Versions : Registered(v) => status'[v] # "none"
  PROVE  SuccessionEnds'
<1>1. \A v \in Superseded' :
        successor'[v] \in Versions /\ status'[successor'[v]] # "none"
          /\ LineageOf[successor'[v]] = LineageOf[v]
  BY DEF SuccessionEnds, Registered
<1>2. ASSUME NEW cycle \in SUBSET Superseded', cycle # {}
      PROVE  \E v \in cycle : successor'[v] \notin cycle
  <2>1. cycle \in SUBSET Superseded /\ \A v \in cycle : successor'[v] = successor[v]
    BY <1>2
  <2>2. \E v \in cycle : successor[v] \notin cycle
    BY <1>2, <2>1 DEF SuccessionEnds
  <2>. QED
    BY <2>1, <2>2
<1>. QED
  BY <1>1, <1>2 DEF SuccessionEnds, Registered

LEMMA SuccessionExtended ==
  ASSUME TypeOK, SeatAgrees, SuccessionEnds, NEW v \in Versions, Succeeded(v)
  PROVE  SuccessionEnds'
<1>. DEFINE incumbent == active[LineageOf[v]]
<1>1. /\ incumbent \in Versions /\ incumbent # v /\ status[v] = "incubating"
      /\ successor \in [Versions -> Versions \cup {Nobody}]
      /\ status \in [Versions -> {"none", "incubating", "active", "superseded", "stale"}]
      /\ LineageOf[incumbent] = LineageOf[v]
  BY IdsAssumption DEF Succeeded, TypeOK, VersionTypes, SeatAgrees
<1>2. /\ status' = [status EXCEPT ![incumbent] = "superseded", ![v] = "active"]
      /\ successor' = [successor EXCEPT ![incumbent] = v]
  BY DEF Succeeded
<1>. HIDE DEF incumbent
<1>3. /\ Superseded' = Superseded \cup {incumbent} /\ v \notin Superseded'
      /\ successor'[incumbent] = v
      /\ \A w \in Superseded' : w # incumbent => w \in Superseded /\ successor'[w] = successor[w]
      /\ \A w \in Versions : Registered(w) => Registered(w)'
      /\ Registered(v)'
  BY <1>1, <1>2 DEF Superseded, Registered
<1>4. \A w \in Superseded' :
        successor'[w] \in Versions /\ status'[successor'[w]] # "none"
          /\ LineageOf[successor'[w]] = LineageOf[w]
  BY <1>1, <1>3 DEF SuccessionEnds, Registered
<1>5. ASSUME NEW cycle \in SUBSET Superseded', cycle # {}
      PROVE  \E w \in cycle : successor'[w] \notin cycle
  <2>1. CASE incumbent \in cycle
    BY <1>3, <2>1
  <2>2. CASE incumbent \notin cycle
    <3>1. cycle \in SUBSET Superseded /\ \A w \in cycle : successor'[w] = successor[w]
      BY <1>3, <2>2
    <3>. QED
      BY <1>5, <3>1 DEF SuccessionEnds
  <2>. QED
    BY <2>1, <2>2
<1>. QED
  BY <1>4, <1>5 DEF SuccessionEnds, Registered

LEMMA SuccessionInduction ==
  ASSUME TypeOK, SeatAgrees, SuccessionEnds, SeatEffect PROVE SuccessionEnds'
<1>. USE IdsAssumption
<1>1. /\ status \in [Versions -> {"none", "incubating", "active", "superseded", "stale"}]
      /\ successor \in [Versions -> Versions \cup {Nobody}]
  BY DEF TypeOK, VersionTypes
<1>2. CASE UNCHANGED <<status, active, successor>>
  BY <1>2, SuccessionKept DEF Superseded, Registered
<1>3. ASSUME NEW v \in Versions, Founded(v) \/ Joined(v) PROVE SuccessionEnds'
  <2>1. status[v] = "none"
    BY <1>1, <1>3 DEF SeatAgrees, Registered, Founded, Joined
  <2>2. \A w \in Versions : w # v => status'[w] = status[w] /\ successor'[w] = successor[w]
    BY <1>1, <1>3 DEF Founded, Joined
  <2>3. status'[v] \in {"active", "incubating"}
    BY <1>1, <1>3 DEF Founded, Joined
  <2>. QED
    BY <2>1, <2>2, <2>3, SuccessionKept DEF Superseded, Registered
<1>4. ASSUME NEW v \in Versions, Succeeded(v) PROVE SuccessionEnds'
  BY <1>4, SuccessionExtended
<1>5. ASSUME NEW v \in Versions, Ejected(v) \/ Claimed(v) PROVE SuccessionEnds'
  <2>1. status[v] \in {"active", "incubating"} /\ status'[v] \in {"stale", "active"}
    BY <1>1, <1>5 DEF Ejected, Claimed, Live
  <2>2. /\ successor' = successor
        /\ \A w \in Versions : w # v => status'[w] = status[w]
    BY <1>1, <1>5 DEF Ejected, Claimed
  <2>. QED
    BY <2>1, <2>2, SuccessionKept DEF Superseded, Registered
<1>. QED
  BY <1>2, <1>3, <1>4, <1>5 DEF SeatEffect

(* Whoever follows the successors of a version that lost its seat comes, after
   finitely many registered versions of one lineage, to one that is not
   superseded. *)
THEOREM SuccessionCorrect == Spec => []SuccessionEnds
<1>1. Init => SuccessionEnds
  BY DEF Init, SuccessionEnds, Superseded
<1>2. TypeOK /\ SeatAgrees /\ SuccessionEnds /\ [Next]_vars => SuccessionEnds'
  BY StepEffects, SuccessionInduction
<1>. QED
  BY <1>1, <1>2, TypeCorrect, SeatCorrect, PTL DEF Spec

(***************************************************************************)
(* Selection implements the abstract seat.                                 *)
(***************************************************************************)
LEMMA SeatStepImplemented ==
  ASSUME TypeOK, SeatAgrees, SeatEffect
  PROVE  [Seat!SeatNext]_(Seat!seatVars)
<1>. USE IdsAssumption DEF Seat!seatVars
<1>1. /\ status \in [Versions -> {"none", "incubating", "active", "superseded", "stale"}]
      /\ active \in [Lineages -> Versions \cup {Nobody, Unfounded}]
      /\ \A v \in Versions : LineageOf[v] \in Lineages
  BY DEF TypeOK, VersionTypes, LineageTypes
<1>2. CASE UNCHANGED <<status, active, successor>>
  BY <1>2
<1>3. ASSUME NEW v \in Versions, Founded(v) PROVE Seat!Found(v)
  BY <1>1, <1>3 DEF SeatAgrees, Registered, Founded, Seat!Found
<1>4. ASSUME NEW v \in Versions, Joined(v) PROVE Seat!Join(v)
  BY <1>1, <1>4 DEF SeatAgrees, Joined, Seat!Join
<1>5. ASSUME NEW v \in Versions, Succeeded(v) PROVE Seat!HandOver(v)
  BY <1>1, <1>5 DEF SeatAgrees, Succeeded, Seat!HandOver
<1>6. ASSUME NEW v \in Versions, Ejected(v) PROVE Seat!Retire(v)
  BY <1>1, <1>6 DEF SeatAgrees, Ejected, Live, Seat!Retire
<1>7. ASSUME NEW v \in Versions, Claimed(v) PROVE Seat!Claim(v)
  BY <1>1, <1>7 DEF SeatAgrees, Registered, Claimed, Seat!Claim
<1>. QED
  BY <1>2, <1>3, <1>4, <1>5, <1>6, <1>7 DEF SeatEffect, Seat!SeatNext

(* Every behaviour of the arena, with money, time and jobs forgotten, is a
   behaviour of LineageSeat: a seat is handed over, vacated or claimed, and
   whoever lost it never returns. *)
THEOREM SeatImplemented == Spec => ImplementsSeat
<1>1. Init => Seat!SeatInit
  BY DEF Init, Seat!SeatInit
<1>2. TypeOK /\ SeatAgrees /\ [Next]_vars => [Seat!SeatNext]_(Seat!seatVars)
  BY StepEffects, SeatStepImplemented
<1>. QED
  BY <1>1, <1>2, TypeCorrect, SeatCorrect, PTL DEF Spec, ImplementsSeat, Seat!SeatSpec

(***************************************************************************)
(* Money never rests with a version that is not live.                      *)
(***************************************************************************)
\* A beneficiary is live, whoever the money was meant for.
LEMMA BeneficiaryLives ==
  ASSUME NEW v \in Versions, LiveBeneficiary(v) \in Versions
  PROVE  Live(LiveBeneficiary(v))
BY IdsAssumption DEF LiveBeneficiary

\* Statuses are kept, and only live versions are paid.
LEMMA PaidWhileLive ==
  ASSUME TypeOK, DeadVaultsEmpty, UNCHANGED status,
         \A v \in Versions : ~Live(v) => vaults'[v] = vaults[v]
  PROVE  DeadVaultsEmpty'
BY DEF DeadVaultsEmpty, Live

LEMMA DeadVaultsMoney == TypeOK /\ DeadVaultsEmpty /\ MoneyStep => DeadVaultsEmpty'
<1>. SUFFICES ASSUME TypeOK, DeadVaultsEmpty, MoneyStep PROVE DeadVaultsEmpty'
  OBVIOUS
<1>1. vaults \in [Versions -> Nat]
  BY DEF TypeOK, MoneyTypes
<1>2. UNCHANGED status
  BY QuietSteps
<1>3. CASE UNCHANGED vaults
  BY <1>2, <1>3, PaidWhileLive
<1>4. ASSUME NEW a \in Accounts, NEW v \in Versions, NEW n \in DonateAmounts, Donate(a, v, n)
      PROVE  DeadVaultsEmpty'
  BY <1>1, <1>2, <1>4, BeneficiaryLives, PaidWhileLive DEF Donate, Endow
<1>5. ASSUME NEW a \in Accounts, NEW r \in Accounts, NEW v \in Versions,
             NEW n \in ExpenseAmounts, NEW p \in Proofs, SettleOperatingExpense(a, v, r, n, p)
      PROVE  DeadVaultsEmpty'
  BY <1>1, <1>2, <1>5, PaidWhileLive DEF SettleOperatingExpense, Spend
<1>6. MoneyStep => \/ UNCHANGED vaults
                   \/ \E a \in Accounts, v \in Versions, n \in DonateAmounts : Donate(a, v, n)
                   \/ \E a, r \in Accounts, v \in Versions, n \in ExpenseAmounts, p \in Proofs :
                        SettleOperatingExpense(a, v, r, n, p)
  BY DEF MoneyStep, Mint, FundCommons, DirectTransferToArena, AbsorbSurplus
<1>. QED
  BY <1>3, <1>4, <1>5, <1>6

LEMMA DeadVaultsVersion == TypeOK /\ DeadVaultsEmpty /\ VersionStep => DeadVaultsEmpty'
<1>. SUFFICES ASSUME TypeOK, DeadVaultsEmpty, NEW a \in Accounts, NEW v \in Versions,
                     \/ \E f \in Accounts, q \in Quorums :
                          CreateLineage(a, f, v, q) \/ RegisterVersion(a, f, v, q)
                     \/ ReclaimBond(a, v)
                     \/ Heartbeat(a, v)
              PROVE  DeadVaultsEmpty'
  BY DEF VersionStep
<1>1. /\ vaults \in [Versions -> Nat]
      /\ status \in [Versions -> {"none", "incubating", "active", "superseded", "stale"}]
  BY DEF TypeOK, MoneyTypes, VersionTypes
<1>2. ASSUME NEW f \in Accounts, NEW q \in Quorums, CreateLineage(a, f, v, q)
      PROVE  DeadVaultsEmpty'
  BY <1>1, <1>2 DEF CreateLineage, StoreVersion, versionVars, DeadVaultsEmpty, Live
<1>3. ASSUME NEW f \in Accounts, NEW q \in Quorums, RegisterVersion(a, f, v, q)
      PROVE  DeadVaultsEmpty'
  BY <1>1, <1>3 DEF RegisterVersion, StoreVersion, versionVars, DeadVaultsEmpty, Live
<1>4. CASE ReclaimBond(a, v)
  BY <1>4, PaidWhileLive DEF ReclaimBond, versionVars
<1>5. CASE Heartbeat(a, v)
  BY <1>1, <1>5, PaidWhileLive DEF Heartbeat
<1>. QED
  BY <1>2, <1>3, <1>4, <1>5

LEMMA DeadVaultsRanked == TypeOK /\ DeadVaultsEmpty /\ RankedStep => DeadVaultsEmpty'
<1>. SUFFICES ASSUME TypeOK, DeadVaultsEmpty, RankedStep PROVE DeadVaultsEmpty'
  OBVIOUS
<1>1. vaults \in [Versions -> Nat] /\ UNCHANGED status
  BY QuietSteps DEF TypeOK, MoneyTypes
<1>2. ASSUME NEW leaf \in Schedule, AuthorizeRankedJob(leaf) \/ CreateRankedJob(leaf)
      PROVE  DeadVaultsEmpty'
  BY <1>1, <1>2, PaidWhileLive DEF AuthorizeRankedJob, CreateRankedJob
<1>3. ASSUME NEW j \in RankedJobIds, NEW a \in Accounts, NEW v \in Versions,
             NEW p \in Proofs, SubmitRankedResult(a, j, v, p)
      PROVE  DeadVaultsEmpty'
  BY <1>1, <1>3, PaidWhileLive DEF SubmitRankedResult
<1>4. ASSUME NEW j \in RankedJobIds, ExpireRankedJob(j) PROVE DeadVaultsEmpty'
  BY <1>1, <1>4, PaidWhileLive DEF ExpireRankedJob
<1>. QED
  BY <1>2, <1>3, <1>4 DEF RankedStep

LEMMA DeadVaultsMarket == TypeOK /\ DeadVaultsEmpty /\ MarketStep => DeadVaultsEmpty'
<1>. SUFFICES ASSUME TypeOK, DeadVaultsEmpty, MarketStep PROVE DeadVaultsEmpty'
  OBVIOUS
<1>1. vaults \in [Versions -> Nat] /\ UNCHANGED status
  BY QuietSteps DEF TypeOK, MoneyTypes
<1>2. ASSUME NEW v \in Versions, NEW n, PayReward(LiveBeneficiary(v), n)
      PROVE  DeadVaultsEmpty'
  BY <1>1, <1>2, BeneficiaryLives, PaidWhileLive DEF PayReward
<1>3. CASE UNCHANGED vaults
  BY <1>1, <1>3, PaidWhileLive
<1>4. ASSUME NEW j \in MarketJobIds, j \in DOMAIN marketJobs
      PROVE  marketJobs[j].target \in Versions /\ marketJobs[j].performer \in Versions \cup {Nobody}
  <2>1. marketJobs[j] \in MarketJob
    BY <1>4, JobUpdate DEF TypeOK, JobTypes
  <2>. QED
    BY <2>1 DEF MarketJob
<1>5. ASSUME NEW j \in MarketJobIds, NEW a \in Accounts, NEW ok \in BOOLEAN,
             SubmitMarketResult(a, j, ok)
      PROVE  DeadVaultsEmpty'
  BY <1>2, <1>3, <1>4, <1>5 DEF SubmitMarketResult
<1>6. ASSUME NEW j \in MarketJobIds, NEW a \in Accounts, AcceptMarketResult(a, j)
      PROVE  DeadVaultsEmpty'
  BY <1>2, <1>4, <1>6 DEF AcceptMarketResult
<1>7. ASSUME NEW j \in MarketJobIds, NEW a \in Accounts, RefundMarketJob(a, j)
      PROVE  DeadVaultsEmpty'
  BY <1>3, <1>7 DEF RefundMarketJob
<1>8. ASSUME NEW b \in Accounts, NEW v \in Versions, NEW n \in MarketRewards,
             NEW d \in Deadlines, NEW w \in BOOLEAN, OpenMarketJob(b, v, n, d, w)
      PROVE  DeadVaultsEmpty'
  BY <1>3, <1>8 DEF OpenMarketJob
<1>. QED
  BY <1>5, <1>6, <1>7, <1>8 DEF MarketStep

LEMMA DeadVaultsSelection == TypeOK /\ DeadVaultsEmpty /\ SelectionStep => DeadVaultsEmpty'
<1>. SUFFICES ASSUME TypeOK, DeadVaultsEmpty, SelectionStep PROVE DeadVaultsEmpty'
  OBVIOUS
<1>1. /\ vaults \in [Versions -> Nat]
      /\ status \in [Versions -> {"none", "incubating", "active", "superseded", "stale"}]
  BY DEF TypeOK, MoneyTypes, VersionTypes
<1>2. ASSUME NEW v \in Versions, NEW e \in Epochs, NEW m \in BOOLEAN,
             MaySupersede(v, e, m), Succeed(v)
      PROVE  DeadVaultsEmpty'
  BY <1>1, <1>2 DEF MaySupersede, Succeed, DeadVaultsEmpty, Live
<1>3. CASE UNCHANGED <<status, vaults>>
  BY <1>3 DEF DeadVaultsEmpty, Live
<1>4. ASSUME NEW v \in Versions, NEW e \in Epochs, Supersede(v, e) PROVE DeadVaultsEmpty'
  BY <1>2, <1>4 DEF Supersede
<1>5. ASSUME NEW v \in Versions, NEW e \in Epochs, ClaimVacancy(v, e) PROVE DeadVaultsEmpty'
  BY <1>1, <1>5 DEF ClaimVacancy, DeadVaultsEmpty, Live
<1>6. ASSUME NEW v \in Versions, NEW e \in Epochs, NEW s \in Salts,
             CommitSupersede(v, e, s) \/ RevealSupersede(v, e, s)
      PROVE  DeadVaultsEmpty'
  BY <1>2, <1>3, <1>6 DEF CommitSupersede, RevealSupersede, versionVars
<1>7. ASSUME NEW v \in Versions, NEW heir \in Versions \cup {Nobody}, EjectStale(v, heir)
      PROVE  DeadVaultsEmpty'
  <2>1. heir \in Versions => heir # v /\ status[heir] = "incubating"
    BY <1>7, IdsAssumption DEF EjectStale, IsHeir, HeirIndices
  <2>2. \A w \in Versions : w # heir => vaults'[w] = IF w = v THEN 0 ELSE vaults[w]
    BY <1>1, <1>7 DEF EjectStale, DivideVault
  <2>3. status' = [status EXCEPT ![v] = "stale"]
    BY <1>7 DEF EjectStale
  <2>. QED
    BY <1>1, <2>1, <2>2, <2>3 DEF DeadVaultsEmpty, Live
<1>. QED
  BY <1>4, <1>5, <1>6, <1>7 DEF SelectionStep

(* No donation, market payment, settlement or ejection ever leaves money with
   a version that is unregistered, superseded or stale, where no operator
   could spend it. *)
THEOREM DeadVaultsCorrect == Spec => []DeadVaultsEmpty
<1>1. Init => DeadVaultsEmpty
  BY DEF Init, DeadVaultsEmpty
<1>2. TypeOK /\ DeadVaultsEmpty /\ TimeStep => DeadVaultsEmpty'
  BY QuietSteps, PaidWhileLive DEF TimeStep, Advance, AdvanceToNextEpoch
<1>3. TypeOK /\ DeadVaultsEmpty /\ UNCHANGED vars => DeadVaultsEmpty'
  BY PaidWhileLive DEF vars, versionVars
<1>4. TypeOK /\ DeadVaultsEmpty /\ [Next]_vars => DeadVaultsEmpty'
  BY <1>2, <1>3, DeadVaultsMoney, DeadVaultsVersion, DeadVaultsRanked, DeadVaultsMarket,
     DeadVaultsSelection DEF Next
<1>. QED
  BY <1>1, <1>4, TypeCorrect, PTL DEF Spec

-----------------------------------------------------------------------------
(***************************************************************************)
(* Ejection always forfeits the bond.  Three clocks meet there: the profit *)
(* mark and STALE_AFTER (eject_stale), the epoch of the bond and the last  *)
(* closed epoch (_slash_bond_if_unprofitable).  The code never compares    *)
(* them; that they line up is an invariant.                                *)
(***************************************************************************)
clockVars == <<status, createdAt, lastPositive, versionBond, bondEpoch, revenue, cost>>

(***************************************************************************)
(* What a call can do to these variables.                                  *)
(***************************************************************************)
Ticked == now' \in Nat /\ now <= now' /\ UNCHANGED clockVars

Bonded(v) ==
  /\ ~Registered(v)
  /\ versionBond' = [versionBond EXCEPT ![v] = VERSION_BOND]
  /\ bondEpoch'   = [bondEpoch   EXCEPT ![v] = CurrentEpoch]
  /\ UNCHANGED <<now, revenue, cost>>
  /\ \/ UNCHANGED <<status, createdAt, lastPositive>>
     \/ /\ \E s \in {"active", "incubating"} : status' = [status EXCEPT ![v] = s]
        /\ createdAt'    = [createdAt    EXCEPT ![v] = now]
        /\ lastPositive' = [lastPositive EXCEPT ![v] = Never]

Unbonded(v) ==
  /\ versionBond' = [versionBond EXCEPT ![v] = 0]
  /\ UNCHANGED <<now, status, createdAt, lastPositive, bondEpoch, revenue, cost>>

Settled(v) ==
  \E n, c \in Nat :
    /\ Live(v)
    /\ revenue' = [revenue EXCEPT ![v][CurrentEpoch] = @ + n]
    /\ cost'    = [cost    EXCEPT ![v][CurrentEpoch] = @ + c]
    /\ lastPositive' = [lastPositive EXCEPT ![v] =
         IF Profit(v, CurrentEpoch) + n - c > 0 THEN now ELSE @]
    /\ UNCHANGED <<now, status, createdAt, versionBond, bondEpoch>>

Forfeited(v) ==
  /\ Live(v) /\ now > StaleReference(v) + STALE_AFTER
  /\ versionBond' = [versionBond EXCEPT ![v] = IF Slashed(v) THEN 0 ELSE @]
  /\ status' = [status EXCEPT ![v] = "stale"]
  /\ UNCHANGED <<now, createdAt, lastPositive, bondEpoch, revenue, cost>>

\* The seat passes on: nobody is registered or retired as stale by it.
Promoted ==
  /\ \A v \in Versions : /\ status'[v] = "none" <=> status[v] = "none"
                         /\ status'[v] = "stale" => status[v] = "stale"
  /\ UNCHANGED <<now, createdAt, lastPositive, versionBond, bondEpoch, revenue, cost>>

ClockEffect ==
  \/ Ticked \/ Promoted
  \/ \E v \in Versions : Bonded(v) \/ Unbonded(v) \/ Settled(v) \/ Forfeited(v)

LEMMA QuietClocks == TypeOK /\ (TimeStep \/ MoneyStep \/ MarketStep) => Ticked
<1>. SUFFICES ASSUME TypeOK, TimeStep \/ MoneyStep \/ MarketStep PROVE Ticked
  OBVIOUS
<1>1. now \in Nat /\ CurrentEpoch \in Nat /\ EPOCH_LENGTH \in Nat \ {0}
  BY ClockTypes, ClockAssumption DEF TypeOK
<1>2. CASE TimeStep
  <2>1. CASE AdvanceToNextEpoch
    <3>1. now < CurrentEpoch * EPOCH_LENGTH + EPOCH_LENGTH
      BY <1>1, DivBounds DEF CurrentEpoch
    <3>2. (CurrentEpoch + 1) * EPOCH_LENGTH = CurrentEpoch * EPOCH_LENGTH + EPOCH_LENGTH
      BY <1>1
    <3>3. now' \in Nat /\ now <= now'
      BY <1>1, <2>1, <3>1, <3>2 DEF AdvanceToNextEpoch
    <3>. QED
      BY <2>1, <3>3 DEF AdvanceToNextEpoch, Ticked, clockVars, versionVars, bondVars, econVars
  <2>2. ASSUME NEW s \in Advances, Advance(s) PROVE Ticked
    BY <1>1, <2>2, ClockAssumption
       DEF Advance, Ticked, clockVars, versionVars, bondVars, econVars
  <2>. QED
    BY <1>2, <2>1, <2>2 DEF TimeStep
<1>3. CASE MoneyStep
  <2>1. UNCHANGED <<now, clockVars>>
    BY <1>3 DEF MoneyStep, Mint, FundCommons, DirectTransferToArena, AbsorbSurplus, Donate, Endow,
                SettleOperatingExpense, clockVars, versionVars, bondVars, econVars
  <2>. QED
    BY <1>1, <2>1 DEF Ticked
<1>4. CASE MarketStep
  <2>1. UNCHANGED <<now, clockVars>>
    BY <1>4, ZenonT(60) DEF MarketStep, OpenMarketJob, SubmitMarketResult, AcceptMarketResult,
                RefundMarketJob, clockVars, versionVars, bondVars, econVars
  <2>. QED
    BY <1>1, <2>1 DEF Ticked
<1>. QED
  BY <1>2, <1>3, <1>4

LEMMA VersionClocks == TypeOK /\ SeatAgrees /\ VersionStep => ClockEffect
<1>. SUFFICES ASSUME TypeOK, SeatAgrees, NEW a \in Accounts, NEW v \in Versions,
                     \/ \E f \in Accounts, q \in Quorums :
                          CreateLineage(a, f, v, q) \/ RegisterVersion(a, f, v, q)
                     \/ ReclaimBond(a, v)
                     \/ Heartbeat(a, v)
              PROVE  ClockEffect
  BY DEF VersionStep
<1>1. ASSUME NEW f \in Accounts, NEW q \in Quorums, CreateLineage(a, f, v, q)
      PROVE  Bonded(v)
  <2>1. ~Registered(v)
    BY <1>1 DEF CreateLineage, SeatAgrees
  <2>. QED
    BY <1>1, <2>1 DEF CreateLineage, TakeBond, StoreVersion, Bonded, versionVars, econVars
<1>2. ASSUME NEW f \in Accounts, NEW q \in Quorums, RegisterVersion(a, f, v, q)
      PROVE  Bonded(v)
  BY <1>2 DEF RegisterVersion, TakeBond, StoreVersion, Bonded, versionVars, econVars
<1>3. CASE ReclaimBond(a, v)
  <2>1. Unbonded(v)
    BY <1>3 DEF ReclaimBond, Unbonded, versionVars, econVars
  <2>. QED
    BY <2>1 DEF ClockEffect
<1>4. CASE Heartbeat(a, v)
  <2>1. now \in Nat
    BY ClockTypes DEF TypeOK
  <2>2. Ticked
    BY <1>4, <2>1 DEF Heartbeat, Ticked, clockVars, bondVars, econVars
  <2>. QED
    BY <2>2 DEF ClockEffect
<1>. QED
  BY <1>1, <1>2, <1>3, <1>4 DEF ClockEffect

LEMMA RankedClocks == TypeOK /\ RankedStep => ClockEffect
<1>. SUFFICES ASSUME TypeOK, RankedStep PROVE ClockEffect
  OBVIOUS
<1>1. now \in Nat
  BY ClockTypes DEF TypeOK
<1>2. ASSUME NEW leaf \in Schedule, AuthorizeRankedJob(leaf) \/ CreateRankedJob(leaf)
      PROVE  Ticked
  BY <1>1, <1>2 DEF AuthorizeRankedJob, CreateRankedJob, Ticked, clockVars, versionVars,
                    bondVars, econVars
<1>3. ASSUME NEW j \in RankedJobIds, NEW a \in Accounts, NEW v \in Versions,
             NEW p \in Proofs, SubmitRankedResult(a, j, v, p)
      PROVE  Settled(v)
  <2>1. j \in DOMAIN rankedJobs
    BY <1>3 DEF SubmitRankedResult
  <2>2. rankedJobs[j] \in RankedJob
    BY <2>1, JobUpdate DEF TypeOK, JobTypes
  <2>3. rankedJobs[j].leaf.reward \in Nat /\ rankedJobs[j].leaf.cost \in Nat
    BY <2>2, InputAssumption DEF RankedJob, Leaf
  <2>. QED
    BY <1>3, <2>3 DEF SubmitRankedResult, BookRanked, MarkProfit, Settled, bondVars
<1>4. ASSUME NEW j \in RankedJobIds, ExpireRankedJob(j) PROVE Ticked
  BY <1>1, <1>4 DEF ExpireRankedJob, Ticked, clockVars, versionVars, bondVars, econVars
<1>. QED
  BY <1>2, <1>3, <1>4 DEF RankedStep, ClockEffect

LEMMA SelectionClocks == TypeOK /\ SeatAgrees /\ SelectionStep => ClockEffect
<1>. SUFFICES ASSUME TypeOK, SeatAgrees, SelectionStep PROVE ClockEffect
  OBVIOUS
<1>1. /\ now \in Nat
      /\ status \in [Versions -> {"none", "incubating", "active", "superseded", "stale"}]
  BY ClockTypes DEF TypeOK, VersionTypes
<1>2. ASSUME NEW v \in Versions, NEW e \in Epochs, NEW m \in BOOLEAN,
             MaySupersede(v, e, m), Succeed(v), SupersedeUnchanged
      PROVE  Promoted
  <2>. DEFINE incumbent == active[LineageOf[v]]
  <2>1. incumbent \in Versions /\ status[v] = "incubating"
    BY <1>2 DEF MaySupersede
  <2>2. status[incumbent] = "active"
    BY <2>1, IdsAssumption DEF SeatAgrees
  <2>3. status' = [status EXCEPT ![incumbent] = "superseded", ![v] = "active"]
    BY <1>2 DEF Succeed
  <2>. HIDE DEF incumbent
  <2>4. \A w \in Versions : /\ status'[w] = "none" <=> status[w] = "none"
                            /\ status'[w] = "stale" => status[w] = "stale"
    BY <1>1, <2>1, <2>2, <2>3
  <2>. QED
    BY <1>2, <2>4 DEF Promoted, SupersedeUnchanged, bondVars, econVars
<1>3. ASSUME NEW v \in Versions, NEW e \in Epochs, Supersede(v, e) PROVE Promoted
  BY <1>2, <1>3 DEF Supersede
<1>4. ASSUME NEW v \in Versions, NEW e \in Epochs, NEW s \in Salts, CommitSupersede(v, e, s)
      PROVE  Ticked
  BY <1>1, <1>4 DEF CommitSupersede, Ticked, clockVars, versionVars, bondVars, econVars
<1>5. ASSUME NEW v \in Versions, NEW e \in Epochs, NEW s \in Salts, RevealSupersede(v, e, s)
      PROVE  Ticked \/ Promoted
  <2>1. CASE MaySupersede(v, e, TRUE) /\ Succeed(v)
    BY <1>2, <1>5, <2>1 DEF RevealSupersede
  <2>2. CASE UNCHANGED <<status, successor, active, vaults>>
    BY <1>1, <1>5, <2>2
       DEF RevealSupersede, SupersedeUnchanged, Ticked, clockVars, bondVars, econVars
  <2>. QED
    BY <1>5, <2>1, <2>2 DEF RevealSupersede
<1>6. ASSUME NEW v \in Versions, NEW e \in Epochs, ClaimVacancy(v, e) PROVE Promoted
  BY <1>1, <1>6 DEF ClaimVacancy, Promoted, bondVars, econVars
<1>7. ASSUME NEW v \in Versions, NEW heir \in Versions \cup {Nobody}, EjectStale(v, heir)
      PROVE  Forfeited(v)
  BY <1>7 DEF EjectStale, Forfeited, econVars
<1>. QED
  BY <1>3, <1>4, <1>5, <1>6, <1>7 DEF SelectionStep, ClockEffect

LEMMA StepClocks == TypeOK /\ SeatAgrees /\ [Next]_vars => ClockEffect
<1>. SUFFICES ASSUME TypeOK, SeatAgrees, [Next]_vars PROVE ClockEffect
  OBVIOUS
<1>1. CASE UNCHANGED vars
  <2>1. now \in Nat
    BY ClockTypes DEF TypeOK
  <2>2. Ticked
    BY <1>1, <2>1 DEF Ticked, clockVars, vars, versionVars, bondVars, econVars
  <2>. QED
    BY <2>2 DEF ClockEffect
<1>. QED
  BY <1>1, QuietClocks, VersionClocks, RankedClocks, SelectionClocks DEF Next, ClockEffect

(***************************************************************************)
(* The clocks agree, and the mark covers every profit.                     *)
(***************************************************************************)
\* The types these clocks need, in one place.
ClockState ==
  /\ now \in Nat /\ CurrentEpoch \in Epochs /\ CurrentEpoch \in Nat
  /\ EPOCH_LENGTH \in Nat \ {0} /\ Epochs \subseteq Nat
  /\ status \in [Versions -> {"none", "incubating", "active", "superseded", "stale"}]
  /\ createdAt \in [Versions -> Nat] /\ lastPositive \in [Versions -> Nat \cup {Never}]
  /\ Never \notin Nat
  /\ versionBond \in [Versions -> Nat] /\ bondEpoch \in [Versions -> Nat]
  /\ revenue \in [Versions -> [Epochs -> Nat]] /\ cost \in [Versions -> [Epochs -> Nat]]

LEMMA ClockStateTypes == TypeOK => ClockState
<1>. SUFFICES ASSUME TypeOK PROVE ClockState
  OBVIOUS
<1>1. Epochs \subseteq Nat /\ Never \notin Nat
  BY ClockAssumption DEF Epochs, Never
<1>. QED
  BY <1>1, ClockTypes, ClockAssumption
     DEF TypeOK, VersionTypes, BondTypes, EconTypes, ClockState

LEMMA ClocksInduction ==
  ASSUME ClockState, ClocksAgree, ClockEffect PROVE ClocksAgree'
<1>. USE DEF ClockState
<1>1. CASE Ticked
  BY <1>1 DEF Ticked, clockVars, ClocksAgree, Registered
<1>2. CASE Promoted
  BY <1>2 DEF Promoted, ClocksAgree, Registered
<1>3. ASSUME NEW v \in Versions, Bonded(v) PROVE ClocksAgree'
  BY <1>3 DEF Bonded, ClocksAgree, Registered, CurrentEpoch
<1>4. ASSUME NEW v \in Versions, Unbonded(v) PROVE ClocksAgree'
  BY <1>4 DEF Unbonded, ClocksAgree, Registered
<1>5. ASSUME NEW v \in Versions, Settled(v) PROVE ClocksAgree'
  <2>1. /\ \A w \in Versions : w # v => revenue'[w] = revenue[w] /\ cost'[w] = cost[w]
        /\ Registered(v) /\ UNCHANGED <<now, status, createdAt, bondEpoch>>
        /\ \A w \in Versions : lastPositive'[w] = lastPositive[w]
                               \/ (w = v /\ lastPositive'[w] = now)
    BY <1>5 DEF Settled, Registered, Live
  <2>. QED
    BY <2>1 DEF ClocksAgree, Registered
<1>6. ASSUME NEW v \in Versions, Forfeited(v) PROVE ClocksAgree'
  BY <1>6 DEF Forfeited, ClocksAgree, Registered, Live
<1>. QED
  BY <1>1, <1>2, <1>3, <1>4, <1>5, <1>6 DEF ClockEffect

LEMMA MarkInduction ==
  ASSUME ClockState, ClocksAgree, MarkCoversProfit, ClockEffect PROVE MarkCoversProfit'
<1>. USE DEF ClockState
<1>1. CASE Ticked \/ Promoted \/ \E v \in Versions : Unbonded(v) \/ Forfeited(v)
  BY <1>1 DEF Ticked, Promoted, Unbonded, Forfeited, clockVars, MarkCoversProfit, Profit
<1>2. ASSUME NEW v \in Versions, Bonded(v) PROVE MarkCoversProfit'
  <2>1. \A e \in Epochs : ~(Profit(v, e) > 0)
    BY <1>2 DEF Bonded, ClocksAgree, Profit
  <2>. QED
    BY <1>2, <2>1 DEF Bonded, MarkCoversProfit, Profit
<1>3. ASSUME NEW v \in Versions, Settled(v) PROVE MarkCoversProfit'
  <2>1. PICK n \in Nat, c \in Nat :
          /\ Live(v)
          /\ revenue' = [revenue EXCEPT ![v][CurrentEpoch] = @ + n]
          /\ cost'    = [cost    EXCEPT ![v][CurrentEpoch] = @ + c]
          /\ lastPositive' = [lastPositive EXCEPT ![v] =
               IF Profit(v, CurrentEpoch) + n - c > 0 THEN now ELSE @]
    BY <1>3 DEF Settled
  <2>2. now >= CurrentEpoch * EPOCH_LENGTH
    BY DivBounds DEF CurrentEpoch
  <2>3. Registered(v)
    BY <2>1 DEF Live, Registered
  <2>4. \A w \in Versions, e \in Epochs :
          (w # v \/ e # CurrentEpoch) => revenue'[w][e] = revenue[w][e] /\ cost'[w][e] = cost[w][e]
    BY <2>1
  <2>5. /\ revenue'[v][CurrentEpoch] = revenue[v][CurrentEpoch] + n
        /\ cost'[v][CurrentEpoch] = cost[v][CurrentEpoch] + c
    BY <2>1
  <2>6. /\ \A w \in Versions : w # v => lastPositive'[w] = lastPositive[w]
        /\ lastPositive'[v] = IF Profit(v, CurrentEpoch) + n - c > 0 THEN now ELSE lastPositive[v]
    BY <2>1
  <2>7. ASSUME NEW w \in Versions, NEW e \in Epochs, (revenue'[w][e] - cost'[w][e]) > 0
        PROVE  lastPositive'[w] # Never /\ lastPositive'[w] >= e * EPOCH_LENGTH
    <3>1. CASE w # v
      BY <2>4, <2>6, <2>7, <3>1 DEF MarkCoversProfit, Profit
    <3>2. CASE w = v /\ e = CurrentEpoch
      <4>1. revenue[v][e] \in Nat /\ cost[v][e] \in Nat
        OBVIOUS
      <4>2. Profit(v, CurrentEpoch) + n - c > 0
        BY <2>5, <2>7, <3>2, <4>1 DEF Profit
      <4>. QED
        BY <2>2, <2>6, <3>2, <4>2
    <3>3. CASE w = v /\ e # CurrentEpoch
      <4>1. lastPositive[v] # Never /\ lastPositive[v] >= e * EPOCH_LENGTH
        BY <2>4, <2>7, <3>3 DEF MarkCoversProfit, Profit
      <4>2. lastPositive[v] \in Nat /\ lastPositive[v] <= now
        BY <2>3, <4>1 DEF ClocksAgree
      <4>3. e * EPOCH_LENGTH \in Nat
        OBVIOUS
      <4>. QED
        BY <2>6, <3>3, <4>1, <4>2, <4>3
    <3>. QED
      BY <3>1, <3>2, <3>3
  <2>. QED
    BY <2>7 DEF MarkCoversProfit, Profit
<1>. QED
  BY <1>1, <1>2, <1>3 DEF ClockEffect

(***************************************************************************)
(* A version that may be ejected may also be slashed.                      *)
(***************************************************************************)
LEMMA StaleMeansSlashed ==
  ASSUME ClockState, ClocksAgree, MarkCoversProfit, NEW v \in Versions,
         Live(v), now > StaleReference(v) + STALE_AFTER, versionBond[v] # 0
  PROVE  Slashed(v)
<1>. USE DEF ClockState
<1>. DEFINE E == EPOCH_LENGTH
            ref == StaleReference(v)
            born == createdAt[v] \div E
<1>1. STALE_AFTER \in Nat /\ STALE_AFTER >= 2 * E /\ E \in Nat \ {0}
  BY ClockAssumption
<1>2. Registered(v) /\ createdAt[v] \in Nat /\ bondEpoch[v] = born
  BY DEF Live, Registered, ClocksAgree
<1>3. ref \in Nat /\ createdAt[v] <= ref /\ ref + STALE_AFTER < now
  BY <1>1, <1>2 DEF ClocksAgree, StaleReference
<1>4. now < CurrentEpoch * E + E
  BY <1>1, DivBounds DEF CurrentEpoch
<1>5. born \in Nat /\ born * E <= createdAt[v]
  BY <1>1, <1>2, DivBounds
<1>. HIDE DEF ref, born, E
<1>6. born * E + 2 * E < CurrentEpoch * E + E
  <2>1. born * E \in Nat /\ CurrentEpoch * E \in Nat /\ now \in Nat
    BY <1>1, <1>5
  <2>2. born * E + 2 * E <= ref + STALE_AFTER
    BY <1>1, <1>2, <1>3, <1>5, <2>1
  <2>. QED
    BY <1>1, <1>3, <1>4, <2>1, <2>2
<1>7. CurrentEpoch - born >= 2
  <2>1. SUFFICES ASSUME CurrentEpoch <= born + 1 PROVE FALSE
    BY <1>5
  <2>2. CurrentEpoch * E <= (born + 1) * E
    BY <1>1, <1>5, <2>1
  <2>3. (born + 1) * E = born * E + E
    BY <1>1, <1>5
  <2>4. born * E \in Nat /\ CurrentEpoch * E \in Nat
    BY <1>1, <1>5
  <2>. QED
    BY <1>1, <1>6, <2>2, <2>3, <2>4
<1>8. ~Earned(v, CurrentEpoch - 1)
  <2>. DEFINE last == CurrentEpoch - 1
  <2>1. SUFFICES ASSUME Profit(v, last) > 0 PROVE FALSE
    BY DEF Earned
  <2>2. last \in Epochs /\ last \in Nat
    BY <1>5, <1>7, ClockAssumption DEF Epochs
  <2>3. lastPositive[v] # Never /\ lastPositive[v] >= last * E
    BY <2>1, <2>2 DEF MarkCoversProfit, E
  <2>4. ref >= last * E
    BY <2>3 DEF ref, StaleReference
  <2>5. last * E = CurrentEpoch * E - E
    BY <1>1
  <2>6. CurrentEpoch * E \in Nat
    BY <1>1
  <2>. QED
    BY <1>1, <1>3, <1>4, <2>4, <2>5, <2>6
<1>. QED
  BY <1>2, <1>7, <1>8 DEF Slashed

LEMMA ForfeitInduction ==
  ASSUME ClockState, ClocksAgree, MarkCoversProfit, StaleForfeitsBond, ClockEffect
  PROVE  StaleForfeitsBond'
<1>. USE DEF ClockState
<1>1. CASE Ticked \/ Promoted
  BY <1>1 DEF Ticked, Promoted, clockVars, StaleForfeitsBond
<1>2. ASSUME NEW v \in Versions, Bonded(v) PROVE StaleForfeitsBond'
  BY <1>2 DEF Bonded, Registered, StaleForfeitsBond
<1>3. ASSUME NEW v \in Versions, Unbonded(v) \/ Settled(v) PROVE StaleForfeitsBond'
  BY <1>3 DEF Unbonded, Settled, StaleForfeitsBond
<1>4. ASSUME NEW v \in Versions, Forfeited(v) PROVE StaleForfeitsBond'
  <2>1. versionBond[v] # 0 => Slashed(v)
    BY <1>4, StaleMeansSlashed DEF Forfeited
  <2>2. versionBond' = [versionBond EXCEPT ![v] = 0]
    BY <1>4, <2>1 DEF Forfeited
  <2>. QED
    BY <1>4, <2>2 DEF Forfeited, StaleForfeitsBond
<1>. QED
  BY <1>1, <1>2, <1>3, <1>4 DEF ClockEffect

LEMMA BondInitially == Init => ClocksAgree /\ MarkCoversProfit /\ StaleForfeitsBond
BY DEF Init, ClocksAgree, MarkCoversProfit, StaleForfeitsBond, Registered, Profit

LEMMA BondInductive ==
  TypeOK /\ SeatAgrees /\ (ClocksAgree /\ MarkCoversProfit /\ StaleForfeitsBond) /\ [Next]_vars
    => (ClocksAgree /\ MarkCoversProfit /\ StaleForfeitsBond)'
BY StepClocks, ClockStateTypes, ClocksInduction, MarkInduction, ForfeitInduction

(* A profit in some epoch always leaves a mark no older than that epoch, so
   ejection, which reads the mark, never retires a version that the last two
   epochs show to be profitable. *)
THEOREM MarkCorrect == Spec => [](ClocksAgree /\ MarkCoversProfit /\ StaleForfeitsBond)
BY BondInitially, BondInductive, TypeCorrect, SeatCorrect, PTL DEF Spec

(* Whatever the epoch length and the staleness period, as long as the latter
   is at least two epochs (30 days against 7 in the code), an ejected version
   keeps no bond that its operator could still reclaim. *)
THEOREM ForfeitCorrect == Spec => []StaleForfeitsBond
BY MarkCorrect, PTL

(* The clocks that ejection, reclaim and the heir rule compare always tell one
   story: bonds date from registration, marks lie between it and now. *)
THEOREM ClocksCorrect == Spec => []ClocksAgree
BY MarkCorrect, PTL

(***************************************************************************)
(* One outlier epoch does not lift a version to the seat.                  *)
(***************************************************************************)
IsNth(f, S, n, p) == Cardinality(Below(f, S, p)) <= n /\ n < Cardinality(UpTo(f, S, p))

LEMMA EpochsInRange ==
  ASSUME TypeOK, NEW v \in Versions, NEW e
  PROVE  /\ IsFiniteSet(Window(e)) /\ \A x \in Window(e) : Profit(v, x) \in Int
         /\ Cardinality(Window(e)) \in Nat
<1>1. MaxTime \div EPOCH_LENGTH \in Int
  BY ClockAssumption
<1>2. IsFiniteSet(Epochs) /\ Window(e) \in SUBSET Epochs
  BY <1>1, FS_Interval DEF Window, Epochs
<1>3. \A x \in Epochs : Profit(v, x) \in Int
  BY DEF TypeOK, EconTypes, Profit
<1>. QED
  BY <1>2, <1>3, FS_Subset, FS_CardinalityType

LEMMA NthIs ==
  ASSUME NEW v, NEW S, IsFiniteSet(S), \A x \in S : Profit(v, x) \in Int,
         NEW n \in Nat, n < Cardinality(S)
  PROVE  /\ NthProfit(v, S, n) \in Int
         /\ IsNth([x \in S |-> Profit(v, x)], S, n, NthProfit(v, S, n))
<1>. DEFINE gains == [x \in S |-> Profit(v, x)]
            values == {Profit(v, x) : x \in S}
<1>1. \A x \in S : gains[x] = Profit(v, x) /\ gains[x] \in Int
  OBVIOUS
<1>2. \E x \in S : IsNth(gains, S, n, gains[x])
  <2>. HIDE DEF gains
  <2>. QED
    BY <1>1, OrderStatistic DEF IsNth
<1>3. NthProfit(v, S, n) = CHOOSE p \in values : IsNth(gains, S, n, p)
  <2>1. \A p : /\ {x \in S : Profit(v, x) < p} = Below(gains, S, p)
               /\ {x \in S : Profit(v, x) <= p} = UpTo(gains, S, p)
    BY <1>1 DEF Below, UpTo
  <2>. QED
    BY <2>1 DEF NthProfit, IsNth
<1>4. values \subseteq Int /\ \E p \in values : IsNth(gains, S, n, p)
  BY <1>1, <1>2
<1>. HIDE DEF values, gains
<1>5. NthProfit(v, S, n) \in values /\ IsNth(gains, S, n, NthProfit(v, S, n))
  BY <1>3, <1>4
<1>. QED
  BY <1>4, <1>5 DEF gains

\* An order statistic is not below an earlier one.
LEMMA NthGrows ==
  ASSUME NEW f, NEW S, IsFiniteSet(S), \A x \in S : f[x] \in Int, NEW m \in Nat, NEW n \in Nat,
         m <= n, NEW p \in Int, NEW q \in Int, IsNth(f, S, m, p), IsNth(f, S, n, q)
  PROVE  p <= q
<1>. SUFFICES ASSUME q < p PROVE FALSE
  OBVIOUS
<1>1. UpTo(f, S, q) \in SUBSET Below(f, S, p) /\ Below(f, S, p) \in SUBSET S
  BY DEF UpTo, Below
<1>2. IsFiniteSet(Below(f, S, p)) /\ IsFiniteSet(UpTo(f, S, q))
  BY <1>1, FS_Subset
<1>3. Cardinality(UpTo(f, S, q)) <= Cardinality(Below(f, S, p))
  BY <1>1, <1>2, FS_Subset
<1>4. Cardinality(UpTo(f, S, q)) \in Nat /\ Cardinality(Below(f, S, p)) \in Nat
  BY <1>2, FS_CardinalityType
<1>. QED
  BY <1>3, <1>4 DEF IsNth

\* With a positive median, the value in the middle or the one above it is positive.
LEMMA PositiveMedian ==
  ASSUME TypeOK, NEW v \in Versions, NEW e, Window(e) # {}, MedianProfit(v, e) > 0
  PROVE  \E p \in Int : /\ p > 0
                        /\ Cardinality(Below([x \in Window(e) |-> Profit(v, x)], Window(e), p))
                             <= Cardinality(Window(e)) \div 2
<1>. DEFINE size == Cardinality(Window(e))
            mid  == size \div 2
            nth(n) == NthProfit(v, Window(e), n)
            gains == [x \in Window(e) |-> Profit(v, x)]
<1>1. /\ IsFiniteSet(Window(e)) /\ size \in Nat \ {0}
      /\ \A x \in Window(e) : Profit(v, x) \in Int
  BY EpochsInRange, FS_EmptySet
<1>2. mid \in Nat /\ mid < size
  BY <1>1
<1>3. nth(mid) \in Int /\ IsNth(gains, Window(e), mid, nth(mid))
  BY <1>1, <1>2, NthIs
<1>4. nth(mid) > 0
  <2>1. CASE size % 2 = 1
    BY <2>1 DEF MedianProfit
  <2>2. CASE size % 2 # 1
    <3>1. mid - 1 \in Nat /\ mid - 1 < size
      BY <1>1, <2>2
    <3>2. nth(mid - 1) \in Int /\ IsNth(gains, Window(e), mid - 1, nth(mid - 1))
      BY <1>1, <3>1, NthIs
    <3>3. nth(mid - 1) <= nth(mid)
      <4>1. \A x \in Window(e) : gains[x] \in Int
        BY <1>1
      <4>2. mid - 1 <= mid
        BY <1>2
      <4>. HIDE DEF gains, mid
      <4>. QED
        BY <1>1, <1>2, <1>3, <3>1, <3>2, <4>1, <4>2, NthGrows
    <3>4. (nth(mid - 1) + nth(mid)) \div 2 > 0
      BY <2>2 DEF MedianProfit
    <3>. HIDE DEF nth
    <3>. QED
      BY <1>3, <3>2, <3>3, <3>4
  <2>. QED
    BY <2>1, <2>2
<1>. QED
  BY <1>3, <1>4 DEF IsNth

\* A call that both reveals a commitment and changes a seat is a won reveal.
LEMMA SeatByReveal ==
  ASSUME Next, NEW v \in Versions, NEW e \in Epochs, NEW s \in Salts,
         Hash(v, e, s) \in revealed' \ revealed, active' # active
  PROVE  MaySupersede(v, e, TRUE)
<1>1. CASE TimeStep \/ MoneyStep \/ RankedStep \/ MarketStep
  BY <1>1, QuietSteps
<1>2. CASE VersionStep
  BY <1>2 DEF VersionStep, CreateLineage, RegisterVersion, ReclaimBond, Heartbeat, commitVars
<1>3. CASE SelectionStep
  <2>1. \A w, heir : ~EjectStale(w, heir)
    BY DEF EjectStale, commitVars
  <2>2. \A w, d : ~Supersede(w, d) /\ ~ClaimVacancy(w, d)
    BY DEF Supersede, ClaimVacancy, commitVars
  <2>3. \A w, d, t : ~CommitSupersede(w, d, t)
    BY DEF CommitSupersede
  <2>4. PICK w \in Versions, d \in Epochs, t \in Salts : RevealSupersede(w, d, t)
    BY <1>3, <2>1, <2>2, <2>3, Zenon DEF SelectionStep
  <2>5. Hash(v, e, s) = Hash(w, d, t)
    BY <2>4 DEF RevealSupersede
  <2>6. v = w /\ e = d
    BY <2>5 DEF Hash
  <2>. QED
    BY <2>4, <2>6 DEF RevealSupersede
<1>. QED
  BY <1>1, <1>2, <1>3 DEF Next

(* A reveal takes the seat only with two profitable epochs of a window of three
   or more, for the median of an even window, too. *)
THEOREM RevealCorrect == Spec => NoOutlierReveal
<1>1. ASSUME TypeOK, Next, NEW v \in Versions, NEW e \in Epochs, NEW s \in Salts,
             Hash(v, e, s) \in revealed' \ revealed, active' # active, Cardinality(Window(e)) >= 3
      PROVE  Cardinality({x \in Window(e) : Profit(v, x) > 0}) >= 2
  <2>. DEFINE gains == [x \in Window(e) |-> Profit(v, x)]
  <2>1. MedianProfit(v, e) > 0
    BY <1>1, SeatByReveal DEF MaySupersede, Metric
  <2>2. Window(e) # {}
    BY <1>1, FS_EmptySet
  <2>3. PICK p \in Int : /\ p > 0
                         /\ Cardinality(Below(gains, Window(e), p)) <= Cardinality(Window(e)) \div 2
    BY <1>1, <2>1, <2>2, PositiveMedian
  <2>4. IsFiniteSet(Window(e)) /\ \A x \in Window(e) : gains[x] \in Int /\ gains[x] = Profit(v, x)
    BY <1>1, EpochsInRange
  <2>5. Cardinality({x \in Window(e) : gains[x] > 0}) >= 2
    <3>. HIDE DEF gains
    <3>. QED
      BY <1>1, <2>3, <2>4, MoreThanOne
  <2>6. {x \in Window(e) : gains[x] > 0} = {x \in Window(e) : Profit(v, x) > 0}
    BY <2>4
  <2>. QED
    BY <2>5, <2>6
<1>. DEFINE Sound == \A v \in Versions, e \in Epochs, s \in Salts :
                       /\ Hash(v, e, s) \in revealed' \ revealed /\ active' # active
                       /\ Cardinality(Window(e)) >= 3
                       => Cardinality({x \in Window(e) : Profit(v, x) > 0}) >= 2
<1>2. TypeOK /\ [Next]_vars => [Sound]_vars
  BY <1>1
<1>. QED
  BY <1>2, TypeCorrect, PTL DEF Spec, NoOutlierReveal
=============================================================================
