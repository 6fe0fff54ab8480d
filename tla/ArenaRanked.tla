---------------------------- MODULE ArenaRanked -----------------------------
(***************************************************************************)
(* The precommitted schedule of objective jobs and their settlement, the   *)
(* only thing a version's rank is computed from (arena.py, "immutable      *)
(* ranked schedule").  A leaf is identified by its content, as its hash    *)
(* is: authorizing it again stores the same leaf.                          *)
(***************************************************************************)
EXTENDS ArenaState

AuthorizeRankedJob(leaf) ==
  /\ leaf.deadline > now
  /\ authorizations' = authorizations \cup {leaf}
  /\ UNCHANGED <<now, versionVars, lineageVars, bondVars, wallets, vaults, poolVars,
                 minted, bookVars, econVars, authorizationUsed, rankedJobs, marketJobs,
                 proofUsed, commitVars>>

Authorized(leaf) == leaf \in authorizations /\ leaf \notin authorizationUsed

CreateRankedJob(leaf) ==
  /\ Authorized(leaf)
  /\ leaf.deadline > now
  /\ commonsAvailable >= leaf.reward
  /\ Len(rankedJobs) < MaxRankedJobs
  /\ authorizationUsed' = authorizationUsed \cup {leaf}
  /\ commonsAvailable' = commonsAvailable - leaf.reward
  /\ commonsReserved'  = commonsReserved + leaf.reward
  /\ rankedJobs' = Append(rankedJobs, [leaf |-> leaf, status |-> "open",
                     winner |-> Nobody, epoch |-> Never, proof |-> Nobody])
  /\ UNCHANGED <<now, versionVars, lineageVars, bondVars, wallets, vaults, marketEscrow,
                 surplus, minted, bookVars, econVars, authorizations, marketJobs,
                 proofUsed, commitVars>>

SettleRankedJob(j, v, proof) ==
  rankedJobs' = [rankedJobs EXCEPT ![j] =
    [@ EXCEPT !.status = "settled", !.winner = v, !.epoch = CurrentEpoch, !.proof = proof]]

\* Mutant of BookRanked: the revenue is read off the vault, whatever filled it.
BookVault(v, leaf) ==
  /\ revenue' = [revenue EXCEPT ![v][CurrentEpoch] = vaults[v] + leaf.reward]
  /\ cost'    = [cost    EXCEPT ![v][CurrentEpoch] = @ + leaf.cost]

BookRanked(v, leaf) ==
  /\ revenue' = [revenue EXCEPT ![v][CurrentEpoch] = @ + leaf.reward]
  /\ cost'    = [cost    EXCEPT ![v][CurrentEpoch] = @ + leaf.cost]

\* Mutant of MarkProfit: reads the economy before the settlement is booked.
MarkBeforeBooking(v, leaf) ==
  lastPositive' = [lastPositive EXCEPT ![v] = IF Profit(v, CurrentEpoch) > 0 THEN now ELSE @]

\* last_positive_profit_at follows the epoch's running profit, not the job's.
MarkProfit(v, leaf) ==
  lastPositive' = [lastPositive EXCEPT ![v] =
    IF Profit(v, CurrentEpoch) + leaf.reward - leaf.cost > 0 THEN now ELSE @]

\* The vault pays the verified cost before it receives the reward.
SubmitRankedResult(operator, j, v, proof) ==
  LET leaf == rankedJobs[j].leaf
  IN  /\ j \in DOMAIN rankedJobs
      /\ rankedJobs[j].status = "open" /\ now <= leaf.deadline
      /\ operator = OperatorOf[v] /\ Live(v) /\ Fresh(v)
      /\ proof \notin proofUsed
      /\ CanPay(v, leaf.cost)
      /\ proofUsed' = proofUsed \cup {proof}
      /\ SettleRankedJob(j, v, proof)
      /\ commonsReserved' = commonsReserved - leaf.reward
      /\ Credit(leaf.recipient, leaf.cost)
      /\ vaults'  = [vaults  EXCEPT ![v] = @ - leaf.cost + leaf.reward]
      /\ BookRanked(v, leaf)
      /\ MarkProfit(v, leaf)
      /\ UNCHANGED <<now, status, createdAt, lastHeartbeat, successor, signers, threshold,
                     lineageVars, bondVars, commonsAvailable, marketEscrow, surplus,
                     minted, bookVars, authorizations, authorizationUsed, marketJobs,
                     commitVars>>

ExpireRankedJob(j) ==
  LET leaf == rankedJobs[j].leaf
  IN  /\ j \in DOMAIN rankedJobs
      /\ rankedJobs[j].status = "open" /\ now > leaf.deadline
      /\ rankedJobs' = [rankedJobs EXCEPT ![j] = [@ EXCEPT !.status = "expired"]]
      /\ commonsReserved'  = commonsReserved - leaf.reward
      /\ commonsAvailable' = commonsAvailable + leaf.reward
      /\ UNCHANGED <<now, versionVars, lineageVars, bondVars, wallets, vaults,
                     marketEscrow, surplus, minted, bookVars, econVars, authorizations,
                     authorizationUsed, marketJobs, proofUsed, commitVars>>
=============================================================================
