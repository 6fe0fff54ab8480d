---------------------------- MODULE ArenaMarket -----------------------------
(***************************************************************************)
(* Customer escrow: a buyer locks a reward for a version's lineage, the    *)
(* live beneficiary performs, the buyer (or an objective proof) accepts or *)
(* the buyer is refunded after the deadline (arena.py, "subjective         *)
(* customer escrow").                                                      *)
(***************************************************************************)
EXTENDS ArenaState

OpenMarketJob(buyer, target, reward, deadline, verifier) ==
  /\ LiveBeneficiary(target) \in Versions
  /\ deadline > now
  /\ Sufficient(buyer, reward)
  /\ Len(marketJobs) < MaxMarketJobs
  /\ Debit(buyer, reward)
  /\ marketEscrow' = marketEscrow + reward
  /\ marketJobs' = Append(marketJobs, [buyer |-> buyer, target |-> target,
       reward |-> reward, deadline |-> deadline, verifier |-> verifier,
       status |-> "open", performer |-> Nobody])
  /\ UNCHANGED <<now, versionVars, lineageVars, bondVars, vaults, commonsAvailable,
                 commonsReserved, surplus, minted, bookVars, econVars, authorizations,
                 authorizationUsed, rankedJobs, proofUsed, commitVars>>

\* Releases a job's reward to the beneficiary, or to the commons when there is none.
PayReward(beneficiary, reward) ==
  /\ marketEscrow' = marketEscrow - reward
  /\ IF beneficiary \in Versions
     THEN /\ vaults' = [vaults EXCEPT ![beneficiary] = @ + reward]
          /\ marketRevenue' = [marketRevenue EXCEPT ![beneficiary] = @ + reward]
          /\ UNCHANGED commonsAvailable
     ELSE /\ commonsAvailable' = commonsAvailable + reward
          /\ UNCHANGED <<vaults, marketRevenue>>

\* The performer is whoever is live for the target NOW, not when the job was opened.
SubmitMarketResult(operator, j, proofValid) ==
  LET job       == marketJobs[j]
      performer == LiveBeneficiary(job.target)
      accepted  == job.verifier /\ proofValid
  IN  /\ j \in DOMAIN marketJobs
      /\ job.status = "open" /\ now <= job.deadline
      /\ performer \in Versions
      /\ operator = OperatorOf[performer] /\ Fresh(performer)
      /\ marketJobs' = [marketJobs EXCEPT ![j] = [@ EXCEPT !.performer = performer,
                          !.status = IF accepted THEN "accepted" ELSE "submitted"]]
      /\ \/ accepted /\ PayReward(performer, job.reward)      \* performer is live
         \/ ~accepted /\ UNCHANGED <<marketEscrow, vaults, marketRevenue, commonsAvailable>>
      /\ UNCHANGED <<now, versionVars, lineageVars, bondVars, wallets, commonsReserved,
                     surplus, minted, capitalIn, operatingSpent, burned, dailyExpense,
                     econVars, authorizations, authorizationUsed, rankedJobs, proofUsed,
                     commitVars>>

\* The performer may have been superseded or ejected since it submitted.
AcceptMarketResult(buyer, j) ==
  LET job == marketJobs[j]
      performer == IF job.performer = Nobody THEN job.target ELSE job.performer
  IN  /\ j \in DOMAIN marketJobs
      /\ job.status = "submitted" /\ buyer = job.buyer
      /\ marketJobs' = [marketJobs EXCEPT ![j] = [@ EXCEPT !.status = "accepted"]]
      /\ PayReward(LiveBeneficiary(performer), job.reward)
      /\ UNCHANGED <<now, versionVars, lineageVars, bondVars, wallets, commonsReserved,
                     surplus, minted, capitalIn, operatingSpent, burned, dailyExpense,
                     econVars, authorizations, authorizationUsed, rankedJobs, proofUsed,
                     commitVars>>

\* Mutant of Refundable: work that was submitted can no longer be refunded.
RefundableIfOpen(job) == job.status = "open" /\ now > job.deadline
\* Mutant of Refundable: a reward that was paid out can still be refunded.
RefundableUnlessRefunded(job) == job.status # "refunded" /\ now > job.deadline
Refundable(job) == job.status \in {"open", "submitted"} /\ now > job.deadline

RefundMarketJob(buyer, j) ==
  LET job == marketJobs[j]
  IN  /\ j \in DOMAIN marketJobs
      /\ Refundable(job) /\ buyer = job.buyer
      /\ marketJobs' = [marketJobs EXCEPT ![j] = [@ EXCEPT !.status = "refunded"]]
      /\ marketEscrow' = marketEscrow - job.reward
      /\ Credit(buyer, job.reward)
      /\ UNCHANGED <<now, versionVars, lineageVars, bondVars, vaults, commonsAvailable,
                     commonsReserved, surplus, minted, bookVars, econVars,
                     authorizations, authorizationUsed, rankedJobs, proofUsed,
                     commitVars>>
=============================================================================
