----------------------------- MODULE ArenaMoney -----------------------------
(***************************************************************************)
(* Time and money: advance, mint, the commons, donations and the operating *)
(* expenses a version pays out of its vault (arena.py, "money").           *)
(***************************************************************************)
EXTENDS ArenaState

Advance(seconds) ==
  /\ now + seconds <= MaxTime
  /\ now' = now + seconds
  /\ UNCHANGED <<versionVars, lineageVars, bondVars, wallets, vaults, poolVars, minted,
                 bookVars, econVars, jobVars, commitVars>>

AdvanceToNextEpoch ==
  /\ (CurrentEpoch + 1) * EPOCH_LENGTH <= MaxTime
  /\ now' = (CurrentEpoch + 1) * EPOCH_LENGTH
  /\ UNCHANGED <<versionVars, lineageVars, bondVars, wallets, vaults, poolVars, minted,
                 bookVars, econVars, jobVars, commitVars>>

Mint(account, amount) ==
  /\ minted + amount <= MaxMinted
  /\ Credit(account, amount)
  /\ minted' = minted + amount
  /\ UNCHANGED <<now, versionVars, lineageVars, bondVars, vaults, poolVars,
                 bookVars, econVars, jobVars, commitVars>>

FundCommons(donor, amount) ==
  /\ Sufficient(donor, amount)
  /\ Debit(donor, amount)
  /\ commonsAvailable' = commonsAvailable + amount
  /\ UNCHANGED <<now, versionVars, lineageVars, bondVars, vaults, commonsReserved,
                 marketEscrow, surplus, minted, bookVars, econVars, jobVars, commitVars>>

\* A token transfer that bypasses the entrypoints: nobody's book records it.
DirectTransferToArena(donor, amount) ==
  /\ Sufficient(donor, amount)
  /\ Debit(donor, amount)
  /\ surplus' = surplus + amount
  /\ UNCHANGED <<now, versionVars, lineageVars, bondVars, vaults, commonsAvailable,
                 commonsReserved, marketEscrow, minted, bookVars, econVars, jobVars,
                 commitVars>>

AbsorbSurplus ==
  /\ surplus > 0
  /\ surplus' = 0
  /\ commonsAvailable' = commonsAvailable + surplus
  /\ UNCHANGED <<now, versionVars, lineageVars, bondVars, wallets, vaults,
                 commonsReserved, marketEscrow, minted, bookVars, econVars, jobVars,
                 commitVars>>

Endow(v, amount) ==
  /\ vaults'    = [vaults    EXCEPT ![v] = @ + amount]
  /\ capitalIn' = [capitalIn EXCEPT ![v] = @ + amount]

Donate(donor, v, amount) ==
  LET beneficiary == LiveBeneficiary(v)
  IN  /\ beneficiary \in Versions
      /\ Sufficient(donor, amount)
      /\ Debit(donor, amount)
      /\ Endow(beneficiary, amount)
      /\ UNCHANGED <<now, versionVars, lineageVars, bondVars, poolVars, minted,
                     marketRevenue, operatingSpent, burned, dailyExpense, econVars,
                     jobVars, commitVars>>

UnderCap(v, amount) == dailyExpense[v][Today] + amount <= DAILY_EXPENSE_CAP

Spend(v, amount) ==
  /\ vaults'         = [vaults         EXCEPT ![v] = @ - amount]
  /\ operatingSpent' = [operatingSpent EXCEPT ![v] = @ + amount]
  /\ dailyExpense'   = [dailyExpense   EXCEPT ![v][Today] = @ + amount]

\* Above a tenth of the daily cap the expense needs a quorum of the signers.
SettleOperatingExpense(operator, v, recipient, amount, proof) ==
  /\ operator = OperatorOf[v] /\ Live(v)
  /\ proof \notin proofUsed
  /\ CanPay(v, amount) /\ UnderCap(v, amount)
  /\ amount > DAILY_EXPENSE_CAP \div 10 => QuorumSigns(v)
  /\ proofUsed' = proofUsed \cup {proof}
  /\ Spend(v, amount)
  /\ Credit(recipient, amount)
  /\ UNCHANGED <<now, versionVars, lineageVars, bondVars, poolVars, minted, capitalIn,
                 marketRevenue, burned, econVars, authorizations, authorizationUsed,
                 rankedJobs, marketJobs, commitVars>>
=============================================================================
