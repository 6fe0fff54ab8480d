--------------------------- MODULE ArenaVersions ----------------------------
(***************************************************************************)
(* Registration, the registration bond and the heartbeat (arena.py,        *)
(* "source/runtime registration").  The declaration check has no state:    *)
(* a rejected declaration is a call that changes nothing.                  *)
(***************************************************************************)
EXTENDS ArenaState

\* The quorum is checked AFTER the bond has been taken.
ValidQuorum(operator, quorum) ==
  /\ quorum.threshold \in 1 .. Len(quorum.signers)
  /\ operator \in Range(quorum.signers)

\* Mutant of TakeBond: a bond left by a rejected registration keeps its epoch.
TakeBondAgain(funder, v) ==
  /\ Sufficient(funder, VERSION_BOND)
  /\ Debit(funder, VERSION_BOND)
  /\ versionBond' = [versionBond EXCEPT ![v] = VERSION_BOND]
  /\ bondEpoch'   = [bondEpoch   EXCEPT ![v] = IF versionBond[v] = 0 THEN CurrentEpoch ELSE @]
  /\ commonsAvailable' = commonsAvailable + VERSION_BOND

\* Mutant of TakeBond: the commons do not hold the bond.
TakeBondUnheld(funder, v) ==
  /\ Sufficient(funder, VERSION_BOND)
  /\ Debit(funder, VERSION_BOND)
  /\ versionBond' = [versionBond EXCEPT ![v] = VERSION_BOND]
  /\ bondEpoch'   = [bondEpoch   EXCEPT ![v] = CurrentEpoch]
  /\ UNCHANGED commonsAvailable

TakeBond(funder, v) ==
  /\ Sufficient(funder, VERSION_BOND)
  /\ Debit(funder, VERSION_BOND)
  /\ versionBond' = [versionBond EXCEPT ![v] = VERSION_BOND]
  /\ bondEpoch'   = [bondEpoch   EXCEPT ![v] = CurrentEpoch]
  /\ commonsAvailable' = commonsAvailable + VERSION_BOND

StoreVersion(v, quorum, newStatus) ==
  /\ signers'       = [signers       EXCEPT ![v] = quorum.signers]
  /\ threshold'     = [threshold     EXCEPT ![v] = quorum.threshold]
  /\ status'        = [status        EXCEPT ![v] = newStatus]
  /\ createdAt'     = [createdAt     EXCEPT ![v] = now]
  /\ lastHeartbeat' = [lastHeartbeat EXCEPT ![v] = now]
  /\ lastPositive'  = [lastPositive  EXCEPT ![v] = Never]
  /\ successor'     = [successor     EXCEPT ![v] = Nobody]
  /\ order' = [order EXCEPT ![LineageOf[v]] = Append(@, v)]

CreateLineage(operator, funder, v, quorum) ==
  /\ operator = OperatorOf[v] /\ ParentOf[v] = Nobody
  /\ active[LineageOf[v]] = Unfounded
  /\ TakeBond(funder, v)
  /\ \/ /\ ValidQuorum(operator, quorum)
        /\ StoreVersion(v, quorum, "active")
        /\ active' = [active EXCEPT ![LineageOf[v]] = v]
     \/ /\ ~ValidQuorum(operator, quorum)          \* raises: no version, bond kept
        /\ UNCHANGED <<versionVars, lineageVars>>
  /\ UNCHANGED <<now, vaults, commonsReserved, marketEscrow, surplus, minted, bookVars,
                 econVars, jobVars, commitVars>>

RegisterVersion(operator, funder, v, quorum) ==
  /\ operator = OperatorOf[v] /\ ParentOf[v] \in Versions
  /\ active[LineageOf[v]] # Unfounded
  /\ Registered(ParentOf[v]) /\ LineageOf[ParentOf[v]] = LineageOf[v]
  /\ ~Registered(v)
  /\ TakeBond(funder, v)
  /\ \/ /\ ValidQuorum(operator, quorum)
        /\ StoreVersion(v, quorum, "incubating")
     \/ /\ ~ValidQuorum(operator, quorum)
        /\ UNCHANGED <<versionVars, order>>
  /\ UNCHANGED <<now, active, vaults, commonsReserved, marketEscrow, surplus, minted,
                 bookVars, econVars, jobVars, commitVars>>

\* version_bond is zeroed before the commons are found to be short.
ReclaimBond(operator, v) ==
  LET amount == versionBond[v]
  IN  /\ Registered(v) /\ operator = OperatorOf[v]
      /\ amount # 0
      /\ CurrentEpoch > bondEpoch[v]
      /\ Earned(v, CurrentEpoch - 1)
      /\ versionBond' = [versionBond EXCEPT ![v] = 0]
      /\ \/ /\ commonsAvailable >= amount
            /\ commonsAvailable' = commonsAvailable - amount
            /\ Credit(operator, amount)
         \/ /\ commonsAvailable < amount           \* raises: the bond is gone
            /\ UNCHANGED <<commonsAvailable, wallets>>
      /\ UNCHANGED <<now, versionVars, lineageVars, bondEpoch, vaults, commonsReserved,
                     marketEscrow, surplus, minted, bookVars, econVars, jobVars,
                     commitVars>>

\* Mutant of Slashed: off by one epoch.
SlashedLate(v) ==
  /\ versionBond[v] # 0
  /\ CurrentEpoch - bondEpoch[v] > 2
  /\ ~Earned(v, CurrentEpoch - 1)

\* _slash_bond_if_unprofitable: the part of ejection that forfeits the bond.
Slashed(v) ==
  /\ versionBond[v] # 0
  /\ CurrentEpoch - bondEpoch[v] >= 2
  /\ ~Earned(v, CurrentEpoch - 1)

Heartbeat(operator, v) ==
  /\ operator = OperatorOf[v] /\ Live(v)
  /\ CanPay(v, HEARTBEAT_BURN)
  /\ vaults' = [vaults EXCEPT ![v] = @ - HEARTBEAT_BURN]
  /\ commonsAvailable' = commonsAvailable + HEARTBEAT_BURN
  /\ burned' = burned + HEARTBEAT_BURN
  /\ lastHeartbeat' = [lastHeartbeat EXCEPT ![v] = now]
  /\ UNCHANGED <<now, status, createdAt, lastPositive, successor, signers, threshold,
                 lineageVars, bondVars, wallets, commonsReserved, marketEscrow, surplus,
                 minted, capitalIn, marketRevenue, operatingSpent, dailyExpense,
                 econVars, jobVars, commitVars>>
=============================================================================
