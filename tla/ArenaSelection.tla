--------------------------- MODULE ArenaSelection ---------------------------
(***************************************************************************)
(* Selection: who holds the active seat of a lineage.  supersede compares  *)
(* one closed epoch, commit/reveal compares medians, eject_stale vacates   *)
(* the seat and claim_vacancy fills it (arena.py, "selection").            *)
(***************************************************************************)
EXTENDS ArenaVersions

\* median_profit, with order statistics in place of the sort.
Window(epoch) == {e \in Epochs : e <= epoch /\ e > epoch - PROFIT_WINDOW_EPOCHS}
NthProfit(v, epochs, n) ==
  LET Below(p)  == Cardinality({e \in epochs : Profit(v, e) < p})
      UpTo(p)   == Cardinality({e \in epochs : Profit(v, e) <= p})
  IN  CHOOSE p \in {Profit(v, e) : e \in epochs} : Below(p) <= n /\ n < UpTo(p)
MedianProfit(v, epoch) ==
  LET epochs == Window(epoch)
      size   == Cardinality(epochs)
      mid    == size \div 2
  IN  IF epochs = {} THEN 0
      ELSE IF size % 2 = 1 THEN NthProfit(v, epochs, mid)
      ELSE (NthProfit(v, epochs, mid - 1) + NthProfit(v, epochs, mid)) \div 2

\* Mutant of Metric: the reveal compares one epoch, as supersede does.
LastEpochMetric(v, epoch, useMedian) == Profit(v, epoch)
Metric(v, epoch, useMedian) == IF useMedian THEN MedianProfit(v, epoch) ELSE Profit(v, epoch)

\* The checks of _execute_supersede.
MaySupersede(challenger, epoch, useMedian) ==
  LET incumbent == active[LineageOf[challenger]]
  IN  /\ IsLastClosed(epoch)
      /\ status[challenger] = "incubating" /\ Fresh(challenger)
      /\ incumbent \in Versions /\ incumbent # challenger
      /\ revenue[challenger][epoch] # 0
      /\ Metric(challenger, epoch, useMedian) > 0
      /\ Metric(challenger, epoch, useMedian) > Metric(incumbent, epoch, useMedian)

\* Mutants of Succeed: the incumbent keeps its status, or its vault, or the
\* successor is recorded the wrong way round.
SucceedBeside(challenger) ==
  LET lineage == LineageOf[challenger]
      incumbent == active[lineage]
  IN  /\ vaults' = [vaults EXCEPT ![challenger] = @ + vaults[incumbent], ![incumbent] = 0]
      /\ status' = [status EXCEPT ![challenger] = "active"]
      /\ successor' = [successor EXCEPT ![incumbent] = challenger]
      /\ active' = [active EXCEPT ![lineage] = challenger]
SucceedKeepingVault(challenger) ==
  LET lineage == LineageOf[challenger]
      incumbent == active[lineage]
  IN  /\ vaults' = [vaults EXCEPT ![challenger] = @ + vaults[incumbent]]
      /\ status' = [status EXCEPT ![incumbent] = "superseded", ![challenger] = "active"]
      /\ successor' = [successor EXCEPT ![incumbent] = challenger]
      /\ active' = [active EXCEPT ![lineage] = challenger]
SucceedReversed(challenger) ==
  LET lineage == LineageOf[challenger]
      incumbent == active[lineage]
  IN  /\ vaults' = [vaults EXCEPT ![challenger] = @ + vaults[incumbent], ![incumbent] = 0]
      /\ status' = [status EXCEPT ![incumbent] = "superseded", ![challenger] = "active"]
      /\ successor' = [successor EXCEPT ![challenger] = incumbent]
      /\ active' = [active EXCEPT ![lineage] = challenger]

\* Its assignments: the vault and the seat pass to the challenger.
Succeed(challenger) ==
  LET lineage == LineageOf[challenger]
      incumbent == active[lineage]
  IN  /\ vaults' = [vaults EXCEPT ![challenger] = @ + vaults[incumbent], ![incumbent] = 0]
      /\ status' = [status EXCEPT ![incumbent] = "superseded", ![challenger] = "active"]
      /\ successor' = [successor EXCEPT ![incumbent] = challenger]
      /\ active' = [active EXCEPT ![lineage] = challenger]

SupersedeUnchanged ==
  UNCHANGED <<now, createdAt, lastHeartbeat, lastPositive, signers, threshold, order,
              bondVars, wallets, poolVars, minted, bookVars, econVars, jobVars>>

Supersede(challenger, epoch) ==
  /\ MaySupersede(challenger, epoch, FALSE)
  /\ Succeed(challenger)
  /\ SupersedeUnchanged /\ UNCHANGED commitVars

Hash(challenger, epoch, salt) == <<challenger, epoch, salt>>

CommitSupersede(challenger, epoch, salt) ==
  /\ IsLastClosed(epoch) /\ Registered(challenger)
  /\ \A c \in commits : Hash(c.challenger, c.epoch, c.salt) # Hash(challenger, epoch, salt)
  /\ commits' = commits \cup
       {[challenger |-> challenger, epoch |-> epoch, salt |-> salt, at |-> now]}
  /\ UNCHANGED <<now, versionVars, lineageVars, bondVars, wallets, vaults, poolVars,
                 minted, bookVars, econVars, jobVars, revealed>>

\* The commit is spent before the comparison is made: a lost comparison burns it.
RevealSupersede(challenger, epoch, salt) ==
  LET hash == Hash(challenger, epoch, salt)
  IN  /\ IsLastClosed(epoch)
      /\ \E c \in commits : /\ Hash(c.challenger, c.epoch, c.salt) = hash
                            /\ now >= c.at + COMMIT_PHASE
      /\ hash \notin revealed
      /\ revealed' = revealed \cup {hash}
      /\ \/ /\ MaySupersede(challenger, epoch, TRUE)
            /\ Succeed(challenger)
         \/ /\ ~MaySupersede(challenger, epoch, TRUE)      \* raises
            /\ UNCHANGED <<status, successor, active, vaults>>
      /\ SupersedeUnchanged /\ UNCHANGED commits

(***************************************************************************)
(* eject_stale.  The heir is the first incubating version of the lineage,  *)
(* in registration order, that ever had a positive profit mark.            *)
(***************************************************************************)
StaleReference(v) == IF lastPositive[v] # Never THEN lastPositive[v] ELSE createdAt[v]

HeirIndices(v) ==
  LET line == order[LineageOf[v]]
  IN  {i \in DOMAIN line : /\ line[i] # v /\ status[line[i]] = "incubating"
                           /\ \/ lastPositive[line[i]] # Never
                              \/ Profit(line[i], CurrentEpoch) > 0}
IsHeir(v, heir) ==
  LET indices == HeirIndices(v)
  IN  IF indices = {} THEN heir = Nobody
      ELSE \E i \in indices : /\ heir = order[LineageOf[v]][i]
                              /\ \A j \in indices : i <= j

LineageShare(total) == (total * SHARE_NUM) \div SHARE_DEN

\* Mutant of DivideVault: both parts are rounded down.
DivideVaultRounded(v, heir) ==
  LET Part(num) == (vaults[v] * num) \div SHARE_DEN
      share == IF heir \in Versions THEN Part(SHARE_NUM) ELSE 0
      rest  == IF heir \in Versions THEN Part(SHARE_DEN - SHARE_NUM) ELSE vaults[v]
  IN  /\ vaults' = [w \in Versions |-> IF w = v THEN 0
                       ELSE IF w = heir THEN vaults[w] + share ELSE vaults[w]]
      /\ commonsAvailable' = commonsAvailable + rest

DivideVault(v, heir) ==
  LET share == IF heir \in Versions THEN LineageShare(vaults[v]) ELSE 0
  IN  /\ vaults' = [w \in Versions |-> IF w = v THEN 0
                       ELSE IF w = heir THEN vaults[w] + share ELSE vaults[w]]
      /\ commonsAvailable' = commonsAvailable + (vaults[v] - share)

EjectStale(v, heir) ==
  LET lineage == LineageOf[v]
  IN  /\ Live(v) /\ now > StaleReference(v) + STALE_AFTER
      /\ IsHeir(v, heir)
      /\ versionBond' = [versionBond EXCEPT ![v] = IF Slashed(v) THEN 0 ELSE @]
      /\ DivideVault(v, heir)
      /\ status' = [status EXCEPT ![v] = "stale"]
      /\ active' = [active EXCEPT ![lineage] = IF @ = v THEN Nobody ELSE @]
      /\ UNCHANGED <<now, createdAt, lastHeartbeat, lastPositive, successor, signers,
                     threshold, order, bondEpoch, wallets, commonsReserved, marketEscrow,
                     surplus, minted, bookVars, econVars, jobVars, commitVars>>

\* Mutant of Vacant: a seat whose holder missed its heartbeat counts as empty.
VacantOrSilent(lineage) == active[lineage] \in Versions => ~Fresh(active[lineage])
Vacant(lineage) == active[lineage] \notin Versions

ClaimVacancy(v, epoch) ==
  /\ IsLastClosed(epoch)
  /\ status[v] = "incubating" /\ Vacant(LineageOf[v])
  /\ Fresh(v) /\ Earned(v, epoch)
  /\ status' = [status EXCEPT ![v] = "active"]
  /\ active' = [active EXCEPT ![LineageOf[v]] = v]
  /\ UNCHANGED <<now, createdAt, lastHeartbeat, lastPositive, successor, signers,
                 threshold, order, bondVars, wallets, vaults, poolVars, minted, bookVars,
                 econVars, jobVars, commitVars>>
=============================================================================
