-------------------------- MODULE ArenaMoneyProofs --------------------------
(***************************************************************************)
(* Proofs about the money of the arena: both escrows implement Escrow, no  *)
(* token is created or lost, the books explain the vaults and rank is      *)
(* computed from settled jobs alone.                                       *)
(***************************************************************************)
EXTENDS ArenaProofs

(***************************************************************************)
(* The money.  Every call leaves the total less what was minted, and what  *)
(* the vaults hold less what the books explain, as they are; only an       *)
(* ejection takes from the vaults what no book records.                    *)
(***************************************************************************)
Money ==
  SumFunction(wallets) + SumFunction(vaults) + commonsAvailable + commonsReserved
    + marketEscrow + surplus
Booked ==
  SumFunction(capitalIn) + SumFunction(marketRevenue) + GrandTotal(Versions, revenue)
    - GrandTotal(Versions, cost) - SumFunction(operatingSpent) - burned
Explained == SumFunction(vaults) - Booked
NoneStale == \A v \in Versions : status[v] # "stale"

BookInts ==
  /\ SumFunction(capitalIn) \in Int /\ SumFunction(marketRevenue) \in Int
  /\ GrandTotal(Versions, revenue) \in Int /\ GrandTotal(Versions, cost) \in Int
  /\ SumFunction(operatingSpent) \in Int /\ burned \in Int
MoneyInts ==
  /\ SumFunction(wallets) \in Int /\ SumFunction(vaults) \in Int
  /\ commonsAvailable \in Int /\ commonsReserved \in Int /\ marketEscrow \in Int
  /\ surplus \in Int /\ minted \in Int

\* What a call does to the money of the arena and to the books.
Conserves == Money' - minted' = Money - minted
Explains  == Explained' = Explained /\ (NoneStale' => NoneStale)
Forfeits  == SumFunction(vaults') <= SumFunction(vaults) /\ Booked' = Booked /\ ~NoneStale'
Balances  == Conserves /\ (Explains \/ Forfeits)

ledgers == <<capitalIn, marketRevenue, revenue, cost, operatingSpent, burned>>

LEMMA FiniteIds == IsFiniteSet(Versions) /\ IsFiniteSet(Accounts) /\ IsFiniteSet(Epochs)
BY IdsAssumption, ClockAssumption, FS_Interval DEF Epochs

LEMMA NatIsInt ==
  ASSUME NEW S
  PROVE  /\ \A f \in [S -> Nat] : f \in [S -> Int]
         /\ \A E : \A f \in [S -> [E -> Nat]] : f \in [S -> [E -> Int]]
OBVIOUS

LEMMA Ints == TypeOK => BookInts /\ MoneyInts
<1>. SUFFICES ASSUME TypeOK PROVE BookInts /\ MoneyInts
  OBVIOUS
<1>1. /\ wallets \in [Accounts -> Int] /\ vaults \in [Versions -> Int]
      /\ capitalIn \in [Versions -> Int] /\ marketRevenue \in [Versions -> Int]
      /\ operatingSpent \in [Versions -> Int]
      /\ revenue \in [Versions -> [Epochs -> Int]] /\ cost \in [Versions -> [Epochs -> Int]]
  BY NatIsInt DEF TypeOK, MoneyTypes, BookTypes, EconTypes
<1>2. /\ SumFunction(wallets) \in Int /\ SumFunction(vaults) \in Int
      /\ SumFunction(capitalIn) \in Int /\ SumFunction(marketRevenue) \in Int
      /\ SumFunction(operatingSpent) \in Int
  BY <1>1, FiniteIds, TotalInt
<1>3. GrandTotal(Versions, revenue) \in Int /\ GrandTotal(Versions, cost) \in Int
  BY <1>1, FiniteIds, GrandTotalInt
<1>. QED
  BY <1>2, <1>3 DEF TypeOK, MoneyTypes, BookTypes, BookInts, MoneyInts

\* What a movement of one entry does to a total.
LEMMA WalletMoves ==
  ASSUME TypeOK, NEW a \in Accounts, NEW n \in Int
  PROVE  /\ Credit(a, n) => SumFunction(wallets') = SumFunction(wallets) + n
         /\ Debit(a, n)  => SumFunction(wallets') = SumFunction(wallets) - n
<1>1. wallets \in [Accounts -> Int] /\ wallets[a] \in Int /\ SumFunction(wallets) \in Int
  BY Ints, NatIsInt DEF TypeOK, MoneyTypes, MoneyInts
<1>2. ASSUME Credit(a, n) \/ Debit(a, n)
      PROVE  SumFunction(wallets') = SumFunction(wallets) - wallets[a] + wallets'[a]
  <2>1. wallets' \in [Accounts -> Int] /\ \A o \in Accounts \ {a} : wallets'[o] = wallets[o]
    BY <1>1, <1>2 DEF Credit, Debit
  <2>. QED
    BY <1>1, <2>1, FiniteIds, TotalMoved
<1>. QED
  BY <1>1, <1>2 DEF Credit, Debit

LEMMA VaultMoves ==
  ASSUME TypeOK, NEW v \in Versions, vaults' \in [Versions -> Int],
         \A w \in Versions \ {v} : vaults'[w] = vaults[w]
  PROVE  SumFunction(vaults') = SumFunction(vaults) - vaults[v] + vaults'[v]
<1>1. vaults \in [Versions -> Int]
  BY NatIsInt DEF TypeOK, MoneyTypes
<1>. QED
  BY <1>1, FiniteIds, TotalMoved

LEMMA VaultTransfers ==
  ASSUME TypeOK, NEW v \in Versions, NEW w \in Versions, v # w,
         vaults' \in [Versions -> Int], \A x \in Versions \ {v, w} : vaults'[x] = vaults[x]
  PROVE  SumFunction(vaults') = SumFunction(vaults) - vaults[v] - vaults[w] + vaults'[v] + vaults'[w]
<1>1. vaults \in [Versions -> Int]
  BY NatIsInt DEF TypeOK, MoneyTypes
<1>. DEFINE before == vaults
            after  == vaults'
<1>2. before \in [Versions -> Int] /\ after \in [Versions -> Int]
      /\ \A x \in Versions \ {v, w} : after[x] = before[x]
  BY <1>1
<1>3. IsFiniteSet(Versions)
  BY FiniteIds
<1>. HIDE DEF before, after
<1>4. SumFunction(after) = SumFunction(before) - before[v] - before[w] + after[v] + after[w]
  BY <1>2, <1>3, TotalMovedTwo
<1>. QED
  BY <1>4 DEF before, after

LEMMA BookMoves ==
  ASSUME NEW book \in [Versions -> [Epochs -> Int]], NEW after \in [Versions -> [Epochs -> Int]],
         NEW v \in Versions, NEW e \in Epochs,
         \A d \in Epochs \ {e} : after[v][d] = book[v][d],
         \A w \in Versions \ {v} : after[w] = book[w]
  PROVE  GrandTotal(Versions, after) = GrandTotal(Versions, book) - book[v][e] + after[v][e]
<1>1. IsFiniteSet(Versions) /\ IsFiniteSet(Epochs)
  BY FiniteIds
<1>2. GrandTotal(Versions, after)
        = GrandTotal(Versions, book) - SumFunction(book[v]) + SumFunction(after[v])
  BY <1>1, GrandTotalMoved, SMTT(30)
<1>3. SumFunction(after[v]) = SumFunction(book[v]) - book[v][e] + after[v][e]
  BY <1>1, TotalMoved
<1>4. GrandTotal(Versions, book) \in Int
  BY <1>1, GrandTotalInt
<1>5. SumFunction(book[v]) \in Int /\ book[v][e] \in Int /\ after[v][e] \in Int
  BY <1>1, TotalInt
<1>. QED
  BY <1>2, <1>3, <1>4, <1>5

LEMMA EndowMoves ==
  ASSUME TypeOK, NEW v \in Versions, NEW n \in Int, Endow(v, n)
  PROVE  /\ SumFunction(vaults') = SumFunction(vaults) + n
         /\ SumFunction(capitalIn') = SumFunction(capitalIn) + n
<1>1. /\ vaults \in [Versions -> Int] /\ vaults[v] \in Int /\ SumFunction(vaults) \in Int
      /\ capitalIn \in [Versions -> Int] /\ capitalIn[v] \in Int /\ SumFunction(capitalIn) \in Int
  BY Ints, NatIsInt DEF TypeOK, MoneyTypes, BookTypes, MoneyInts, BookInts
<1>2. /\ vaults' \in [Versions -> Int] /\ vaults'[v] = vaults[v] + n
      /\ \A w \in Versions \ {v} : vaults'[w] = vaults[w]
      /\ capitalIn' \in [Versions -> Int] /\ capitalIn'[v] = capitalIn[v] + n
      /\ \A w \in Versions \ {v} : capitalIn'[w] = capitalIn[w]
  BY <1>1 DEF Endow
<1>3. SumFunction(vaults') = SumFunction(vaults) - vaults[v] + vaults'[v]
  BY <1>2, VaultMoves
<1>4. SumFunction(capitalIn') = SumFunction(capitalIn) - capitalIn[v] + capitalIn'[v]
  BY <1>1, <1>2, FiniteIds, TotalMoved
<1>. QED
  BY <1>1, <1>2, <1>3, <1>4

LEMMA SpendMoves ==
  ASSUME TypeOK, NEW v \in Versions, NEW n \in Int, Spend(v, n)
  PROVE  /\ SumFunction(vaults') = SumFunction(vaults) - n
         /\ SumFunction(operatingSpent') = SumFunction(operatingSpent) + n
<1>1. /\ vaults \in [Versions -> Int] /\ vaults[v] \in Int /\ SumFunction(vaults) \in Int
      /\ operatingSpent \in [Versions -> Int] /\ operatingSpent[v] \in Int
      /\ SumFunction(operatingSpent) \in Int
  BY Ints, NatIsInt DEF TypeOK, MoneyTypes, BookTypes, MoneyInts, BookInts
<1>2. /\ vaults' \in [Versions -> Int] /\ vaults'[v] = vaults[v] - n
      /\ \A w \in Versions \ {v} : vaults'[w] = vaults[w]
      /\ operatingSpent' \in [Versions -> Int] /\ operatingSpent'[v] = operatingSpent[v] + n
      /\ \A w \in Versions \ {v} : operatingSpent'[w] = operatingSpent[w]
  BY <1>1 DEF Spend
<1>3. SumFunction(vaults') = SumFunction(vaults) - vaults[v] + vaults'[v]
  BY <1>2, VaultMoves
<1>4. SumFunction(operatingSpent') =
        SumFunction(operatingSpent) - operatingSpent[v] + operatingSpent'[v]
  BY <1>1, <1>2, FiniteIds, TotalMoved
<1>. QED
  BY <1>1, <1>2, <1>3, <1>4

LEMMA RewardMoves ==
  ASSUME TypeOK, NEW b, NEW n \in Int, PayReward(b, n)
  PROVE  /\ marketEscrow' = marketEscrow - n
         /\ \/ /\ SumFunction(vaults') = SumFunction(vaults) + n
               /\ SumFunction(marketRevenue') = SumFunction(marketRevenue) + n
               /\ commonsAvailable' = commonsAvailable
            \/ /\ commonsAvailable' = commonsAvailable + n
               /\ UNCHANGED <<vaults, marketRevenue>>
<1>1. /\ vaults \in [Versions -> Int] /\ SumFunction(vaults) \in Int
      /\ marketRevenue \in [Versions -> Int] /\ SumFunction(marketRevenue) \in Int
  BY Ints, NatIsInt DEF TypeOK, MoneyTypes, BookTypes, MoneyInts, BookInts
<1>2. CASE b \in Versions
  <2>1. /\ vaults' \in [Versions -> Int] /\ vaults'[b] = vaults[b] + n
        /\ \A w \in Versions \ {b} : vaults'[w] = vaults[w]
        /\ marketRevenue' \in [Versions -> Int] /\ marketRevenue'[b] = marketRevenue[b] + n
        /\ \A w \in Versions \ {b} : marketRevenue'[w] = marketRevenue[w]
        /\ vaults[b] \in Int /\ marketRevenue[b] \in Int
    BY <1>1, <1>2 DEF PayReward
  <2>2. SumFunction(vaults') = SumFunction(vaults) - vaults[b] + vaults'[b]
    BY <1>2, <2>1, VaultMoves
  <2>3. SumFunction(marketRevenue') =
          SumFunction(marketRevenue) - marketRevenue[b] + marketRevenue'[b]
    BY <1>1, <1>2, <2>1, FiniteIds, TotalMoved
  <2>4. SumFunction(vaults') = SumFunction(vaults) + n
    BY <1>1, <2>1, <2>2
  <2>5. SumFunction(marketRevenue') = SumFunction(marketRevenue) + n
    BY <1>1, <2>1, <2>3
  <2>. QED
    BY <1>2, <2>4, <2>5 DEF PayReward
<1>3. CASE b \notin Versions
  BY <1>3 DEF PayReward
<1>. QED
  BY <1>2, <1>3

\* A call that moves no vault and writes no book.
LEMMA BooksUntouched ==
  ASSUME UNCHANGED <<vaults, ledgers>>, NoneStale' => NoneStale
  PROVE  Explains
BY DEF Explains, Explained, Booked, ledgers

LEMMA NoneStaleKept ==
  ASSUME UNCHANGED status
  PROVE  NoneStale' => NoneStale
BY DEF NoneStale

LEMMA MoneyStepBalances ==
  ASSUME TypeOK, MoneyStep
  PROVE  Conserves /\ Explains
<1>. USE AmountAssumption
<1>1. BookInts /\ MoneyInts
  BY Ints
<1>. USE <1>1 DEF BookInts, MoneyInts
<1>2. ASSUME NEW a \in Accounts, NEW n \in MintAmounts, Mint(a, n) PROVE Conserves /\ Explains
  <2>1. n \in Int /\ SumFunction(wallets') = SumFunction(wallets) + n
    BY <1>2, WalletMoves DEF Mint
  <2>2. Conserves
    BY <1>2, <2>1 DEF Mint, Conserves, Money, poolVars
  <2>. QED
    BY <1>2, <2>2, BooksUntouched, NoneStaleKept
       DEF Mint, ledgers, bookVars, econVars, versionVars
<1>3. ASSUME NEW a \in Accounts, NEW n \in FundAmounts,
             FundCommons(a, n) \/ DirectTransferToArena(a, n)
      PROVE  Conserves /\ Explains
  <2>1. n \in Int /\ SumFunction(wallets') = SumFunction(wallets) - n
    BY <1>3, WalletMoves DEF FundCommons, DirectTransferToArena
  <2>2. Conserves
    BY <1>3, <2>1 DEF FundCommons, DirectTransferToArena, Conserves, Money
  <2>. QED
    BY <1>3, <2>2, BooksUntouched, NoneStaleKept
       DEF FundCommons, DirectTransferToArena, ledgers, bookVars, econVars, versionVars
<1>4. CASE AbsorbSurplus
  <2>1. Conserves
    BY <1>4 DEF AbsorbSurplus, Conserves, Money
  <2>. QED
    BY <1>4, <2>1, BooksUntouched, NoneStaleKept
       DEF AbsorbSurplus, ledgers, bookVars, econVars, versionVars
<1>5. ASSUME NEW a \in Accounts, NEW v \in Versions, NEW n \in DonateAmounts, Donate(a, v, n)
      PROVE  Conserves /\ Explains
  <2>1. /\ n \in Int /\ SumFunction(wallets') = SumFunction(wallets) - n
        /\ SumFunction(vaults') = SumFunction(vaults) + n
        /\ SumFunction(capitalIn') = SumFunction(capitalIn) + n
    BY <1>5, WalletMoves, EndowMoves DEF Donate
  <2>2. Conserves
    BY <1>5, <2>1 DEF Donate, Conserves, Money, poolVars
  <2>3. UNCHANGED <<status, marketRevenue, revenue, cost, operatingSpent, burned>>
    BY <1>5 DEF Donate, econVars, versionVars
  <2>4. Explained' = Explained
    BY <2>1, <2>3 DEF Explained, Booked
  <2>. QED
    BY <2>2, <2>3, <2>4, NoneStaleKept DEF Explains
<1>6. ASSUME NEW a \in Accounts, NEW r \in Accounts, NEW v \in Versions,
             NEW n \in ExpenseAmounts, NEW p \in Proofs, SettleOperatingExpense(a, v, r, n, p)
      PROVE  Conserves /\ Explains
  <2>1. /\ n \in Int /\ SumFunction(wallets') = SumFunction(wallets) + n
        /\ SumFunction(vaults') = SumFunction(vaults) - n
        /\ SumFunction(operatingSpent') = SumFunction(operatingSpent) + n
    BY <1>6, WalletMoves, SpendMoves DEF SettleOperatingExpense
  <2>2. Conserves
    BY <1>6, <2>1 DEF SettleOperatingExpense, Conserves, Money, poolVars
  <2>3. UNCHANGED <<status, capitalIn, marketRevenue, revenue, cost, burned>>
    BY <1>6 DEF SettleOperatingExpense, econVars, versionVars
  <2>4. Explained' = Explained
    BY <2>1, <2>3 DEF Explained, Booked
  <2>. QED
    BY <2>2, <2>3, <2>4, NoneStaleKept DEF Explains
<1>. QED
  BY <1>2, <1>3, <1>4, <1>5, <1>6 DEF MoneyStep

\* Bonds go to the commons and come back; a heartbeat burns into the commons.
LEMMA VersionStepBalances ==
  ASSUME TypeOK, SeatAgrees, VersionStep
  PROVE  Conserves /\ Explains
<1>. SUFFICES ASSUME NEW a \in Accounts, NEW v \in Versions,
                     \/ \E f \in Accounts, q \in Quorums :
                          CreateLineage(a, f, v, q) \/ RegisterVersion(a, f, v, q)
                     \/ ReclaimBond(a, v)
                     \/ Heartbeat(a, v)
              PROVE  Conserves /\ Explains
  BY DEF VersionStep
<1>. USE AmountAssumption
<1>1. BookInts /\ MoneyInts /\ status \in [Versions -> {"none", "incubating", "active", "superseded", "stale"}]
  BY Ints DEF TypeOK, VersionTypes
<1>. USE <1>1 DEF BookInts, MoneyInts
<1>2. ASSUME NEW f \in Accounts, NEW q \in Quorums,
             CreateLineage(a, f, v, q) \/ RegisterVersion(a, f, v, q)
      PROVE  Conserves /\ Explains
  <2>1. SumFunction(wallets') = SumFunction(wallets) - VERSION_BOND
    BY <1>2, WalletMoves DEF CreateLineage, RegisterVersion, TakeBond
  <2>2. /\ commonsAvailable' = commonsAvailable + VERSION_BOND
        /\ UNCHANGED <<vaults, commonsReserved, marketEscrow, surplus, minted, ledgers>>
    BY <1>2 DEF CreateLineage, RegisterVersion, TakeBond, ledgers, bookVars, econVars
  <2>3. Conserves
    BY <2>1, <2>2 DEF Conserves, Money
  <2>4. status[v] = "none"
    BY <1>2 DEF CreateLineage, RegisterVersion, SeatAgrees, Registered
  <2>5. \A w \in Versions : w # v => status'[w] = status[w]
    BY <1>2 DEF CreateLineage, RegisterVersion, StoreVersion, versionVars
  <2>6. NoneStale' => NoneStale
    BY <2>4, <2>5 DEF NoneStale
  <2>. QED
    BY <2>2, <2>3, <2>6, BooksUntouched
<1>3. CASE ReclaimBond(a, v)
  <2>1. versionBond[v] \in Int
    BY DEF TypeOK, BondTypes
  <2>2. \/ /\ SumFunction(wallets') = SumFunction(wallets) + versionBond[v]
           /\ commonsAvailable' = commonsAvailable - versionBond[v]
        \/ UNCHANGED <<wallets, commonsAvailable>>
    BY <1>3, <2>1, WalletMoves DEF ReclaimBond
  <2>3. UNCHANGED <<vaults, commonsReserved, marketEscrow, surplus, minted, status, ledgers>>
    BY <1>3 DEF ReclaimBond, ledgers, bookVars, econVars, versionVars
  <2>4. Conserves
    BY <2>1, <2>2, <2>3 DEF Conserves, Money
  <2>. QED
    BY <2>3, <2>4, BooksUntouched, NoneStaleKept
<1>4. CASE Heartbeat(a, v)
  <2>1. SumFunction(vaults') = SumFunction(vaults) - HEARTBEAT_BURN
    <3>1. vaults \in [Versions -> Int] /\ vaults[v] \in Int /\ HEARTBEAT_BURN \in Int
      BY NatIsInt DEF TypeOK, MoneyTypes
    <3>2. /\ vaults' \in [Versions -> Int] /\ vaults'[v] = vaults[v] - HEARTBEAT_BURN
          /\ \A w \in Versions \ {v} : vaults'[w] = vaults[w]
      BY <1>4, <3>1 DEF Heartbeat
    <3>3. SumFunction(vaults') = SumFunction(vaults) - vaults[v] + vaults'[v]
      BY <3>2, VaultMoves
    <3>. QED
      BY <3>1, <3>2, <3>3
  <2>2. Conserves
    BY <1>4, <2>1 DEF Heartbeat, Conserves, Money
  <2>3. /\ burned' = burned + HEARTBEAT_BURN
        /\ UNCHANGED <<status, capitalIn, marketRevenue, revenue, cost, operatingSpent>>
    BY <1>4 DEF Heartbeat, econVars
  <2>4. Explained' = Explained
    BY <2>1, <2>3 DEF Explained, Booked
  <2>. QED
    BY <2>2, <2>3, <2>4, NoneStaleKept DEF Explains
<1>. QED
  BY <1>2, <1>3, <1>4

LEMMA RankedJobTyped ==
  ASSUME TypeOK, NEW j \in DOMAIN rankedJobs
  PROVE  /\ rankedJobs[j] \in RankedJob /\ rankedJobs[j].leaf \in Leaf
         /\ rankedJobs[j].leaf.reward \in Int /\ rankedJobs[j].leaf.cost \in Int
         /\ rankedJobs[j].leaf.recipient \in Accounts
<1>1. rankedJobs[j] \in RankedJob
  BY JobUpdate DEF TypeOK, JobTypes
<1>2. rankedJobs[j].leaf \in Leaf
  BY <1>1, InputAssumption DEF RankedJob
<1>. QED
  BY <1>1, <1>2 DEF Leaf

LEMMA MarketJobTyped ==
  ASSUME TypeOK, NEW j \in DOMAIN marketJobs
  PROVE  marketJobs[j].reward \in Int /\ marketJobs[j].buyer \in Accounts
<1>1. marketJobs[j] \in MarketJob
  BY JobUpdate DEF TypeOK, JobTypes
<1>2. marketJobs[j].reward \in MarketRewards /\ marketJobs[j].buyer \in Accounts
  BY <1>1 DEF MarketJob
<1>3. MarketRewards \subseteq Int
  BY AmountAssumption
<1>. QED
  BY <1>2, <1>3

\* A settlement books reward and cost in the same step in which they are paid.
LEMMA RankedStepBalances ==
  ASSUME TypeOK, RankedStep
  PROVE  Conserves /\ Explains
<1>1. BookInts /\ MoneyInts
  BY Ints
<1>. USE <1>1 DEF BookInts, MoneyInts
<1>2. ASSUME NEW leaf \in Schedule, AuthorizeRankedJob(leaf) \/ CreateRankedJob(leaf)
      PROVE  Conserves /\ Explains
  <2>1. leaf.reward \in Int
    BY InputAssumption DEF Leaf
  <2>2. /\ UNCHANGED <<wallets, vaults, marketEscrow, surplus, minted>>
        /\ \/ UNCHANGED <<commonsAvailable, commonsReserved>>
           \/ /\ commonsAvailable' = commonsAvailable - leaf.reward
              /\ commonsReserved'  = commonsReserved + leaf.reward
    BY <1>2 DEF AuthorizeRankedJob, CreateRankedJob, poolVars
  <2>3. Conserves
    BY <2>1, <2>2 DEF Conserves, Money
  <2>. QED
    BY <1>2, <2>3, BooksUntouched, NoneStaleKept
       DEF AuthorizeRankedJob, CreateRankedJob, ledgers, bookVars, econVars, versionVars
<1>3. ASSUME NEW j \in DOMAIN rankedJobs
      PROVE  /\ rankedJobs[j].leaf.reward \in Int /\ rankedJobs[j].leaf.cost \in Int
             /\ rankedJobs[j].leaf.recipient \in Accounts
  BY RankedJobTyped
<1>4. ASSUME NEW j \in RankedJobIds, NEW a \in Accounts, NEW v \in Versions,
             NEW p \in Proofs, SubmitRankedResult(a, j, v, p)
      PROVE  Conserves /\ Explains
  <2>. DEFINE gain == rankedJobs[j].leaf.reward
              spent == rankedJobs[j].leaf.cost
  <2>1. /\ gain \in Int /\ spent \in Int /\ rankedJobs[j].leaf.recipient \in Accounts
        /\ vaults \in [Versions -> Int] /\ CurrentEpoch \in Epochs
        /\ revenue \in [Versions -> [Epochs -> Int]] /\ cost \in [Versions -> [Epochs -> Int]]
    BY <1>3, <1>4, ClockTypes, NatIsInt DEF SubmitRankedResult, TypeOK, MoneyTypes, EconTypes
  <2>2. /\ wallets' = [wallets EXCEPT ![rankedJobs[j].leaf.recipient] = @ + spent]
        /\ vaults' = [vaults EXCEPT ![v] = @ - spent + gain]
        /\ revenue' = [revenue EXCEPT ![v][CurrentEpoch] = @ + gain]
        /\ cost' = [cost EXCEPT ![v][CurrentEpoch] = @ + spent]
        /\ commonsReserved' = commonsReserved - gain
        /\ UNCHANGED <<status, commonsAvailable, marketEscrow, surplus, minted, capitalIn,
                       marketRevenue, operatingSpent, burned>>
    BY <1>4 DEF SubmitRankedResult, Credit, BookRanked, bookVars
  <2>. HIDE DEF gain, spent
  <2>3. SumFunction(wallets') = SumFunction(wallets) + spent
    BY <2>1, <2>2, WalletMoves DEF Credit
  <2>4. SumFunction(vaults') = SumFunction(vaults) - spent + gain
    <3>1. vaults[v] \in Int /\ vaults[v] - spent + gain \in Int
      BY <2>1
    <3>2. /\ vaults' \in [Versions -> Int] /\ vaults'[v] = vaults[v] - spent + gain
          /\ \A w \in Versions \ {v} : vaults'[w] = vaults[w]
      BY <2>1, <2>2, <3>1
    <3>3. SumFunction(vaults') = SumFunction(vaults) - vaults[v] + vaults'[v]
      BY <3>2, VaultMoves
    <3>. QED
      BY <1>1, <2>1, <3>1, <3>2, <3>3 DEF MoneyInts
  <2>5. /\ GrandTotal(Versions, revenue') = GrandTotal(Versions, revenue) + gain
        /\ GrandTotal(Versions, cost') = GrandTotal(Versions, cost) + spent
    <3>. DEFINE e == CurrentEpoch
    <3>1. e \in Epochs /\ revenue[v][e] \in Int /\ cost[v][e] \in Int
      BY <2>1
    <3>. HIDE DEF e
    <3>2. /\ revenue' \in [Versions -> [Epochs -> Int]]
          /\ revenue'[v][e] = revenue[v][e] + gain
          /\ \A d \in Epochs \ {e} : revenue'[v][d] = revenue[v][d]
          /\ \A w \in Versions \ {v} : revenue'[w] = revenue[w]
      BY <2>1, <2>2, <3>1 DEF e
    <3>3. /\ cost' \in [Versions -> [Epochs -> Int]]
          /\ cost'[v][e] = cost[v][e] + spent
          /\ \A d \in Epochs \ {e} : cost'[v][d] = cost[v][d]
          /\ \A w \in Versions \ {v} : cost'[w] = cost[w]
      BY <2>1, <2>2, <3>1 DEF e
    <3>4. GrandTotal(Versions, revenue') = GrandTotal(Versions, revenue) - revenue[v][e] + revenue'[v][e]
      BY <2>1, <3>1, <3>2, BookMoves
    <3>5. GrandTotal(Versions, cost') = GrandTotal(Versions, cost) - cost[v][e] + cost'[v][e]
      BY <2>1, <3>1, <3>3, BookMoves
    <3>. QED
      BY <1>1, <2>1, <3>1, <3>2, <3>3, <3>4, <3>5 DEF BookInts
  <2>6. Conserves
    BY <2>1, <2>2, <2>3, <2>4 DEF Conserves, Money
  <2>7. Explained' = Explained
    BY <2>1, <2>2, <2>4, <2>5 DEF Explained, Booked
  <2>. QED
    BY <2>2, <2>6, <2>7, NoneStaleKept DEF Explains
<1>5. ASSUME NEW j \in RankedJobIds, ExpireRankedJob(j) PROVE Conserves /\ Explains
  <2>1. rankedJobs[j].leaf.reward \in Int
    BY <1>3, <1>5 DEF ExpireRankedJob
  <2>2. Conserves
    BY <1>5, <2>1 DEF ExpireRankedJob, Conserves, Money
  <2>. QED
    BY <1>5, <2>2, BooksUntouched, NoneStaleKept
       DEF ExpireRankedJob, ledgers, bookVars, econVars, versionVars
<1>. QED
  BY <1>2, <1>4, <1>5 DEF RankedStep

\* A released reward is paid into a vault and booked, or goes to the commons.
LEMMA RewardBalances ==
  ASSUME TypeOK, NEW b, NEW n \in Int, PayReward(b, n),
         UNCHANGED <<status, wallets, commonsReserved, surplus, minted, capitalIn,
                     operatingSpent, burned, revenue, cost>>
  PROVE  Conserves /\ Explains
<1>1. BookInts /\ MoneyInts
  BY Ints
<1>. USE <1>1 DEF BookInts, MoneyInts
<1>2. /\ marketEscrow' = marketEscrow - n
      /\ \/ /\ SumFunction(vaults') = SumFunction(vaults) + n
            /\ SumFunction(marketRevenue') = SumFunction(marketRevenue) + n
            /\ commonsAvailable' = commonsAvailable
         \/ /\ commonsAvailable' = commonsAvailable + n
            /\ UNCHANGED <<vaults, marketRevenue>>
  BY RewardMoves
<1>3. Conserves
  BY <1>2 DEF Conserves, Money
<1>4. Explained' = Explained
  BY <1>2 DEF Explained, Booked
<1>. QED
  BY <1>3, <1>4, NoneStaleKept DEF Explains

LEMMA MarketStepBalances ==
  ASSUME TypeOK, MarketStep
  PROVE  Conserves /\ Explains
<1>1. BookInts /\ MoneyInts
  BY Ints
<1>. USE <1>1 DEF BookInts, MoneyInts
<1>2. ASSUME NEW b \in Accounts, NEW v \in Versions, NEW n \in MarketRewards,
             NEW d \in Deadlines, NEW w \in BOOLEAN, OpenMarketJob(b, v, n, d, w)
      PROVE  Conserves /\ Explains
  <2>1. n \in Int /\ SumFunction(wallets') = SumFunction(wallets) - n
    BY <1>2, WalletMoves, AmountAssumption DEF OpenMarketJob
  <2>2. /\ marketEscrow' = marketEscrow + n
        /\ UNCHANGED <<vaults, commonsAvailable, commonsReserved, surplus, minted>>
    BY <1>2 DEF OpenMarketJob
  <2>3. Conserves
    BY <2>1, <2>2 DEF Conserves, Money
  <2>. QED
    BY <1>2, <2>3, BooksUntouched, NoneStaleKept
       DEF OpenMarketJob, ledgers, bookVars, econVars, versionVars
<1>3. ASSUME NEW j \in DOMAIN marketJobs
      PROVE  marketJobs[j].reward \in Int /\ marketJobs[j].buyer \in Accounts
  BY MarketJobTyped
<1>4. ASSUME NEW j \in MarketJobIds, NEW a \in Accounts, NEW ok \in BOOLEAN,
             SubmitMarketResult(a, j, ok)
      PROVE  Conserves /\ Explains
  <2>1. /\ marketJobs[j].reward \in Int
        /\ UNCHANGED <<status, wallets, commonsReserved, surplus, minted, capitalIn,
                       operatingSpent, burned, revenue, cost>>
    BY <1>3, <1>4 DEF SubmitMarketResult, versionVars, econVars
  <2>2. \/ \E b : PayReward(b, marketJobs[j].reward)
        \/ UNCHANGED <<marketEscrow, vaults, marketRevenue, commonsAvailable>>
    BY <1>4 DEF SubmitMarketResult
  <2>3. CASE UNCHANGED <<marketEscrow, vaults, marketRevenue, commonsAvailable>>
    <3>1. Conserves
      BY <2>1, <2>3 DEF Conserves, Money
    <3>. QED
      BY <2>1, <2>3, <3>1, BooksUntouched, NoneStaleKept DEF ledgers
  <2>. QED
    BY <2>1, <2>2, <2>3, RewardBalances
<1>5. ASSUME NEW j \in MarketJobIds, NEW a \in Accounts, AcceptMarketResult(a, j)
      PROVE  Conserves /\ Explains
  <2>1. /\ marketJobs[j].reward \in Int /\ \E b : PayReward(b, marketJobs[j].reward)
        /\ UNCHANGED <<status, wallets, commonsReserved, surplus, minted, capitalIn,
                       operatingSpent, burned, revenue, cost>>
    BY <1>3, <1>5 DEF AcceptMarketResult, versionVars, econVars
  <2>. QED
    BY <2>1, RewardBalances
<1>6. ASSUME NEW j \in MarketJobIds, NEW a \in Accounts, RefundMarketJob(a, j)
      PROVE  Conserves /\ Explains
  <2>1. /\ marketJobs[j].reward \in Int
        /\ SumFunction(wallets') = SumFunction(wallets) + marketJobs[j].reward
    BY <1>3, <1>6, WalletMoves DEF RefundMarketJob
  <2>2. Conserves
    BY <1>6, <2>1 DEF RefundMarketJob, Conserves, Money
  <2>. QED
    BY <1>6, <2>2, BooksUntouched, NoneStaleKept
       DEF RefundMarketJob, ledgers, bookVars, econVars, versionVars
<1>. QED
  BY <1>2, <1>4, <1>5, <1>6 DEF MarketStep

\* A vault is handed over whole, or divided between the heir and the commons.
LEMMA SucceedBalances ==
  ASSUME TypeOK, SeatAgrees, NEW v \in Versions, NEW e \in Epochs, NEW m \in BOOLEAN,
         MaySupersede(v, e, m), Succeed(v), SupersedeUnchanged
  PROVE  Conserves /\ Explains
<1>. DEFINE incumbent == active[LineageOf[v]]
<1>1. /\ incumbent \in Versions /\ incumbent # v /\ status[v] = "incubating"
      /\ status \in [Versions -> {"none", "incubating", "active", "superseded", "stale"}]
      /\ vaults' = [vaults EXCEPT ![v] = @ + vaults[incumbent], ![incumbent] = 0]
      /\ status' = [status EXCEPT ![incumbent] = "superseded", ![v] = "active"]
      /\ vaults \in [Versions -> Int]
  BY NatIsInt DEF MaySupersede, Succeed, TypeOK, MoneyTypes, VersionTypes
<1>2. status[incumbent] = "active"
  BY <1>1, IdsAssumption DEF SeatAgrees
<1>. HIDE DEF incumbent
<1>3. /\ vaults' \in [Versions -> Int]
      /\ vaults'[v] = vaults[v] + vaults[incumbent] /\ vaults'[incumbent] = 0
      /\ \A w \in Versions \ {v, incumbent} : vaults'[w] = vaults[w]
  BY <1>1
<1>4. SumFunction(vaults') =
        SumFunction(vaults) - vaults[v] - vaults[incumbent] + vaults'[v] + vaults'[incumbent]
  BY <1>1, <1>3, VaultTransfers
<1>5. SumFunction(vaults) \in Int /\ vaults[v] \in Int /\ vaults[incumbent] \in Int
  BY <1>1, Ints DEF MoneyInts
<1>6. SumFunction(vaults') = SumFunction(vaults)
  BY <1>3, <1>4, <1>5
<1>7. UNCHANGED <<wallets, poolVars, minted, ledgers>>
  BY DEF SupersedeUnchanged, ledgers, bookVars, econVars
<1>8. Conserves
  BY <1>6, <1>7 DEF Conserves, Money, poolVars
<1>9. Explained' = Explained
  BY <1>6, <1>7 DEF Explained, Booked, ledgers
<1>10. \A w \in Versions : status[w] = "stale" => status'[w] = "stale"
  BY <1>1, <1>2
<1>. QED
  BY <1>8, <1>9, <1>10 DEF Explains, NoneStale

LEMMA EjectBalances ==
  ASSUME TypeOK, NEW v \in Versions, NEW heir \in Versions \cup {Nobody}, EjectStale(v, heir)
  PROVE  Conserves /\ Forfeits
<1>. DEFINE share == IF heir \in Versions THEN LineageShare(vaults[v]) ELSE 0
<1>1. /\ BookInts /\ MoneyInts /\ vaults \in [Versions -> Int] /\ vaults[v] \in Nat
      /\ order[LineageOf[v]] \in Seq(Versions)
      /\ status \in [Versions -> {"none", "incubating", "active", "superseded", "stale"}]
  BY Ints, NatIsInt, IdsAssumption DEF TypeOK, MoneyTypes, LineageTypes, VersionTypes
<1>2. share \in 0 .. vaults[v]
  BY <1>1, ShareBounded
<1>3. heir # v
  <2>1. heir = Nobody \/ \E i \in HeirIndices(v) : heir = order[LineageOf[v]][i]
    BY DEF EjectStale, IsHeir
  <2>. QED
    BY <2>1, IdsAssumption DEF HeirIndices
<1>4. /\ vaults' = [w \in Versions |-> IF w = v THEN 0
                       ELSE IF w = heir THEN vaults[w] + share ELSE vaults[w]]
      /\ commonsAvailable' = commonsAvailable + (vaults[v] - share)
      /\ UNCHANGED <<wallets, commonsReserved, marketEscrow, surplus, minted, ledgers>>
      /\ status' = [status EXCEPT ![v] = "stale"]
  BY DEF EjectStale, DivideVault, ledgers, bookVars, econVars
<1>5. heir \notin Versions => share = 0
  OBVIOUS
<1>. HIDE DEF share
<1>6. vaults' \in [Versions -> Int] /\ vaults'[v] = 0
  BY <1>1, <1>2, <1>4
<1>7. share \in Int /\ vaults[v] \in Int /\ SumFunction(vaults) \in Int /\ share <= vaults[v]
  BY <1>1, <1>2 DEF MoneyInts
<1>8. SumFunction(vaults') = SumFunction(vaults) - vaults[v] + share
  <2>1. CASE heir \in Versions
    <3>1. /\ vaults'[heir] = vaults[heir] + share /\ vaults[heir] \in Int
          /\ \A w \in Versions \ {v, heir} : vaults'[w] = vaults[w]
      BY <1>1, <1>3, <1>4, <2>1
    <3>2. SumFunction(vaults') =
            SumFunction(vaults) - vaults[v] - vaults[heir] + vaults'[v] + vaults'[heir]
      BY <1>3, <1>6, <2>1, <3>1, VaultTransfers
    <3>. QED
      BY <1>6, <1>7, <3>1, <3>2
  <2>2. CASE heir \notin Versions
    <3>1. \A w \in Versions \ {v} : vaults'[w] = vaults[w]
      BY <1>4, <2>2
    <3>2. SumFunction(vaults') = SumFunction(vaults) - vaults[v] + vaults'[v]
      BY <1>6, <3>1, VaultMoves
    <3>. QED
      BY <1>5, <1>6, <1>7, <2>2, <3>2
  <2>. QED
    BY <2>1, <2>2
<1>9. Conserves
  <2>1. /\ SumFunction(wallets') = SumFunction(wallets) /\ commonsReserved' = commonsReserved
        /\ marketEscrow' = marketEscrow /\ surplus' = surplus /\ minted' = minted
    BY <1>4
  <2>2. commonsAvailable' = commonsAvailable + (vaults[v] - share)
    BY <1>4
  <2>3. MoneyInts
    BY <1>1
  <2>. QED
    BY <1>7, <1>8, <2>1, <2>2, <2>3, SMTT(30) DEF MoneyInts, Conserves, Money
<1>10. SumFunction(vaults') <= SumFunction(vaults)
  BY <1>7, <1>8
<1>11. Booked' = Booked
  BY <1>4 DEF Booked, ledgers
<1>12. ~NoneStale'
  BY <1>1, <1>4 DEF NoneStale
<1>. QED
  BY <1>9, <1>10, <1>11, <1>12 DEF Forfeits

LEMMA SelectionStepBalances ==
  ASSUME TypeOK, SeatAgrees, SelectionStep
  PROVE  Balances
<1>1. ASSUME UNCHANGED <<wallets, vaults, poolVars, minted, ledgers>>, NoneStale' => NoneStale
      PROVE  Conserves /\ Explains
  BY <1>1, BooksUntouched DEF Conserves, Money, poolVars
<1>2. status \in [Versions -> {"none", "incubating", "active", "superseded", "stale"}]
  BY DEF TypeOK, VersionTypes
<1>. USE DEF ledgers, bookVars, econVars
<1>3. ASSUME NEW v \in Versions, NEW e \in Epochs, Supersede(v, e) PROVE Conserves /\ Explains
  BY <1>3, SucceedBalances DEF Supersede
<1>4. ASSUME NEW v \in Versions, NEW e \in Epochs, ClaimVacancy(v, e) PROVE Conserves /\ Explains
  <2>1. NoneStale' => NoneStale
    BY <1>2, <1>4 DEF ClaimVacancy, NoneStale
  <2>. QED
    BY <1>1, <1>4, <2>1 DEF ClaimVacancy
<1>5. ASSUME NEW v \in Versions, NEW e \in Epochs, NEW s \in Salts, CommitSupersede(v, e, s)
      PROVE  Conserves /\ Explains
  BY <1>1, <1>5, NoneStaleKept DEF CommitSupersede, versionVars
<1>6. ASSUME NEW v \in Versions, NEW e \in Epochs, NEW s \in Salts, RevealSupersede(v, e, s)
      PROVE  Conserves /\ Explains
  <2>1. CASE MaySupersede(v, e, TRUE) /\ Succeed(v)
    BY <1>6, <2>1, SucceedBalances DEF RevealSupersede
  <2>2. CASE UNCHANGED <<status, successor, active, vaults>>
    BY <1>1, <1>6, <2>2, NoneStaleKept DEF RevealSupersede, SupersedeUnchanged
  <2>. QED
    BY <1>6, <2>1, <2>2 DEF RevealSupersede
<1>7. ASSUME NEW v \in Versions, NEW heir \in Versions \cup {Nobody}, EjectStale(v, heir)
      PROVE  Conserves /\ Forfeits
  BY <1>7, EjectBalances
<1>. QED
  BY <1>3, <1>4, <1>5, <1>6, <1>7 DEF SelectionStep, Balances

LEMMA StepBalances == TypeOK /\ SeatAgrees /\ [Next]_vars => Balances
<1>. SUFFICES ASSUME TypeOK, SeatAgrees, [Next]_vars PROVE Balances
  OBVIOUS
<1>1. CASE TimeStep \/ UNCHANGED vars
  <2>1. UNCHANGED <<wallets, vaults, poolVars, minted, ledgers, status>>
    BY <1>1 DEF TimeStep, Advance, AdvanceToNextEpoch, vars, ledgers, bookVars, econVars,
                versionVars
  <2>2. Explains
    BY <2>1, BooksUntouched, NoneStaleKept
  <2>. QED
    BY <2>1, <2>2 DEF Balances, Conserves, Money, poolVars
<1>. QED
  BY <1>1, MoneyStepBalances, VersionStepBalances, RankedStepBalances, MarketStepBalances,
     SelectionStepBalances DEF Next, Balances

(* No call creates or destroys a token, the calls that raise half-way included:
   wallets, vaults, commons and escrows always add up to what was minted. *)
THEOREM ConservationCorrect == Spec => []Conservation
<1>1. Init => Conservation
  <2>. SUFFICES ASSUME Init PROVE Conservation
    OBVIOUS
  <2>1. SumFunction(vaults) = 0
    <3>1. vaults \in [Versions -> Int] /\ \A v \in Versions : vaults[v] = 0
      BY DEF Init
    <3>. QED
      BY <3>1, FiniteIds, TotalZero
  <2>2. SumFunction(wallets) = minted /\ minted \in Int
    BY AmountAssumption DEF Init
  <2>. QED
    BY <2>1, <2>2 DEF Init, Conservation
<1>2. TypeOK /\ SeatAgrees /\ [Next]_vars /\ Conservation => Conservation'
  <2>. SUFFICES ASSUME TypeOK, TypeOK', SeatAgrees, [Next]_vars, Conservation PROVE Conservation'
    BY TimeTypes, MoneyStepTypes, VersionStepTypes, RankedStepTypes, MarketStepTypes,
       SelectionStepTypes, StutterTypes DEF Next
  <2>1. Conserves
    BY StepBalances DEF Balances
  <2>2. TypeOK' => MoneyInts'
    BY Ints, PTL
  <2>3. BookInts /\ MoneyInts /\ MoneyInts'
    BY <2>2, Ints
  <2>. QED
    BY <2>1, <2>3 DEF Conserves, Money, MoneyInts, Conservation
<1>. QED
  BY <1>1, <1>2, TypeCorrect, SeatCorrect, PTL DEF Spec

\* The books explain the vaults: how the property reads without its abbreviations.
Reconciled == Explained <= 0 /\ (NoneStale => Explained = 0)

LEMMA ReconciledIs == TypeOK => (VaultsReconcile <=> Reconciled)
<1>. SUFFICES ASSUME TypeOK PROVE VaultsReconcile <=> Reconciled
  OBVIOUS
<1>1. SumFunction(vaults) \in Int /\ Booked \in Int
  BY Ints DEF BookInts, MoneyInts, Booked
<1>2. VaultsReconcile <=> /\ SumFunction(vaults) <= Booked
                          /\ NoneStale => SumFunction(vaults) = Booked
  BY DEF VaultsReconcile, Booked, GrandTotal, NoneStale
<1>. QED
  BY <1>1, <1>2 DEF Reconciled, Explained

(* Whatever was donated, earned, spent, burned and inherited, the vaults hold
   what the books say, and less only once a version was ejected. *)
THEOREM ReconcileCorrect == Spec => []VaultsReconcile
<1>1. Init => Reconciled
  <2>. SUFFICES ASSUME Init PROVE Reconciled
    OBVIOUS
  <2>1. /\ vaults \in [Versions -> Int] /\ \A v \in Versions : vaults[v] = 0
        /\ capitalIn = vaults /\ marketRevenue = vaults /\ operatingSpent = vaults /\ burned = 0
        /\ revenue \in [Versions -> [Epochs -> Int]] /\ cost = revenue
        /\ \A v \in Versions : \A e \in Epochs : revenue[v][e] = 0
    BY DEF Init
  <2>2. SumFunction(vaults) = 0 /\ GrandTotal(Versions, revenue) = 0
    BY <2>1, FiniteIds, TotalZero, GrandTotalZero
  <2>. QED
    BY <2>1, <2>2 DEF Reconciled, Explained, Booked
<1>2. TypeOK /\ SeatAgrees /\ [Next]_vars /\ Reconciled => Reconciled'
  <2>. SUFFICES ASSUME TypeOK, TypeOK', SeatAgrees, [Next]_vars, Reconciled PROVE Reconciled'
    BY TimeTypes, MoneyStepTypes, VersionStepTypes, RankedStepTypes, MarketStepTypes,
       SelectionStepTypes, StutterTypes DEF Next
  <2>1. Explains \/ Forfeits
    BY StepBalances DEF Balances
  <2>2. TypeOK' => BookInts' /\ MoneyInts'
    BY Ints, PTL
  <2>3. SumFunction(vaults) \in Int /\ SumFunction(vaults') \in Int /\ Booked \in Int
    BY <2>2, Ints DEF BookInts, MoneyInts, Booked
  <2>4. CASE Explains
    BY <2>4 DEF Explains, Reconciled
  <2>5. CASE Forfeits
    BY <2>3, <2>5 DEF Forfeits, Reconciled, Explained
  <2>. QED
    BY <2>1, <2>4, <2>5
<1>. QED
  BY <1>1, <1>2, ReconciledIs, TypeCorrect, SeatCorrect, PTL DEF Spec

(***************************************************************************)
(* Both escrows implement the abstract Escrow.  Every call is first        *)
(* reduced to what it does to the jobs, the pool and the payers' funds:    *)
(* nothing, one deposit locked, one deposit released.  The ranked escrow   *)
(* needs that no two jobs ever share a leaf.                               *)
(***************************************************************************)
\* The customers' escrow.
MarketDeposit(j) ==
  [id |-> j, payer |-> marketJobs[j].buyer, amount |-> marketJobs[j].reward]

MarketStepOK == [MarketEscrow!EscrowNext]_(MarketEscrow!escrowVars)

\* A step that keeps which jobs wait, for whom and for how much.
LEMMA MarketKept ==
  ASSUME DOMAIN marketJobs' = DOMAIN marketJobs,
         \A j \in DOMAIN marketJobs :
           /\ marketJobs'[j].buyer = marketJobs[j].buyer
           /\ marketJobs'[j].reward = marketJobs[j].reward
           /\ marketJobs'[j].status \in {"open", "submitted"}
                <=> marketJobs[j].status \in {"open", "submitted"},
         UNCHANGED marketEscrow
  PROVE  MarketStepOK
<1>1. OpenMarketJobs' = OpenMarketJobs
  BY DEF OpenMarketJobs
<1>2. MarketEscrow!Elsewhere
  BY <1>1 DEF MarketEscrow!Elsewhere, OpenMarketJobs
<1>. QED
  BY <1>2 DEF MarketStepOK, MarketEscrow!EscrowNext

\* A step that resolves one waiting job and takes its reward from the pool.
LEMMA MarketClosed ==
  ASSUME NEW j \in OpenMarketJobs,
         DOMAIN marketJobs' = DOMAIN marketJobs,
         \A i \in DOMAIN marketJobs \ {j} : marketJobs'[i] = marketJobs[i],
         marketJobs'[j].status \in {"accepted", "refunded"},
         marketEscrow' = marketEscrow - marketJobs[j].reward
  PROVE  MarketEscrow!Release(MarketDeposit(j))
<1>1. OpenMarketJobs' = OpenMarketJobs \ {j} /\ j \in DOMAIN marketJobs
  BY DEF OpenMarketJobs
<1>2. {MarketDeposit(i) : i \in OpenMarketJobs}' =
        {MarketDeposit(i) : i \in OpenMarketJobs} \ {MarketDeposit(j)}
  BY <1>1 DEF MarketDeposit, OpenMarketJobs
<1>3. (DOMAIN marketJobs \ OpenMarketJobs)' =
        (DOMAIN marketJobs \ OpenMarketJobs) \cup {j}
  BY <1>1
<1>. QED
  BY <1>2, <1>3 DEF MarketEscrow!Release, MarketDeposit

LEMMA MarketPaid ==
  ASSUME NEW j \in OpenMarketJobs, MarketEscrow!Release(MarketDeposit(j)), UNCHANGED wallets
  PROVE  MarketStepOK
<1>1. MarketEscrow!Pay(MarketDeposit(j))
  BY DEF MarketEscrow!Pay
<1>2. MarketDeposit(j) \in {MarketDeposit(i) : i \in OpenMarketJobs}
  OBVIOUS
<1>3. MarketEscrow!EscrowNext
  BY <1>1, <1>2 DEF MarketEscrow!EscrowNext, MarketEscrow!Pay, MarketEscrow!Release, MarketDeposit
<1>. QED
  BY <1>3 DEF MarketStepOK

LEMMA MarketReturned ==
  ASSUME NEW j \in OpenMarketJobs, MarketEscrow!Release(MarketDeposit(j)),
         wallets' = [wallets EXCEPT ![marketJobs[j].buyer] = @ + marketJobs[j].reward]
  PROVE  MarketStepOK
<1>1. MarketEscrow!Return(MarketDeposit(j))
  BY DEF MarketEscrow!Return, MarketDeposit
<1>2. MarketDeposit(j) \in {MarketDeposit(i) : i \in OpenMarketJobs}
  OBVIOUS
<1>3. MarketEscrow!EscrowNext
  BY <1>1, <1>2 DEF MarketEscrow!EscrowNext, MarketEscrow!Return, MarketEscrow!Release, MarketDeposit
<1>. QED
  BY <1>3 DEF MarketStepOK

LEMMA MarketOpened ==
  ASSUME TypeOK, NEW b \in Accounts, NEW v \in Versions, NEW n \in MarketRewards,
         NEW d \in Deadlines, NEW w \in BOOLEAN, OpenMarketJob(b, v, n, d, w)
  PROVE  MarketStepOK
<1>. DEFINE new == Len(marketJobs) + 1
            job == [buyer |-> b, target |-> v, reward |-> n, deadline |-> d,
                    verifier |-> w, status |-> "open", performer |-> Nobody]
            deposit == [id |-> new, payer |-> b, amount |-> n]
<1>1. /\ marketJobs \in Seq(MarketJob) /\ wallets \in [Accounts -> Nat] /\ n \in Nat
  BY AmountAssumption DEF TypeOK, MoneyTypes, JobTypes
<1>2. marketJobs' = Append(marketJobs, job)
  BY DEF OpenMarketJob
<1>3. /\ DOMAIN marketJobs = 1 .. Len(marketJobs) /\ Len(marketJobs) \in Nat
      /\ DOMAIN marketJobs' = 1 .. new /\ marketJobs'[new] = job
      /\ \A i \in DOMAIN marketJobs : marketJobs'[i] = marketJobs[i]
  BY <1>1, <1>2, AppendProperties, LenProperties
<1>4. OpenMarketJobs' = OpenMarketJobs \cup {new} /\ new \notin DOMAIN marketJobs
  BY <1>3 DEF OpenMarketJobs
<1>5. {MarketDeposit(i) : i \in OpenMarketJobs}' =
        {MarketDeposit(i) : i \in OpenMarketJobs} \cup {deposit}
  BY <1>3, <1>4 DEF MarketDeposit, OpenMarketJobs
<1>6. (DOMAIN marketJobs \ OpenMarketJobs)' = DOMAIN marketJobs \ OpenMarketJobs
  BY <1>3, <1>4
<1>7. \A i \in OpenMarketJobs : i # new
  BY <1>4 DEF OpenMarketJobs
<1>8. n \in 0 .. wallets[b] /\ wallets' = [wallets EXCEPT ![b] = @ - n]
      /\ marketEscrow' = marketEscrow + n
  BY <1>1 DEF OpenMarketJob, Sufficient, Debit
<1>9. MarketEscrow!Lock(deposit)
  BY <1>4, <1>5, <1>6, <1>7, <1>8 DEF MarketEscrow!Lock, MarketDeposit
<1>10. deposit \in {MarketDeposit(i) : i \in OpenMarketJobs}'
  BY <1>5
<1>11. MarketEscrow!EscrowNext
  BY <1>9, <1>10 DEF MarketEscrow!EscrowNext, MarketEscrow!Lock, MarketDeposit
<1>. QED
  BY <1>11 DEF MarketStepOK

LEMMA MarketResult ==
  ASSUME TypeOK, NEW a \in Accounts, NEW j \in MarketJobIds, NEW ok \in BOOLEAN,
         SubmitMarketResult(a, j, ok)
  PROVE  MarketStepOK
<1>1. marketJobs \in Seq(MarketJob) /\ j \in DOMAIN marketJobs
  BY DEF TypeOK, JobTypes, SubmitMarketResult
<1>2. marketJobs[j] \in MarketJob /\ marketJobs[j].status = "open" /\ j \in OpenMarketJobs
  BY <1>1, JobUpdate DEF SubmitMarketResult, OpenMarketJobs
<1>. DEFINE performer == LiveBeneficiary(marketJobs[j].target)
            s == IF marketJobs[j].verifier /\ ok THEN "accepted" ELSE "submitted"
            job == [marketJobs[j] EXCEPT !.performer = performer, !.status = s]
<1>3. /\ marketJobs' = [marketJobs EXCEPT ![j] = job]
      /\ s = "accepted" => marketEscrow' = marketEscrow - marketJobs[j].reward
      /\ s = "submitted" => UNCHANGED marketEscrow
      /\ UNCHANGED wallets
  <2>1. marketJobs' = [marketJobs EXCEPT ![j] = job]
    BY DEF SubmitMarketResult
  <2>2. CASE marketJobs[j].verifier /\ ok
    BY <2>1, <2>2 DEF SubmitMarketResult, PayReward
  <2>3. CASE ~(marketJobs[j].verifier /\ ok)
    BY <2>1, <2>3 DEF SubmitMarketResult
  <2>. QED
    BY <2>2, <2>3
<1>. HIDE DEF performer
<1>4. /\ DOMAIN marketJobs' = DOMAIN marketJobs
      /\ \A i \in DOMAIN marketJobs \ {j} : marketJobs'[i] = marketJobs[i]
      /\ marketJobs'[j] = job
  BY <1>1, <1>3
<1>5. /\ marketJobs'[j].status = s /\ marketJobs'[j].buyer = marketJobs[j].buyer
      /\ marketJobs'[j].reward = marketJobs[j].reward
  BY <1>2, <1>4 DEF MarketJob
<1>6. CASE s = "accepted"
  BY <1>2, <1>3, <1>4, <1>5, <1>6, MarketClosed, MarketPaid
<1>7. CASE s = "submitted"
  <2>1. UNCHANGED marketEscrow
    BY <1>3, <1>7
  <2>. QED
    BY <1>2, <1>4, <1>5, <1>7, <2>1, MarketKept
<1>. QED
  BY <1>6, <1>7

LEMMA MarketResolved ==
  ASSUME TypeOK, NEW b \in Accounts, NEW j \in MarketJobIds,
         AcceptMarketResult(b, j) \/ RefundMarketJob(b, j)
  PROVE  MarketStepOK
<1>1. /\ marketJobs \in Seq(MarketJob) /\ j \in DOMAIN marketJobs /\ j \in OpenMarketJobs
  BY DEF TypeOK, JobTypes, AcceptMarketResult, RefundMarketJob, Refundable, OpenMarketJobs
<1>2. marketJobs[j] \in MarketJob
  BY <1>1, JobUpdate
<1>3. PICK s \in {"accepted", "refunded"} :
        marketJobs' = [marketJobs EXCEPT ![j] = [@ EXCEPT !.status = s]]
  BY DEF AcceptMarketResult, RefundMarketJob
<1>4. /\ DOMAIN marketJobs' = DOMAIN marketJobs
      /\ \A i \in DOMAIN marketJobs \ {j} : marketJobs'[i] = marketJobs[i]
      /\ marketJobs'[j].status = s
  BY <1>1, <1>2, <1>3 DEF MarketJob
<1>5. marketEscrow' = marketEscrow - marketJobs[j].reward
  BY DEF AcceptMarketResult, RefundMarketJob, PayReward
<1>6. MarketEscrow!Release(MarketDeposit(j))
  BY <1>1, <1>4, <1>5, MarketClosed
<1>7. CASE AcceptMarketResult(b, j)
  BY <1>1, <1>6, <1>7, MarketPaid DEF AcceptMarketResult
<1>8. CASE RefundMarketJob(b, j)
  BY <1>1, <1>6, <1>8, MarketReturned DEF RefundMarketJob, Credit
<1>. QED
  BY <1>7, <1>8

LEMMA SelectionUntouched ==
  SelectionStep => UNCHANGED <<jobVars, econVars, marketEscrow, commonsReserved>>
<1>1. ASSUME NEW v \in Versions, NEW e \in Epochs, NEW s \in Salts,
             CommitSupersede(v, e, s) \/ RevealSupersede(v, e, s)
      PROVE  UNCHANGED <<jobVars, econVars, marketEscrow, commonsReserved>>
  BY <1>1 DEF CommitSupersede, RevealSupersede, SupersedeUnchanged, poolVars
<1>2. ASSUME NEW v \in Versions, NEW e \in Epochs, Supersede(v, e) \/ ClaimVacancy(v, e)
      PROVE  UNCHANGED <<jobVars, econVars, marketEscrow, commonsReserved>>
  BY <1>2 DEF Supersede, SupersedeUnchanged, ClaimVacancy, poolVars
<1>3. ASSUME NEW v \in Versions, NEW heir \in Versions \cup {Nobody}, EjectStale(v, heir)
      PROVE  UNCHANGED <<jobVars, econVars, marketEscrow, commonsReserved>>
  BY <1>3 DEF EjectStale
<1>. QED
  BY <1>1, <1>2, <1>3 DEF SelectionStep

LEMMA MarketUntouched ==
  TimeStep \/ MoneyStep \/ VersionStep \/ RankedStep \/ SelectionStep
    => UNCHANGED <<marketJobs, marketEscrow>>
<1>. USE DEF jobVars, poolVars
<1>1. TimeStep => UNCHANGED <<marketJobs, marketEscrow>>
  BY DEF TimeStep, Advance, AdvanceToNextEpoch
<1>2. MoneyStep => UNCHANGED <<marketJobs, marketEscrow>>
  BY DEF MoneyStep, Mint, FundCommons, DirectTransferToArena, AbsorbSurplus, Donate, Endow,
         SettleOperatingExpense
<1>3. VersionStep => UNCHANGED <<marketJobs, marketEscrow>>
  BY DEF VersionStep, CreateLineage, RegisterVersion, StoreVersion, ReclaimBond, Heartbeat
<1>4. RankedStep => UNCHANGED <<marketJobs, marketEscrow>>
  <2>1. ASSUME NEW leaf \in Schedule, AuthorizeRankedJob(leaf) \/ CreateRankedJob(leaf)
        PROVE  UNCHANGED <<marketJobs, marketEscrow>>
    BY <2>1 DEF AuthorizeRankedJob, CreateRankedJob
  <2>2. ASSUME NEW j \in RankedJobIds, NEW a \in Accounts, NEW v \in Versions,
               NEW p \in Proofs, SubmitRankedResult(a, j, v, p)
        PROVE  UNCHANGED <<marketJobs, marketEscrow>>
    BY <2>2 DEF SubmitRankedResult
  <2>3. ASSUME NEW j \in RankedJobIds, ExpireRankedJob(j)
        PROVE  UNCHANGED <<marketJobs, marketEscrow>>
    BY <2>3 DEF ExpireRankedJob
  <2>. QED
    BY <2>1, <2>2, <2>3 DEF RankedStep
<1>5. SelectionStep => UNCHANGED <<marketJobs, marketEscrow>>
  BY SelectionUntouched
<1>. QED
  BY <1>1, <1>2, <1>3, <1>4, <1>5

LEMMA MarketSteps == TypeOK /\ [Next]_vars => MarketStepOK
<1>. SUFFICES ASSUME TypeOK, [Next]_vars PROVE MarketStepOK
  OBVIOUS
<1>1. CASE UNCHANGED <<marketJobs, marketEscrow>>
  BY <1>1, MarketKept
<1>2. CASE MarketStep
  BY <1>2, MarketOpened, MarketResult, MarketResolved DEF MarketStep
<1>3. UNCHANGED vars => UNCHANGED <<marketJobs, marketEscrow>>
  BY DEF vars, jobVars, poolVars
<1>. QED
  BY <1>1, <1>2, <1>3, MarketUntouched DEF Next

(***************************************************************************)
(* The ranked escrow.                                                      *)
(***************************************************************************)
\* Every job's leaf is spent, and no leaf is spent twice.
LeavesOnce ==
  /\ \A i \in DOMAIN rankedJobs : rankedJobs[i].leaf \in authorizationUsed
  /\ \A i, j \in DOMAIN rankedJobs : i # j => rankedJobs[i].leaf # rankedJobs[j].leaf

RankedDeposit(leaf) == [id |-> leaf, payer |-> "commons", amount |-> leaf.reward]

RankedStepOK == [RankedEscrow!EscrowNext]_(RankedEscrow!escrowVars)

RankedQuiet == UNCHANGED <<rankedJobs, authorizationUsed, commonsReserved, econVars>>

Created(leaf) ==
  /\ leaf \notin authorizationUsed
  /\ leaf.reward \in 0 .. commonsAvailable
  /\ \E job : job.leaf = leaf /\ job.status = "open" /\ rankedJobs' = Append(rankedJobs, job)
  /\ authorizationUsed' = authorizationUsed \cup {leaf}
  /\ commonsAvailable' = commonsAvailable - leaf.reward
  /\ commonsReserved' = commonsReserved + leaf.reward

\* What a settlement and an expiry have in common.
Resolved(j) ==
  /\ j \in DOMAIN rankedJobs /\ rankedJobs[j].status = "open"
  /\ DOMAIN rankedJobs' = DOMAIN rankedJobs
  /\ \A i \in DOMAIN rankedJobs \ {j} : rankedJobs'[i] = rankedJobs[i]
  /\ rankedJobs'[j].leaf = rankedJobs[j].leaf /\ rankedJobs'[j].status # "open"
  /\ authorizationUsed' = authorizationUsed
  /\ commonsReserved' = commonsReserved - rankedJobs[j].leaf.reward
  /\ commonsAvailable' \in {commonsAvailable, commonsAvailable + rankedJobs[j].leaf.reward}

RankedEffect ==
  \/ RankedQuiet
  \/ \E leaf \in Schedule : Created(leaf)
  \/ \E j \in DOMAIN rankedJobs : Resolved(j)

LEMMA RankedUntouched ==
  TimeStep \/ MoneyStep \/ VersionStep \/ MarketStep \/ SelectionStep => RankedQuiet
<1>. USE DEF RankedQuiet, jobVars, poolVars, econVars
<1>1. TimeStep => RankedQuiet
  BY DEF TimeStep, Advance, AdvanceToNextEpoch
<1>2. MoneyStep => RankedQuiet
  BY DEF MoneyStep, Mint, FundCommons, DirectTransferToArena, AbsorbSurplus, Donate, Endow,
         SettleOperatingExpense
<1>3. VersionStep => RankedQuiet
  BY DEF VersionStep, CreateLineage, RegisterVersion, StoreVersion, ReclaimBond, Heartbeat
<1>4. MarketStep => RankedQuiet
  <2>1. ASSUME NEW b \in Accounts, NEW v \in Versions, NEW n \in MarketRewards,
               NEW d \in Deadlines, NEW w \in BOOLEAN, OpenMarketJob(b, v, n, d, w)
        PROVE  RankedQuiet
    BY <2>1 DEF OpenMarketJob
  <2>2. ASSUME NEW j \in MarketJobIds, NEW a \in Accounts,
               \/ \E ok \in BOOLEAN : SubmitMarketResult(a, j, ok)
               \/ AcceptMarketResult(a, j) \/ RefundMarketJob(a, j)
        PROVE  RankedQuiet
    BY <2>2 DEF SubmitMarketResult, AcceptMarketResult, RefundMarketJob
  <2>. QED
    BY <2>1, <2>2 DEF MarketStep
<1>5. SelectionStep => RankedQuiet
  BY SelectionUntouched
<1>. QED
  BY <1>1, <1>2, <1>3, <1>4, <1>5

LEMMA RankedEffects == TypeOK /\ RankedStep => RankedEffect
<1>. SUFFICES ASSUME TypeOK, RankedStep PROVE RankedEffect
  OBVIOUS
<1>1. /\ rankedJobs \in Seq(RankedJob) /\ commonsAvailable \in Nat
      /\ \A leaf \in Schedule : leaf.reward \in Nat
  BY InputAssumption DEF TypeOK, MoneyTypes, JobTypes, Leaf
<1>2. ASSUME NEW leaf \in Schedule, AuthorizeRankedJob(leaf) PROVE RankedEffect
  BY <1>2 DEF AuthorizeRankedJob, RankedEffect, RankedQuiet, poolVars
<1>3. ASSUME NEW leaf \in Schedule, CreateRankedJob(leaf) PROVE Created(leaf)
  <2>1. leaf.reward \in 0 .. commonsAvailable
    BY <1>1, <1>3 DEF CreateRankedJob
  <2>2. \E job : job.leaf = leaf /\ job.status = "open" /\ rankedJobs' = Append(rankedJobs, job)
    <3>. DEFINE job == [leaf |-> leaf, status |-> "open", winner |-> Nobody,
                        epoch |-> Never, proof |-> Nobody]
    <3>1. job.leaf = leaf /\ job.status = "open" /\ rankedJobs' = Append(rankedJobs, job)
      BY <1>3 DEF CreateRankedJob
    <3>. QED
      BY <3>1
  <2>. QED
    BY <1>3, <2>1, <2>2 DEF CreateRankedJob, Authorized, Created
<1>4. ASSUME NEW j \in RankedJobIds, NEW a \in Accounts, NEW v \in Versions, NEW p \in Proofs,
             SubmitRankedResult(a, j, v, p)
      PROVE  j \in DOMAIN rankedJobs /\ Resolved(j)
  <2>1. j \in DOMAIN rankedJobs /\ rankedJobs[j] \in RankedJob
    BY <1>1, <1>4, JobUpdate DEF SubmitRankedResult
  <2>. DEFINE job == [rankedJobs[j] EXCEPT !.status = "settled", !.winner = v,
                        !.epoch = CurrentEpoch, !.proof = p]
  <2>2. rankedJobs' = [rankedJobs EXCEPT ![j] = job]
    BY <1>4 DEF SubmitRankedResult, SettleRankedJob
  <2>3. job.status = "settled" /\ job.leaf = rankedJobs[j].leaf
    BY <2>1 DEF RankedJob
  <2>. HIDE DEF job
  <2>4. /\ rankedJobs[j].status = "open"
        /\ authorizationUsed' = authorizationUsed /\ commonsAvailable' = commonsAvailable
        /\ commonsReserved' = commonsReserved - rankedJobs[j].leaf.reward
    BY <1>4 DEF SubmitRankedResult
  <2>. QED
    BY <1>1, <2>1, <2>2, <2>3, <2>4 DEF Resolved
<1>5. ASSUME NEW j \in RankedJobIds, ExpireRankedJob(j)
      PROVE  j \in DOMAIN rankedJobs /\ Resolved(j)
  <2>1. j \in DOMAIN rankedJobs /\ rankedJobs[j] \in RankedJob
    BY <1>1, <1>5, JobUpdate DEF ExpireRankedJob
  <2>2. rankedJobs' = [rankedJobs EXCEPT ![j] = [@ EXCEPT !.status = "expired"]]
    BY <1>5 DEF ExpireRankedJob
  <2>. QED
    BY <1>1, <1>5, <2>1, <2>2 DEF ExpireRankedJob, Resolved, RankedJob
<1>. QED
  BY <1>2, <1>3, <1>4, <1>5 DEF RankedStep, RankedEffect

LEMMA LeavesInduction ==
  ASSUME TypeOK, LeavesOnce, RankedEffect PROVE LeavesOnce'
<1>1. rankedJobs \in Seq(RankedJob)
  BY DEF TypeOK, JobTypes
<1>2. CASE RankedQuiet
  BY <1>2 DEF RankedQuiet, LeavesOnce
<1>3. ASSUME NEW leaf \in Schedule, Created(leaf) PROVE LeavesOnce'
  <2>1. PICK job : job.leaf = leaf /\ rankedJobs' = Append(rankedJobs, job)
    BY <1>3 DEF Created
  <2>2. /\ DOMAIN rankedJobs = 1 .. Len(rankedJobs) /\ Len(rankedJobs) \in Nat
        /\ DOMAIN rankedJobs' = 1 .. Len(rankedJobs) + 1
        /\ rankedJobs'[Len(rankedJobs) + 1].leaf = leaf
        /\ \A i \in DOMAIN rankedJobs : rankedJobs'[i] = rankedJobs[i]
    BY <1>1, <2>1
  <2>. QED
    BY <1>3, <2>2 DEF Created, LeavesOnce
<1>4. ASSUME NEW j \in DOMAIN rankedJobs, Resolved(j) PROVE LeavesOnce'
  BY <1>4 DEF Resolved, LeavesOnce
<1>. QED
  BY <1>2, <1>3, <1>4 DEF RankedEffect

LEMMA RankedLocked ==
  ASSUME TypeOK, LeavesOnce, NEW leaf \in Schedule, Created(leaf) PROVE RankedStepOK
<1>1. rankedJobs \in Seq(RankedJob) /\ commonsAvailable \in Nat
  BY DEF TypeOK, JobTypes, MoneyTypes
<1>. DEFINE new == Len(rankedJobs) + 1
<1>2. PICK job : job.leaf = leaf /\ job.status = "open" /\ rankedJobs' = Append(rankedJobs, job)
  BY DEF Created
<1>3. /\ DOMAIN rankedJobs = 1 .. Len(rankedJobs) /\ Len(rankedJobs) \in Nat
      /\ DOMAIN rankedJobs' = 1 .. new
      /\ rankedJobs'[new].leaf = leaf /\ rankedJobs'[new].status = "open"
      /\ \A i \in DOMAIN rankedJobs : rankedJobs'[i] = rankedJobs[i]
  BY <1>1, <1>2
<1>4. OpenRankedJobs' = OpenRankedJobs \cup {new} /\ new \notin DOMAIN rankedJobs
  BY <1>3 DEF OpenRankedJobs
<1>5. {RankedDeposit(rankedJobs[i].leaf) : i \in OpenRankedJobs}' =
        {RankedDeposit(rankedJobs[i].leaf) : i \in OpenRankedJobs} \cup {RankedDeposit(leaf)}
  BY <1>3, <1>4 DEF OpenRankedJobs
<1>6. {rankedJobs[i].leaf : i \in DOMAIN rankedJobs \ OpenRankedJobs}' =
        {rankedJobs[i].leaf : i \in DOMAIN rankedJobs \ OpenRankedJobs}
  BY <1>3, <1>4
<1>7. \A i \in DOMAIN rankedJobs : rankedJobs[i].leaf # leaf
  BY DEF Created, LeavesOnce
<1>8. /\ leaf.reward \in 0 .. [commons |-> commonsAvailable]["commons"]
      /\ commonsReserved' = commonsReserved + leaf.reward
      /\ [commons |-> commonsAvailable'] =
           [[commons |-> commonsAvailable] EXCEPT !["commons"] = @ - leaf.reward]
  BY DEF Created
<1>9. RankedDeposit(leaf) \in {RankedDeposit(rankedJobs[i].leaf) : i \in OpenRankedJobs}'
  BY <1>5
<1>10. RankedEscrow!Lock(RankedDeposit(leaf))
  <2>1. /\ leaf \notin {rankedJobs[i].leaf : i \in DOMAIN rankedJobs \ OpenRankedJobs}
        /\ \A d \in {RankedDeposit(rankedJobs[i].leaf) : i \in OpenRankedJobs} : d.id # leaf
    BY <1>7 DEF OpenRankedJobs, RankedDeposit
  <2>2. /\ RankedDeposit(leaf).id = leaf /\ RankedDeposit(leaf).payer = "commons"
        /\ RankedDeposit(leaf).amount = leaf.reward
    BY DEF RankedDeposit
  <2>. QED
    BY <1>5, <1>6, <1>8, <2>1, <2>2 DEF RankedEscrow!Lock, RankedDeposit
<1>11. RankedEscrow!EscrowNext
  BY <1>9, <1>10 DEF RankedEscrow!EscrowNext, RankedEscrow!Lock, RankedDeposit
<1>. QED
  BY <1>11 DEF RankedStepOK

LEMMA RankedReleased ==
  ASSUME TypeOK, LeavesOnce, NEW j \in DOMAIN rankedJobs, Resolved(j) PROVE RankedStepOK
<1>. DEFINE leaf == rankedJobs[j].leaf
<1>1. OpenRankedJobs' = OpenRankedJobs \ {j} /\ j \in OpenRankedJobs
  BY DEF Resolved, OpenRankedJobs
<1>2. \A i \in DOMAIN rankedJobs : rankedJobs'[i].leaf = rankedJobs[i].leaf
  BY DEF Resolved
<1>3. \A i \in DOMAIN rankedJobs \ {j} : rankedJobs[i].leaf # leaf
  BY DEF LeavesOnce
<1>4. {RankedDeposit(rankedJobs[i].leaf) : i \in OpenRankedJobs}' =
        {RankedDeposit(rankedJobs[i].leaf) : i \in OpenRankedJobs} \ {RankedDeposit(leaf)}
  <2>1. \A i \in OpenRankedJobs \ {j} : RankedDeposit(rankedJobs[i].leaf) # RankedDeposit(leaf)
    BY <1>3 DEF RankedDeposit, OpenRankedJobs
  <2>2. {RankedDeposit(rankedJobs[i].leaf) : i \in OpenRankedJobs}' =
          {RankedDeposit(rankedJobs[i].leaf) : i \in OpenRankedJobs \ {j}}
    BY <1>1, <1>2 DEF OpenRankedJobs
  <2>. QED
    BY <1>1, <2>1, <2>2
<1>5. {rankedJobs[i].leaf : i \in DOMAIN rankedJobs \ OpenRankedJobs}' =
        {rankedJobs[i].leaf : i \in DOMAIN rankedJobs \ OpenRankedJobs} \cup {leaf}
  <2>1. (DOMAIN rankedJobs \ OpenRankedJobs)' = (DOMAIN rankedJobs \ OpenRankedJobs) \cup {j}
    BY <1>1 DEF Resolved
  <2>. QED
    BY <1>2, <2>1
<1>6. RankedEscrow!Release(RankedDeposit(leaf))
  <2>1. RankedDeposit(leaf) \in {RankedDeposit(rankedJobs[i].leaf) : i \in OpenRankedJobs}
    BY <1>1
  <2>2. RankedDeposit(leaf).id = leaf /\ RankedDeposit(leaf).amount = leaf.reward
    BY DEF RankedDeposit
  <2>3. commonsReserved' = commonsReserved - leaf.reward
    BY DEF Resolved
  <2>. QED
    BY <1>4, <1>5, <2>1, <2>2, <2>3 DEF RankedEscrow!Release, RankedDeposit
<1>7. [commons |-> commonsAvailable'] \in
        {[commons |-> commonsAvailable],
         [[commons |-> commonsAvailable] EXCEPT !["commons"] = @ + leaf.reward]}
  BY DEF Resolved
<1>8. RankedDeposit(leaf).payer = "commons" /\ RankedDeposit(leaf).amount = leaf.reward
  BY DEF RankedDeposit
<1>9. RankedEscrow!Pay(RankedDeposit(leaf)) \/ RankedEscrow!Return(RankedDeposit(leaf))
  BY <1>6, <1>7, <1>8 DEF RankedEscrow!Pay, RankedEscrow!Return
<1>10. RankedDeposit(leaf) \in {RankedDeposit(rankedJobs[i].leaf) : i \in OpenRankedJobs}
  BY <1>1
<1>11. RankedEscrow!EscrowNext
  BY <1>9, <1>10 DEF RankedEscrow!EscrowNext, RankedEscrow!Pay, RankedEscrow!Return,
                     RankedEscrow!Release, RankedDeposit
<1>. QED
  BY <1>11 DEF RankedStepOK

LEMMA RankedStepEffects == TypeOK /\ [Next]_vars => RankedEffect
<1>1. UNCHANGED vars => RankedQuiet
  BY DEF vars, jobVars, poolVars, RankedQuiet
<1>. QED
  BY <1>1, RankedEffects, RankedUntouched DEF Next, RankedEffect

LEMMA RankedSteps == TypeOK /\ LeavesOnce /\ [Next]_vars => RankedStepOK
<1>. SUFFICES ASSUME TypeOK, LeavesOnce, RankedEffect PROVE RankedStepOK
  BY RankedStepEffects
<1>1. CASE RankedQuiet
  <2>1. RankedEscrow!Elsewhere
    BY <1>1 DEF RankedQuiet, RankedEscrow!Elsewhere, OpenRankedJobs
  <2>. QED
    BY <2>1 DEF RankedStepOK, RankedEscrow!EscrowNext
<1>. QED
  BY <1>1, RankedLocked, RankedReleased DEF RankedEffect

(* No authorization ever funds two jobs, whatever is authorized again, expired
   or settled meanwhile. *)
THEOREM LeavesCorrect == Spec => []LeavesOnce
<1>1. Init => LeavesOnce
  BY DEF Init, LeavesOnce
<1>2. TypeOK /\ LeavesOnce /\ [Next]_vars => LeavesOnce'
  BY RankedStepEffects, LeavesInduction
<1>. QED
  BY <1>1, <1>2, TypeCorrect, PTL DEF Spec

(* Both escrows of the arena behave as the abstract one, for any schedule, any
   number of jobs and any interleaving of the calls. *)
THEOREM EscrowImplemented == Spec => ImplementsEscrow
<1>1. Init => MarketEscrow!EscrowInit /\ RankedEscrow!EscrowInit
  BY DEF Init, MarketEscrow!EscrowInit, RankedEscrow!EscrowInit, OpenMarketJobs, OpenRankedJobs
<1>2. TypeOK /\ LeavesOnce /\ [Next]_vars
        => /\ [MarketEscrow!EscrowNext]_(MarketEscrow!escrowVars)
           /\ [RankedEscrow!EscrowNext]_(RankedEscrow!escrowVars)
  BY MarketSteps, RankedSteps DEF MarketStepOK, RankedStepOK
<1>. QED
  BY <1>1, <1>2, TypeCorrect, LeavesCorrect, PTL
     DEF Spec, ImplementsEscrow, MarketEscrow!EscrowSpec, RankedEscrow!EscrowSpec

(***************************************************************************)
(* Rank.  A call leaves the settled jobs and the economies alone, or       *)
(* settles one job and books its reward and cost to the version and epoch  *)
(* that the job records.                                                   *)
(***************************************************************************)
SettledBy(v, e) ==
  {j \in DOMAIN rankedJobs : /\ rankedJobs[j].status = "settled"
                             /\ rankedJobs[j].winner = v /\ rankedJobs[j].epoch = e}
RewardOf(v, e) == [j \in SettledBy(v, e) |-> rankedJobs[j].leaf.reward]
CostOf(v, e)   == [j \in SettledBy(v, e) |-> rankedJobs[j].leaf.cost]

SettledKept ==
  /\ \A j \in DOMAIN rankedJobs' : rankedJobs'[j].status = "settled" =>
       j \in DOMAIN rankedJobs /\ rankedJobs[j].status = "settled"
  /\ \A j \in DOMAIN rankedJobs : rankedJobs[j].status = "settled" =>
       j \in DOMAIN rankedJobs' /\ rankedJobs'[j] = rankedJobs[j]
  /\ UNCHANGED econVars

SettledFor(j, v) ==
  /\ j \in DOMAIN rankedJobs /\ rankedJobs[j].status = "open"
  /\ DOMAIN rankedJobs' = DOMAIN rankedJobs
  /\ \A i \in DOMAIN rankedJobs \ {j} : rankedJobs'[i] = rankedJobs[i]
  /\ rankedJobs'[j].status = "settled" /\ rankedJobs'[j].leaf = rankedJobs[j].leaf
  /\ rankedJobs'[j].winner = v /\ rankedJobs'[j].epoch = CurrentEpoch
  /\ BookRanked(v, rankedJobs[j].leaf)

LEMMA RankIs ==
  RankIsSettledJobs <=> \A v \in Versions, e \in Epochs :
                          /\ revenue[v][e] = SumFunction(RewardOf(v, e))
                          /\ cost[v][e] = SumFunction(CostOf(v, e))
BY DEF RankIsSettledJobs, RankedWhere, Rewards, Costs, RewardOf, CostOf, SettledBy

LEMMA RankEffects ==
  TypeOK /\ [Next]_vars => SettledKept \/ \E j \in DOMAIN rankedJobs, v \in Versions : SettledFor(j, v)
<1>. SUFFICES ASSUME TypeOK, [Next]_vars
              PROVE  SettledKept \/ \E j \in DOMAIN rankedJobs, v \in Versions : SettledFor(j, v)
  OBVIOUS
<1>1. rankedJobs \in Seq(RankedJob)
  BY DEF TypeOK, JobTypes
<1>2. CASE RankedQuiet
  BY <1>2 DEF RankedQuiet, SettledKept, econVars
<1>3. ASSUME NEW leaf \in Schedule, CreateRankedJob(leaf) PROVE SettledKept
  <2>1. PICK job : job.status = "open" /\ rankedJobs' = Append(rankedJobs, job)
    <3>. DEFINE job == [leaf |-> leaf, status |-> "open", winner |-> Nobody,
                        epoch |-> Never, proof |-> Nobody]
    <3>1. job.status = "open" /\ rankedJobs' = Append(rankedJobs, job)
      BY <1>3 DEF CreateRankedJob
    <3>. QED
      BY <3>1
  <2>2. /\ DOMAIN rankedJobs = 1 .. Len(rankedJobs) /\ Len(rankedJobs) \in Nat
        /\ DOMAIN rankedJobs' = 1 .. Len(rankedJobs) + 1
        /\ rankedJobs'[Len(rankedJobs) + 1].status = "open"
        /\ \A i \in DOMAIN rankedJobs : rankedJobs'[i] = rankedJobs[i]
    BY <1>1, <2>1
  <2>. QED
    BY <1>3, <2>2 DEF CreateRankedJob, SettledKept
<1>4. ASSUME NEW leaf \in Schedule, AuthorizeRankedJob(leaf) PROVE SettledKept
  BY <1>4 DEF AuthorizeRankedJob, SettledKept
<1>5. ASSUME NEW j \in RankedJobIds, NEW a \in Accounts, NEW v \in Versions, NEW p \in Proofs,
             SubmitRankedResult(a, j, v, p)
      PROVE  j \in DOMAIN rankedJobs /\ SettledFor(j, v)
  <2>1. j \in DOMAIN rankedJobs /\ rankedJobs[j] \in RankedJob
    BY <1>1, <1>5, JobUpdate DEF SubmitRankedResult
  <2>. DEFINE job == [rankedJobs[j] EXCEPT !.status = "settled", !.winner = v,
                        !.epoch = CurrentEpoch, !.proof = p]
  <2>2. rankedJobs' = [rankedJobs EXCEPT ![j] = job]
    BY <1>5 DEF SubmitRankedResult, SettleRankedJob
  <2>3. /\ job.status = "settled" /\ job.leaf = rankedJobs[j].leaf
        /\ job.winner = v /\ job.epoch = CurrentEpoch
    BY <2>1 DEF RankedJob
  <2>. HIDE DEF job
  <2>4. rankedJobs[j].status = "open" /\ BookRanked(v, rankedJobs[j].leaf)
    BY <1>5 DEF SubmitRankedResult
  <2>. QED
    BY <1>1, <2>1, <2>2, <2>3, <2>4 DEF SettledFor
<1>6. ASSUME NEW j \in RankedJobIds, ExpireRankedJob(j) PROVE SettledKept
  <2>1. j \in DOMAIN rankedJobs /\ rankedJobs[j] \in RankedJob /\ rankedJobs[j].status = "open"
    BY <1>1, <1>6, JobUpdate DEF ExpireRankedJob
  <2>2. rankedJobs' = [rankedJobs EXCEPT ![j] = [@ EXCEPT !.status = "expired"]]
    BY <1>6 DEF ExpireRankedJob
  <2>3. /\ DOMAIN rankedJobs' = DOMAIN rankedJobs /\ rankedJobs'[j].status = "expired"
        /\ \A i \in DOMAIN rankedJobs \ {j} : rankedJobs'[i] = rankedJobs[i]
    BY <1>1, <2>1, <2>2 DEF RankedJob
  <2>. QED
    BY <1>6, <2>1, <2>3 DEF ExpireRankedJob, SettledKept
<1>7. CASE UNCHANGED vars
  BY <1>7 DEF vars, jobVars, econVars, SettledKept
<1>. QED
  BY <1>2, <1>3, <1>4, <1>5, <1>6, <1>7, RankedUntouched DEF Next, RankedStep

LEMMA RankTypes ==
  ASSUME TypeOK, NEW v, NEW e
  PROVE  /\ IsFiniteSet(SettledBy(v, e))
         /\ RewardOf(v, e) \in [SettledBy(v, e) -> Int]
         /\ CostOf(v, e) \in [SettledBy(v, e) -> Int]
<1>1. DOMAIN rankedJobs = 1 .. Len(rankedJobs) /\ Len(rankedJobs) \in Nat
  BY DEF TypeOK, JobTypes
<1>2. IsFiniteSet(SettledBy(v, e))
  <2>1. SettledBy(v, e) \in SUBSET (1 .. Len(rankedJobs)) /\ IsFiniteSet(1 .. Len(rankedJobs))
    BY <1>1, FS_Interval DEF SettledBy
  <2>. QED
    BY <2>1, FS_Subset
<1>3. \A j \in SettledBy(v, e) :
        rankedJobs[j].leaf.reward \in Int /\ rankedJobs[j].leaf.cost \in Int
  BY RankedJobTyped DEF SettledBy
<1>. QED
  BY <1>2, <1>3 DEF RewardOf, CostOf

\* The settled jobs of a version and epoch that a call does not touch.
LEMMA RankUntouched ==
  ASSUME NEW v, NEW e, SettledBy(v, e)' = SettledBy(v, e),
         \A j \in SettledBy(v, e) : rankedJobs'[j].leaf = rankedJobs[j].leaf
  PROVE  RewardOf(v, e)' = RewardOf(v, e) /\ CostOf(v, e)' = CostOf(v, e)
BY DEF RewardOf, CostOf

LEMMA RankSettled ==
  ASSUME TypeOK, TypeOK', NEW j \in DOMAIN rankedJobs, NEW v \in Versions, SettledFor(j, v),
         NEW e \in Epochs, e = CurrentEpoch
  PROVE  /\ SumFunction(RewardOf(v, e)') = SumFunction(RewardOf(v, e)) + rankedJobs[j].leaf.reward
         /\ SumFunction(CostOf(v, e)') = SumFunction(CostOf(v, e)) + rankedJobs[j].leaf.cost
<1>. DEFINE before == SettledBy(v, e)
            f == RewardOf(v, e)
            g == RewardOf(v, e)'
            h == CostOf(v, e)
            k == CostOf(v, e)'
<1>1. j \notin before /\ SettledBy(v, e)' = before \cup {j}
  BY DEF SettledBy, SettledFor
<1>2. /\ IsFiniteSet(before) /\ f \in [before -> Int] /\ h \in [before -> Int]
      /\ rankedJobs[j].leaf.reward \in Int /\ rankedJobs[j].leaf.cost \in Int
  BY RankTypes, RankedJobTyped
<1>3. /\ \A i \in before : g[i] = f[i] /\ k[i] = h[i]
      /\ g[j] = rankedJobs[j].leaf.reward /\ k[j] = rankedJobs[j].leaf.cost
  <2>1. \A i \in before : rankedJobs'[i] = rankedJobs[i] /\ i \in before \cup {j}
    BY <1>1 DEF SettledFor, SettledBy
  <2>2. rankedJobs'[j].leaf = rankedJobs[j].leaf /\ j \in before \cup {j}
    BY DEF SettledFor
  <2>. QED
    BY <1>1, <2>1, <2>2 DEF RewardOf, CostOf
<1>4. g \in [before \cup {j} -> Int] /\ k \in [before \cup {j} -> Int]
  <2>1. DOMAIN g = before \cup {j} /\ DOMAIN k = before \cup {j}
    BY <1>1 DEF RewardOf, CostOf
  <2>2. \A i \in before \cup {j} : g[i] \in Int /\ k[i] \in Int
    BY <1>2, <1>3
  <2>3. g = [i \in before \cup {j} |-> g[i]] /\ k = [i \in before \cup {j} |-> k[i]]
    BY <1>1 DEF RewardOf, CostOf
  <2>. QED
    BY <2>2, <2>3
<1>. DEFINE after == before \cup {j}
<1>5. IsFiniteSet(after) /\ j \in after
  BY <1>2, FS_AddElement
<1>6. /\ after \ {j} = before
      /\ g \in [after -> Int] /\ f \in [after \ {j} -> Int] /\ \A i \in after \ {j} : g[i] = f[i]
      /\ k \in [after -> Int] /\ h \in [after \ {j} -> Int] /\ \A i \in after \ {j} : k[i] = h[i]
  BY <1>1, <1>2, <1>3, <1>4
<1>. HIDE DEF before, after, f, g, h, k
<1>7. \A p \in [after -> Int] : \A q \in [after \ {j} -> Int] :
        (\A i \in after \ {j} : p[i] = q[i]) => SumFunction(p) = SumFunction(q) + p[j]
  BY <1>5, TotalAdded
<1>8. SumFunction(g) = SumFunction(f) + g[j]
  BY <1>6, <1>7
<1>9. SumFunction(k) = SumFunction(h) + k[j]
  BY <1>6, <1>7
<1>. QED
  BY <1>3, <1>8, <1>9 DEF f, g, h, k

LEMMA RankInduction ==
  ASSUME TypeOK, TypeOK', RankIsSettledJobs, [Next]_vars
  PROVE  RankIsSettledJobs'
<1>1. ASSUME NEW v \in Versions, NEW e \in Epochs
      PROVE  /\ revenue'[v][e] = SumFunction(RewardOf(v, e)')
             /\ cost'[v][e] = SumFunction(CostOf(v, e)')
  <2>1. revenue[v][e] = SumFunction(RewardOf(v, e)) /\ cost[v][e] = SumFunction(CostOf(v, e))
    BY RankIs
  <2>2. CASE SettledKept
    <3>1. /\ SettledBy(v, e)' = SettledBy(v, e)
          /\ \A j \in SettledBy(v, e) : rankedJobs'[j].leaf = rankedJobs[j].leaf
      BY <2>2 DEF SettledKept, SettledBy
    <3>2. RewardOf(v, e)' = RewardOf(v, e) /\ CostOf(v, e)' = CostOf(v, e)
      BY <3>1, RankUntouched
    <3>. QED
      BY <2>1, <2>2, <3>2 DEF SettledKept, econVars
  <2>3. ASSUME NEW j \in DOMAIN rankedJobs, NEW w \in Versions, SettledFor(j, w)
        PROVE  /\ revenue'[v][e] = SumFunction(RewardOf(v, e)')
               /\ cost'[v][e] = SumFunction(CostOf(v, e)')
    <3>1. /\ revenue' = [revenue EXCEPT ![w][CurrentEpoch] = @ + rankedJobs[j].leaf.reward]
          /\ cost'    = [cost    EXCEPT ![w][CurrentEpoch] = @ + rankedJobs[j].leaf.cost]
          /\ revenue \in [Versions -> [Epochs -> Nat]] /\ cost \in [Versions -> [Epochs -> Nat]]
      BY <2>3 DEF SettledFor, BookRanked, TypeOK, EconTypes
    <3>2. CASE v = w /\ e = CurrentEpoch
      <4>1. /\ revenue'[v][e] = revenue[v][e] + rankedJobs[j].leaf.reward
            /\ cost'[v][e] = cost[v][e] + rankedJobs[j].leaf.cost
        BY <3>1, <3>2
      <4>. QED
        BY <2>1, <2>3, <3>2, <4>1, RankSettled
    <3>3. CASE v # w \/ e # CurrentEpoch
      <4>1. revenue'[v][e] = revenue[v][e] /\ cost'[v][e] = cost[v][e]
        BY <3>1, <3>3
      <4>2. /\ SettledBy(v, e)' = SettledBy(v, e)
            /\ \A i \in SettledBy(v, e) : rankedJobs'[i].leaf = rankedJobs[i].leaf
        BY <2>3, <3>3 DEF SettledFor, SettledBy
      <4>3. RewardOf(v, e)' = RewardOf(v, e) /\ CostOf(v, e)' = CostOf(v, e)
        BY <4>2, RankUntouched
      <4>. QED
        BY <2>1, <4>1, <4>3
    <3>. QED
      BY <3>2, <3>3
  <2>. QED
    BY <2>2, <2>3, RankEffects
<1>. QED
  BY <1>1 DEF RankIsSettledJobs, RankedWhere, Rewards, Costs, RewardOf, CostOf, SettledBy

(* The economies that selection and ejection compare are the settled jobs of
   that version and epoch and nothing else, whatever else moved money. *)
THEOREM RankCorrect == Spec => []RankIsSettledJobs
<1>1. Init => RankIsSettledJobs
  <2>. SUFFICES ASSUME Init PROVE RankIsSettledJobs
    OBVIOUS
  <2>1. /\ DOMAIN rankedJobs = {} /\ revenue = [v \in Versions |-> [e \in Epochs |-> 0]]
        /\ cost = revenue
    BY DEF Init
  <2>2. ASSUME NEW v \in Versions, NEW e \in Epochs
        PROVE  SumFunction(RewardOf(v, e)) = 0 /\ SumFunction(CostOf(v, e)) = 0
    <3>1. SettledBy(v, e) = {}
      BY <2>1 DEF SettledBy
    <3>2. RewardOf(v, e) \in [{} -> Int] /\ CostOf(v, e) \in [{} -> Int]
      BY <3>1 DEF RewardOf, CostOf
    <3>. QED
      BY <3>2, FS_EmptySet, TotalZero
  <2>. QED
    BY <2>1, <2>2, RankIs
<1>2. TypeOK /\ TypeOK' /\ [Next]_vars /\ RankIsSettledJobs => RankIsSettledJobs'
  BY RankInduction
<1>. QED
  BY <1>1, <1>2, TypeCorrect, PTL DEF Spec
=============================================================================
