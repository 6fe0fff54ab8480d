---------------------------- MODULE TokenProofs ------------------------------
(***************************************************************************)
(* Proofs about the coin for every value of its constants: the supply is   *)
(* the sum of the balances, and while governance spends nothing, only      *)
(* starter credit circulates.                                              *)
(***************************************************************************)
EXTENDS Token, SumProofs

TokenTypes ==
  /\ totalSupply \in Nat /\ balanceOf \in [Accounts -> Nat]
  /\ allowance \in [Accounts -> [Accounts -> Nat]]
  /\ starterCreditClaimed \subseteq Releases /\ IsFiniteSet(starterCreditClaimed)
  /\ poolSpends \in BOOLEAN

\* A pool that spends nothing has allowed nobody to spend.
PoolAllowsNothing ==
  ~poolSpends => \A a \in Accounts : allowance[commonsPool][a] = 0

TokenInv ==
  TokenTypes /\ SupplyIsBalances /\ PoolAllowsNothing /\ CirculationIsCredit

(***************************************************************************)
(* What moves: tokens between two accounts, or new tokens to the pool.     *)
(***************************************************************************)
LEMMA MovedKeepsSum ==
  ASSUME balanceOf \in [Accounts -> Nat], NEW from \in Accounts, NEW to \in Accounts,
         NEW n \in Nat, balanceOf[from] >= n
  PROVE  /\ Moved(from, to, n) \in [Accounts -> Nat]
         /\ SumFunction(Moved(from, to, n)) = SumFunction(balanceOf)
<1>. DEFINE after == Moved(from, to, n)
<1>. IsFiniteSet(Accounts)
  BY TokenAssumption
<1>1. CASE from = to
  <2>1. after \in [Accounts -> Nat] /\ \A a \in Accounts : after[a] = balanceOf[a]
    BY <1>1 DEF Moved
  <2>2. after = balanceOf
    BY <2>1
  <2>. QED
    BY <2>1, <2>2
<1>2. CASE from # to
  <2>1. /\ after \in [Accounts -> Nat]
        /\ after[from] = balanceOf[from] - n /\ after[to] = balanceOf[to] + n
        /\ \A a \in Accounts \ {from, to} : after[a] = balanceOf[a]
    BY <1>2 DEF Moved
  <2>. HIDE DEF after
  <2>2. after \in [Accounts -> Int] /\ balanceOf \in [Accounts -> Int]
    BY <2>1
  <2>3. SumFunction(after)
          = SumFunction(balanceOf) - balanceOf[from] - balanceOf[to] + after[from] + after[to]
    BY <1>2, <2>1, <2>2, TotalMovedTwo
  <2>4. SumFunction(balanceOf) \in Int
    BY <2>2, TotalInt
  <2>. QED
    BY <2>1, <2>3, <2>4 DEF after
<1>. QED
  BY <1>1, <1>2

\* What the pool has after a transfer.
LEMMA MovedAtPool ==
  ASSUME balanceOf \in [Accounts -> Nat], NEW from \in Accounts, NEW to \in Accounts, NEW n \in Nat
  PROVE  /\ from # commonsPool \/ n = 0 => Moved(from, to, n)[commonsPool] >= PoolBalance
         /\ Moved(from, to, n)[commonsPool] >= PoolBalance - n
BY TokenAssumption DEF Moved, PoolBalance

LEMMA TransfersKeep ==
  ASSUME TokenInv, NEW from \in Accounts, NEW to \in Accounts, NEW n \in Nat,
         balanceOf[from] >= n, ~poolSpends => from # commonsPool \/ n = 0,
         balanceOf' = Moved(from, to, n),
         UNCHANGED <<totalSupply, starterCreditClaimed, poolSpends>>
  PROVE  /\ balanceOf' \in [Accounts -> Nat] /\ SupplyIsBalances' /\ CirculationIsCredit'
<1>1. balanceOf' \in [Accounts -> Nat] /\ SumFunction(balanceOf') = SumFunction(balanceOf)
  BY MovedKeepsSum DEF TokenInv, TokenTypes
<1>2. SupplyIsBalances'
  BY <1>1 DEF TokenInv, SupplyIsBalances
<1>3. ~poolSpends => PoolBalance' >= PoolBalance
  BY MovedAtPool DEF TokenInv, TokenTypes, PoolBalance
<1>4. StarterCredit * Cardinality(starterCreditClaimed) \in Int
  <2>1. Cardinality(starterCreditClaimed) \in Nat /\ StarterCredit \in Nat
    BY TokenAssumption, FS_CardinalityType DEF TokenInv, TokenTypes
  <2>. QED
    BY <2>1
<1>5. PoolBalance \in Int /\ PoolBalance' \in Int /\ totalSupply \in Int
  BY <1>1, TokenAssumption DEF TokenInv, TokenTypes, PoolBalance
<1>6. CirculationIsCredit'
  BY <1>3, <1>4, <1>5 DEF TokenInv, CirculationIsCredit, Circulating
<1>. QED
  BY <1>1, <1>2, <1>6

LEMMA TransferKeeps ==
  ASSUME TokenInv, NEW from \in Accounts, NEW to \in Accounts, NEW n \in Amounts,
         Transfer(from, to, n)
  PROVE  TokenInv'
<1>1. /\ balanceOf[from] >= n /\ balanceOf' = Moved(from, to, n)
      /\ UNCHANGED <<totalSupply, allowance, starterCreditClaimed, poolSpends>>
      /\ ~poolSpends => from # commonsPool /\ n \in Nat
  BY TokenAssumption DEF Transfer, Callers
<1>2. balanceOf' \in [Accounts -> Nat] /\ SupplyIsBalances' /\ CirculationIsCredit'
  BY <1>1, TransfersKeep, TokenAssumption
<1>. QED
  BY <1>1, <1>2 DEF TokenInv, TokenTypes, PoolAllowsNothing

LEMMA ApproveKeeps ==
  ASSUME TokenInv, NEW owner \in Accounts, NEW spender \in Accounts, NEW n \in Amounts,
         Approve(owner, spender, n)
  PROVE  TokenInv'
<1>1. allowance' \in [Accounts -> [Accounts -> Nat]] /\ PoolAllowsNothing'
  BY TokenAssumption DEF TokenInv, TokenTypes, PoolAllowsNothing, Approve, Callers
<1>. QED
  BY <1>1 DEF Approve, TokenInv, TokenTypes, SupplyIsBalances, CirculationIsCredit, Circulating,
              PoolBalance

LEMMA TransferFromKeeps ==
  ASSUME TokenInv, NEW spender \in Accounts, NEW from \in Accounts, NEW to \in Accounts,
         NEW n \in Amounts, TransferFrom(spender, from, to, n)
  PROVE  TokenInv'
<1>1. /\ balanceOf[from] >= n /\ balanceOf' = Moved(from, to, n) /\ n \in Nat
      /\ UNCHANGED <<totalSupply, starterCreditClaimed, poolSpends>>
      /\ ~poolSpends => from # commonsPool \/ n = 0
  BY TokenAssumption DEF TransferFrom, TokenInv, TokenTypes, PoolAllowsNothing
<1>2. balanceOf' \in [Accounts -> Nat] /\ SupplyIsBalances' /\ CirculationIsCredit'
  BY <1>1, TransfersKeep
<1>3. allowance' \in [Accounts -> [Accounts -> Nat]] /\ PoolAllowsNothing'
  BY <1>1, TokenAssumption
     DEF TransferFrom, TokenInv, TokenTypes, PoolAllowsNothing
<1>. QED
  BY <1>1, <1>2, <1>3 DEF TokenInv, TokenTypes

\* The credit a release claims is the credit its claim accounts for.
LEMMA CreditKeeps ==
  ASSUME TokenInv, NEW caller \in Accounts, NEW release \in Releases,
         RequestStarterCredit(caller, release)
  PROVE  TokenInv'
<1>. DEFINE claims == Cardinality(starterCreditClaimed)
<1>1. /\ release \notin starterCreditClaimed /\ balanceOf[commonsPool] >= StarterCredit
      /\ starterCreditClaimed' = starterCreditClaimed \cup {release}
      /\ balanceOf' = Moved(commonsPool, caller, StarterCredit)
      /\ UNCHANGED <<totalSupply, allowance, poolSpends>>
  BY DEF RequestStarterCredit, Claimable, PoolBalance
<1>2. /\ balanceOf' \in [Accounts -> Nat] /\ SumFunction(balanceOf') = SumFunction(balanceOf)
      /\ PoolBalance' >= PoolBalance - StarterCredit
  BY <1>1, MovedKeepsSum, MovedAtPool, TokenAssumption DEF TokenInv, TokenTypes, PoolBalance
<1>3. /\ claims \in Nat /\ IsFiniteSet(starterCreditClaimed')
      /\ Cardinality(starterCreditClaimed') = claims + 1
  BY <1>1, FS_CardinalityType, FS_AddElement DEF TokenInv, TokenTypes
<1>4. StarterCredit * (claims + 1) = StarterCredit * claims + StarterCredit
      /\ StarterCredit * claims \in Int /\ StarterCredit \in Int
  <2>. HIDE DEF claims
  <2>. QED
    BY <1>3, TokenAssumption
<1>5. PoolBalance \in Int /\ PoolBalance' \in Int /\ totalSupply \in Int
  BY <1>2, TokenAssumption DEF TokenInv, TokenTypes, PoolBalance
<1>6. CirculationIsCredit'
  <2>1. SUFFICES ASSUME ~poolSpends
                 PROVE  totalSupply - PoolBalance' <= StarterCredit * (claims + 1)
    BY <1>1, <1>3 DEF CirculationIsCredit, Circulating
  <2>2. totalSupply - PoolBalance <= StarterCredit * claims
    BY <2>1 DEF TokenInv, CirculationIsCredit, Circulating
  <2>. HIDE DEF claims
  <2>. QED
    BY <1>2, <1>4, <1>5, <2>2
<1>7. SupplyIsBalances'
  BY <1>1, <1>2 DEF TokenInv, SupplyIsBalances
<1>. QED
  BY <1>1, <1>2, <1>3, <1>6, <1>7 DEF TokenInv, TokenTypes, PoolAllowsNothing

\* Emission is born in the pool: it circulates no more than before.
LEMMA MintKeeps ==
  ASSUME TokenInv, NEW n \in Int, Mint(n)
  PROVE  TokenInv'
<1>1. /\ n > 0 /\ totalSupply' = totalSupply + n
      /\ balanceOf' = [balanceOf EXCEPT ![commonsPool] = @ + n]
      /\ UNCHANGED <<allowance, starterCreditClaimed, poolSpends>>
  BY DEF Mint
<1>2. /\ balanceOf' \in [Accounts -> Nat] /\ PoolBalance' = PoolBalance + n
      /\ \A a \in Accounts \ {commonsPool} : balanceOf'[a] = balanceOf[a]
      /\ totalSupply' \in Nat /\ PoolBalance \in Nat
  BY <1>1, TokenAssumption DEF TokenInv, TokenTypes, PoolBalance
<1>3. SumFunction(balanceOf') = SumFunction(balanceOf) + n
  <2>1. balanceOf \in [Accounts -> Int] /\ balanceOf' \in [Accounts -> Int]
    BY <1>2 DEF TokenInv, TokenTypes
  <2>2. SumFunction(balanceOf') = SumFunction(balanceOf) - PoolBalance + PoolBalance'
    BY <1>2, <2>1, TotalMoved, TokenAssumption DEF PoolBalance
  <2>3. SumFunction(balanceOf) \in Int
    BY <2>1, TotalInt, TokenAssumption
  <2>. QED
    BY <1>2, <2>2, <2>3
<1>4. SupplyIsBalances'
  BY <1>1, <1>2, <1>3 DEF TokenInv, SupplyIsBalances
<1>5. Circulating' = Circulating
  BY <1>1, <1>2 DEF Circulating, TokenInv, TokenTypes
<1>. QED
  BY <1>1, <1>2, <1>4, <1>5
     DEF TokenInv, TokenTypes, CirculationIsCredit, PoolAllowsNothing

LEMMA EmissionIsInt ==
  ASSUME TokenInv
  PROVE  HourDue \in Int /\ emissionCap - Circulating \in Int
<1>1. HourlyMint \in Int /\ totalSupply \in Int /\ PoolBalance \in Int /\ emissionCap \in Int
  BY TokenAssumption DEF HourlyMint, TokenInv, TokenTypes, PoolBalance, emissionCap
<1>. QED
  BY <1>1 DEF HourDue, Circulating

LEMMA InitTokenInv == Init => TokenInv
<1>. SUFFICES ASSUME Init PROVE TokenInv
  OBVIOUS
<1>1. TokenTypes /\ PoolAllowsNothing
  BY TokenAssumption, FS_EmptySet DEF Init, TokenTypes, PoolAllowsNothing
<1>2. SumFunction(balanceOf) = InitialSupply
  <2>. DEFINE empty == [a \in Accounts |-> 0]
  <2>1. empty \in [Accounts -> Int] /\ \A a \in Accounts : empty[a] = 0
    OBVIOUS
  <2>2. /\ balanceOf \in [Accounts -> Int] /\ balanceOf[commonsPool] = InitialSupply
        /\ \A a \in Accounts \ {commonsPool} : balanceOf[a] = empty[a]
    BY TokenAssumption DEF Init
  <2>. HIDE DEF empty
  <2>3. SumFunction(empty) = 0
    BY <2>1, TotalZero, TokenAssumption
  <2>4. SumFunction(balanceOf) = SumFunction(empty) - empty[commonsPool] + balanceOf[commonsPool]
    BY <2>1, <2>2, TotalMoved, TokenAssumption
  <2>. QED
    BY <2>1, <2>2, <2>3, <2>4, TokenAssumption
<1>3. SupplyIsBalances
  BY <1>1, <1>2 DEF Init, SupplyIsBalances, TokenTypes
<1>4. Circulating = 0 /\ Cardinality(starterCreditClaimed) = 0
  BY FS_EmptySet, TokenAssumption DEF Init, Circulating, PoolBalance
<1>5. CirculationIsCredit
  BY <1>4, TokenAssumption DEF CirculationIsCredit
<1>. QED
  BY <1>1, <1>3, <1>5 DEF TokenInv

LEMMA TokenInductive == TokenInv /\ [Next]_vars => TokenInv'
<1>. SUFFICES ASSUME TokenInv, [Next]_vars PROVE TokenInv'
  OBVIOUS
<1>. USE DEF TokenInv, TokenTypes, SupplyIsBalances, PoolAllowsNothing, CirculationIsCredit,
             Circulating, PoolBalance
<1>1. CASE Tick
  BY <1>1 DEF Tick
<1>2. CASE CollectEmission \/ CollectRemaining
  BY <1>2, MintKeeps, EmissionIsInt DEF CollectEmission, CollectRemaining
<1>3. ASSUME NEW a \in Accounts, NEW b \in Accounts, NEW n \in Amounts,
             Transfer(a, b, n) \/ Approve(a, b, n)
      PROVE  TokenInv'
  BY <1>3, TransferKeeps, ApproveKeeps
<1>4. ASSUME NEW a \in Accounts, NEW b \in Accounts, NEW c \in Accounts, NEW n \in Amounts,
             TransferFrom(a, b, c, n)
      PROVE  TokenInv'
  BY <1>4, TransferFromKeeps
<1>5. ASSUME NEW r \in Releases, RegisterCodeHash(r) PROVE TokenInv'
  BY <1>5 DEF RegisterCodeHash
<1>6. ASSUME NEW a \in Accounts, NEW r \in Releases, RequestStarterCredit(a, r) PROVE TokenInv'
  BY <1>6, CreditKeeps
<1>7. CASE UNCHANGED vars
  BY <1>7 DEF vars
<1>. QED
  BY <1>1, <1>2, <1>3, <1>4, <1>5, <1>6, <1>7 DEF Next

LEMMA TokenInvariant == Spec => []TokenInv
<1>. QED
  BY InitTokenInv, TokenInductive, PTL DEF Spec

\* The supply is the sum of the balances after any sequence of transfers,
\* allowances, credits and emissions, to oneself and to the pool included.
THEOREM SupplyCorrect == Spec => []SupplyIsBalances
<1>1. TokenInv => SupplyIsBalances
  BY DEF TokenInv
<1>. QED
  BY <1>1, TokenInvariant, PTL

\* Whatever the emission mints and the holders pay each other, no more circulates
\* than one starter credit for every release that claimed it.
THEOREM CirculationCorrect == Spec => []CirculationIsCredit
<1>1. TokenInv => CirculationIsCredit
  BY DEF TokenInv
<1>. QED
  BY <1>1, TokenInvariant, PTL
=============================================================================
