------------------------------- MODULE Token --------------------------------
(***************************************************************************)
(* The coin of the agent economy (contracts/EarnOrHaltToken.sol): ERC-20   *)
(* balances, starter credit for known releases, emission to the commons    *)
(* pool.  A transaction is atomic: a require that fails or a subtraction   *)
(* below zero (Solidity 0.8) is a disabled action.  Time runs in hours.    *)
(***************************************************************************)
EXTENDS Integers, FiniteSets, Functions

CONSTANTS
  Accounts, commonsPool,
  Releases,            \* code hashes
  InitialSupply, EmissionPeriod,
  StarterCredit,       \* 1000 * 10**18
  MaxTime, MaxSupply,  \* bounds
  Amounts              \* bound: amounts of a transfer or approval

ASSUME TokenAssumption ==
  /\ commonsPool \in Accounts /\ IsFiniteSet(Accounts)     \* addresses: 20 bytes
  /\ InitialSupply \in Nat /\ StarterCredit \in Nat /\ EmissionPeriod \in Nat \ {0}
  /\ Amounts \subseteq Nat /\ MaxTime \in Nat /\ MaxSupply \in Nat

VARIABLES
  now,                                   \* hours since emissionStart
  totalSupply, balanceOf, allowance,
  knownCodeHashes, starterCreditClaimed,
  poolSpends          \* environment, chosen once: may governance transfer or approve?
vars == <<now, totalSupply, balanceOf, allowance, knownCodeHashes, starterCreditClaimed,
          poolSpends>>

emissionCap == InitialSupply
PoolBalance == balanceOf[commonsPool]
Circulating == totalSupply - PoolBalance
HourlyMint  == emissionCap \div EmissionPeriod
Callers     == IF poolSpends THEN Accounts ELSE Accounts \ {commonsPool}

-----------------------------------------------------------------------------
Init ==
  /\ now = 0 /\ totalSupply = InitialSupply
  /\ balanceOf = [a \in Accounts |-> IF a = commonsPool THEN InitialSupply ELSE 0]
  /\ allowance = [a \in Accounts |-> [b \in Accounts |-> 0]]
  /\ knownCodeHashes = {} /\ starterCreditClaimed = {} /\ poolSpends \in BOOLEAN

\* Mutant of Moved: both balances are read before either is written.
MovedReadFirst(from, to, n) == [a \in Accounts |->
  IF a = to THEN balanceOf[a] + n ELSE IF a = from THEN balanceOf[a] - n ELSE balanceOf[a]]
Moved(from, to, n) ==
  LET debited == [balanceOf EXCEPT ![from] = @ - n]
  IN  [debited EXCEPT ![to] = @ + n]

Transfer(from, to, n) ==
  /\ from \in Callers /\ balanceOf[from] >= n
  /\ balanceOf' = Moved(from, to, n)
  /\ UNCHANGED <<now, totalSupply, allowance, knownCodeHashes, starterCreditClaimed, poolSpends>>

Approve(owner, spender, n) ==
  /\ owner \in Callers
  /\ allowance' = [allowance EXCEPT ![owner][spender] = n]
  /\ UNCHANGED <<now, totalSupply, balanceOf, knownCodeHashes, starterCreditClaimed, poolSpends>>

TransferFrom(spender, from, to, n) ==
  /\ allowance[from][spender] >= n /\ balanceOf[from] >= n
  /\ allowance' = [allowance EXCEPT ![from][spender] = @ - n]
  /\ balanceOf' = Moved(from, to, n)
  /\ UNCHANGED <<now, totalSupply, knownCodeHashes, starterCreditClaimed, poolSpends>>

RegisterCodeHash(release) ==
  /\ knownCodeHashes' = knownCodeHashes \cup {release}
  /\ UNCHANGED <<now, totalSupply, balanceOf, allowance, starterCreditClaimed, poolSpends>>

\* Mutant of Claimable: the claim is remembered and not looked at.
ClaimableAgain(release) == release \in knownCodeHashes
Claimable(release) == release \in knownCodeHashes /\ release \notin starterCreditClaimed

RequestStarterCredit(caller, release) ==
  /\ Claimable(release) /\ PoolBalance >= StarterCredit
  /\ starterCreditClaimed' = starterCreditClaimed \cup {release}
  /\ balanceOf' = Moved(commonsPool, caller, StarterCredit)
  /\ UNCHANGED <<now, totalSupply, allowance, knownCodeHashes, poolSpends>>

(* Nothing happens for 0; less than 0 is a subtraction that reverted. *)
Mint(n) ==
  /\ n > 0 /\ totalSupply + n <= MaxSupply
  /\ totalSupply' = totalSupply + n
  /\ balanceOf' = [balanceOf EXCEPT ![commonsPool] = @ + n]
  /\ UNCHANGED <<now, allowance, knownCodeHashes, starterCreditClaimed, poolSpends>>

(* Before the end each call mints for one hour, unless something circulates. *)
HourDue ==
  IF HourlyMint > PoolBalance + HourlyMint - totalSupply
  THEN emissionCap - totalSupply ELSE HourlyMint
CollectEmission ==
  /\ now < EmissionPeriod /\ PoolBalance + HourlyMint >= totalSupply
  /\ Mint(HourDue)

(* From the end on each call mints the cap less what circulates. *)
CollectRemaining ==
  /\ now >= EmissionPeriod
  /\ Mint(emissionCap - Circulating)

Tick ==
  /\ now < MaxTime /\ now' = now + 1
  /\ UNCHANGED <<totalSupply, balanceOf, allowance, knownCodeHashes, starterCreditClaimed,
                 poolSpends>>

Next ==
  \/ Tick \/ CollectEmission \/ CollectRemaining
  \/ \E a, b \in Accounts, n \in Amounts : Transfer(a, b, n) \/ Approve(a, b, n)
  \/ \E a, b, c \in Accounts, n \in Amounts : TransferFrom(a, b, c, n)
  \/ \E r \in Releases : RegisterCodeHash(r)
  \/ \E a \in Accounts, r \in Releases : RequestStarterCredit(a, r)

Spec == Init /\ [][Next]_vars

-----------------------------------------------------------------------------
(* totalSupply is the sum of the balances it is never computed from, a transfer
   to oneself, a credit to the pool and emission included, and no balance is
   negative. *)
SupplyIsBalances ==
  /\ totalSupply = SumFunction(balanceOf)
  /\ \A a \in Accounts : balanceOf[a] >= 0

(* While governance spends nothing, what left the pool is starter credit, once
   per release ("Each code_hash can only claim once", EarnOrHaltToken.sol:117):
   neither emission nor allowances nor transfers between others, a donation to
   the pool in between included, put more into circulation. *)
CirculationIsCredit ==
  ~poolSpends => Circulating <= StarterCredit * Cardinality(starterCreditClaimed)

(* "mint emission to commons pool up to the cap" (EarnOrHaltToken.sol:142). *)
EmissionCapped == totalSupply <= InitialSupply + emissionCap
=============================================================================
