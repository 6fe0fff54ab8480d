--------------------------- MODULE RuntimeProofs ----------------------------
(***************************************************************************)
(* For any number of versions and processes on one ledger, any prices and  *)
(* any crashes: no wallet is overdrawn, nothing is earned for a job whose  *)
(* provider was not paid before, and while processes take turns nothing is *)
(* counted twice.  A wallet agrees with the ledger or is empty, so what is *)
(* published is what the ledger shows, and the ranking that reads it       *)
(* meanwhile flatters nobody and calls no silent version alive.            *)
(***************************************************************************)
EXTENDS RuntimeProperties, Ranking, SumProofs, TLAPS

(* What a process knows while a receipt is on its way into the ledger: it can
   pay the expense it asked for, and the cost of a payment is already there. *)
Underway(v) ==
  /\ rt[v].pending \in Receipt /\ rt[v].pending.subject = v /\ rt[v].pending.ts <= now
  /\ rt[v].pending.kind = "expense" =>
       rt[v].pending.amount = Price /\ Balance(rt[v].wallet) >= Price
  /\ rt[v].pending.kind = "earned" => HasCost(rt[v].pending)
Prepared(v) ==
  /\ rt[v].pc = "execute" => Balance(rt[v].wallet) >= Price
  /\ rt[v].pc \in {"verify", "store"} => Underway(v)

RuntimeInv == TypeOK /\ IncomeHasCost /\ \A v \in Versions : Prepared(v)

(* A wallet with natural amounts in its fields is a wallet. *)
LEMMA WalletFields ==
  ASSUME NEW w \in Wallet, NEW a \in Nat, NEW b \in Nat, NEW c \in Nat
  PROVE  /\ [w EXCEPT !.earned = a, !.revenue = b] \in Wallet
         /\ [w EXCEPT !.deposits = a, !.earned = b, !.cost = c] \in Wallet
  BY DEF Wallet

(* Money is moved between naturals. *)
LEMMA WalletMoves ==
  ASSUME NEW w \in Wallet, NEW n \in Nat
  PROVE  /\ CreditEarned(w, n) \in Wallet /\ CreditDeposit(w) \in Wallet
         /\ Balance(w) >= n => DebitExpense(w, n) \in Wallet
  <1>1. /\ w.earned \in Nat /\ w.deposits \in Nat /\ w.revenue \in Nat /\ w.cost \in Nat
    BY DEF Wallet
  <1>2. CreditEarned(w, n) \in Wallet
    <2>1. w.earned + n \in Nat /\ w.revenue + n \in Nat
      BY <1>1
    <2>2. QED
      BY <2>1, WalletFields DEF CreditEarned
  <1>3. CreditDeposit(w) \in Wallet
    BY PriceAssumption DEF Wallet, CreditDeposit
  <1>4. ASSUME Balance(w) >= n PROVE DebitExpense(w, n) \in Wallet
    <2>1. /\ w.deposits - FromDeposit(w, n) \in Nat
          /\ w.earned - (n - FromDeposit(w, n)) \in Nat
          /\ w.cost + n \in Nat
      BY <1>1, <1>4 DEF FromDeposit, Balance
    <2>2. QED
      BY <2>1, WalletFields DEF DebitExpense
  <1>5. QED
    BY <1>2, <1>3, <1>4

(* An empty process is well-typed. *)
LEMMA OffType == Off \in Memory
  <1>1. 0 \in Jobs
    BY PriceAssumption DEF Jobs
  <1>2. EmptyWallet \in Wallet
    BY DEF EmptyWallet, Wallet
  <1>3. QED
    BY <1>1, <1>2 DEF Off, Memory, NoReceipt, NoHeartbeat

(* Nothing runs and nothing was earned. *)
LEMMA InitRuntimeInv == Init => RuntimeInv
  BY OffType, DurationAssumption DEF Init, RuntimeInv, TypeOK, IncomeHasCost, Prepared, Off

(* A process that does not move stays prepared while ledger and clock grow. *)
LEMMA Frame ==
  ASSUME TypeOK, NEW v \in Versions, Prepared(v), rt'[v] = rt[v],
         receipts \subseteq receipts', now' \in Nat, now <= now'
  PROVE  Prepared(v)'
  BY DurationAssumption DEF Prepared, Underway, HasCost, Balance, TypeOK, Receipt

(* The three ways a step changes the memory of its process and nothing else
   but the ledger: it goes down, takes the next job, or carries on. *)
LEMMA Moves ==
  ASSUME RuntimeInv, NEW v \in Versions, NEW m \in Memory,
         rt' = [rt EXCEPT ![v] = m], Prepared(v)', IncomeHasCost',
         now' = now, receipts \subseteq receipts', receipts' \subseteq Receipt,
         deposits' \subseteq Versions, starts' \in 0 .. MaxStarts, UNCHANGED alone
  PROVE  RuntimeInv'
  <1>1. TypeOK'
    BY DEF RuntimeInv, TypeOK
  <1>2. \A w \in Versions : Prepared(w)'
    <2> SUFFICES ASSUME NEW w \in Versions, w # v PROVE Prepared(w)'
      OBVIOUS
    <2>1. rt'[w] = rt[w] /\ now' \in Nat /\ now <= now'
      BY DurationAssumption DEF RuntimeInv, TypeOK
    <2>2. QED
      BY <2>1, Frame DEF RuntimeInv
  <1>3. QED
    BY <1>1, <1>2 DEF RuntimeInv

(* What an action may do with its process while it leaves the ledger alone. *)
LEMMA MovesQuietly ==
  ASSUME RuntimeInv, NEW v \in Versions, NEW m \in Memory,
         rt' = [rt EXCEPT ![v] = m], m.pc \notin {"execute", "verify", "store"},
         UNCHANGED <<now, receipts>>,
         deposits' \subseteq Versions, starts' \in 0 .. MaxStarts, UNCHANGED alone
  PROVE  RuntimeInv'
  <1>1. rt'[v] = m
    BY DEF RuntimeInv, TypeOK
  <1>2. Prepared(v)'
    BY <1>1 DEF Prepared
  <1>3. IncomeHasCost'
    BY DEF RuntimeInv, IncomeHasCost, HasCost
  <1>4. QED
    BY <1>2, <1>3, Moves DEF RuntimeInv, TypeOK

(* What a cycle leaves when it ends without a halt. *)
Finished(v) ==
  [rt[v] EXCEPT !.pc = IF LastJob(v) THEN "done" ELSE "ready",
                !.job = IF LastJob(v) THEN @ ELSE @ + 1,
                !.pending = NoReceipt, !.hb = Heartbeat(v)]

LEMMA FinishedIs ==
  ASSUME TypeOK, NEW v \in Versions, NextJob(v)
  PROVE  /\ rt' = [rt EXCEPT ![v] = Finished(v)] /\ rt'[v] = Finished(v)
         /\ \A w \in Versions \ {v} : rt'[w] = rt[w]
         /\ Finished(v) \in Memory /\ Finished(v).pc \in {"ready", "done"}
         /\ Finished(v).wallet = rt[v].wallet /\ Finished(v).hb = Heartbeat(v)
  <1>1. rt' = [rt EXCEPT ![v] = Finished(v)]
    BY DEF NextJob, Finished
  <1>2. rt \in [Versions -> Memory] /\ rt[v] \in Memory /\ now \in Nat
    BY DurationAssumption DEF TypeOK
  <1>3. Heartbeat(v) \in [ts : Int, signal : Int]
    BY <1>2 DEF Heartbeat, Profit, Memory, Wallet
  <1>4. (IF LastJob(v) THEN rt[v].job ELSE rt[v].job + 1) \in Jobs
    <2>1. rt[v].job \in 0 .. Loops - 1 /\ Loops \in Nat
      BY <1>2, PriceAssumption DEF Memory, Jobs
    <2>2. LastJob(v) \/ rt[v].job + 1 \in 0 .. Loops - 1
      BY <2>1 DEF LastJob
    <2>3. QED
      BY <2>1, <2>2 DEF Jobs
  <1>5. PICK pc, job : /\ pc \in {"ready", "done"} /\ job \in Jobs
                       /\ Finished(v) = [rt[v] EXCEPT !.pc = pc, !.job = job,
                                           !.pending = NoReceipt, !.hb = Heartbeat(v)]
    BY <1>4 DEF Finished
  <1>6. /\ Finished(v) \in Memory /\ Finished(v).pc = pc
        /\ Finished(v).wallet = rt[v].wallet /\ Finished(v).hb = Heartbeat(v)
    BY <1>2, <1>3, <1>5 DEF Memory
  <1>7. QED
    BY <1>1, <1>2, <1>5, <1>6

(* The next job finds the process ready, the end finds it done. *)
LEMMA NextJobKeeps ==
  ASSUME RuntimeInv, NEW v \in Versions, NextJob(v), UNCHANGED <<now, ledger, starts, alone>>
  PROVE  RuntimeInv'
  <1>1. TypeOK
    BY DEF RuntimeInv
  <1>2. /\ rt' = [rt EXCEPT ![v] = Finished(v)] /\ Finished(v) \in Memory
        /\ Finished(v).pc \notin {"execute", "verify", "store"}
    BY <1>1, FinishedIs
  <1>3. QED
    BY <1>1, <1>2, MovesQuietly DEF ledger, TypeOK

(* A process starts with an empty wallet or the starter credit. *)
LEMMA StartKeeps ==
  ASSUME RuntimeInv, NEW v \in Versions, Start(v) PROVE RuntimeInv'
  <1> DEFINE m == [Off EXCEPT !.pc = "ready",
                     !.wallet = IF FirstRun(v) THEN CreditDeposit(@) ELSE @]
  <1>1. rt' = [rt EXCEPT ![v] = m]
    BY DEF Start
  <1>2. EmptyWallet \in Wallet
    BY DEF EmptyWallet, Wallet
  <1>3. CreditDeposit(EmptyWallet) \in Wallet
    BY <1>2, WalletMoves, 0 \in Nat
  <1>4. Off.wallet = EmptyWallet
    BY DEF Off
  <1>5. m \in Memory /\ m.pc = "ready"
    BY <1>2, <1>3, <1>4, OffType DEF Memory, Off
  <1>6. deposits' \subseteq Versions /\ starts' \in 0 .. MaxStarts
    BY DurationAssumption DEF Start, RuntimeInv, TypeOK
  <1>7. QED
    BY <1>1, <1>5, <1>6, MovesQuietly DEF Start

(* Only a process that can afford the price goes on to the provider. *)
LEMMA QuoteKeeps ==
  ASSUME RuntimeInv, NEW v \in Versions, QuoteAndDecide(v) PROVE RuntimeInv'
  <1> DEFINE m == [rt[v] EXCEPT !.pc = IF Affordable(rt[v].wallet) THEN "execute" ELSE "check"]
  <1>1. rt' = [rt EXCEPT ![v] = m] /\ UNCHANGED <<now, receipts, deposits, starts, alone>>
    BY DEF QuoteAndDecide, ledger
  <1>2. rt[v] \in Memory /\ rt \in [Versions -> Memory]
    BY DEF RuntimeInv, TypeOK
  <1>3. m \in Memory
    BY <1>2 DEF Memory
  <1>4. rt'[v] = m
    BY <1>1, <1>2
  <1>5. Prepared(v)'
    BY <1>2, <1>4 DEF Prepared, Affordable, Memory, Balance
  <1>6. IncomeHasCost'
    BY <1>1 DEF RuntimeInv, IncomeHasCost, HasCost
  <1>7. QED
    BY <1>1, <1>3, <1>5, <1>6, Moves DEF RuntimeInv, TypeOK

(* The provider's receipt is for the price that was quoted and checked. *)
LEMMA ExecuteKeeps ==
  ASSUME RuntimeInv, NEW v \in Versions, Execute(v) PROVE RuntimeInv'
  <1> DEFINE r == [kind |-> "expense", subject |-> v, job |-> rt[v].job,
                   amount |-> Price, ts |-> now]
             m == [rt[v] EXCEPT !.pc = "verify", !.pending = r]
  <1>1. rt' = [rt EXCEPT ![v] = m] /\ UNCHANGED <<now, receipts, deposits, starts, alone>>
    BY DEF Execute, ledger
  <1>2. rt[v] \in Memory /\ rt \in [Versions -> Memory] /\ now \in Nat
    BY DurationAssumption DEF RuntimeInv, TypeOK
  <1>3. r \in Receipt
    BY <1>2, PriceAssumption DEF Receipt, Kinds, Memory
  <1>4. m \in Memory /\ m.pc = "verify" /\ m.pending = r /\ m.wallet = rt[v].wallet
    BY <1>2, <1>3 DEF Memory
  <1>5. rt'[v] = m
    BY <1>1, <1>2
  <1>6. Balance(rt[v].wallet) >= Price
    BY DEF Execute, RuntimeInv, Prepared
  <1>7. Underway(v)'
    BY <1>1, <1>2, <1>3, <1>4, <1>5, <1>6 DEF Underway, Balance
  <1>8. Prepared(v)'
    BY <1>4, <1>5, <1>7 DEF Prepared
  <1>9. IncomeHasCost'
    BY <1>1 DEF RuntimeInv, IncomeHasCost, HasCost
  <1>10. QED
    BY <1>1, <1>4, <1>8, <1>9, Moves DEF RuntimeInv, TypeOK

(* Between the check and the insert the receipt stays what it was. *)
LEMMA VerifyKeeps ==
  ASSUME RuntimeInv, NEW v \in Versions, Verify(v) PROVE RuntimeInv'
  <1> DEFINE m == [rt[v] EXCEPT !.pc = "store"]
  <1>1. rt' = [rt EXCEPT ![v] = m] /\ UNCHANGED <<now, receipts, deposits, starts, alone>>
    BY DEF Verify, ledger
  <1>2. rt[v] \in Memory /\ rt \in [Versions -> Memory]
    BY DEF RuntimeInv, TypeOK
  <1>3. m \in Memory /\ m.pc = "store" /\ m.pending = rt[v].pending /\ m.wallet = rt[v].wallet
    BY <1>2 DEF Memory
  <1>4. rt'[v] = m
    BY <1>1, <1>2
  <1>5. Underway(v)
    BY DEF Verify, RuntimeInv, Prepared
  <1>6. Prepared(v)'
    BY <1>1, <1>3, <1>4, <1>5 DEF Prepared, Underway, HasCost, Balance
  <1>7. IncomeHasCost'
    BY <1>1 DEF RuntimeInv, IncomeHasCost, HasCost
  <1>8. QED
    BY <1>1, <1>3, <1>6, <1>7, Moves DEF RuntimeInv, TypeOK

(* The expense that is stored is the cost of the payment that comes back. *)
LEMMA StoreExpenseKeeps ==
  ASSUME RuntimeInv, NEW v \in Versions, StoreExpense(v) PROVE RuntimeInv'
  <1> DEFINE r == rt[v].pending
             m == [rt[v] EXCEPT !.pc = "verify", !.wallet = DebitExpense(@, r.amount),
                                !.pending = Payment(r)]
  <1>1. /\ rt' = [rt EXCEPT ![v] = m] /\ receipts' = receipts \cup {r}
        /\ UNCHANGED <<now, deposits, starts, alone>> /\ r.kind = "expense" /\ rt[v].pc = "store"
    BY DEF StoreExpense
  <1>2. rt[v] \in Memory /\ rt \in [Versions -> Memory] /\ now \in Nat
    BY DurationAssumption DEF RuntimeInv, TypeOK
  <1>3. Underway(v)
    BY <1>1 DEF RuntimeInv, Prepared
  <1>4. r \in Receipt /\ r.subject = v /\ r.ts <= now /\ Balance(rt[v].wallet) >= r.amount
    BY <1>1, <1>3 DEF Underway
  <1>5. /\ Payment(r) \in Receipt /\ Payment(r).kind = "earned" /\ Payment(r).subject = v
        /\ Payment(r).ts = now /\ Payment(r).job = r.job
    <2>1. r.amount \in Nat /\ 2 * r.amount \in Nat
      BY <1>4 DEF Receipt
    <2>2. QED
      BY <1>2, <1>4, <2>1 DEF Payment, Receipt, Kinds
  <1>6. DebitExpense(rt[v].wallet, r.amount) \in Wallet
    BY <1>2, <1>4, WalletMoves DEF Memory, Receipt
  <1>7. m \in Memory /\ m.pc = "verify" /\ m.pending = Payment(r)
    BY <1>2, <1>5, <1>6 DEF Memory
  <1>8. rt'[v] = m
    BY <1>1, <1>2
  <1>9. HasCost(rt[v].pending)'
    <2>1. /\ r \in receipts' /\ r.kind = "expense" /\ r.ts <= rt'[v].pending.ts
          /\ r.subject = rt'[v].pending.subject /\ r.job = rt'[v].pending.job
      BY <1>1, <1>4, <1>5, <1>7, <1>8
    <2>2. QED
      BY <2>1 DEF HasCost
  <1>10. Prepared(v)'
    <2>1. rt'[v].pc = "verify" /\ rt'[v].pending = Payment(r) /\ now' = now
      BY <1>1, <1>7, <1>8
    <2>2. Underway(v)'
      BY <1>2, <1>5, <1>9, <2>1 DEF Underway
    <2>3. QED
      BY <2>1, <2>2 DEF Prepared
  <1>11. IncomeHasCost'
    BY <1>1 DEF RuntimeInv, IncomeHasCost, HasCost
  <1>12. QED
    BY <1>1, <1>4, <1>7, <1>10, <1>11, Moves DEF RuntimeInv, TypeOK

(* A payment enters the ledger after its cost. *)
LEMMA StoreEarnedKeeps ==
  ASSUME RuntimeInv, NEW v \in Versions, StoreEarned(v) PROVE RuntimeInv'
  <1> DEFINE r == rt[v].pending
             m == [rt[v] EXCEPT !.pc = "check", !.wallet = CreditEarned(@, r.amount)]
  <1>1. /\ rt' = [rt EXCEPT ![v] = m] /\ receipts' = receipts \cup {r}
        /\ UNCHANGED <<now, deposits, starts, alone>> /\ r.kind = "earned" /\ rt[v].pc = "store"
    BY DEF StoreEarned
  <1>2. rt[v] \in Memory /\ rt \in [Versions -> Memory]
    BY DEF RuntimeInv, TypeOK
  <1>3. r \in Receipt /\ HasCost(r)
    BY <1>1 DEF RuntimeInv, Prepared, Underway
  <1>4. CreditEarned(rt[v].wallet, r.amount) \in Wallet
    BY <1>2, <1>3, WalletMoves DEF Memory, Receipt
  <1>5. m \in Memory /\ m.pc = "check"
    BY <1>2, <1>4 DEF Memory
  <1>6. rt'[v] = m
    BY <1>1, <1>2
  <1>7. Prepared(v)'
    BY <1>5, <1>6 DEF Prepared
  <1>8. IncomeHasCost'
    BY <1>1, <1>3 DEF RuntimeInv, IncomeHasCost, HasCost
  <1>9. QED
    BY <1>1, <1>3, <1>5, <1>7, <1>8, Moves DEF RuntimeInv, TypeOK

(* A halt leaves an empty wallet. *)
LEMMA HaltKeeps ==
  ASSUME RuntimeInv, NEW v \in Versions, Halt(v) PROVE RuntimeInv'
  <1> DEFINE m == [Off EXCEPT !.halt = HaltReason(v)]
  <1>1. rt' = [rt EXCEPT ![v] = m] /\ UNCHANGED <<now, receipts, deposits, starts, alone>>
    BY DEF Halt, ledger
  <1>2. m \in Memory /\ m.pc = "down"
    BY OffType DEF Off, Memory, HaltReason
  <1>3. QED
    BY <1>1, <1>2, MovesQuietly DEF RuntimeInv, TypeOK

(* A crash forgets the receipt on its way, not the ledger; so does the end. *)
LEMMA CrashKeeps ==
  ASSUME RuntimeInv, NEW v \in Versions, Crash(v) \/ Exit(v) PROVE RuntimeInv'
  BY OffType, MovesQuietly DEF Crash, Exit, Off, ledger, RuntimeInv, TypeOK

(* Receipts on their way are not from the future. *)
LEMMA TickKeeps == ASSUME RuntimeInv, Tick PROVE RuntimeInv'
  <1>1. now \in Nat /\ now' \in Nat /\ now <= now' /\ UNCHANGED <<rt, receipts>>
    BY DurationAssumption DEF Tick, RuntimeInv, TypeOK, ledger
  <1>2. TypeOK'
    BY DurationAssumption DEF Tick, RuntimeInv, TypeOK, ledger
  <1>3. \A v \in Versions : Prepared(v)'
    BY <1>1, Frame DEF RuntimeInv
  <1>4. QED
    BY <1>1, <1>2, <1>3 DEF RuntimeInv, IncomeHasCost, HasCost

(* The conjunction is inductive. *)
LEMMA RuntimeInduction == RuntimeInv /\ [Next]_vars => RuntimeInv'
<1> SUFFICES ASSUME RuntimeInv, [Next]_vars PROVE RuntimeInv'
  OBVIOUS
<1>1. CASE UNCHANGED vars
  BY <1>1 DEF vars, ledger, RuntimeInv, TypeOK, IncomeHasCost, HasCost, Prepared, Underway,
              Balance
<1>2. ASSUME NEW v \in Versions, Step(v) PROVE RuntimeInv'
  <2>1. CASE ProviderFails(v) \/ Reject(v) \/ Continue(v)
    BY <2>1, NextJobKeeps DEF ProviderFails, Reject, Continue
  <2>2. QED
    BY <1>2, <2>1, QuoteKeeps, ExecuteKeeps, VerifyKeeps, StoreExpenseKeeps,
       StoreEarnedKeeps, HaltKeeps, CrashKeeps DEF Step
<1>3. QED
  BY <1>1, <1>2, StartKeeps, CrashKeeps, TickKeeps DEF Next

LEMMA RuntimeInvariant == Spec => []RuntimeInv
  BY InitRuntimeInv, RuntimeInduction, PTL DEF Spec

(* No bucket of a wallet is ever overdrawn and every variable keeps its type:
   can_afford covers the debit that follows it two transactions later. *)
THEOREM NeverOverdrawn == Spec => []TypeOK
  BY RuntimeInvariant, PTL DEF RuntimeInv

(* The ledger never shows income without its cost. *)
THEOREM IncomeCorrect == Spec => []IncomeHasCost
  BY RuntimeInvariant, PTL DEF RuntimeInv

-----------------------------------------------------------------------------
(* While processes take turns, one of them is up, and what it found missing
   from the ledger is still missing when it inserts it. *)
OneUp     == \A v, w \in Up : v = w
Unstored  == \A v \in Versions : rt[v].pc = "store" => ~HasReceipt(rt[v].pending)
TurnsInv  == NoDoubleCount /\ (alone => OneUp /\ Unstored)

(* A process that was up moves and leaves the ledger alone. *)
LEMMA TurnsQuietly ==
  ASSUME TypeOK, TurnsInv, NEW v \in Versions, NEW m, rt[v].pc # "down",
         rt' = [rt EXCEPT ![v] = m], UNCHANGED <<receipts, alone>>,
         m.pc = "store" => ~HasReceipt(m.pending)
  PROVE  TurnsInv'
  <1>1. /\ rt'[v] = m
        /\ \A w \in Versions \ {v} : rt'[w] = rt[w]
    BY DEF TypeOK
  <1>2. Up' \subseteq Up
    BY <1>1 DEF Up
  <1>3. alone => OneUp'
    BY <1>2 DEF TurnsInv, OneUp
  <1>4. alone => Unstored'
    BY <1>1 DEF TurnsInv, Unstored, HasReceipt
  <1>5. QED
    BY <1>3, <1>4 DEF TurnsInv, NoDoubleCount

(* A receipt that was missing is stored by the only process there is. *)
LEMMA TurnsStore ==
  ASSUME TypeOK, TurnsInv, NEW v \in Versions, NEW m, rt[v].pc = "store", m.pc # "store",
         rt' = [rt EXCEPT ![v] = m], receipts' = receipts \cup {rt[v].pending}, UNCHANGED alone
  PROVE  TurnsInv'
  <1>1. /\ rt'[v] = m
        /\ \A w \in Versions \ {v} : rt'[w] = rt[w]
    BY DEF TypeOK
  <1>2. Up' \subseteq Up /\ v \in Up
    BY <1>1 DEF Up
  <1>3. alone => OneUp'
    BY <1>2 DEF TurnsInv, OneUp
  <1>4. alone => \A w \in Versions \ {v} : rt[w].pc = "down"
    BY <1>2 DEF TurnsInv, OneUp, Up
  <1>5. alone => Unstored'
    BY <1>1, <1>4 DEF Unstored
  <1>6. alone => ~HasReceipt(rt[v].pending)
    BY DEF TurnsInv, Unstored
  <1>7. NoDoubleCount'
    BY <1>6 DEF TurnsInv, NoDoubleCount, HasReceipt
  <1>8. QED
    BY <1>3, <1>5, <1>7 DEF TurnsInv

(* The memory that a finished cycle leaves is not about to store anything. *)
LEMMA TurnsNext ==
  ASSUME TypeOK, TurnsInv, NEW v \in Versions, rt[v].pc # "down", NextJob(v),
         UNCHANGED <<receipts, alone>>
  PROVE  TurnsInv'
  <1>1. rt' = [rt EXCEPT ![v] = Finished(v)] /\ Finished(v).pc # "store"
    BY FinishedIs
  <1>2. QED
    BY <1>1, TurnsQuietly

(* With one process at a time a start finds nobody up. *)
LEMMA TurnsStart ==
  ASSUME TypeOK, TurnsInv, NEW v \in Versions, Start(v) PROVE TurnsInv'
  <1>1. /\ \A w \in Versions \ {v} : rt'[w] = rt[w]
        /\ rt'[v].pc = "ready" /\ UNCHANGED <<receipts, alone>> /\ (alone => Up = {})
    BY DEF Start, TypeOK, Off
  <1>2. alone => Up' = {v}
    BY <1>1 DEF Up
  <1>3. alone => Unstored'
    BY <1>1 DEF TurnsInv, Unstored, HasReceipt
  <1>4. QED
    BY <1>1, <1>2, <1>3 DEF TurnsInv, OneUp, NoDoubleCount

(* Every step of a process keeps the turns. *)
LEMMA TurnsStep ==
  ASSUME TypeOK, TurnsInv, NEW v \in Versions, Step(v) \/ Crash(v) PROVE TurnsInv'
  <1>1. rt[v] \in Memory /\ rt \in [Versions -> Memory]
    BY DEF TypeOK
  <1>2. CASE QuoteAndDecide(v)
    <2> DEFINE m == [rt[v] EXCEPT !.pc = IF Affordable(rt[v].wallet) THEN "execute" ELSE "check"]
    <2>1. rt' = [rt EXCEPT ![v] = m] /\ m.pc # "store" /\ rt[v].pc # "down"
      BY <1>1, <1>2 DEF QuoteAndDecide, Memory
    <2>2. QED
      BY <1>2, <2>1, TurnsQuietly DEF QuoteAndDecide, ledger
  <1>3. CASE Execute(v)
    <2> DEFINE m == [rt[v] EXCEPT !.pc = "verify", !.pending = [kind |-> "expense",
                       subject |-> v, job |-> rt[v].job, amount |-> Price, ts |-> now]]
    <2>1. rt' = [rt EXCEPT ![v] = m] /\ m.pc # "store" /\ rt[v].pc # "down"
      BY <1>1, <1>3 DEF Execute, Memory
    <2>2. QED
      BY <1>3, <2>1, TurnsQuietly DEF Execute, ledger
  <1>4. CASE Verify(v)
    <2> DEFINE m == [rt[v] EXCEPT !.pc = "store"]
    <2>1. rt' = [rt EXCEPT ![v] = m] /\ m.pending = rt[v].pending /\ rt[v].pc # "down"
      BY <1>1, <1>4 DEF Verify, Memory
    <2>2. ~HasReceipt(m.pending)
      BY <1>4, <2>1 DEF Verify, Verified
    <2>3. QED
      BY <1>4, <2>1, <2>2, TurnsQuietly DEF Verify, ledger
  <1>5. CASE ProviderFails(v) \/ Reject(v) \/ Continue(v)
    BY <1>5, TurnsNext DEF ProviderFails, Reject, Continue, ledger
  <1>6. CASE StoreExpense(v)
    <2> DEFINE m == [rt[v] EXCEPT !.pc = "verify",
                       !.wallet = DebitExpense(@, rt[v].pending.amount),
                       !.pending = Payment(rt[v].pending)]
    <2>1. rt' = [rt EXCEPT ![v] = m] /\ m.pc # "store"
      BY <1>1, <1>6 DEF StoreExpense, Memory
    <2>2. QED
      BY <1>6, <2>1, TurnsStore DEF StoreExpense
  <1>7. CASE StoreEarned(v)
    <2> DEFINE m == [rt[v] EXCEPT !.pc = "check",
                       !.wallet = CreditEarned(@, rt[v].pending.amount)]
    <2>1. rt' = [rt EXCEPT ![v] = m] /\ m.pc # "store"
      BY <1>1, <1>7 DEF StoreEarned, Memory
    <2>2. QED
      BY <1>7, <2>1, TurnsStore DEF StoreEarned
  <1>8. CASE Halt(v)
    <2>1. [Off EXCEPT !.halt = HaltReason(v)].pc # "store" /\ rt[v].pc # "down"
      BY <1>8 DEF Off, Halt
    <2>2. QED
      BY <1>8, <2>1, TurnsQuietly DEF Halt, ledger
  <1>9. CASE Crash(v) \/ Exit(v)
    <2>1. Off.pc # "store"
      BY DEF Off
    <2>2. QED
      BY <1>9, <2>1, TurnsQuietly DEF Crash, Exit, ledger
  <1>10. QED
    BY <1>2, <1>3, <1>4, <1>5, <1>6, <1>7, <1>8, <1>9 DEF Step

(* While processes take turns on a ledger, however many crash and start again,
   no job is paid for or billed twice: uniqueness rests on the check alone. *)
THEOREM CountedOnce == Spec => []NoDoubleCount
<1>1. Init => TurnsInv
  BY DEF Init, TurnsInv, NoDoubleCount, OneUp, Up, Unstored, Off
<1>2. TypeOK /\ TurnsInv /\ [Next]_vars => TurnsInv'
  <2> SUFFICES ASSUME TypeOK, TurnsInv, [Next]_vars PROVE TurnsInv'
    OBVIOUS
  <2>1. CASE UNCHANGED vars \/ Tick
    <3>1. UNCHANGED <<rt, receipts, alone>>
      BY <2>1 DEF vars, ledger, Tick
    <3>2. QED
      BY <3>1 DEF TurnsInv, NoDoubleCount, OneUp, Up, Unstored, HasReceipt
  <2>2. QED
    BY <2>1, TurnsStart, TurnsStep DEF Next
<1>3. QED
  BY <1>1, <1>2, NeverOverdrawn, PTL DEF Spec, TurnsInv

-----------------------------------------------------------------------------
(* The wallet and the ledger. Sums of receipts, one more at a time. *)
Amounts(rs) == [r \in rs |-> r.amount]

LEMMA AmountsType ==
  ASSUME NEW rs \in SUBSET Receipt
  PROVE  Amounts(rs) \in [rs -> Nat] /\ Amounts(rs) \in [rs -> Int]
  BY DEF Amounts, Receipt

LEMMA SumGrows ==
  ASSUME NEW rs \in SUBSET Receipt, IsFiniteSet(rs), NEW x \in Receipt, x \notin rs
  PROVE  SumAmounts(rs \cup {x}) = SumAmounts(rs) + x.amount
  <1> DEFINE all == rs \cup {x}
             f == Amounts(rs)
             g == Amounts(all)
  <1>1. /\ IsFiniteSet(all) /\ x \in all /\ all \ {x} = rs /\ all \in SUBSET Receipt
        /\ \A p \in [all -> Int] : \A q \in [all \ {x} -> Int] :
             (\A r \in all \ {x} : p[r] = q[r]) => SumFunction(p) = SumFunction(q) + p[x]
    <2>1. IsFiniteSet(all) /\ x \in all /\ all \ {x} = rs /\ all \in SUBSET Receipt
      BY FS_AddElement
    <2> HIDE DEF all
    <2>2. QED
      BY <2>1, TotalAdded
  <1> HIDE DEF all
  <1>2. /\ f \in [all \ {x} -> Int] /\ g \in [all -> Int] /\ g[x] = x.amount
        /\ \A r \in all \ {x} : g[r] = f[r]
    BY <1>1, AmountsType DEF Amounts
  <1> HIDE DEF f, g
  <1>3. SumFunction(g) = SumFunction(f) + g[x]
    BY <1>1, <1>2
  <1>4. QED
    BY <1>2, <1>3 DEF f, g, all, SumAmounts, Amounts

LEMMA SumIsNat ==
  ASSUME NEW rs \in SUBSET Receipt, IsFiniteSet(rs)
  PROVE  SumAmounts(rs) \in Nat
  <1>1. SumFunction(Amounts(rs)) \in Nat
    BY AmountsType, TotalNat
  <1>2. QED
    BY <1>1 DEF SumAmounts, Amounts

LEMMA SumOfNothing == SumAmounts({}) = 0
  <1>1. Amounts({}) \in [{} -> Int]
    BY AmountsType
  <1>2. SumFunction(Amounts({})) = 0
    BY <1>1, FS_EmptySet, TotalZero
  <1>3. QED
    BY <1>2 DEF SumAmounts, Amounts

(* A process that works for a job has money: its wallet is the ledger's. *)
Explained(v) ==
  /\ rt[v].wallet.revenue = LedgerRevenue(v) /\ rt[v].wallet.cost = LedgerCost(v)
  /\ Balance(rt[v].wallet) = StarterAmount + EarnedProfit(v) /\ v \in deposits
Accounted(v) ==
  /\ rt[v].pc # "down" => rt[v].wallet = EmptyWallet \/ Explained(v)
  /\ rt[v].pc \in {"execute", "verify", "store"} => rt[v].wallet # EmptyWallet
LedgerInv == IsFiniteSet(receipts) /\ \A v \in Versions : Accounted(v)

LEMMA ReceiptsTypes ==
  ASSUME TypeOK, LedgerInv, NEW v, NEW kind
  PROVE  /\ ReceiptsFor(v, kind) \in SUBSET Receipt /\ IsFiniteSet(ReceiptsFor(v, kind))
         /\ SumAmounts(ReceiptsFor(v, kind)) \in Nat
  <1>1. ReceiptsFor(v, kind) \in SUBSET Receipt /\ IsFiniteSet(ReceiptsFor(v, kind))
    BY FS_Subset DEF ReceiptsFor, LedgerInv, TypeOK
  <1>2. QED
    BY <1>1, SumIsNat

(* A receipt changes one sum of one version. *)
LEMMA ReceiptStored ==
  ASSUME TypeOK, LedgerInv, NEW r \in Receipt, ~SameId(r), receipts' = receipts \cup {r},
         NEW v \in Versions, NEW kind \in Kinds
  PROVE  /\ r.subject = v /\ r.kind = kind =>
              SumAmounts(ReceiptsFor(v, kind)') = SumAmounts(ReceiptsFor(v, kind)) + r.amount
         /\ r.subject # v \/ r.kind # kind => ReceiptsFor(v, kind)' = ReceiptsFor(v, kind)
  <1>1. r \notin receipts
    BY DEF SameId
  <1>2. ASSUME r.subject = v, r.kind = kind
        PROVE  SumAmounts(ReceiptsFor(v, kind)') = SumAmounts(ReceiptsFor(v, kind)) + r.amount
    <2>1. ReceiptsFor(v, kind)' = ReceiptsFor(v, kind) \cup {r} /\ r \notin ReceiptsFor(v, kind)
      BY <1>1, <1>2 DEF ReceiptsFor
    <2>2. QED
      BY <2>1, ReceiptsTypes, SumGrows
  <1>3. r.subject # v \/ r.kind # kind => ReceiptsFor(v, kind)' = ReceiptsFor(v, kind)
    BY DEF ReceiptsFor
  <1>4. QED
    BY <1>2, <1>3

(* A version whose receipts and process do not change stays accounted for. *)
LEMMA AccountedFrame ==
  ASSUME NEW v, Accounted(v), rt'[v] = rt[v], deposits \subseteq deposits',
         ReceiptsFor(v, "earned")' = ReceiptsFor(v, "earned"),
         ReceiptsFor(v, "expense")' = ReceiptsFor(v, "expense")
  PROVE  Accounted(v)'
  BY DEF Accounted, Explained, LedgerRevenue, LedgerCost, EarnedProfit, Balance

(* What a process may do while it leaves ledger and wallet alone. *)
LEMMA AccountedQuietly ==
  ASSUME TypeOK, LedgerInv, NEW v \in Versions, NEW m, rt' = [rt EXCEPT ![v] = m],
         UNCHANGED ledger, m.pc # "down" => m.wallet = rt[v].wallet /\ rt[v].pc # "down",
         m.pc \in {"execute", "verify", "store"} => m.wallet # EmptyWallet
  PROVE  LedgerInv'
  <1>1. rt'[v] = m /\ \A w \in Versions \ {v} : rt'[w] = rt[w]
    BY DEF TypeOK
  <1>2. UNCHANGED <<receipts, deposits>> /\ \A w, k : ReceiptsFor(w, k)' = ReceiptsFor(w, k)
    BY DEF ledger, ReceiptsFor
  <1>3. \A w \in Versions \ {v} : Accounted(w)'
    BY <1>1, <1>2, AccountedFrame DEF LedgerInv
  <1>4. Accounted(v)'
    BY <1>1, <1>2 DEF LedgerInv, Accounted, Explained, LedgerRevenue, LedgerCost, EarnedProfit,
                      Balance
  <1>5. QED
    BY <1>2, <1>3, <1>4 DEF LedgerInv

LEMMA AccountedNext ==
  ASSUME TypeOK, LedgerInv, NEW v \in Versions, rt[v].pc # "down", NextJob(v), UNCHANGED ledger
  PROVE  LedgerInv'
  <1>1. /\ rt' = [rt EXCEPT ![v] = Finished(v)] /\ Finished(v).wallet = rt[v].wallet
        /\ Finished(v).pc \notin {"execute", "verify", "store"}
    BY FinishedIs
  <1>2. QED
    BY <1>1, AccountedQuietly

(* A start: a first run gets the starter credit, any other an empty wallet. *)
LEMMA AccountedStart ==
  ASSUME TypeOK, LedgerInv, NEW v \in Versions, Start(v) PROVE LedgerInv'
  <1>1. /\ UNCHANGED receipts /\ deposits \subseteq deposits'
        /\ \A w \in Versions \ {v} : rt'[w] = rt[w]
        /\ rt'[v].pc = "ready"
        /\ \/ FirstRun(v) /\ rt'[v].wallet = CreditDeposit(EmptyWallet) /\ v \in deposits'
           \/ rt'[v].wallet = EmptyWallet
    BY DEF Start, TypeOK, Off
  <1>2. \A w, k : ReceiptsFor(w, k)' = ReceiptsFor(w, k)
    BY <1>1 DEF ReceiptsFor
  <1>3. \A w \in Versions \ {v} : Accounted(w)'
    BY <1>1, <1>2, AccountedFrame DEF LedgerInv
  <1>4. ASSUME FirstRun(v), rt'[v].wallet = CreditDeposit(EmptyWallet), v \in deposits'
        PROVE  Explained(v)'
    <2>1. LedgerRevenue(v)' = 0 /\ LedgerCost(v)' = 0 /\ EarnedProfit(v)' = 0
      <3>1. ReceiptsFor(v, "earned") = {} /\ ReceiptsFor(v, "expense") = {}
        BY <1>4 DEF FirstRun
      <3>2. QED
        BY <1>2, <3>1, SumOfNothing DEF LedgerRevenue, LedgerCost, EarnedProfit
    <2>2. /\ rt'[v].wallet.revenue = 0 /\ rt'[v].wallet.cost = 0
          /\ Balance(rt'[v].wallet) = StarterAmount
      BY <1>4, PriceAssumption DEF CreditDeposit, EmptyWallet, Balance
    <2>3. QED
      BY <1>4, <2>1, <2>2, PriceAssumption DEF Explained
  <1>5. Accounted(v)'
    BY <1>1, <1>4 DEF Accounted
  <1>6. QED
    BY <1>1, <1>3, <1>5 DEF LedgerInv

LEMMA AccountedExpense ==
  ASSUME TypeOK, LedgerInv, NEW v \in Versions, Underway(v), StoreExpense(v) PROVE LedgerInv'
  <1> DEFINE r == rt[v].pending
             w == rt[v].wallet
             n == r.amount
             d == FromDeposit(w, n)
             m == [rt[v] EXCEPT !.pc = "verify", !.wallet = DebitExpense(@, r.amount),
                                !.pending = Payment(r)]
  <1>1. /\ rt' = [rt EXCEPT ![v] = m] /\ receipts' = receipts \cup {r} /\ UNCHANGED deposits
        /\ r.kind = "expense" /\ rt[v].pc = "store" /\ ~SameId(r)
    BY DEF StoreExpense
  <1>2. rt[v] \in Memory /\ rt \in [Versions -> Memory] /\ w \in Wallet
    BY DEF TypeOK, Memory
  <1>3. r \in Receipt /\ r.subject = v /\ n = Price /\ n \in Nat /\ n > 0
    BY <1>1, PriceAssumption DEF Underway
  <1>4. /\ rt'[v] = m /\ m.pc = "verify" /\ m.wallet = DebitExpense(w, n)
        /\ \A u \in Versions \ {v} : rt'[u] = rt[u]
    BY <1>1, <1>2 DEF Memory
  <1>5. IsFiniteSet(receipts')
    BY <1>1, FS_AddElement DEF LedgerInv
  <1>6. /\ SumAmounts(ReceiptsFor(v, "expense")') = SumAmounts(ReceiptsFor(v, "expense")) + n
        /\ ReceiptsFor(v, "earned")' = ReceiptsFor(v, "earned")
        /\ \A u \in Versions \ {v}, k \in Kinds : ReceiptsFor(u, k)' = ReceiptsFor(u, k)
    BY <1>1, <1>3, ReceiptStored DEF Kinds
  <1>7. \A u \in Versions \ {v} : Accounted(u)'
    BY <1>1, <1>4, <1>6, AccountedFrame DEF LedgerInv, Kinds
  <1>8. /\ d \in Int
        /\ DebitExpense(w, n).earned = w.earned - (n - d)
        /\ DebitExpense(w, n).deposits = w.deposits - d
        /\ DebitExpense(w, n).revenue = w.revenue /\ DebitExpense(w, n).cost = w.cost + n
        /\ w.earned \in Nat /\ w.deposits \in Nat /\ w.cost \in Nat
    BY <1>2, <1>3 DEF DebitExpense, FromDeposit, Wallet
  <1>9. rt'[v].wallet # EmptyWallet
    BY <1>3, <1>4, <1>8 DEF EmptyWallet
  <1>10. Explained(v)
    BY <1>1 DEF LedgerInv, Accounted
  <1>11. Explained(v)'
    <2>1. /\ LedgerRevenue(v)' = LedgerRevenue(v) /\ LedgerCost(v)' = LedgerCost(v) + n
          /\ LedgerRevenue(v) \in Int /\ LedgerCost(v) \in Int
          /\ EarnedProfit(v) = LedgerRevenue(v) - LedgerCost(v)
          /\ EarnedProfit(v)' = LedgerRevenue(v)' - LedgerCost(v)'
      BY <1>6, ReceiptsTypes DEF LedgerRevenue, LedgerCost, EarnedProfit
    <2>2. /\ w.revenue = LedgerRevenue(v) /\ w.cost = LedgerCost(v) /\ v \in deposits'
          /\ w.earned + w.deposits = StarterAmount + EarnedProfit(v)
      BY <1>1, <1>10 DEF Explained, Balance
    <2> HIDE DEF w, n, d
    <2>3. DebitExpense(w, n).earned + DebitExpense(w, n).deposits = w.earned + w.deposits - n
      BY <1>3, <1>8
    <2>4. DebitExpense(w, n).earned + DebitExpense(w, n).deposits
            = StarterAmount + EarnedProfit(v)'
      BY <1>3, <1>8, <2>1, <2>2, <2>3, PriceAssumption
    <2>5. rt'[v].wallet = DebitExpense(w, n)
      BY <1>4
    <2>6. QED
      BY <1>8, <2>1, <2>2, <2>4, <2>5 DEF Explained, Balance
  <1>12. Accounted(v)'
    BY <1>9, <1>11 DEF Accounted
  <1>13. QED
    BY <1>5, <1>7, <1>12 DEF LedgerInv

LEMMA AccountedEarned ==
  ASSUME TypeOK, LedgerInv, NEW v \in Versions, Underway(v), StoreEarned(v) PROVE LedgerInv'
  <1> DEFINE r == rt[v].pending
             w == rt[v].wallet
             n == r.amount
             m == [rt[v] EXCEPT !.pc = "check", !.wallet = CreditEarned(@, r.amount)]
  <1>1. /\ rt' = [rt EXCEPT ![v] = m] /\ receipts' = receipts \cup {r} /\ UNCHANGED deposits
        /\ r.kind = "earned" /\ rt[v].pc = "store" /\ ~SameId(r)
    BY DEF StoreEarned
  <1>2. rt[v] \in Memory /\ rt \in [Versions -> Memory] /\ w \in Wallet
    BY DEF TypeOK, Memory
  <1>3. r \in Receipt /\ r.subject = v /\ n \in Nat
    BY DEF Underway, Receipt
  <1>4. /\ rt'[v] = m /\ m.pc = "check" /\ m.wallet = CreditEarned(w, n)
        /\ \A u \in Versions \ {v} : rt'[u] = rt[u]
    BY <1>1, <1>2 DEF Memory
  <1>5. IsFiniteSet(receipts')
    BY <1>1, FS_AddElement DEF LedgerInv
  <1>6. /\ SumAmounts(ReceiptsFor(v, "earned")') = SumAmounts(ReceiptsFor(v, "earned")) + n
        /\ ReceiptsFor(v, "expense")' = ReceiptsFor(v, "expense")
        /\ \A u \in Versions \ {v}, k \in Kinds : ReceiptsFor(u, k)' = ReceiptsFor(u, k)
    BY <1>1, <1>3, ReceiptStored DEF Kinds
  <1>7. \A u \in Versions \ {v} : Accounted(u)'
    BY <1>1, <1>4, <1>6, AccountedFrame DEF LedgerInv, Kinds
  <1>8. /\ CreditEarned(w, n).earned = w.earned + n
        /\ CreditEarned(w, n).deposits = w.deposits
        /\ CreditEarned(w, n).revenue = w.revenue + n /\ CreditEarned(w, n).cost = w.cost
        /\ w.earned \in Nat /\ w.deposits \in Nat /\ w.cost \in Nat
    BY <1>2, <1>3 DEF CreditEarned, Wallet
  <1>9. Explained(v)
    BY <1>1 DEF LedgerInv, Accounted
  <1>10. Explained(v)'
    <2>1. /\ LedgerRevenue(v)' = LedgerRevenue(v) + n /\ LedgerCost(v)' = LedgerCost(v)
          /\ LedgerRevenue(v) \in Int /\ LedgerCost(v) \in Int
          /\ EarnedProfit(v) = LedgerRevenue(v) - LedgerCost(v)
          /\ EarnedProfit(v)' = LedgerRevenue(v)' - LedgerCost(v)'
      BY <1>6, ReceiptsTypes DEF LedgerRevenue, LedgerCost, EarnedProfit
    <2>2. /\ w.revenue = LedgerRevenue(v) /\ w.cost = LedgerCost(v) /\ v \in deposits'
          /\ w.earned + w.deposits = StarterAmount + EarnedProfit(v)
      BY <1>1, <1>9 DEF Explained, Balance
    <2>3. rt'[v].wallet = CreditEarned(w, n)
      BY <1>4
    <2> HIDE DEF w, n
    <2>4. CreditEarned(w, n).earned + CreditEarned(w, n).deposits
            = StarterAmount + EarnedProfit(v)'
      BY <1>3, <1>8, <2>1, <2>2, PriceAssumption
    <2>5. QED
      BY <1>8, <2>1, <2>2, <2>3, <2>4 DEF Explained, Balance
  <1>11. Accounted(v)'
    BY <1>4, <1>10 DEF Accounted
  <1>12. QED
    BY <1>5, <1>7, <1>11 DEF LedgerInv

LEMMA LedgerSteps ==
  ASSUME RuntimeInv, LedgerInv, NEW v \in Versions, Step(v) \/ Crash(v) PROVE LedgerInv'
  <1>1. TypeOK /\ rt[v] \in Memory /\ Accounted(v)
    BY DEF RuntimeInv, TypeOK, LedgerInv
  <1>2. CASE QuoteAndDecide(v)
    <2> DEFINE m == [rt[v] EXCEPT !.pc = IF Affordable(rt[v].wallet) THEN "execute" ELSE "check"]
    <2>1. rt' = [rt EXCEPT ![v] = m] /\ m.wallet = rt[v].wallet /\ rt[v].pc # "down"
      BY <1>1, <1>2 DEF QuoteAndDecide, Memory
    <2>2. m.pc \in {"execute", "check"} /\ (m.pc = "execute" => m.wallet # EmptyWallet)
      BY <1>1, PriceAssumption DEF Affordable, Balance, EmptyWallet, Memory
    <2>3. QED
      BY <1>1, <1>2, <2>1, <2>2, AccountedQuietly DEF QuoteAndDecide
  <1>3. CASE Execute(v)
    <2> DEFINE m == [rt[v] EXCEPT !.pc = "verify", !.pending = [kind |-> "expense",
                       subject |-> v, job |-> rt[v].job, amount |-> Price, ts |-> now]]
    <2>1. rt' = [rt EXCEPT ![v] = m] /\ m.wallet = rt[v].wallet /\ rt[v].pc = "execute"
      BY <1>1, <1>3 DEF Execute, Memory
    <2>2. QED
      BY <1>1, <1>3, <2>1, AccountedQuietly DEF Execute, Accounted
  <1>4. CASE Verify(v)
    <2> DEFINE m == [rt[v] EXCEPT !.pc = "store"]
    <2>1. rt' = [rt EXCEPT ![v] = m] /\ m.wallet = rt[v].wallet /\ rt[v].pc = "verify"
      BY <1>1, <1>4 DEF Verify, Memory
    <2>2. QED
      BY <1>1, <1>4, <2>1, AccountedQuietly DEF Verify, Accounted
  <1>5. CASE ProviderFails(v) \/ Reject(v) \/ Continue(v)
    BY <1>1, <1>5, AccountedNext DEF ProviderFails, Reject, Continue
  <1>6. CASE StoreExpense(v) \/ StoreEarned(v)
    <2>1. Underway(v)
      BY <1>6 DEF StoreExpense, StoreEarned, RuntimeInv, Prepared
    <2>2. QED
      BY <1>1, <1>6, <2>1, AccountedExpense, AccountedEarned
  <1>7. CASE Halt(v)
    <2>1. [Off EXCEPT !.halt = HaltReason(v)].pc = "down"
      BY DEF Off
    <2>2. QED
      BY <1>1, <1>7, <2>1, AccountedQuietly DEF Halt
  <1>8. CASE Crash(v) \/ Exit(v)
    <2>1. Off.pc = "down"
      BY DEF Off
    <2>2. QED
      BY <1>1, <1>8, <2>1, AccountedQuietly DEF Crash, Exit
  <1>9. QED
    BY <1>2, <1>3, <1>4, <1>5, <1>6, <1>7, <1>8 DEF Step

LEMMA LedgerInit == Init => LedgerInv
  BY FS_EmptySet DEF Init, LedgerInv, Accounted, Off

LEMMA LedgerInduction == RuntimeInv /\ LedgerInv /\ [Next]_vars => LedgerInv'
<1> SUFFICES ASSUME RuntimeInv, LedgerInv, [Next]_vars PROVE LedgerInv'
  OBVIOUS
<1>1. CASE UNCHANGED vars \/ Tick
  <2>1. UNCHANGED <<rt, receipts, deposits>>
    BY <1>1 DEF vars, ledger, Tick
  <2>2. \A w, k : ReceiptsFor(w, k)' = ReceiptsFor(w, k)
    BY <2>1 DEF ReceiptsFor
  <2>3. QED
    BY <2>1, <2>2, AccountedFrame DEF LedgerInv
<1>2. QED
  BY <1>1, AccountedStart, LedgerSteps DEF Next, RuntimeInv

LEMMA LedgerInvariant == Spec => []LedgerInv
  BY LedgerInit, LedgerInduction, RuntimeInvariant, PTL DEF Spec

(* The wallet of a running process is the ledger's or empty, whatever crashed,
   was rejected or was stored by other processes in between. *)
THEOREM WalletCorrect == Spec => []WalletAgrees
<1>1. LedgerInv => WalletAgrees
  BY DEF LedgerInv, Accounted, Explained, WalletAgrees, Up
<1>2. QED
  BY <1>1, LedgerInvariant, PTL

(* Every heartbeat, the one after the last cycle included, is the profit the
   ledger shows: a process with an emptied wallet never publishes one. *)
THEOREM HeartbeatCorrect == Spec => HeartbeatMatchesLedger
<1> DEFINE Honest == \A v \in Versions :
             CycleEnds(v) => rt'[v].hb = [ts |-> now, signal |-> EarnedProfit(v)]
<1>1. RuntimeInv /\ LedgerInv /\ [Next]_vars => [Honest]_vars
  <2> SUFFICES ASSUME RuntimeInv, LedgerInv, Next, NEW v \in Versions, CycleEnds(v)
               PROVE  rt'[v].hb = [ts |-> now, signal |-> EarnedProfit(v)]
    BY DEF vars
  <2>1. rt \in [Versions -> Memory] /\ rt[v] \in Memory /\ Accounted(v) /\ TypeOK
    BY DEF RuntimeInv, TypeOK, LedgerInv
  <2>2. Off.pc = "down" /\ \A x : [Off EXCEPT !.halt = x].pc = "down"
    BY DEF Off
  <2>3. /\ rt[v].pc # "down" /\ rt'[v].hb = Heartbeat(v)
        /\ ProviderFails(v) \/ Reject(v) \/ Continue(v)
    <3>0. rt'[v].pc \in {"ready", "done"} /\ rt[v].pc \in {"execute", "verify", "store", "check"}
          /\ rt'[v] # rt[v]
      BY DEF CycleEnds
    <3>1. ~Tick
      BY <3>0 DEF Tick
    <3>2. ASSUME NEW w \in Versions, Start(w) PROVE FALSE
      <4>1. rt[w].pc = "down" /\ (w # v => rt'[v] = rt[v])
        BY <2>1, <3>2 DEF Start
      <4>2. QED
        BY <3>0, <4>1
    <3>3. ASSUME NEW w \in Versions, Crash(w) \/ Halt(w) \/ Exit(w) PROVE FALSE
      <4>1. rt'[w].pc = "down" /\ (w # v => rt'[v] = rt[v])
        BY <2>1, <2>2, <3>3 DEF Crash, Halt, Exit
      <4>2. QED
        BY <3>0, <4>1
    <3>4. ASSUME NEW w \in Versions,
                 QuoteAndDecide(w) \/ Execute(w) \/ Verify(w) \/ StoreExpense(w) \/ StoreEarned(w)
          PROVE  FALSE
      <4>1. rt[w] \in Memory
        BY <2>1
      <4>2. /\ rt'[w].pc \in {"execute", "check", "verify", "store"}
            /\ w # v => rt'[v] = rt[v]
        BY <2>1, <3>4, <4>1 DEF QuoteAndDecide, Execute, Verify, StoreExpense, StoreEarned, Memory
      <4>3. QED
        BY <3>0, <4>2
    <3>5. ASSUME NEW w \in Versions, ProviderFails(w) \/ Reject(w) \/ Continue(w)
          PROVE  w = v /\ rt'[v].hb = Heartbeat(v)
      <4>1. NextJob(w)
        BY <3>5 DEF ProviderFails, Reject, Continue
      <4>2. QED
        BY <2>1, <3>0, <4>1, FinishedIs
    <3>6. QED
      BY <3>0, <3>1, <3>2, <3>3, <3>4, <3>5 DEF Next, Step
  <2>4. rt[v].wallet # EmptyWallet
    <3>1. CASE ProviderFails(v) \/ Reject(v)
      BY <2>1, <3>1 DEF ProviderFails, Reject, Accounted
    <3>2. CASE Continue(v)
      BY <3>2 DEF Continue, HaltReason, Broke, Balance, Profit, EmptyWallet
    <3>3. QED
      BY <2>3, <3>1, <3>2
  <2>5. Explained(v)
    BY <2>1, <2>3, <2>4 DEF Accounted
  <2>6. QED
    BY <2>3, <2>5 DEF Heartbeat, Profit, Explained, LedgerRevenue, LedgerCost, EarnedProfit
<1>2. QED
  BY <1>1, RuntimeInvariant, LedgerInvariant, PTL DEF Spec, HeartbeatMatchesLedger

-----------------------------------------------------------------------------
(* The ranking, which reads the ledger while the runtimes write it. *)
Row == [version : Versions, signal : Int]
RankerType == [pc : {"idle", "first", "second"}, since : Int, left : SUBSET Versions,
               reading : [version : Versions] \cup {NoReceipt}, sums : [Kinds -> Int],
               rows : Seq(Row)]
EarnedSince(v, since) == \E r \in ReceiptsFor(v, "earned") : r.ts >= since

(* What the ranker holds: sums that the ledger has not fallen below since, and
   for every row with a profit a receipt that earned it in the window. *)
RankerInv ==
  /\ ranker \in RankerType
  /\ ranker.pc = "second" =>
       /\ ranker.reading \in [version : Versions]
       /\ ranker.sums["earned"] <= WindowSum(ranker.reading.version, "earned", ranker.since)
  /\ \A i \in DOMAIN ranker.rows :
       ranker.rows[i].signal > 0 => EarnedSince(ranker.rows[i].version, ranker.since)

(* A step of the runtimes stores one receipt or none. *)
LEMMA LedgerGrows ==
  ASSUME RuntimeInv, [Next]_vars
  PROVE  \/ UNCHANGED receipts
         \/ \E r \in Receipt : r \notin receipts /\ receipts' = receipts \cup {r}
  <1>1. ASSUME NEW v \in Versions, StoreExpense(v) \/ StoreEarned(v)
        PROVE  \E r \in Receipt : r \notin receipts /\ receipts' = receipts \cup {r}
    <2>1. rt[v].pending \in Receipt
      BY <1>1 DEF RuntimeInv, Prepared, Underway, StoreExpense, StoreEarned
    <2>2. QED
      BY <1>1, <2>1 DEF StoreExpense, StoreEarned, SameId
  <1>2. QED
    BY <1>1 DEF Next, Tick, Start, Step, Crash, QuoteAndDecide, Execute, ProviderFails, Verify,
                Reject, Halt, Continue, Exit, vars, ledger

LEMMA WindowTypes ==
  ASSUME TypeOK, LedgerInv, NEW v, NEW kind, NEW since \in Int
  PROVE  /\ WindowSum(v, kind, since) \in Nat
         /\ WindowSum(v, kind, since) > 0 => \E r \in ReceiptsFor(v, kind) : r.ts >= since
  <1> DEFINE rs == {r \in ReceiptsFor(v, kind) : r.ts >= since}
  <1>1. rs \in SUBSET Receipt /\ IsFiniteSet(rs)
    BY ReceiptsTypes, FS_Subset
  <1>2. SumAmounts(rs) \in Nat
    BY <1>1, SumIsNat
  <1>3. rs = {} => SumAmounts(rs) = 0
    BY SumOfNothing
  <1>4. QED
    BY <1>2, <1>3 DEF WindowSum

LEMMA WindowTypesNext ==
  ASSUME NEW v, NEW kind, NEW since \in Int
  PROVE  TypeOK' /\ LedgerInv' => (WindowSum(v, kind, since) \in Nat)'
  <1>1. TypeOK /\ LedgerInv => WindowSum(v, kind, since) \in Nat
    BY WindowTypes
  <1>2. QED
    BY <1>1, PTL

LEMMA WindowGrows ==
  ASSUME RuntimeInv, LedgerInv, [Next]_vars, NEW v, NEW kind, NEW since \in Int
  PROVE  WindowSum(v, kind, since) <= WindowSum(v, kind, since)'
  <1> DEFINE rs == {r \in ReceiptsFor(v, kind) : r.ts >= since}
  <1>1. TypeOK /\ rs \in SUBSET Receipt /\ IsFiniteSet(rs)
    BY ReceiptsTypes, FS_Subset DEF RuntimeInv
  <1>2. SumAmounts(rs) \in Nat
    BY <1>1, SumIsNat
  <1>3. CASE rs' = rs
    <2>1. WindowSum(v, kind, since)' = SumAmounts(rs)
      BY <1>3 DEF WindowSum
    <2>2. QED
      BY <1>2, <2>1 DEF WindowSum
  <1>4. ASSUME NEW r \in Receipt, r \notin rs, rs' = rs \cup {r}
        PROVE  WindowSum(v, kind, since) <= WindowSum(v, kind, since)'
    <2> HIDE DEF rs
    <2>1. SumAmounts(rs \cup {r}) = SumAmounts(rs) + r.amount
      BY <1>1, <1>4, SumGrows
    <2>2. r.amount \in Nat
      BY DEF Receipt
    <2>3. SumAmounts(rs) <= SumAmounts(rs \cup {r})
      BY <1>2, <2>1, <2>2
    <2>4. WindowSum(v, kind, since) = SumAmounts(rs)
      BY DEF WindowSum, rs
    <2>5. WindowSum(v, kind, since)' = SumAmounts(rs')
      BY DEF WindowSum, rs
    <2>6. QED
      BY <1>4, <2>3, <2>4, <2>5
  <1>5. rs' = rs \/ \E r \in Receipt : r \notin rs /\ rs' = rs \cup {r}
    BY LedgerGrows DEF ReceiptsFor
  <1>6. QED
    BY <1>3, <1>4, <1>5

LEMMA EarnedStays ==
  ASSUME RuntimeInv, [Next]_vars, NEW v, NEW since, EarnedSince(v, since)
  PROVE  EarnedSince(v, since)'
  BY LedgerGrows DEF EarnedSince, ReceiptsFor

(* The runtimes move under the ranker. *)
LEMMA RankerWaits ==
  ASSUME RuntimeInv, LedgerInv, RankerInv, [Next]_vars, UNCHANGED ranker PROVE RankerInv'
  <1>1. ranker.since \in Int
    BY DEF RankerInv, RankerType
  <1>2. ASSUME ranker.pc = "second"
        PROVE  ranker.sums["earned"] <= WindowSum(ranker.reading.version, "earned", ranker.since)'
    <2> DEFINE v == ranker.reading.version
               t == ranker.since
    <2>1. PICK n, u : n = v /\ u = t
      OBVIOUS
    <2>2. /\ WindowSum(n, "earned", u) <= WindowSum(n, "earned", u)'
          /\ WindowSum(n, "earned", u) \in Int /\ WindowSum(n, "earned", u)' \in Int
      <3>1. TypeOK' /\ LedgerInv' /\ TypeOK
        BY RuntimeInduction, LedgerInduction DEF RuntimeInv
      <3>2. WindowSum(n, "earned", u)' \in Int
        BY <1>1, <2>1, <3>1, WindowTypesNext
      <3>3. QED
        BY <1>1, <2>1, <3>1, <3>2, WindowGrows, WindowTypes
    <2>3. ranker.sums["earned"] <= WindowSum(n, "earned", u) /\ ranker.sums["earned"] \in Int
      BY <1>2, <2>1 DEF RankerInv, RankerType, Kinds
    <2>4. WindowSum(ranker.reading.version, "earned", ranker.since)' = WindowSum(n, "earned", u)'
      BY <2>1 DEF WindowSum, ReceiptsFor
    <2>5. QED
      BY <2>2, <2>3, <2>4
  <1>3. ASSUME NEW i \in DOMAIN ranker.rows, ranker.rows[i].signal > 0
        PROVE  EarnedSince(ranker.rows[i].version, ranker.since)'
    <2>1. PICK n, u : n = ranker.rows[i].version /\ u = ranker.since
      OBVIOUS
    <2>2. EarnedSince(n, u)'
      BY <1>3, <2>1, EarnedStays DEF RankerInv
    <2>3. QED
      BY <2>1, <2>2 DEF EarnedSince, ReceiptsFor
  <1>4. QED
    BY <1>2, <1>3 DEF RankerInv

(* The ranker moves: a row's profit is the revenue read first less the costs
   read after it, and revenue in the window is a receipt in the window. *)
LEMMA RankerMoves ==
  ASSUME RuntimeInv, LedgerInv, RankerInv, RankerStep, UNCHANGED vars PROVE RankerInv'
  <1>1. ranker \in RankerType /\ ranker.since \in Int /\ now \in Int /\ TypeOK
    BY DurationAssumption DEF RankerInv, RankerType, RuntimeInv, TypeOK
  <1>2. \A v, kind, since : WindowSum(v, kind, since)' = WindowSum(v, kind, since)
    BY DEF vars, ledger, WindowSum, ReceiptsFor
  <1>3. \A v, since : EarnedSince(v, since)' <=> EarnedSince(v, since)
    BY DEF vars, ledger, EarnedSince, ReceiptsFor
  <1>4. ReadOrder[1] = "earned" /\ ReadOrder[2] = "expense"
    BY DEF ReadOrder
  <1>5. Idle \in RankerType /\ Idle.rows = <<>> /\ Idle.pc = "idle"
    BY DEF Idle, RankerType, Kinds
  <1>6. ASSUME NEW known \in SUBSET Versions, Begin(known) PROVE RankerInv'
    <2>1. now - SURVIVAL_WINDOW \in Int
      BY <1>1, RankingAssumption
    <2>2. ranker' \in RankerType /\ ranker'.pc = "first" /\ ranker'.rows = <<>>
      BY <1>5, <1>6, <2>1 DEF Begin, RankerType
    <2>3. QED
      BY <2>2 DEF RankerInv
  <1>7. ASSUME NEW v \in Versions, ReadFirst(v) PROVE RankerInv'
    <2>1. WindowSum(v, "earned", ranker.since) \in Int
      BY <1>1, WindowTypes
    <2>2. /\ ranker' = [ranker EXCEPT !.pc = "second", !.reading = [version |-> v],
                          !.left = @ \ {v}, !.sums["earned"] = WindowSum(v, "earned", ranker.since)]
      BY <1>4, <1>7 DEF ReadFirst
    <2>3. /\ ranker' \in RankerType /\ ranker'.pc = "second" /\ ranker'.since = ranker.since
          /\ ranker'.reading = [version |-> v] /\ ranker'.rows = ranker.rows
          /\ ranker'.sums["earned"] = WindowSum(v, "earned", ranker.since)
      BY <1>1, <2>1, <2>2 DEF RankerType, Kinds
    <2>4. QED
      BY <1>2, <1>3, <2>1, <2>3 DEF RankerInv
  <1>8. ASSUME ReadSecond PROVE RankerInv'
    <2> DEFINE v   == ranker.reading.version
               sum == WindowSum(v, "expense", ranker.since)
               row == [version |-> v, signal |-> ranker.sums["earned"] - sum]
    <2>1. /\ v \in Versions /\ ranker.sums["earned"] \in Int
          /\ ranker.sums["earned"] <= WindowSum(v, "earned", ranker.since)
      BY <1>1, <1>8 DEF RankerInv, ReadSecond, RankerType, Kinds
    <2>2. sum \in Nat /\ WindowSum(v, "earned", ranker.since) \in Nat
      BY <1>1, WindowTypes
    <2>3. row \in Row
      BY <2>1, <2>2 DEF Row
    <2>4. row.signal > 0 => EarnedSince(v, ranker.since)
      <3>1. row.signal > 0 => WindowSum(v, "earned", ranker.since) > 0
        BY <2>1, <2>2
      <3>2. QED
        BY <1>1, <3>1, WindowTypes DEF EarnedSince
    <2>5. ranker' = [ranker EXCEPT !.pc = "first", !.reading = NoReceipt,
                       !.rows = Append(@, row)]
      BY <1>1, <1>4, <1>8 DEF ReadSecond, RankerType, Kinds
    <2> HIDE DEF row
    <2>6. ranker.rows \in Seq(Row) /\ Append(ranker.rows, row) \in Seq(Row)
      BY <1>1, <2>3 DEF RankerType
    <2>7. /\ ranker' \in RankerType /\ ranker'.pc = "first" /\ ranker'.since = ranker.since
          /\ ranker'.rows = Append(ranker.rows, row)
      BY <1>1, <2>5, <2>6 DEF RankerType
    <2>8. ASSUME NEW i \in DOMAIN ranker'.rows, ranker'.rows[i].signal > 0
          PROVE  EarnedSince(ranker'.rows[i].version, ranker.since)
      <3>1. CASE i \in DOMAIN ranker.rows
        BY <2>6, <2>7, <2>8, <3>1 DEF RankerInv
      <3>2. CASE i \notin DOMAIN ranker.rows
        <4>1. ranker'.rows[i] = row
          BY <2>6, <2>7, <3>2
        <4>2. QED
          BY <2>4, <2>8, <4>1 DEF row
      <3>3. QED
        BY <3>1, <3>2
    <2>9. QED
      BY <1>3, <2>7, <2>8 DEF RankerInv
  <1>9. ASSUME Return PROVE RankerInv'
    BY <1>5, <1>9 DEF Return, RankerInv
  <1>10. QED
    BY <1>6, <1>7, <1>8, <1>9 DEF RankerStep

LEMMA RankingInvariant == RankingSpec => [](RuntimeInv /\ LedgerInv /\ RankerInv)
<1>1. RankingInit => RuntimeInv /\ LedgerInv /\ RankerInv
  BY InitRuntimeInv, LedgerInit DEF RankingInit, RankerInv, RankerType, Idle, Kinds
<1>2. RuntimeInv /\ LedgerInv /\ RankerInv /\ [RankingNext]_rankVars
        => (RuntimeInv /\ LedgerInv /\ RankerInv)'
  <2> SUFFICES ASSUME RuntimeInv, LedgerInv, RankerInv, [RankingNext]_rankVars
               PROVE  RuntimeInv' /\ LedgerInv' /\ RankerInv'
    OBVIOUS
  <2>1. [Next]_vars /\ ((UNCHANGED ranker) \/ (RankerStep /\ UNCHANGED vars))
    BY DEF RankingNext, rankVars
  <2>2. QED
    BY <2>1, RuntimeInduction, LedgerInduction, RankerWaits, RankerMoves
<1>3. QED
  BY <1>1, <1>2, PTL DEF RankingSpec

(* No row shows more than the ledger holds for the window when it is made. *)
THEOREM FlatteryCorrect == RankingSpec => RankNeverFlatters
<1> DEFINE row == ranker'.rows[Len(ranker'.rows)]
           Fair == ranker'.rows # ranker.rows /\ ranker'.rows # <<>> =>
                     row.signal <= WindowProfit(row.version, ranker.since)
<1>1. RuntimeInv /\ LedgerInv /\ RankerInv /\ [RankingNext]_rankVars => [Fair]_rankVars
  <2> SUFFICES ASSUME RuntimeInv, LedgerInv, RankerInv, RankingNext,
                      ranker'.rows # ranker.rows, ranker'.rows # <<>>
               PROVE  row.signal <= WindowProfit(row.version, ranker.since)
    OBVIOUS
  <2>1. ranker \in RankerType /\ ranker.since \in Int /\ TypeOK
    BY DEF RankerInv, RankerType, RuntimeInv
  <2>2. ReadSecond
    <3>1. ASSUME Return PROVE FALSE
      BY <3>1 DEF Return, Idle
    <3>2. ASSUME NEW known \in SUBSET Versions, Begin(known) PROVE FALSE
      BY <3>2 DEF Begin, Idle
    <3>3. \A v : ~ReadFirst(v)
      BY <2>1 DEF ReadFirst, RankerType
    <3>4. UNCHANGED ranker \/ RankerStep
      BY DEF RankingNext
    <3>5. QED
      BY <3>1, <3>2, <3>3, <3>4 DEF RankerStep
  <2> DEFINE v     == ranker.reading.version
             cost  == WindowSum(v, "expense", ranker.since)
             added == [version |-> v, signal |-> ranker.sums["earned"] - cost]
  <2>3. /\ ranker.sums["earned"] \in Int
        /\ ranker.sums["earned"] <= WindowSum(v, "earned", ranker.since)
    BY <2>1, <2>2 DEF RankerInv, ReadSecond, RankerType, Kinds
  <2>4. cost \in Int /\ WindowSum(v, "earned", ranker.since) \in Int
    BY <2>1, WindowTypes
  <2>5. ranker'.rows = Append(ranker.rows, added)
    BY <2>1, <2>2 DEF ReadSecond, ReadOrder, RankerType, Kinds
  <2>6. row = added
    <3> HIDE DEF added
    <3>1. ranker.rows \in Seq(Row)
      BY <2>1 DEF RankerType
    <3>2. QED
      BY <2>5, <3>1
  <2>7. QED
    BY <2>3, <2>4, <2>6 DEF WindowProfit
<1>2. QED
  BY <1>1, RankingInvariant, PTL DEF RankingSpec, RankNeverFlatters

(* A receipt is no later than the last time its version earned. *)
LEMMA LastEarnedIsLast ==
  ASSUME TypeOK, LedgerInv, NEW v, NEW r \in ReceiptsFor(v, "earned")
  PROVE  LastEarned(v) \in Int /\ r.ts <= LastEarned(v)
  <1> DEFINE rs == ReceiptsFor(v, "earned")
             at == [s \in rs |-> s.ts]
             T  == {0} \cup {s.ts : s \in rs}
  <1>1. rs \in SUBSET Receipt /\ IsFiniteSet(rs)
    BY ReceiptsTypes
  <1>2. \A s \in rs : s.ts \in Nat /\ at[s] = s.ts
    BY <1>1 DEF Receipt
  <1>3. PICK last \in rs : \A s \in rs : s.ts <= last.ts
    <2>1. \E last \in rs : \A s \in rs : at[s] <= at[last]
      <3> HIDE DEF at
      <3>1. \A s \in rs : at[s] \in Int
        BY <1>2
      <3>2. QED
        BY <1>1, <3>1, HighestMember
    <2>2. QED
      BY <1>2, <2>1
  <1>4. last.ts \in T /\ \A t \in T : last.ts >= t
    BY <1>2, <1>3
  <1>5. Max(T) \in T /\ \A t \in T : Max(T) >= t
    BY <1>4 DEF Max
  <1>6. LastEarned(v) = Max(T) /\ r.ts \in T /\ T \subseteq Int
    BY <1>2 DEF LastEarned
  <1>7. QED
    BY <1>5, <1>6

(* When the window is no longer than the timeout of a silent process, a version
   the ranking calls alive had earned recently enough for its own runtime, too. *)
THEOREM AliveCorrect ==
  ASSUME SURVIVAL_WINDOW <= HALT_TIMEOUT
  PROVE  RankingSpec => []AliveIsNotSilent
<1>1. RuntimeInv /\ LedgerInv /\ RankerInv => AliveIsNotSilent
  <2> SUFFICES ASSUME RuntimeInv, LedgerInv, RankerInv,
                      NEW i \in DOMAIN ranker.rows, ranker.rows[i].signal > 0
               PROVE  ~SilentAt(ranker.rows[i].version, ranker.since + SURVIVAL_WINDOW)
    BY DEF AliveIsNotSilent
  <2>1. PICK r \in ReceiptsFor(ranker.rows[i].version, "earned") : r.ts >= ranker.since
    BY DEF RankerInv, EarnedSince
  <2>2. r.ts \in Int /\ ranker.since \in Int
    BY DEF ReceiptsFor, RuntimeInv, TypeOK, Receipt, RankerInv, RankerType
  <2>3. /\ LastEarned(ranker.rows[i].version) \in Int
        /\ r.ts <= LastEarned(ranker.rows[i].version)
    BY LastEarnedIsLast DEF RuntimeInv
  <2>4. QED
    BY <2>1, <2>2, <2>3, DurationAssumption, RankingAssumption DEF SilentAt
<1>2. QED
  BY <1>1, RankingInvariant, PTL

-----------------------------------------------------------------------------
(* The table that rank returns. *)
Ahead(rows, j, i) ==
  rows[j].signal > rows[i].signal \/ (rows[j].signal = rows[i].signal /\ j < i)

Front(rows, i) == {j \in DOMAIN rows : Ahead(rows, j, i)}

LEMMA RowsTypes ==
  ASSUME NEW rows \in Seq(Row)
  PROVE  /\ IsFiniteSet(DOMAIN rows)
         /\ \A i \in DOMAIN rows : i \in Int /\ rows[i].signal \in Int
  <1>1. DOMAIN rows = 1 .. Len(rows) /\ Len(rows) \in Nat
    OBVIOUS
  <1>2. \A i \in DOMAIN rows : rows[i] \in Row
    BY <1>1
  <1>3. IsFiniteSet(DOMAIN rows)
    BY <1>1, FS_Interval
  <1>4. \A i \in DOMAIN rows : i \in Int
    BY <1>1
  <1>5. QED
    BY <1>2, <1>3, <1>4 DEF Row

LEMMA PlaceIs ==
  ASSUME NEW rows \in Seq(Row), NEW i
  PROVE  /\ Place(rows, i) = 1 + Cardinality(Front(rows, i)) /\ Place(rows, i) \in Nat \ {0}
         /\ IsFiniteSet(Front(rows, i)) /\ Cardinality(Front(rows, i)) \in Nat
  <1>1. Place(rows, i) = 1 + Cardinality(Front(rows, i))
    BY DEF Place, Front, Ahead
  <1>2. IsFiniteSet(Front(rows, i)) /\ Cardinality(Front(rows, i)) \in Nat
    BY RowsTypes, FS_Subset, FS_CardinalityType DEF Front
  <1>3. QED
    BY <1>1, <1>2

\* Whoever is ahead has the smaller place: what is ahead of it is ahead of both.
LEMMA PlacesGrow ==
  ASSUME NEW rows \in Seq(Row), NEW i \in DOMAIN rows, NEW k \in DOMAIN rows, Ahead(rows, i, k)
  PROVE  Place(rows, i) < Place(rows, k)
  <1>1. i \notin Front(rows, i) /\ i \in Front(rows, k)
    BY RowsTypes DEF Front, Ahead
  <1>2. ASSUME NEW j \in DOMAIN rows, Ahead(rows, j, i) PROVE Ahead(rows, j, k)
    BY <1>2, RowsTypes DEF Ahead
  <1>3. Front(rows, i) \in SUBSET Front(rows, k)
    BY <1>2 DEF Front
  <1>4. /\ Cardinality(Front(rows, i)) <= Cardinality(Front(rows, k))
        /\ Cardinality(Front(rows, i)) # Cardinality(Front(rows, k))
    BY <1>1, <1>3, PlaceIs, FS_Subset
  <1>5. QED
    BY <1>4, PlaceIs

(* A table names at most N_TOP versions, no two of them with one rank, and none
   of them with less profit than a version of higher rank or of none; and it
   calls alive exactly who is profitable, in the top or not. *)
TableOrdered ==
  \A i, k \in DOMAIN table :
    /\ table[i].rank \in 0 .. N_TOP
    /\ table[i].alive <=> table[i].signal > 0
    /\ i # k /\ table[i].rank # 0 => table[k].rank # table[i].rank
    /\ table[i].rank # 0 /\ (table[k].rank = 0 \/ table[k].rank > table[i].rank) =>
         table[i].signal >= table[k].signal

LEMMA RankedOrdered ==
  ASSUME RankerInv, Return PROVE TableOrdered'
  <1> DEFINE rows == ranker.rows
             t    == Ranked(rows)
  <1>1. rows \in Seq(Row) /\ table' = t
    BY DEF RankerInv, RankerType, Return
  <1> HIDE DEF rows
  <1>2. /\ DOMAIN t = DOMAIN rows
        /\ \A i \in DOMAIN rows :
             /\ t[i].signal = rows[i].signal /\ (t[i].alive <=> rows[i].signal > 0)
             /\ t[i].rank = IF Place(rows, i) <= N_TOP THEN Place(rows, i) ELSE 0
    BY DEF Ranked
  <1> HIDE DEF t
  <1>3. \A i \in DOMAIN rows : i \in Int /\ rows[i].signal \in Int
    BY <1>1, RowsTypes
  <1>4. \A i \in DOMAIN rows : Place(rows, i) \in Nat \ {0}
    BY <1>1, PlaceIs
  <1>5. ASSUME NEW i \in DOMAIN rows, NEW k \in DOMAIN rows
        PROVE  /\ t[i].rank \in 0 .. N_TOP
               /\ i # k /\ t[i].rank # 0 => t[k].rank # t[i].rank
               /\ t[i].rank # 0 /\ (t[k].rank = 0 \/ t[k].rank > t[i].rank) =>
                    t[i].signal >= t[k].signal
    <2>1. t[i].rank \in 0 .. N_TOP
      BY <1>2, <1>4, RankingAssumption
    <2>2. i # k => Ahead(rows, i, k) \/ Ahead(rows, k, i)
      BY <1>3 DEF Ahead
    <2>3. i # k => Place(rows, i) # Place(rows, k)
      BY <1>1, <1>4, <2>2, PlacesGrow
    <2>4. Place(rows, i) < Place(rows, k) => rows[i].signal >= rows[k].signal
      <3>1. ASSUME Place(rows, i) < Place(rows, k) PROVE ~Ahead(rows, k, i)
        BY <1>1, <1>4, <3>1, PlacesGrow
      <3>2. QED
        BY <1>3, <3>1 DEF Ahead
    <2>5. i # k /\ t[i].rank # 0 => t[k].rank # t[i].rank
      BY <1>2, <1>4, <2>3
    <2>6. t[i].rank # 0 /\ (t[k].rank = 0 \/ t[k].rank > t[i].rank)
            => Place(rows, i) < Place(rows, k)
      BY <1>2, <1>4, RankingAssumption
    <2>7. QED
      BY <1>2, <2>1, <2>4, <2>5, <2>6
  <1>6. QED
    BY <1>1, <1>2, <1>5 DEF TableOrdered

(* Whatever the ledger did meanwhile, what rank returns is an order. *)
THEOREM TableCorrect == RankingSpec => []TableOrdered
<1>1. RankingInit => TableOrdered
  BY DEF RankingInit, TableOrdered
<1>2. RankerInv /\ TableOrdered /\ [RankingNext]_rankVars => TableOrdered'
  <2> SUFFICES ASSUME RankerInv, TableOrdered, [RankingNext]_rankVars PROVE TableOrdered'
    OBVIOUS
  <2>1. CASE UNCHANGED table
    BY <2>1 DEF TableOrdered
  <2>2. ASSUME NEW known \in SUBSET Versions, Begin(known) PROVE TableOrdered'
    BY <2>2 DEF Begin, TableOrdered
  <2>3. CASE Return
    BY <2>3, RankedOrdered
  <2>4. QED
    BY <2>1, <2>2, <2>3 DEF RankingNext, rankVars, RankerStep, ReadFirst, ReadSecond
<1>3. QED
  BY <1>1, <1>2, RankingInvariant, PTL DEF RankingSpec

=============================================================================
