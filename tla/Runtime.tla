------------------------------ MODULE Runtime -------------------------------
(***************************************************************************)
(* The agent runtime (earn_or_halt/runtime.py) over its wallet, policy,    *)
(* receipt verifier and SQLite ledger.  One process per version; processes *)
(* may share the ledger file, run one after the other or side by side, end *)
(* at any point and be started again.  The ledger survives, everything     *)
(* else is in memory.  A step is what happens between two transactions on  *)
(* the ledger or two calls of the provider, so a crash or another process  *)
(* comes between any two of them.                                          *)
(*                                                                         *)
(* A cycle uses one provider and one client, so the kind of a receipt      *)
(* stands for its issuer.  Signatures and whitelists accept all of these.  *)
(***************************************************************************)
EXTENDS Integers, FiniteSets, FiniteSetsExt, Functions

CONSTANTS
  Versions,      \* version ids, one process each
  StarterAmount, \* _request_starter_credit: starter_amount
  Price,         \* MockLLMProvider.quote
  Loops,         \* RuntimeConfig.mock_loops
  HALT_TIMEOUT, RECEIPT_TTL,
  StartTime,     \* unix time: more than HALT_TIMEOUT after 0
  MaxTime,       \* bound: the last instant
  MaxStarts      \* bound: how often processes are started, all together

ASSUME DurationAssumption ==
  /\ StartTime \in Nat /\ MaxTime \in Nat
  /\ HALT_TIMEOUT \in Nat /\ RECEIPT_TTL \in Nat
  /\ HALT_TIMEOUT < StartTime /\ StartTime <= MaxTime /\ MaxStarts \in Nat
ASSUME PriceAssumption ==
  StarterAmount \in Nat /\ Price \in Nat \ {0} /\ Loops \in Nat \ {0}

VARIABLES
  now,
  receipts, deposits,   \* the ledger: receipts, versions with a starter deposit
  rt,                   \* memory of the processes
  starts,               \* how often a process was started
  alone                 \* environment, chosen once: is there one process at a time?

ledger == <<receipts, deposits>>
vars   == <<now, ledger, rt, starts, alone>>

Jobs  == 0 .. Loops - 1
Kinds == {"expense", "earned"}
Receipt == [kind : Kinds, subject : Versions, job : Jobs, amount : Nat, ts : Nat]

NoReceipt   == [kind |-> "none"]
NoHeartbeat == [ts |-> -1, signal |-> 0]
EmptyWallet == [earned |-> 0, deposits |-> 0, revenue |-> 0, cost |-> 0]
Off == [pc |-> "down", job |-> 0, wallet |-> EmptyWallet, pending |-> NoReceipt,
        hb |-> NoHeartbeat, halt |-> "none"]

-----------------------------------------------------------------------------
Balance(w) == w.earned + w.deposits
Profit(w)  == w.revenue - w.cost

CreditDeposit(w) == [w EXCEPT !.deposits = @ + StarterAmount]
CreditEarned(w, amount) ==
  [w EXCEPT !.earned = @ + amount, !.revenue = @ + amount]
FromDeposit(w, amount) == IF w.deposits < amount THEN w.deposits ELSE amount
\* Mutant of DebitExpense: what a deposit pays is not counted as cost.
DebitEarnedCost(w, amount) ==
  [w EXCEPT !.deposits = @ - FromDeposit(w, amount),
            !.earned = @ - (amount - FromDeposit(w, amount)),
            !.cost = @ + (amount - FromDeposit(w, amount))]
DebitExpense(w, amount) ==
  [w EXCEPT !.deposits = @ - FromDeposit(w, amount),
            !.earned = @ - (amount - FromDeposit(w, amount)),
            !.cost = @ + amount]

ReceiptsFor(v, kind) == {r \in receipts : r.subject = v /\ r.kind = kind}
SumAmounts(rs)  == SumFunction([r \in rs |-> r.amount])
EarnedProfit(v) == SumAmounts(ReceiptsFor(v, "earned")) - SumAmounts(ReceiptsFor(v, "expense"))
LastEarned(v)   == Max({0} \cup {r.ts : r \in ReceiptsFor(v, "earned")})

HasReceipt(r) == \E s \in receipts : s.kind = r.kind /\ s.job = r.job
SameId(r)     == \E s \in receipts : s.kind = r.kind /\ s.job = r.job /\ s.ts = r.ts
\* Mutant of Verified: uniqueness is left to the primary key.
VerifiedExpiry(r) == now <= r.ts + RECEIPT_TTL
Verified(r)   == now <= r.ts + RECEIPT_TTL /\ ~HasReceipt(r)

Broke(w)  == Balance(w) <= 0 /\ Profit(w) <= 0
Losing(w) == Profit(w) < 0 /\ Balance(w) < -Profit(w)
SilentAt(v, t) == t - LastEarned(v) > HALT_TIMEOUT
Silent(v) == SilentAt(v, now)
HaltReason(v) ==
  IF Broke(rt[v].wallet) THEN "insufficient_balance"
  ELSE IF Losing(rt[v].wallet) THEN "negative_margin"
  ELSE IF Silent(v) THEN "outside_top_timeout" ELSE "none"

FirstRun(v) == ReceiptsFor(v, "earned") \cup ReceiptsFor(v, "expense") = {}

-----------------------------------------------------------------------------
Init ==
  /\ now = StartTime /\ receipts = {} /\ deposits = {} /\ starts = 0 /\ alone \in BOOLEAN
  /\ rt = [v \in Versions |-> Off]

Up == {v \in Versions : rt[v].pc # "down"}

(* Construction of a Runtime: the starter credit is asked for when the ledger
   has no receipt of the version; ingest_deposit drops a deposit it knows and
   the wallet is credited either way. *)
Start(v) ==
  /\ rt[v].pc = "down" /\ starts < MaxStarts /\ (alone => Up = {})
  /\ starts' = starts + 1
  /\ deposits' = IF FirstRun(v) THEN deposits \cup {v} ELSE deposits
  /\ rt' = [rt EXCEPT ![v] = [Off EXCEPT !.pc = "ready",
              !.wallet = IF FirstRun(v) THEN CreditDeposit(@) ELSE @]]
  /\ UNCHANGED <<now, receipts, alone>>

\* Mutant of Heartbeat: ranks deposits too.
HeartbeatOfBalance(v) == [ts |-> now, signal |-> Balance(rt[v].wallet)]
Heartbeat(v) == [ts |-> now, signal |-> Profit(rt[v].wallet)]

LastJob(v) == rt[v].job + 1 = Loops
\* Mutant of NextJob: a rejected job is tried again.
RetryJob(v) ==
  rt' = [rt EXCEPT ![v] =
    [rt[v] EXCEPT !.pc = "ready", !.pending = NoReceipt, !.hb = Heartbeat(v)]]
(* What run_mock does after a cycle without a halt, the last one included:
   publish a heartbeat built from the wallet; then the next job, or the end. *)
NextJob(v) ==
  rt' = [rt EXCEPT ![v] =
    [rt[v] EXCEPT !.pc = IF LastJob(v) THEN "done" ELSE "ready",
                  !.job = IF LastJob(v) THEN @ ELSE @ + 1,
                  !.pending = NoReceipt, !.hb = Heartbeat(v)]]

\* Mutant of Affordable: any balance will do.
AffordableIfAny(w) == Balance(w) > 0
Affordable(w) == Balance(w) >= Price

(* Steps 1 and 2 of a cycle. *)
QuoteAndDecide(v) ==
  /\ rt[v].pc = "ready"
  /\ rt' = [rt EXCEPT ![v].pc = IF Affordable(rt[v].wallet) THEN "execute" ELSE "check"]
  /\ UNCHANGED <<now, ledger, starts, alone>>

(* Step 3: the provider does the work and signs an expense receipt ... *)
Execute(v) ==
  /\ rt[v].pc = "execute"
  /\ rt' = [rt EXCEPT ![v].pc = "verify", ![v].pending =
       [kind |-> "expense", subject |-> v, job |-> rt[v].job, amount |-> Price, ts |-> now]]
  /\ UNCHANGED <<now, ledger, starts, alone>>

\* Mutant of ProviderFails: the failure does not end the cycle.
BillAnyway(v) ==
  /\ rt[v].pc = "execute"
  /\ rt' = [rt EXCEPT ![v].pc = "verify", ![v].pending =
       [kind |-> "earned", subject |-> v, job |-> rt[v].job, amount |-> 2 * Price, ts |-> now]]
  /\ UNCHANGED <<now, ledger, starts, alone>>
(* ... or fails: the cycle returns None. *)
ProviderFails(v) ==
  /\ rt[v].pc = "execute"
  /\ NextJob(v)
  /\ UNCHANGED <<now, ledger, starts, alone>>

(* verify_and_store asks first and inserts later, in another transaction. *)
Verify(v) ==
  /\ rt[v].pc = "verify" /\ Verified(rt[v].pending)
  /\ rt' = [rt EXCEPT ![v].pc = "store"]
  /\ UNCHANGED <<now, ledger, starts, alone>>

Reject(v) ==
  /\ \/ rt[v].pc = "verify" /\ ~Verified(rt[v].pending)
     \/ rt[v].pc = "store" /\ SameId(rt[v].pending)
  /\ NextJob(v)
  /\ UNCHANGED <<now, ledger, starts, alone>>

(* _simulate_client_payment *)
Payment(r) == [r EXCEPT !.kind = "earned", !.amount = 2 * @, !.ts = now]

(* Steps 4 to 6: the expense is stored and debited, the work delivered and
   the client's receipt for twice the price comes back. *)
StoreExpense(v) ==
  LET r == rt[v].pending IN
  /\ rt[v].pc = "store" /\ r.kind = "expense" /\ ~SameId(r)
  /\ receipts' = receipts \cup {r}
  /\ rt' = [rt EXCEPT ![v].pc = "verify",
              ![v].wallet = DebitExpense(@, r.amount),
              ![v].pending = Payment(r)]
  /\ UNCHANGED <<now, deposits, starts, alone>>

StoreEarned(v) ==
  LET r == rt[v].pending IN
  /\ rt[v].pc = "store" /\ r.kind = "earned" /\ ~SameId(r)
  /\ receipts' = receipts \cup {r}
  /\ rt' = [rt EXCEPT ![v].pc = "check", ![v].wallet = CreditEarned(@, r.amount)]
  /\ UNCHANGED <<now, deposits, starts, alone>>

(* Step 7, and the refusal of step 2: _execute_halt empties the wallet and the
   process exits with its HaltRecord. *)
Halt(v) ==
  /\ rt[v].pc = "check" /\ HaltReason(v) # "none"
  /\ rt' = [rt EXCEPT ![v] = [Off EXCEPT !.halt = HaltReason(v)]]
  /\ UNCHANGED <<now, ledger, starts, alone>>

Continue(v) ==
  /\ rt[v].pc = "check" /\ HaltReason(v) = "none"
  /\ NextJob(v)
  /\ UNCHANGED <<now, ledger, starts, alone>>

(* "completed %d cycles without halt": the process exits with 0. *)
Exit(v) ==
  /\ rt[v].pc = "done"
  /\ rt' = [rt EXCEPT ![v] = Off]
  /\ UNCHANGED <<now, ledger, starts, alone>>

(* SIGINT, an exception or the end of the machine: memory is gone. *)
Crash(v) ==
  /\ rt[v].pc # "down"
  /\ rt' = [rt EXCEPT ![v] = Off]
  /\ UNCHANGED <<now, ledger, starts, alone>>

Tick == now < MaxTime /\ now' = now + 1 /\ UNCHANGED <<ledger, rt, starts, alone>>

Step(v) ==
  \/ QuoteAndDecide(v) \/ Execute(v) \/ ProviderFails(v) \/ Verify(v) \/ Reject(v)
  \/ StoreExpense(v) \/ StoreEarned(v) \/ Halt(v) \/ Continue(v) \/ Exit(v)

Next == Tick \/ \E v \in Versions : Start(v) \/ Step(v) \/ Crash(v)

(* A process that was started is scheduled by the operating system. *)
Fairness == \A v \in Versions : WF_vars(Step(v))
Spec == Init /\ [][Next]_vars /\ Fairness
=============================================================================
