------------------------- MODULE RuntimeProperties --------------------------
(***************************************************************************)
(* What must hold of the agent runtime, and one thing its documentation    *)
(* says that it does not do.                                               *)
(***************************************************************************)
EXTENDS Runtime

(* Every variable keeps its type: no bucket of a wallet is ever overdrawn, so
   InsufficientBalanceError is never raised after can_afford said yes. *)
Wallet == [earned : Nat, deposits : Nat, revenue : Nat, cost : Nat]
Memory == [pc : {"down", "ready", "execute", "verify", "store", "check", "done"},
           job : Jobs, wallet : Wallet, pending : Receipt \cup {NoReceipt},
           hb : [ts : Int, signal : Int],
           halt : {"none", "insufficient_balance", "negative_margin", "outside_top_timeout"}]
TypeOK ==
  /\ now \in StartTime .. MaxTime /\ starts \in 0 .. MaxStarts
  /\ receipts \subseteq Receipt /\ deposits \subseteq Versions /\ alone \in BOOLEAN
  /\ rt \in [Versions -> Memory]

LedgerRevenue(v) == SumAmounts(ReceiptsFor(v, "earned"))
LedgerCost(v)    == SumAmounts(ReceiptsFor(v, "expense"))

(* The wallet of a running process is either the one the ledger explains
   (starter deposit, every receipt of the version and nothing else) or, after
   a restart with receipts, empty: never part of the history, whatever was
   rejected, crashed or stored by another process in between. *)
WalletAgrees ==
  \A v \in Up : LET w == rt[v].wallet IN
    \/ w = EmptyWallet
    \/ /\ w.revenue = LedgerRevenue(v) /\ w.cost = LedgerCost(v)
       /\ Balance(w) = StarterAmount + EarnedProfit(v)
       /\ v \in deposits

(* Every heartbeat of a run, the one after its last cycle included, reports
   exactly what the ledger shows at that moment, although it is built from a
   wallet that a restart empties: such a process halts before it publishes. *)
CycleEnds(v) ==
  /\ rt[v].pc \in {"execute", "verify", "store", "check"}
  /\ rt'[v].pc \in {"ready", "done"}
HeartbeatMatchesLedger ==
  [][\A v \in Versions :
       CycleEnds(v) => rt'[v].hb = [ts |-> now, signal |-> EarnedProfit(v)]]_vars

(* Nothing is earned for a job whose provider was not paid by the same version
   before: the ledger never shows income without its cost. *)
HasCost(r) ==
  \E s \in receipts : /\ s.kind = "expense" /\ s.ts <= r.ts
                      /\ s.subject = r.subject /\ s.job = r.job
IncomeHasCost == \A r \in receipts : r.kind = "earned" => HasCost(r)

(* "(issuer, job_id) is unique - no double-count" (receipts/verify.py:11), while
   processes take turns on the ledger: job ids start again with every process
   and every version, and only the check of the verifier tells them apart.
   (Processes side by side both pass it: the check and the insert are separate
   transactions.) *)
NoDoubleCount ==
  alone => \A r, s \in receipts : r.kind = s.kind /\ r.job = s.job => r = s

(* A started process ends by itself, whatever the provider, the ledger and the
   other processes do: run_mock's loop counts rejected jobs too. *)
RunEnds == \A v \in Versions : rt[v].pc # "down" ~> rt[v].pc = "down"

-----------------------------------------------------------------------------
(* "INSUFFICIENT_BALANCE: balance < 1 unit AND earned_profit <= 0 (we are out
   of money AND not earning)" (policy.py:55), with the ledger as "source of
   truth for earned_profit" (ledger.py:5). *)
HaltsOnlyWhenBroke ==
  [][\A v \in Versions :
       rt'[v].halt = "insufficient_balance" /\ rt[v].halt # rt'[v].halt =>
         EarnedProfit(v) <= 0]_vars
=============================================================================
