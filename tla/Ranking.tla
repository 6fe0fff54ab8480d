------------------------------ MODULE Ranking -------------------------------
(***************************************************************************)
(* The ranking (selection/rank.py over receipts/store.py), computed from   *)
(* the ledger while the runtimes write it.  Each sum is a transaction of   *)
(* its own: a receipt may be stored between the two of one version, and    *)
(* between two versions.                                                   *)
(***************************************************************************)
EXTENDS Runtime, Sequences

CONSTANTS SURVIVAL_WINDOW, N_TOP

ASSUME RankingAssumption == SURVIVAL_WINDOW \in Nat /\ N_TOP \in Nat

VARIABLES
  ranker,   \* the call of rank that is under way
  table     \* what the last call returned

rankVars == <<vars, ranker, table>>

Idle == [pc |-> "idle", since |-> 0, left |-> {}, reading |-> NoReceipt,
         sums |-> [kind \in Kinds |-> 0], rows |-> <<>>]

RankingInit == Init /\ ranker = Idle /\ table = <<>>

\* Mutant of WindowSum: every receipt counts, however old.
LifetimeSum(v, kind, since) == SumAmounts(ReceiptsFor(v, kind))
WindowSum(v, kind, since) == SumAmounts({r \in ReceiptsFor(v, kind) : r.ts >= since})
WindowProfit(v, since) == WindowSum(v, "earned", since) - WindowSum(v, "expense", since)

\* rank is called with the versions the caller knows; the window is fixed here.
Begin(known) ==
  /\ ranker.pc = "idle"
  /\ ranker' = [Idle EXCEPT !.pc = "first", !.since = now - SURVIVAL_WINDOW, !.left = known]
  /\ table' = <<>>

\* Mutant of ReadOrder: the costs are read before the revenue.
CostFirst == <<"expense", "earned">>
ReadOrder == <<"earned", "expense">>

\* The first sum of the next version ...
ReadFirst(v) ==
  /\ ranker.pc = "first" /\ v \in ranker.left
  /\ ranker' = [ranker EXCEPT !.pc = "second", !.reading = [version |-> v],
       !.left = @ \ {v}, !.sums[ReadOrder[1]] = WindowSum(v, ReadOrder[1], ranker.since)]
  /\ UNCHANGED table

\* ... the second one, and its row.
ReadSecond ==
  LET v    == ranker.reading.version
      sums == [ranker.sums EXCEPT ![ReadOrder[2]] = WindowSum(v, ReadOrder[2], ranker.since)]
  IN  /\ ranker.pc = "second"
      /\ ranker' = [ranker EXCEPT !.pc = "first", !.reading = NoReceipt,
           !.rows = Append(@, [version |-> v, signal |-> sums["earned"] - sums["expense"]])]
      /\ UNCHANGED table

\* Rows of equal signal keep their order; those after the first N_TOP have rank 0.
Place(rows, i) ==
  1 + Cardinality({j \in DOMAIN rows : \/ rows[j].signal > rows[i].signal
                                       \/ rows[j].signal = rows[i].signal /\ j < i})
Ranked(rows) ==
  [i \in DOMAIN rows |->
     [version |-> rows[i].version, signal |-> rows[i].signal, alive |-> rows[i].signal > 0,
      rank |-> IF Place(rows, i) <= N_TOP THEN Place(rows, i) ELSE 0]]

Return ==
  /\ ranker.pc = "first" /\ ranker.left = {}
  /\ ranker' = Idle /\ table' = Ranked(ranker.rows)

RankerStep ==
  \/ \E known \in SUBSET Versions : Begin(known)
  \/ (\E v \in Versions : ReadFirst(v)) \/ ReadSecond \/ Return

RankingNext ==
  \/ Next /\ UNCHANGED <<ranker, table>>
  \/ RankerStep /\ UNCHANGED vars
RankingSpec == RankingInit /\ [][RankingNext]_rankVars

-----------------------------------------------------------------------------
(* A row never shows more profit than the ledger holds for the window when the
   row is made, although a cycle may end between its two sums: what is stored
   meanwhile counts against the version, or not at all. *)
RankNeverFlatters ==
  [][ranker'.rows # ranker.rows /\ ranker'.rows # <<>> =>
       LET row == ranker'.rows[Len(ranker'.rows)]
       IN  row.signal <= WindowProfit(row.version, ranker.since)]_rankVars

(* "every version with positive earned_profit in the last window stays alive
   [...] Death is decided by HALT_TIMEOUT" (rank.py:17): with the two durations
   equal, as they ship, no version is alive in the ranking that its runtime
   would have called silent when the ranking began. *)
AliveIsNotSilent ==
  \A i \in DOMAIN ranker.rows : LET row == ranker.rows[i] IN
    row.signal > 0 => ~SilentAt(row.version, ranker.since + SURVIVAL_WINDOW)
=============================================================================
