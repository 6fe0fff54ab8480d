------------------------------ MODULE MCArena -------------------------------
(***************************************************************************)
(* Small instances of Arena for TLC.  The clock is scaled down: an epoch   *)
(* of one or two ticks, STALE_AFTER of two epochs or more, a heartbeat     *)
(* grace of one or two ticks, so that every deadline, epoch boundary and   *)
(* staleness edge of the code lies inside a run.                           *)
(***************************************************************************)
EXTENDS Arena, TLC

CONSTANTS v1, v2, v3, l1, alice, bob, p1, p2, p3, s1

\* v1 founds the only lineage, the others descend from it; alice runs them all.
MCLineageOf  == [v \in Versions |-> l1]
MCParentOf   == [v \in Versions |-> IF v = v1 THEN Nobody ELSE v1]
MCOperatorOf == [v \in Versions |-> alice]

Single  == [signers |-> <<alice>>, threshold |-> 1]
Short   == [signers |-> <<alice>>, threshold |-> 2]    \* rejected after the bond is taken

MCLeaf(spec, reward, cst, deadline) ==
  [spec |-> spec, reward |-> reward, cost |-> cst, deadline |-> deadline, recipient |-> alice]

OneQuorum     == {Single}
BadQuorum     == {Single, Short}

\* Proof ids are interchangeable, and so are the two children of v1.
ProofSymmetry == Permutations(Proofs)
HeirSymmetry  == Permutations(Proofs) \cup Permutations({v2, v3})

\* alice pays the bonds, bob is the customer and the donor; a donation of two and
\* rewards of three leave odd vaults, which the heir of an ejected version shares.
MarketGenesis  == alice :> 2 @@ bob :> 5
MarketSchedule == {MCLeaf(1, 2, 1, 3)}

SelectionGenesis  == alice :> 3 @@ bob :> 0
SelectionSchedule == {MCLeaf(1, 1, 0, 2), MCLeaf(2, 2, 1, 3), MCLeaf(3, 2, 0, 3)}
StaleSchedule     == {MCLeaf(1, 2, 0, 4), MCLeaf(2, 1, 2, 6)}

\* bob pays for nothing but the moves of money
BooksGenesis  == alice :> 3 @@ bob :> 12

\* Bounds of one run that tells two stories: money that bob, an expense or a mint
\* moves lets two days pass and finds no job, no second version and no bond of a
\* rejected registration.
MoneyMoved ==
  \/ wallets[bob] # Genesis[bob] \/ minted # GenesisTotal \/ surplus # 0
  \/ \E v \in Versions : capitalIn[v] + operatingSpent[v] > 0
Rejected == \E v \in Versions : ~Registered(v) /\ versionBond[v] > 0
BooksStories ==
  MoneyMoved => now <= 2 /\ authorizations = {} /\ ~Registered(v2) /\ ~Rejected

\* Bounds of a run where a challenge is the other story: two of the three leaves are
\* authorized; a challenge is announced once by the one challenger, about an epoch
\* with a full window, and ends the story when it is revealed.
SelectionStories ==
  /\ Cardinality(authorizations) <= 2
  /\ commits # {} =>
       /\ Cardinality({v \in Versions : Registered(v)}) = 2
       /\ Cardinality(commits) = 1 /\ revealed = {}
       /\ \A c \in commits : c.epoch >= 2 /\ c.challenger # v1
=============================================================================
