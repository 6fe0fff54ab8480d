------------------------------- MODULE MCEoh --------------------------------
(***************************************************************************)
(* Small instances of the arena contract: one lineage founded by v1, whose *)
(* versions alice operates; bob is the customer and the donor.             *)
(***************************************************************************)
EXTENDS EohProperties, TLC

CONSTANTS v1, v2, v3, l1, alice, bob, p1, p2, p3, s1

MCLineageOf  == [v \in Versions |-> l1]
MCParentOf   == [v \in Versions |-> IF v = v1 THEN Zero ELSE v1]
MCOperatorOf == [v \in Versions |-> alice]

MCLeaf(spec, reward, deadline) == [spec |-> spec, reward |-> reward, deadline |-> deadline]
Order(reward, deadline) == [reward |-> reward, deadline |-> deadline]

BobHolds(n) == [a \in Accounts |-> IF a = bob THEN n ELSE 0]
Bob4 == BobHolds(4)

OneOrder  == {Order(1, 2)}

LongLeaf  == MCLeaf(2, 2, 4)
TwoLeaves == {MCLeaf(1, 2, 3), LongLeaf}

\* Bounds of one run that tells three stories: a commit or the second leaf finds
\* nobody who opened a market job, gave, donated, spent or had a cost; a gift
\* finds jobs of one kind at most; an expense finds no gift and not both kinds.
\* A surplus beyond what was spent is a gift, the rest may have been paid by a version.
Settled == Rewards(RankedWhere(LAMBDA job : job.status = "settled"))
Revealing == LongLeaf \in jobAuthorizationUsed \/ supersedeCommits # <<>>
BothKinds == rankedJobs # <<>> /\ marketJobs # <<>>
Paid == SumFunction(operatingSpent) + VerifiedCosts(DOMAIN rankedJobs)
Gifted == Surplus > Paid
Stories ==
  /\ Revealing =>
       /\ marketJobs = <<>> /\ Surplus = 0 /\ pool.vaults = Settled
       /\ Cardinality(DOMAIN supersedeCommits) <= 1
       /\ \A v \in Versions, e \in Epochs : economy[v][e].cost = 0
  /\ ~(Gifted /\ BothKinds)
  /\ Gifted \/ BothKinds => \A v \in Versions : operatingSpent[v] = 0

ProofSymmetry == Permutations(Proofs)
=============================================================================
