----------------------------- MODULE MCRanking ------------------------------
(***************************************************************************)
(* One or two runtimes write the ledger while it is ranked.                *)
(***************************************************************************)
EXTENDS Ranking, TLC

CONSTANTS v1, v2

\* Versions are interchangeable.
VersionSymmetry == Permutations(Versions)
=============================================================================
