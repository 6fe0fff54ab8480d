------------------------------ MODULE MCToken -------------------------------
(***************************************************************************)
(* Small instances of the coin: a pool and one or two holders.             *)
(***************************************************************************)
EXTENDS Token, TLC

CONSTANTS pool, a1, a2, r1, r2

HolderSymmetry == Permutations(Accounts \ {commonsPool})
=============================================================================
