----------------------------- MODULE MCRuntime ------------------------------
(***************************************************************************)
(* Small instances of the runtime: one or two versions on one ledger file. *)
(***************************************************************************)
EXTENDS RuntimeProperties, TLC

CONSTANTS v1, v2
=============================================================================
