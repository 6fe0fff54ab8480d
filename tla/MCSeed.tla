------------------------------- MODULE MCSeed -------------------------------
(***************************************************************************)
(* An old release, a new one that lost the entry point, one with a member  *)
(* that is refused, and bytes that nobody pinned.                          *)
(***************************************************************************)
EXTENDS Seed, TLC

CONSTANTS old, new, unsafe, garbage, runtime, policy

MCFiles == old :> {runtime, policy} @@ new :> {policy}
             @@ unsafe :> {runtime} @@ garbage :> {runtime}
=============================================================================
