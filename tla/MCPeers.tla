------------------------------ MODULE MCPeers -------------------------------
(***************************************************************************)
(* Small instances of a node's view of its peers.                          *)
(***************************************************************************)
EXTENDS Peers, TLC

CONSTANTS v1, v2
=============================================================================
