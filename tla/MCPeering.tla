----------------------------- MODULE MCPeering -----------------------------
(* Peering for TLC.  No symmetry, since its run checks liveness. *)
EXTENDS Peering, TLC
=============================================================================
