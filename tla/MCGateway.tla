----------------------------- MODULE MCGateway -----------------------------
(* Gateway for TLC.  No symmetry, since its run checks liveness. *)
EXTENDS Gateway, TLC
=============================================================================
