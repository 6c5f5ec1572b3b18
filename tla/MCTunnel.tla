------------------------------ MODULE MCTunnel ------------------------------
(***************************************************************************)
(* Instances of Tunnel for TLC.                                            *)
(***************************************************************************)
EXTENDS Tunnel, TLC

\* Requests and deployments are interchangeable (safety runs only).
MCSymmetry == Permutations(Reqs) \cup Permutations(Deps)
=============================================================================
