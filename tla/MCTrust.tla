------------------------------ MODULE MCTrust ------------------------------
(* Instances of Trust for TLC. *)
EXTENDS Trust, TLC

\* Peers are interchangeable, and so are the peerctl slots.
MCSymmetry == Permutations(Peers) \cup Permutations(Ctls)
=============================================================================
