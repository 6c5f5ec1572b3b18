----------------------------- MODULE MCIdentity -----------------------------
(* Instances of Identity for TLC. *)
EXTENDS Identity, TLC

\* The process slots are interchangeable.
MCSymmetry == Permutations(Procs)
=============================================================================
