----------------------------- MODULE MCProvider -----------------------------
(***************************************************************************)
(* Instances of Provider for TLC.                                          *)
(***************************************************************************)
EXTENDS Provider

\* A request docker accepts.
MCOneRequest == {[cpu |-> 1, mem |-> 1]}
=============================================================================
