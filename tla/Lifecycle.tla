------------------------------ MODULE Lifecycle ------------------------------
(***************************************************************************)
(* What a provider promises of its deployments, without goroutines, locks  *)
(* or records: each one is accepted while there is room, gets at most one  *)
(* container, and is over for good only when no container of it runs.      *)
(***************************************************************************)
EXTENDS Integers, FiniteSets

CONSTANTS
    Names,      \* deployments
    Capacity    \* how many may be in service at once

VARIABLES
    stage,      \* per deployment: where it is in its life
    up          \* the deployments whose container runs

InService == {d \in Names : stage[d] \notin {"none", "over"}}

Moves(d, from, to) == stage[d] = from /\ stage' = [stage EXCEPT ![d] = to]

Accept(d) ==
    Moves(d, "none", "starting") /\ Cardinality(InService) < Capacity /\ UNCHANGED up

\* The image cannot be pulled, or the container not be started.
Fail(d) == Moves(d, "starting", "over") /\ UNCHANGED up

Launch(d) == Moves(d, "starting", "launched") /\ up' = up \cup {d}

\* The client may know of it from here on.
Announce(d) == Moves(d, "launched", "running") /\ UNCHANGED up

AskToStop(d) == Moves(d, "running", "stopping") /\ UNCHANGED up

\* The container ends: it is stopped, or it ends by itself.
Ends(d) ==
    /\ d \in up /\ up' = up \ {d}
    /\ UNCHANGED stage

Finish(d) == Moves(d, "stopping", "over") /\ d \notin up /\ UNCHANGED up

Init == stage = [d \in Names |-> "none"] /\ up = {}

Next ==
    \E d \in Names :
        \/ Accept(d) \/ Fail(d) \/ Launch(d) \/ Announce(d)
        \/ AskToStop(d) \/ Ends(d) \/ Finish(d)

Spec == Init /\ [][Next]_<<stage, up>>
=============================================================================
