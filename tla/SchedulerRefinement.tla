------------------------- MODULE SchedulerRefinement -------------------------
(***************************************************************************)
(* Scheduler implements Lifecycle.  A deployment is named by its object;   *)
(* its stage is read off the table, the record's status and the goroutine  *)
(* that has started its container and has yet to publish it.               *)
(***************************************************************************)
EXTENDS Scheduler

\* The container of object o runs or has run, and its ID is in no record yet.
Unpublished(o) == \E w \in Workers : pc[w] = "started" /\ dep[w] = o

InTable(o) == \E i \in Ids : deployments[i] = o

Stage(o) ==
    CASE InTable(o) /\ heap[o].status \in {"pending", "pulling", "starting"} ->
            IF Unpublished(o) THEN "launched" ELSE "starting"
      [] InTable(o) /\ heap[o].status \in {"running", "stopping"} -> heap[o].status
      [] OTHER -> IF heap[o].status \in {"stopped", "failed"} THEN "over" ELSE "none"

\* The slots, and the calls that pass the check beside one another.
Room == maxSlots + Cardinality(Workers) - 1

Life == INSTANCE Lifecycle WITH
    Names <- Ids, Capacity <- Room,
    stage <- [o \in Ids |-> Stage(o)], up <- containers

(***************************************************************************)
(* Every step of the goroutines of Schedule and Stop is a step in the life *)
(* of one deployment or none at all: an answered deployment is launched    *)
(* once, two Stops end it once, nothing brings it back, and its record is  *)
(* gone only after its container is.                                       *)
(***************************************************************************)
ImplementsLifecycle == Life!Spec
=============================================================================
