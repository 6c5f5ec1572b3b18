---------------------------- MODULE MCScheduler ----------------------------
(***************************************************************************)
(* Instances of Scheduler for TLC, and tests of the operators it sums      *)
(* with.                                                                   *)
(***************************************************************************)
EXTENDS SchedulerRefinement, TLC, FiniteSetsExt

\* A request docker accepts, two of which exceed the memory, and one that
\* validateConfig refuses after it was charged.
MCRequests == {[cpu |-> 1, mem |-> 2], [cpu |-> 2, mem |-> -1]}

\* The goroutines are interchangeable.
MCSymmetry == Permutations(Workers) \cup Permutations(Stoppers)

\* Total is the sum of a function's values.
ASSUME TotalIsSum ==
    \A f \in [Ids -> Limits] :
        Total(f) = MapThenSumSet(LAMBDA i : f[i], Ids)
=============================================================================
