------------------------------ MODULE MCLimits ------------------------------
(***************************************************************************)
(* An instance of Limits for TLC: six bits, and flags on both sides of     *)
(* every bound.                                                            *)
(***************************************************************************)
EXTENDS Limits, FiniteSetsExt, TLC

\* Refused, zero millicores, some, the whole budget, more than the budget,
\* beyond the maximum, and NaN.
MCCPUFlags == {-2, 1, 9, 19, 22, 23, 62, NaN}

\* Refused, negative, below the floor, half the budget, all of it, a product
\* just below the largest integer, and products that overflow.
MCMemFlags ==
    [value : {-1, 1, 4, 7}, unit : {"K", "M"}]
      \cup {[value |-> 1, unit |-> "T"], [value |-> 15, unit |-> "K"],
            [value |-> 4, unit |-> "G"]}

MCSymmetry == Permutations(Calls)

\* Wrap is the two's complement of W bits: the one integer of that width that
\* is congruent to its argument.
ASSUME WrapIsTwosComplement ==
    \A x \in (4 * MinInt)..(4 * MaxInt) :
        Wrap(x) \in Int64 /\ \E k \in -4..4 : x - Wrap(x) = k * 2^W

\* Total is the sum.
ASSUME TotalIsSum ==
    \A f \in [Calls -> {MinInt, -1, 0, 2, MaxInt}] :
        Total(f) = MapThenSumSet(LAMBDA c : f[c], Calls)
=============================================================================
