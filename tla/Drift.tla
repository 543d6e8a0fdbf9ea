--------------------------------- MODULE Drift ---------------------------------
(***************************************************************************)
(* How far one pass moves the weights towards a target (drift.ts).  The    *)
(* rate is in percent, as in the configuration.  Only the proportions of a *)
(* target matter, so its unit does not: it may be a point of the grid, the *)
(* configured weights or shares of any total.                              *)
(***************************************************************************)
EXTENDS AllocationConstraints

Distance(x, y) == IF x > y THEN x - y ELSE y - x

\* Faulty variant of DrippedWeights: the percentage is inverted, so that a rate
\* of 50 moves twice the gap.
DrippedTooFar(current, target, rate) ==
  LET whole == TotalWeight(current)
      goal == TotalWeight(target)
  IN  NormalizeWeightsToTotal(
        [r \in DOMAIN target |->
           rate * goal * current[r] + 100 * (target[r] * whole - current[r] * goal)],
        whole)

\* computeDrippedWeights on the scaled target: rate percent of the way, rounded
\* to whole weights with the current total.
DrippedWeights(current, target, rate) ==
  LET whole == TotalWeight(current)
      goal == TotalWeight(target)
  IN  NormalizeWeightsToTotal(
        [r \in DOMAIN target |->
           100 * goal * current[r] + rate * (target[r] * whole - current[r] * goal)],
        whole)

\* The stay-put gate: some gap to the scaled target exceeds half a weight at the
\* drift rate, and the noise floor of the target, one fineth of the total (0 for
\* a target without a noise floor).
WorthDrifting(current, target, rate, fine) ==
  LET whole == TotalWeight(current)
      goal == TotalWeight(target)
  IN  /\ 50 <= rate * whole
      /\ \E r \in DOMAIN target :
           LET gap == Distance(target[r] * whole, current[r] * goal)
           IN  /\ gap * rate > 50 * goal
               /\ fine > 0 => gap * fine > whole * goal

\* applyDrift: the weights one step on, and none when the vault stays put.
Drifted(current, target, rate, fine) ==
  IF TotalWeight(current) > 0 /\ TotalWeight(target) > 0
       /\ WorthDrifting(current, target, rate, fine)
    THEN {DrippedWeights(current, target, rate)} ELSE {}

\* The bisection of applyHoldingsDrift, down to the unit in which the fractions
\* of a step are counted: a safe fraction below `high`, or 0.
LargestSafe(high, safe) ==
  LET search[range \in (0..high) \X (0..high)] ==
        LET low == range[1]
            above == range[2]
            middle == (low + above) \div 2
        IN  IF above - low <= 1 THEN low
            ELSE IF middle \in safe THEN search[<<middle, above>>]
            ELSE search[<<low, middle>>]
  IN  search[<<0, high>>]
=============================================================================
