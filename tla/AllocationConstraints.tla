-------------------------- MODULE AllocationConstraints --------------------------
(***************************************************************************)
(* The weight arithmetic of the rebalance (utils/allocationConstraints.ts  *)
(* and, in strategies/common.ts, getAllocationWeightTotal).                *)
(*                                                                         *)
(* A reserve is its position in the vault, so that < is the vault order.   *)
(* The code computes with Decimals.  A vector of fractional weights is a   *)
(* function of integers together with their common denominator, `den`; the *)
(* comparisons are cross-multiplied.  Tokens are counted in any unit, as   *)
(* long as every amount in one call uses the same one.                     *)
(***************************************************************************)
EXTENDS Integers, FiniteSets, Functions

TotalWeight(w) == SumFunction(w)

AtLeastZero(x) == IF x > 0 THEN x ELSE 0
Smaller(x, y) == IF x < y THEN x ELSE y
Clamp(low, high, x) == IF x < low THEN low ELSE Smaller(x, high)
CeilDiv(x, y) == -((-x) \div y)

-----------------------------------------------------------------------------
(* Rounding                                                                *)

\* Fractions w[r]/by that add up to `total` are rounded down, and the units that
\* are left go to the largest rests, the first reserve first among equals.
RoundToTotal(w, by, total) ==
  LET whole == [r \in DOMAIN w |-> w[r] \div by]
      rest == [r \in DOMAIN w |-> w[r] % by]
      Before(p, r) == rest[p] > rest[r] \/ (rest[p] = rest[r] /\ p < r)
      ahead(r) == Cardinality({p \in DOMAIN w : Before(p, r)})
      remainder == total - TotalWeight(whole)
  IN  [r \in DOMAIN w |-> whole[r] + IF ahead(r) < remainder THEN 1 ELSE 0]

\* Integer weights that add up to `total`, in the proportions of w.  All-zero
\* weights are split equally.
NormalizeWeightsToTotal(w, total) ==
  LET sum == TotalWeight(w)
  IN  RoundToTotal([r \in DOMAIN w |-> IF sum = 0 THEN total ELSE w[r] * total],
                   IF sum = 0 THEN Cardinality(DOMAIN w) ELSE sum, total)

\* Faulty variant of WeightRaise: a reserve in cooldown does not hold it up.
RaiseAnyway(weight, preserved, unallocated, minTotal) ==
  LET all == TotalWeight(weight)
  IN  IF unallocated = 0 /\ all > 0 /\ all < minTotal
        THEN CeilDiv(minTotal, all) ELSE 1

\* The whole factor that the on-chain weights are raised by.
WeightRaise(weight, preserved, unallocated, minTotal) ==
  LET all == TotalWeight(weight)
      rebalanced == SumFunctionOnSet(weight, DOMAIN weight \ preserved)
  IN  IF unallocated = 0 /\ rebalanced = all /\ all > 0 /\ all < minTotal
        THEN CeilDiv(minTotal, all) ELSE 1

-----------------------------------------------------------------------------
(* Capacity of a reserve                                                   *)
(*                                                                         *)
(* c.held       tokens of the vault in the reserve                         *)
(* c.room       tokens until the deposit limit, negative when it is passed *)
(* c.liquidity  free liquidity of the reserve                              *)
(* c.capLeft    what the withdrawal cap of the interval has left           *)

Depositable(c) == AtLeastZero(c.room)
Withdrawable(c) == Smaller(c.liquidity, AtLeastZero(c.capLeft))

\* getTargetTokenConstraintType, with the target in units of 1/den tokens.
FitsCapacity(c, target, den) ==
  /\ target <= den * (c.held + Depositable(c))
  /\ target >= den * (c.held - Withdrawable(c))

\* Faulty variant of DepositCeiling: rounded up.
CeilingRoundedUp(c, aum, total) ==
  CeilDiv((100 * c.held + 100 * Depositable(c)) * total, 100 * aum)

\* The largest weight the deposit limit lets in, 2% of the room kept back.
DepositCeiling(c, aum, total) ==
  ((100 * c.held + 98 * Depositable(c)) * total) \div (100 * aum)

\* The smallest weight the liquidity lets the vault come down to.
WithdrawalFloor(c, aum, total) ==
  CeilDiv((100 * c.held - 98 * Withdrawable(c)) * total, 100 * aum)

\* The weight t/den asks for more tokens than the reserve takes in.
DepositHit(t, den, c, aum, total) ==
  t * aum > (c.held + Depositable(c)) * total * den

\* The weight t/den takes out more tokens than the reserve gives.
WithdrawalHit(t, den, c, aum, total) ==
  t * aum < (c.held - Withdrawable(c)) * total * den

\* applyReserveConstraints: the weight in units of 1/den, adjusted when one of
\* the limits is hit, deposits first.
ApplyReserveConstraints(t, den, c, aum, total) ==
  IF aum <= 0 \/ total <= 0 THEN t
  ELSE IF DepositHit(t, den, c, aum, total)
    THEN den * DepositCeiling(c, aum, total)
  ELSE IF WithdrawalHit(t, den, c, aum, total)
    THEN den * WithdrawalFloor(c, aum, total)
  ELSE t

\* The safe interval of integer weights: what the empty and the full weight are
\* adjusted to.  Without tokens to allocate the reserve keeps its weight.
LeastWeight(current, c, aum, total) ==
  IF aum <= 0 \/ total <= 0 THEN current
  ELSE AtLeastZero(ApplyReserveConstraints(0, 1, c, aum, total))

MostWeight(current, c, aum, total) ==
  IF aum <= 0 \/ total <= 0 THEN current
  ELSE IF DepositHit(total, 1, c, aum, total)
    THEN Smaller(DepositCeiling(c, aum, total), total)
  ELSE total

-----------------------------------------------------------------------------
(* Redistribution within bounds                                            *)

\* One round: `amount` is shared out, by their weights, among the reserves that
\* have something left to their bound, and each takes at most that.
Shared(w, amount, left) ==
  LET open == {r \in DOMAIN w : left[r] > 0}
      shares == [r \in open |-> IF \A o \in open : w[o] = 0 THEN 1 ELSE w[r]]
      asked == NormalizeWeightsToTotal(shares, amount)
  IN  [r \in DOMAIN w |-> IF r \in open THEN Smaller(asked[r], left[r]) ELSE 0]

\* applyIntegerWeightDifference, round after round: until the total is met or
\* every reserve is at its bound.
ApplyIntegerWeightDifference(start, total, bounds) ==
  LET apply[w \in [DOMAIN start -> Nat]] ==
        LET missing == total - TotalWeight(w)
            sign == IF missing > 0 THEN 1 ELSE -1
            left == [r \in DOMAIN w |-> IF missing > 0 THEN bounds.most[r] - w[r]
                                                       ELSE w[r] - bounds.least[r]]
            step == Shared(w, sign * missing, left)
        IN  IF missing = 0 \/ TotalWeight(step) = 0 THEN w
            ELSE apply[[r \in DOMAIN w |-> w[r] + sign * step[r]]]
  IN  apply[start]

\* and its last check: whole weights, within the bounds, that meet the total.
MeetsTotal(w, total, bounds) ==
  /\ w \in [DOMAIN bounds.least -> Nat]
  /\ \A r \in DOMAIN w : w[r] \in bounds.least[r]..bounds.most[r]
  /\ TotalWeight(w) = total

\* redistributeWeightDifferenceWithinBounds.  w is in units of 1/den; the
\* result is in whole weights, and no weights when the total is out of reach.
Redistribute(w, den, total, bounds) ==
  LET sound == \A r \in DOMAIN w : bounds.least[r] \in 0..bounds.most[r]
      bounded == [r \in DOMAIN w |->
                    Clamp(den * bounds.least[r], den * bounds.most[r], w[r])]
      normal == NormalizeWeightsToTotal(bounded, total)
      start == [r \in DOMAIN w |-> Clamp(bounds.least[r], bounds.most[r], normal[r])]
  IN  IF sound /\ TotalWeight(bounds.least) <= total /\ total <= TotalWeight(bounds.most)
        THEN {final \in {ApplyIntegerWeightDifference(start, total, bounds)} :
                MeetsTotal(final, total, bounds)}
        ELSE {}
=============================================================================
