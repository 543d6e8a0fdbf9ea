------------------------------ MODULE StrategyPass ------------------------------
(***************************************************************************)
(* The rebalance of one vault: computeStrategyAllocation (rebalanceTypes.ts)*)
(* with its strategies, drift and instruction builders, then the update of *)
(* the weights and the invest (sendVaultRebalance).                        *)
(*                                                                         *)
(* A pass works on one snapshot of the vault and its reserves, so that     *)
(* nothing else moves until it has invested; between passes the reserves,  *)
(* the blacklist and the cooldowns change.  The vault's assets are fixed.  *)
(* Token amounts are fractions over the sum of the weights: they are       *)
(* compared, never rounded.                                                *)
(*                                                                         *)
(* The SDK (external) projects weights into tokens in proportion; token    *)
(* caps of reserves (see DepositFreeze) and the cap on idle tokens are left *)
(* out.  It also simulates the yield of a reserve, which falls with the    *)
(* tokens the vault puts in, and its utilization, whose cap is a bound on  *)
(* the tokens that move.                                                   *)
(***************************************************************************)
EXTENDS AllocationConstraints, Drift, GridSearch

CONSTANTS
  Assets,         \* the vault's tokens
  MinTotal,       \* MIN_ALLOCATION_WEIGHT_TOTAL
  EqualWeight,    \* DEFAULT_ALLOCATION_WEIGHT
  RandomWeights,  \* weights RANDOM draws from
  DefaultRate,    \* DEFAULT_DRIPPING_RATE_PERCENT
  Parts,          \* bound: fractions of a drift step the bisection tells apart
  Plans,          \* configurations: see strategy below
  Starts,         \* weights, unallocated weight and holdings to start from
  Markets,        \* states of the reserves
  MaxEvents       \* bound: changes from outside the loop

ASSUME StrategyAssumption ==
  /\ {Assets, MinTotal, EqualWeight, Parts} \subseteq Nat \ {0}
  /\ RandomWeights \subseteq Nat \ {0}
  /\ DefaultRate \in 1..100 /\ MaxEvents \in Nat
  /\ \A s \in Starts : /\ s.weight \in [Reserves -> Nat] /\ s.unallocated \in Nat
                       /\ s.held \in [Reserves -> Nat] /\ TotalWeight(s.held) <= Assets
  /\ \A p \in Plans : /\ p.rate \in 0..100 /\ p.floors \subseteq Reserves
                      /\ \A r \in DOMAIN p.fixed : p.fixed[r] \in Nat
  /\ \A m \in Markets : /\ {m.limit, m.lent, m.capLeft, m.step} \subseteq [Reserves -> Nat]
                        /\ m.rate \in [Reserves -> Nat] /\ m.silent \subseteq Reserves

VARIABLES
  plan,         \* the vault's entry in the allocation config
  unallocated,  \* unallocatedWeight of the vault
  weight,       \* targetAllocationWeight of each reserve, on chain
  held,         \* tokens the vault holds in each reserve; the rest is idle
  market,       \* limit, lent, capLeft, step and rate of each reserve; silent ones
  black,        \* blacklisted reserves
  cool,         \* reserves in reinvest cooldown
  pc,           \* "wait", "send" or "invest"
  update,       \* the weights once the update lands
  ran,          \* the strategy did not fail
  allowed,      \* investAllowed
  events

vars == <<plan, unallocated, weight, held, market, black, cool, pc, update, ran,
          allowed, events>>

-----------------------------------------------------------------------------
(* The vault as the strategies see it                                      *)

\* buildRebalanceUniverse: the blacklist comes before the cooldown.
Preserved == cool \ black
Healthy == Reserves \ (black \cup cool)

\* getAllocationWeightTotal
Raise == WeightRaise(weight, Preserved, unallocated, MinTotal)
Total == Raise * SumFunctionOnSet(weight, Reserves \ Preserved)

OnChain == [r \in Healthy |-> weight[r]]
Current == LET raise == Raise IN [r \in Healthy |-> raise * weight[r]]

\* The weight of r, in units of 1/den, once w is written for the healthy reserves.
Written(w, den, r) ==
  IF r \in Healthy THEN w[r] ELSE IF r \in black THEN 0 ELSE den * weight[r]

Allocated(w, den) == TotalWeight([r \in Reserves |-> Written(w, den, r)])

\* computeVaultTargetAllocation: the tokens of r are TargetTokens over Scale.
Scale(w, den) ==
  LET whole == Allocated(w, den) + den * unallocated IN IF whole = 0 THEN 1 ELSE whole

TargetTokens(w, den, r) == Assets * Written(w, den, r)
TargetIdle(w, den) == Assets * (Scale(w, den) - Allocated(w, den))

\* buildReserveConstraintsBase, in 1/unit tokens.
Capacity(r, unit) ==
  [held |-> unit * held[r],
   room |-> unit * (market.limit[r] - held[r]),
   liquidity |-> unit * AtLeastZero(held[r] - market.lent[r]),
   capLeft |-> unit * market.capLeft[r]]

\* isUtilizationChangeAllowed on a target of target/den tokens.
ChangeAllowed(r, target, den) == Distance(target, den * held[r]) <= den * market.step[r]

\* getMaxYieldDrippingAllocationFilter
Capped == plan.strategy = "MAX_YIELD_DRIPPING" /\ plan.cap
FilterAllows(w, den) ==
  Capped => LET scale == Scale(w, den)
            IN  \A r \in Healthy :
                  /\ FitsCapacity(Capacity(r, 1), TargetTokens(w, den, r), scale)
                  /\ ChangeAllowed(r, TargetTokens(w, den, r), scale)

-----------------------------------------------------------------------------
(* Strategies                                                              *)

\* The behaviours registered with each strategy.
Searching == {"MAX_YIELD", "MAX_YIELD_WITH_FIXED_RESERVES", "MAX_YIELD_STABLE",
              "MAX_YIELD_DRIPPING"}
PreservedAccounting == plan.strategy \in Searching \cup {"UNCHANGED"}
FixedReserveFloors ==
  plan.strategy \in {"MAX_YIELD_WITH_FIXED_RESERVES", "MAX_YIELD_STABLE"}

\* resolveDriftRatePercent: 0 is no drift.
DriftRate ==
  CASE plan.strategy = "UNCHANGED" -> 0
    [] plan.strategy = "MAX_YIELD_DRIPPING" /\ plan.rate = 0 -> DefaultRate
    [] OTHER -> plan.rate

\* A candidate of the search, on the vault's weight total.
Candidate(point) == LET total == Total IN [r \in DOMAIN point |-> point[r] * total]

\* simulateReserveYield: the yield of the tokens, in units of 1/Scale.
\* simulateVaultYield and computeStabilizationFactor; more is better.
Objective(w) ==
  LET scale == Scale(w, Grid)
      tokens(r) == TargetTokens(w, Grid, r)
      yield(r) == market.rate[r] * scale - tokens(r)
      gap(p, q) == yield(p) - yield(q)
  IN  IF plan.strategy = "MAX_YIELD_STABLE"
        THEN -SumFunction([q \in {q \in Healthy \X Healthy : q[1] < q[2]} |->
                             gap(q[1], q[2]) * gap(q[1], q[2])])
        ELSE SumFunction([r \in Healthy |-> tokens(r) * yield(r)])

\* evaluateAllocation: the filter, the floor and the simulation let it through.
Evaluates(point) ==
  /\ FilterAllows(Candidate(point), Grid)
  /\ FixedReserveFloors /\ plan.floors \cap Healthy # {} =>
       100 * SumFunctionOnSet(point, plan.floors \cap Healthy) >= plan.floor * Grid
  /\ \A r \in market.silent \cap Healthy : point[r] = 0

Scored ==
  {[point |-> p, score |-> Objective(Candidate(p))] : p \in {p \in Points[Healthy] : Evaluates(p)}}

\* The target of the pass over its denominator, and none for 'unchanged'.  A
\* search out of time ends like one out of candidates.
Target(w, den) == [weights |-> w, den |-> den]
Targets ==
  CASE plan.strategy \in Searching ->
         {{}} \cup {{Target(Candidate(p), Grid) : p \in Search(Healthy, Scored)}}
    [] plan.strategy = "EQUAL" -> {{Target([r \in Healthy |-> EqualWeight], 1)}}
    [] plan.strategy = "RANDOM" -> {{Target(w, 1)} : w \in [Healthy -> RandomWeights]}
    [] plan.strategy = "FIXED_WEIGHTS" /\ Healthy \subseteq DOMAIN plan.fixed ->
         {{Target([r \in Healthy |-> plan.fixed[r]], 1)}}
    [] OTHER -> {{}}

-----------------------------------------------------------------------------
(* Holdings drift                                                          *)

\* The largest gap of the holdings to the target is within the gate.
HoldingsNearby(target, rate) ==
  LET whole == TotalWeight(Current)
      goal == TotalWeight(target)
      unit == goal * Scale(Current, 1)
      gap(r) == Distance(Assets * target[r] * whole, held[r] * unit)
  IN  \A r \in Healthy : \/ gap(r) * Grid <= Assets * unit
                         \/ gap(r) * rate * whole <= 50 * Assets * unit

\* computeWeightsForTokenTargets has weights for the tokens `part`/Parts of a
\* step ahead of the holdings: a change of the idle tokens has none.
Invertible(part, rate) ==
  \/ part * rate = 100 * Parts
  \/ SumFunctionOnSet(held, Healthy) * Scale(Current, 1) = Assets * TotalWeight(Current)

\* Those weights, as proportions.
Ahead(target, part, rate) ==
  LET whole == TotalWeight(Current)
      goal == TotalWeight(target)
      scale == Scale(Current, 1)
  IN  [r \in Healthy |->
         (100 * Parts - part * rate) * held[r] * scale * goal
           + part * rate * target[r] * whole * Assets]

\* The longest step, if any, that the bisections find: `inside` has the steps the
\* filter allows, `found` those it still allows once they are rounded.
LongestStep(inside, found) ==
  LET most == IF Parts \in inside THEN Parts ELSE LargestSafe(Parts, inside)
      part == IF Parts \in found THEN Parts
              ELSE IF most \in found THEN most ELSE LargestSafe(most, found)
  IN  IF Parts \in found \/ 0 \in inside THEN {part} \cap found ELSE {}

\* applyHoldingsDrift: the weights one step on, and none when it stays put.
HoldingsDrifted(target, rate) ==
  LET whole == TotalWeight(Current)
      den == 100 * Parts * TotalWeight(target) * Assets
      rounded(part) == NormalizeWeightsToTotal(Ahead(target, part, rate), whole)
      known == {p \in 0..Parts : Invertible(p, rate)}
  IN  IF \/ whole = 0 \/ TotalWeight(target) = 0
         \/ HoldingsNearby(target, rate) /\ FilterAllows(OnChain, 1)
        THEN {}
        ELSE {rounded(part) : part \in
                LongestStep({p \in known : FilterAllows(Ahead(target, p, rate), den)},
                            {p \in known : FilterAllows(rounded(p), 1)})}

-----------------------------------------------------------------------------
(* Instruction builders                                                    *)

\* getAbsoluteWeights
AbsoluteWeights(w) ==
  IF Total > 0 /\ TotalWeight(w) > 0 THEN NormalizeWeightsToTotal(w, Total) ELSE w

\* Every healthy reserve within its bounds, for aum tokens in units of 1/unit.
Adjusted(w, den, total, unit, aum) ==
  LET capacity(r) == Capacity(r, unit)
      bounds ==
        [least |-> [r \in Healthy |-> LeastWeight(Current[r], capacity(r), aum, total)],
         most |-> [r \in Healthy |-> MostWeight(Current[r], capacity(r), aum, total)]]
      adjusted == [r \in Healthy |->
                     ApplyReserveConstraints(w[r], den, capacity(r), aum, total)]
  IN  Redistribute(adjusted, den, total, bounds)

\* The constraint pass of buildAllocationRebalanceInstructions: the adjusted
\* weights on the vault's total, and none when that total is out of reach.
Constrained(w, den) ==
  LET total == Total
      reference == NormalizeWeightsToTotal(w, total)
      unit == Scale(reference, 1)
      active == AtLeastZero(Assets - SumFunctionOnSet(held, Preserved))
  IN  Adjusted(w, den, total, unit, AtLeastZero(unit * active - TargetIdle(reference, 1)))

\* Faulty variant of FitsVault: the bounds are taken for the last word.
FitsVaultUnchecked(w) == TRUE

\* The canonical target of the written weights is in reach of every reserve.
FitsVault(w) ==
  LET scale == Scale(w, 1)
  IN  \A r \in Healthy : FitsCapacity(Capacity(r, 1), TargetTokens(w, 1, r), scale)

\* The weights the builder writes, and none when it stays put.  Without a weight
\* total every candidate is zero.
Built(w, den) ==
  IF Total = 0 THEN {[r \in Healthy |-> 0]}
               ELSE {b \in Constrained(w, den) : FitsVault(b)}

\* Faulty variant of Keep: staying put does not ask the filter.
KeepUnchecked == [written |-> {}, allowed |-> TRUE]

\* The vault stays put: the weights it keeps have to pass the filter as well.
Keep == [written |-> {}, allowed |-> FilterAllows(OnChain, 1)]

\* What was built is written if the filter lets it through.
Checked(built) ==
  IF built = {} THEN Keep
  ELSE IF \A b \in built : FilterAllows(b, 1) THEN [written |-> built, allowed |-> TRUE]
  ELSE [written |-> {}, allowed |-> FALSE]

\* The weights that are written for a target or for one step towards it.
Write(w, den) ==
  Checked(IF PreservedAccounting THEN Built(w, den) ELSE {AbsoluteWeights(w)})

\* The target of this pass is the strategy's own, or one step of the drift.
WriteSteps(steps) ==
  IF steps = {} THEN Keep ELSE LET t == CHOOSE t \in steps : TRUE IN Write(t.weights, t.den)

\* Where the drift goes in this pass, if it moves.
Steps(t) ==
  LET fine == IF plan.strategy = "MAX_YIELD_DRIPPING" THEN Grid ELSE 0
  IN  IF DriftRate = 0 THEN {t}
      ELSE {Target(w, 1) : w \in
              IF Capped THEN HoldingsDrifted(t.weights, DriftRate) \ {OnChain}
              ELSE Drifted(Current, t.weights, DriftRate, fine)}

\* computeStrategyAllocation
Decision(target) == WriteSteps(UNION {Steps(t) : t \in target})

-----------------------------------------------------------------------------
(* One pass                                                                *)

Init ==
  /\ plan \in Plans
  /\ market \in Markets
  /\ \E s \in Starts :
       weight = s.weight /\ held = s.held /\ unallocated = s.unallocated
  /\ black = {} /\ cool = {}
  /\ pc = "wait" /\ update = weight /\ ran = FALSE /\ allowed = FALSE
  /\ events = 0

\* Forced zeros and strategy updates go out in one transaction.
Emit(written) ==
  update' = [r \in Reserves |->
               IF r \in black THEN 0
               ELSE IF r \in Healthy /\ written # {} THEN (CHOOSE w \in written : TRUE)[r]
               ELSE weight[r]]

Leave(next, strategyRan, investAllowed) ==
  /\ pc' = next /\ ran' = strategyRan /\ allowed' = investAllowed
  /\ UNCHANGED <<plan, unallocated, market, black, cool>>

\* The strategy decides, or rejects the limits of its final allocation.
Pass ==
  /\ pc = "wait"
  /\ \E decision \in {Decision(target) : target \in Targets} :
       /\ Emit(decision.written)
       /\ Leave("send", decision.allowed, decision.allowed)
  /\ UNCHANGED <<weight, held, events>>

\* The strategy throws, before or after it checked the weights the vault keeps:
\* only the forced zeros are sent, if they can be built.
PassFails ==
  /\ pc = "wait"
  /\ Emit({}) \/ update' = weight
  /\ \E investAllowed \in {TRUE, FilterAllows(OnChain, 1)} :
       Leave("send", FALSE, investAllowed)
  /\ UNCHANGED <<weight, held, events>>

\* The update is confirmed, or none is needed.
UpdateLands ==
  /\ pc = "send"
  /\ weight' = update
  /\ IF allowed THEN Leave("invest", ran, TRUE) ELSE Leave("wait", FALSE, FALSE)
  /\ UNCHANGED <<held, update, events>>

\* The update is too large, or not confirmed.
UpdateFails ==
  /\ pc = "send"
  /\ events < MaxEvents /\ events' = events + 1
  /\ update' = weight
  /\ Leave("wait", FALSE, FALSE)
  /\ UNCHANGED <<weight, held>>

\* Whole tokens towards the target, within what the reserve takes and gives.
Reached(r) ==
  LET goal == TargetTokens(OnChain, 1, r) \div Scale(OnChain, 1)
      c == Capacity(r, 1)
  IN  Clamp(held[r] - Withdrawable(c), held[r] + Depositable(c), goal)

\* Reserves the invest moves: no deposit goes into an excluded one.
Movable == {r \in Reserves : r \in Healthy \/ Reached(r) < held[r]}

\* The invest stops on a blacklisted reserve with weight, and on the cap.
MayInvest ==
  /\ \A r \in black : weight[r] = 0
  /\ Capped => \A r \in Movable :
                 ChangeAllowed(r, TargetTokens(OnChain, 1, r), Scale(OnChain, 1))

\* investVaultReserves: some of the reserves' instructions land.
Invest ==
  /\ pc = "invest"
  /\ \E moved \in SUBSET Movable :
       /\ moved # {} => MayInvest
       /\ held' = [r \in Reserves |-> IF r \in moved THEN Reached(r) ELSE held[r]]
       /\ TotalWeight(held') <= Assets
  /\ Leave("wait", FALSE, FALSE)
  /\ UNCHANGED <<weight, update, events>>

-----------------------------------------------------------------------------
(* Between passes                                                          *)

Event ==
  /\ pc = "wait" /\ events < MaxEvents /\ events' = events + 1
  /\ UNCHANGED <<plan, unallocated, held, pc, ran, allowed>>

MarketMoves ==
  /\ Event
  /\ market' \in Markets \ {market}
  /\ UNCHANGED <<weight, update, black, cool>>

\* The danger pass blacklists r; its weight update may fail.
Blacklist(r) ==
  /\ Event
  /\ r \notin black /\ black' = black \cup {r}
  /\ weight' \in {weight, [weight EXCEPT ![r] = 0]}
  /\ update' = weight'
  /\ UNCHANGED <<market, cool>>

Readmit(r) ==
  /\ Event
  /\ r \in black /\ black' = black \ {r}
  /\ UNCHANGED <<weight, update, market, cool>>

Cool(r) ==
  /\ Event
  /\ r \notin cool /\ cool' = cool \cup {r}
  /\ UNCHANGED <<weight, update, market, black>>

CoolEnds(r) ==
  /\ Event
  /\ r \in cool /\ cool' = cool \ {r}
  /\ UNCHANGED <<weight, update, market, black>>

Outside ==
  \/ MarketMoves
  \/ \E r \in Reserves : Blacklist(r) \/ Readmit(r) \/ Cool(r) \/ CoolEnds(r)

Loop == PassFails \/ Pass \/ UpdateLands \/ UpdateFails \/ Invest

Next == Loop \/ Outside

\* The loop runs until shutdown.
Spec == Init /\ [][Next]_vars /\ WF_vars(Loop)

-----------------------------------------------------------------------------
(* Properties                                                              *)

\* Every variable has its type, and between passes no update is pending.
TypeOK ==
  /\ plan \in Plans /\ market \in Markets
  /\ unallocated \in Nat
  /\ {weight, held, update} \subseteq [Reserves -> Nat]
  /\ {black, cool} \subseteq SUBSET Reserves
  /\ pc \in {"wait", "send", "invest"}
  /\ pc = "wait" => update = weight
  /\ {ran, allowed} \subseteq BOOLEAN
  /\ events \in 0..MaxEvents

\* After a strategy ran, the invest starts only on weights that keep every
\* healthy reserve within its utilization cap and its capacity, whether they
\* are new, unchanged, or the old ones of a vault that stays put
\* (rebalanceAllocation, resolveInvestAllowed).
InvestWithinCap == pc = "invest" /\ ran => FilterAllows(OnChain, 1)

\* The two token projections of the instruction builder agree: weights that the
\* constraint pass pulls within the bounds of every reserve (2% kept back) are
\* never thrown away by the canonical check, when nothing is in cooldown.
BoundsAgree ==
  pc = "wait" /\ PreservedAccounting /\ Preserved = {} /\ Total > 0 =>
    \A target \in Targets : \A t \in target : \A w \in Constrained(t.weights, t.den) :
      FitsVault(w)

\* The three phases of the search skip most points, yet never return one that is
\* worse than a point of the coarse grid that can be evaluated.
SearchSound ==
  pc = "wait" /\ plan.strategy \in Searching =>
    \A p \in Search(Healthy, Scored) : \A c \in Scored :
      c.point \in AllocationPoints(Healthy, CoarseStep) => Objective(Candidate(p)) >= c.score

\* The strategy has new weights for healthy reserves.
StrategyWrites == pc = "wait" /\ ran' /\ \E r \in Healthy : update'[r] # weight[r]

\* Whatever the target, the rounding and the redistribution, the weights that an
\* aggressive strategy writes ask of no reserve more tokens than it takes in or
\* gives back (buildAllocationRebalanceInstructions).
WithinCapacity ==
  [][StrategyWrites /\ PreservedAccounting =>
       \A r \in Healthy :
         FitsCapacity(Capacity(r, 1), Assets * update'[r],
                      TotalWeight(update') + unallocated)]_vars

\* New weights leave the unallocated share of the vault, and that of every
\* reserve in cooldown, as they were: the total is kept, and it is raised only
\* when there is no such share to dilute (getAllocationWeightTotal).  Configured
\* weights that are all zero are written as they are.
SharesKept ==
  [][StrategyWrites /\ Total > 0 /\ (\E r \in Healthy : update'[r] > 0) =>
       LET before == TotalWeight(weight) + unallocated
           after == TotalWeight(update') + unallocated
       IN  /\ unallocated * before = unallocated * after
           /\ \A r \in Preserved : update'[r] * before = weight[r] * after]_vars

\* A vault whose reserves are left alone comes to rest: its weights reach a fixed
\* point of the drift, the rounding and the constraint pass, and stay there.
Settles == plan.strategy # "RANDOM" => <>[][UNCHANGED weight]_vars
=============================================================================
