-------------------------- MODULE TriggerBaselinesProofs --------------------------
(***************************************************************************)
(* No supply jump and no loss becomes the baseline of a later check before *)
(* the reserves it concerns are in the blacklist, for any vaults, reserves *)
(* and markets, any number of passes and any faults.                       *)
(***************************************************************************)
EXTENDS TriggerBaselines, TLAPS

LEMMA EmptyViewType == EmptyView \in View
BY ConstantsAssumption DEF EmptyView, View, Prices, LagCap

LEMMA AfterVaultType ==
  ASSUME TypeOK, NEW p \in Passes, NEW v \in Vaults, view[p].at = v,
         NEW catastrophes \in SUBSET Reserves
  PROVE  AfterVault(p, v, catastrophes) \in View
<1>1. view[p] \in View
  BY DEF TypeOK
<1>2. v + 1 \in 1..(NumVaults + 1) /\ VaultReserves[v] \subseteq Reserves
  BY ConstantsAssumption DEF Vaults
<1> QED
  BY <1>1, <1>2 DEF AfterVault, View

LEMMA SafeType == Safe \in [Watches -> Results]
BY DEF Safe, Results

LEMMA UnstagedType == Unstaged \in [Watches -> Staged]
BY DEF Unstaged, Staged

LEMMA Bounds == 0 \in 0..MaxEvents /\ 0 \in 0..MaxFaults
BY ConstantsAssumption

LEMMA FaultType == TypeOK /\ (Fault \/ UNCHANGED faults) => faults' \in 0..MaxFaults
BY ConstantsAssumption DEF Fault, TypeOK

LEMMA InitType == Init => TypeOK
<1> SUFFICES ASSUME Init PROVE TypeOK
  OBVIOUS
<1>1. /\ view \in [Passes -> View] /\ found \in [Passes -> [Watches -> Results]]
      /\ staged \in [Passes -> [Watches -> Staged]]
  BY EmptyViewType, SafeType, UnstagedType DEF Init
<1>2. supply \in [Mints -> Supplies] /\ rate \in [Reserves -> Rates \cup {Drained}]
  BY ConstantsAssumption DEF Init
<1>3. price \in [Known -> Prices]
  BY ConstantsAssumption DEF Init
<1> QED
  BY <1>1, <1>2, <1>3, Bounds DEF Init, TypeOK, Stages

LEMMA WatchKnown == \A w \in Watches : w[1] \in Known
BY DEF Watches, Known

\* What a check finds and stages is of its type.
LEMMA CheckType ==
  ASSUME TypeOK, NEW p \in Passes, NEW w \in Watches,
         NEW reading \in Supplies \cup {Unknown}, NEW breach \in BOOLEAN
  PROVE  /\ Result(p, w, reading, breach) \in Results
         /\ Staging(p, w, reading) \in Staged
         /\ Result(p, w, reading, breach).breach => Result(p, w, reading, breach).score = 0
         /\ Staging(p, w, reading).supply = reading
BY DEF Result, Results, PriceScore, ZeroScore, Staging, Staged, ClockChange, MintBreach

LEMMA EndType ==
  ASSUME TypeOK, NEW p \in Passes, End(p)
  PROVE  /\ awaited' \in Passes \cup {NoPass} /\ current' \in Passes \cup {NoPass}
         /\ ticked' \in BOOLEAN
         /\ stage' \in [Passes -> Stages]
         /\ view' \in [Passes -> View]
         /\ found' \in [Passes -> [Watches -> Results]]
         /\ staged' \in [Passes -> [Watches -> Staged]]
BY EmptyViewType, SafeType, UnstagedType DEF End, TypeOK, Stages

LEMMA TypeStep ==
  ASSUME TypeOK, [Next]_vars
  PROVE  TypeOK'
<1> USE DEF loopVars, passVars, memory, chain, bounds
<1>1. ASSUME NEW p \in Passes, NEW unread, StartPass(p, unread) PROVE TypeOK'
  <2>1. faults' \in 0..MaxFaults
    BY <1>1, FaultType DEF StartPass
  <2>2. view'[p] \in View /\ view' \in [Passes -> View]
    BY <1>1, ConstantsAssumption DEF StartPass, TypeOK, View, LagCap
  <2> QED
    BY <1>1, <2>1, <2>2 DEF StartPass, TypeOK, Stages
<1>2. ASSUME NEW p \in Passes, NEW unread, CheckCollateral(p, unread) PROVE TypeOK'
  <2>1. faults' \in 0..MaxFaults
    BY <1>2, FaultType DEF CheckCollateral
  <2> DEFINE Reading(w) == IF w[1] \in unread THEN Unknown ELSE supply[Mint[w[1]]]
  <2>2. \A w \in Watches : Reading(w) \in Supplies \cup {Unknown}
    BY WatchKnown DEF TypeOK, Mints
  <2>3. \A w \in Watches : /\ Result(p, w, Reading(w), FALSE) \in Results
                           /\ Staging(p, w, Reading(w)) \in Staged
    BY <2>2, CheckType
  <2> HIDE DEF Reading
  <2>4. found' \in [Passes -> [Watches -> Results]]
    BY <1>2, <2>3 DEF CheckCollateral, TypeOK, Reading
  <2>5. staged' \in [Passes -> [Watches -> Staged]]
    BY <1>2, <2>3 DEF CheckCollateral, TypeOK, Reading
  <2> QED
    BY <1>2, <2>1, <2>4, <2>5 DEF CheckCollateral, TypeOK, Stages
<1>3. ASSUME NEW p \in Passes, NEW r \in Reserves, CheckReserve(p, r) PROVE TypeOK'
  <2> DEFINE w == <<r, "own">>
  <2>1. w \in Watches /\ supply[Mint[r]] \in Supplies
    BY DEF Watches, TypeOK, Mints, Known
  <2>2. /\ Result(p, w, supply[Mint[r]], RateBreach(p, r)) \in Results
        /\ Staging(p, w, supply[Mint[r]]) \in Staged
    BY <2>1, CheckType DEF RateBreach
  <2> HIDE DEF w
  <2>3. found' \in [Passes -> [Watches -> Results]]
    BY <1>3, <2>1, <2>2 DEF CheckReserve, TypeOK, w
  <2>4. staged' \in [Passes -> [Watches -> Staged]]
    BY <1>3, <2>1, <2>2 DEF CheckReserve, TypeOK, w
  <2>5. view' \in [Passes -> View]
    <3>1. view' = [view EXCEPT ![p] = [view[p] EXCEPT !.todo = view[p].todo \ {r}]]
      BY <1>3 DEF CheckReserve
    <3>2. view[p] \in View /\ view[p].todo \ {r} \in SUBSET Reserves
      BY DEF TypeOK, View
    <3>3. [view[p] EXCEPT !.todo = view[p].todo \ {r}] \in View
      BY <3>2 DEF View
    <3> QED
      BY <3>1, <3>3 DEF TypeOK
  <2> QED
    BY <1>3, <2>3, <2>4, <2>5 DEF CheckReserve, TypeOK, Stages
<1>4. ASSUME NEW p \in Passes, AssessVault(p) PROVE TypeOK'
  <2> DEFINE v == view[p].at
             danger == {r \in VaultReserves[v] : Dangerous(p, v, r)}
             catastrophes == {r \in danger : Catastrophic(p, r)}
  <2>1. v \in Vaults
    BY <1>4, ConstantsAssumption DEF AssessVault, Vaults, TypeOK, View
  <2>2. danger \subseteq Reserves /\ catastrophes \subseteq Reserves
    BY <2>1, ConstantsAssumption
  <2>3. /\ view' = [view EXCEPT ![p] = AfterVault(p, v, catastrophes)]
        /\ blacklisted' = IF v \in Live THEN blacklisted \cup catastrophes
                                        ELSE blacklisted
        /\ flagged' = [flagged EXCEPT ![v] = danger]
        /\ UNCHANGED <<loopVars, stage, found, staged, memory, chain, bounds>>
    BY <1>4 DEF AssessVault
  <2> HIDE DEF danger, catastrophes, v
  <2>4. AfterVault(p, v, catastrophes) \in View
    BY <2>1, <2>2, AfterVaultType DEF v
  <2> QED
    BY <2>1, <2>2, <2>3, <2>4 DEF TypeOK
<1>5. ASSUME NEW p \in Passes, SkipVault(p) PROVE TypeOK'
  <2>1. view[p] \in View /\ view[p].at \in 1..(NumVaults + 1)
    BY DEF TypeOK, View
  <2>2. view[p].at + 1 \in 1..(NumVaults + 1)
    BY <1>5, <2>1, ConstantsAssumption DEF SkipVault
  <2>3. view' = [view EXCEPT ![p] = [view[p] EXCEPT !.at = view[p].at + 1]]
    BY <1>5 DEF SkipVault
  <2>4. [view[p] EXCEPT !.at = view[p].at + 1] \in View
    BY <2>1, <2>2 DEF View
  <2> QED
    BY <1>5, <2>3, <2>4, FaultType DEF SkipVault, TypeOK
<1>6. ASSUME NEW p \in Passes, Commit(p) PROVE TypeOK'
  <2>1. view[p].lag \in 0..LagCap /\ view[p].rate \in [Reserves -> Rates \cup {Drained}]
    BY <1>6 DEF TypeOK, View
  <2>2. baseline' \in [Watches -> Observations \cup {Unknown}]
    BY <1>6, <2>1, ConstantsAssumption
    DEF Commit, TypeOK, Observations, Staged, AgeCap, LagCap
  <2>3. rateBase' \in [Reserves -> Rates \cup {Unknown}]
    BY <1>6, <2>1 DEF Commit, TypeOK
  <2>4. clock' \in [Watches -> (0..ClockCap) \cup {Unknown}]
    BY <1>6, <2>1, ConstantsAssumption DEF Commit, TypeOK, ClockCap, LagCap
  <2> QED
    BY <1>6, <2>2, <2>3, <2>4, EndType DEF Commit, TypeOK
<1>7. ASSUME NEW p \in Passes, Abandon(p) \/ CannotCheck(p) \/ PassFails(p)
      PROVE  TypeOK'
  <2>1. faults' \in 0..MaxFaults
    BY <1>7, FaultType DEF Abandon, CannotCheck, PassFails
  <2>2. End(p)
    BY <1>7 DEF Abandon, CannotCheck, PassFails
  <2> QED
    BY <1>7, <2>1, <2>2, EndType DEF Abandon, CannotCheck, PassFails, TypeOK
<1>8. CASE TimeOut
  BY <1>8, FaultType DEF TimeOut, TypeOK
<1>9. CASE Restart
  BY <1>9, FaultType, EmptyViewType, SafeType, UnstagedType
  DEF Restart, TypeOK, Stages
<1>10. ASSUME NEW m \in Mints, MintOrBurn(m) PROVE TypeOK'
  BY <1>10, ConstantsAssumption DEF MintOrBurn, Event, TypeOK
<1>11. ASSUME NEW r \in Reserves, Lose(r) PROVE TypeOK'
  BY <1>11, ConstantsAssumption DEF Lose, Event, TypeOK
<1>12. ASSUME NEW x \in Known, Reprice(x) PROVE TypeOK'
  BY <1>12, ConstantsAssumption DEF Reprice, Event, TypeOK
<1>13. CASE Tick
  <2>1. view' \in [Passes -> View]
    <3>1. \A p \in Passes : /\ view[p] \in View
                            /\ Later(view[p].lag, LagCap) \in 0..LagCap
      BY DEF TypeOK, View, Later, LagCap
    <3>2. \A p \in Passes : [view[p] EXCEPT !.lag = Later(view[p].lag, LagCap)] \in View
      BY <3>1 DEF View
    <3> QED
      BY <1>13, <3>1, <3>2 DEF Tick
  <2>2. baseline' \in [Watches -> Observations \cup {Unknown}]
    BY <1>13, ConstantsAssumption
    DEF Tick, TypeOK, Observations, Later, AgeCap, LagCap
  <2>3. clock' \in [Watches -> (0..ClockCap) \cup {Unknown}]
    BY <1>13, ConstantsAssumption DEF Tick, TypeOK, Later, ClockCap, LagCap
  <2> QED
    BY <1>13, <2>1, <2>2, <2>3 DEF Tick, TypeOK
<1>14. CASE UNCHANGED vars
  BY <1>14 DEF vars, TypeOK
<1> QED
  BY <1>1, <1>2, <1>3, <1>4, <1>5, <1>6, <1>7, <1>8, <1>9, <1>10, <1>11, <1>12,
     <1>13, <1>14 DEF Next, Step

\* Every variable of the model keeps its type.
THEOREM TypeCorrect == Spec => []TypeOK
BY InitType, TypeStep, PTL DEF Spec

-----------------------------------------------------------------------------
(* What the current pass has found                                         *)

\* Whatever a staged supply is a jump from has been found to be a breach,
MintFound(p) ==
  \A w \in Watches :
    (/\ Fresh(w) /\ staged[p][w].supply # Unknown
     /\ Inflated(baseline[w].supply, staged[p][w].supply))
    => found[p][w].breach

\* and so has, in a reserve that has been checked, a loss that its rate shows.
RateFound(p) ==
  /\ stage[p] = "collateral" => view[p].todo = Reserves
  /\ \A r \in Reserves :
       (/\ stage[p] = "vaults" \/ (stage[p] = "reserves" /\ r \notin view[p].todo)
        /\ RateBreach(p, r))
       => found[p][<<r, "own">>].breach

\* The reserves that are going to be committed although they were found in a
\* catastrophe are in the blacklist.
ActedOn(p) ==
  /\ view[p].blacklist \subseteq blacklisted
  /\ stage[p] # "vaults" => view[p].assessed = {}
  /\ \A r \in view[p].commit \cap view[p].assessed :
       Catastrophic(p, r) => r \in blacklisted

Running(p) == MintFound(p) /\ RateFound(p) /\ ActedOn(p)

\* A breach scores nothing, so every vault is told of it.
BreachScored ==
  \A p \in Passes : \A w \in Watches : found[p][w].breach => found[p][w].score = 0

IdleStaged == \A p \in Passes : stage[p] = "idle" => staged[p] = Unstaged

IInv ==
  /\ TypeOK
  /\ IdleStaged
  /\ BreachScored
  /\ \A p \in Passes : p = current => Running(p)

LEMMA InitInv == Init => IInv
BY InitType, ConstantsAssumption
DEF Init, IInv, IdleStaged, BreachScored, Safe

\* Steps of other passes and of the chain leave what a pass has found as it is.
LEMMA Undisturbed ==
  ASSUME NEW p \in Passes, Running(p),
         stage'[p] = stage[p], found'[p] = found[p], staged'[p] = staged[p],
         view'[p].rate = view[p].rate, view'[p].todo = view[p].todo,
         view'[p].commit = view[p].commit, view'[p].assessed = view[p].assessed,
         view'[p].blacklist = view[p].blacklist, rateBase' = rateBase,
         \A w \in Watches : Fresh(w)' => /\ Fresh(w)
                                         /\ baseline'[w].supply = baseline[w].supply,
         blacklisted \subseteq blacklisted'
  PROVE  Running(p)'
<1>1. MintFound(p)'
  BY DEF Running, MintFound
<1>2. RateFound(p)'
  BY DEF Running, RateFound, RateBreach
<1>3. ActedOn(p)'
  BY DEF Running, ActedOn, Catastrophic
<1> QED
  BY <1>1, <1>2, <1>3 DEF Running

\* A check finds the jump that it stages.
LEMMA CheckFinds ==
  ASSUME TypeOK, NEW p \in Passes, NEW w \in Watches, NEW breach \in BOOLEAN,
         NEW reading \in Supplies \cup {Unknown}, reading # Unknown,
         Fresh(w), Inflated(baseline[w].supply, reading)
  PROVE  Result(p, w, reading, breach).breach
<1>1. view[p].lag \in Nat /\ baseline[w].age \in Nat /\ baseline[w].age <= MaxAge
  <2>1. view[p] \in View /\ baseline[w] \in Observations
    BY DEF TypeOK, Fresh
  <2>2. view[p].lag \in 0..LagCap /\ baseline[w].age \in 0..AgeCap
    BY <2>1 DEF View, Observations
  <2> QED
    BY <2>2 DEF Fresh
<1>2. ~Expired(p, w)
  BY <1>1, ConstantsAssumption DEF Expired
<1> QED
  BY <1>2 DEF Result, MintBreach, Fresh

LEMMA StartStep ==
  ASSUME IInv, NEW p \in Passes, NEW unread \in SUBSET {Market[r] : r \in Reserves},
         StartPass(p, unread)
  PROVE  IInv'
<1>1. TypeOK'
  BY TypeStep DEF IInv, Next
<1>2. stage[p] = "idle" /\ staged[p] = Unstaged /\ staged' = staged /\ found' = found
  BY DEF StartPass, Idle, IInv, IdleStaged
<1>3. /\ current' = p /\ stage'[p] = "collateral" /\ blacklisted' = blacklisted
      /\ view'[p].todo = Reserves /\ view'[p].assessed = {}
      /\ view'[p].blacklist = blacklisted
  BY DEF StartPass, IInv, TypeOK
<1>4. Running(p)'
  BY <1>2, <1>3 DEF Running, MintFound, RateFound, ActedOn, Unstaged
<1>5. IdleStaged' /\ BreachScored'
  BY <1>2, <1>3 DEF StartPass, IInv, IdleStaged, BreachScored, TypeOK
<1> QED
  BY <1>1, <1>3, <1>4, <1>5 DEF IInv

LEMMA CollateralStep ==
  ASSUME IInv, NEW p \in Passes, NEW unread \in SUBSET Collateral,
         CheckCollateral(p, unread)
  PROVE  IInv'
<1> DEFINE Reading(w) == IF w[1] \in unread THEN Unknown ELSE supply[Mint[w[1]]]
           Checked(w) == w[2] = "market" /\ w[1] \in view[p].market
<1>1. TypeOK /\ TypeOK'
  <2>1. CASE unread = {}
    BY <2>1, TypeStep DEF IInv, Next, Step
  <2>2. CASE unread # {}
    <3>1. unread \in (SUBSET Collateral) \ {{}}
      BY <2>2
    <3> QED
      BY <3>1, TypeStep DEF IInv, Next
  <2> QED BY <2>1, <2>2
<1>2. \A w \in Watches : Reading(w) \in Supplies \cup {Unknown}
  BY <1>1, WatchKnown DEF TypeOK, Mints
<1>3. \A w \in Watches : Checked(w) =>
        /\ found'[p][w] = Result(p, w, Reading(w), FALSE)
        /\ staged'[p][w] = Staging(p, w, Reading(w))
  BY <1>1 DEF CheckCollateral, TypeOK
<1>4. \A w \in Watches : ~Checked(w) =>
        found'[p][w] = found[p][w] /\ staged'[p][w] = staged[p][w]
  BY <1>1 DEF CheckCollateral, TypeOK
<1>5. \A q \in Passes : q # p =>
        found'[q] = found[q] /\ staged'[q] = staged[q] /\ stage'[q] = stage[q]
  BY <1>1 DEF CheckCollateral, TypeOK
<1>6. /\ stage[p] = "collateral" /\ stage'[p] = "reserves"
      /\ UNCHANGED <<current, view, baseline, rateBase, supply, blacklisted>>
  BY <1>1 DEF CheckCollateral, TypeOK, loopVars, memory, chain
<1>12. \A w \in Watches :
         /\ Result(p, w, Reading(w), FALSE).breach
              => Result(p, w, Reading(w), FALSE).score = 0
         /\ Staging(p, w, Reading(w)).supply = Reading(w)
         /\ (Fresh(w) /\ Reading(w) # Unknown
               /\ Inflated(baseline[w].supply, Reading(w)))
             => Result(p, w, Reading(w), FALSE).breach
  <2> HIDE DEF Reading
  <2> TAKE w \in Watches
  <2>1. Reading(w) \in Supplies \cup {Unknown} /\ FALSE \in BOOLEAN
    BY <1>2
  <2> QED
    BY <1>1, <2>1, CheckType, CheckFinds
<1> HIDE DEF Reading, Checked
<1>7. IdleStaged'
  BY <1>5, <1>6 DEF IInv, IdleStaged
<1>8. \A w \in Watches : found'[p][w].breach => found'[p][w].score = 0
  <2> TAKE w \in Watches
  <2>1. CASE Checked(w)
    BY <1>3, <1>12, <2>1
  <2>2. CASE ~Checked(w)
    BY <1>4, <2>2 DEF IInv, BreachScored
  <2> QED BY <2>1, <2>2
<1>9. BreachScored'
  BY <1>5, <1>8 DEF IInv, BreachScored
<1>10. ASSUME p = current PROVE Running(p)'
  <2>1. MintFound(p)'
    <3> SUFFICES ASSUME NEW w \in Watches, Fresh(w), staged'[p][w].supply # Unknown,
                        Inflated(baseline[w].supply, staged'[p][w].supply)
                 PROVE  found'[p][w].breach
      BY <1>6 DEF MintFound, Fresh
    <3>1. CASE Checked(w)
      BY <1>3, <1>12, <3>1
    <3>2. CASE ~Checked(w)
      BY <1>4, <1>10, <3>2 DEF IInv, Running, MintFound
    <3> QED BY <3>1, <3>2
  <2>2. RateFound(p)' /\ ActedOn(p)'
    BY <1>6, <1>10 DEF IInv, Running, RateFound, ActedOn
  <2> QED
    BY <2>1, <2>2 DEF Running
<1>11. ASSUME NEW q \in Passes, q # p, q = current PROVE Running(q)'
  BY <1>5, <1>6, <1>11, Undisturbed DEF IInv, Fresh
<1> QED
  BY <1>1, <1>6, <1>7, <1>9, <1>10, <1>11 DEF IInv

LEMMA ReserveStep ==
  ASSUME IInv, NEW p \in Passes, NEW r \in Reserves, CheckReserve(p, r)
  PROVE  IInv'
<1> DEFINE w == <<r, "own">>
           reading == supply[Mint[r]]
<1>1. TypeOK /\ TypeOK'
  BY TypeStep DEF IInv, Next, Step
<1>2. w \in Watches /\ reading \in Supplies /\ reading # Unknown
  <2>1. w \in Watches /\ Mint[r] \in Mints
    BY DEF Watches, Mints, Known
  <2> QED
    BY <1>1, <2>1, ConstantsAssumption DEF TypeOK
<1>3. /\ found'[p][w] = Result(p, w, reading, RateBreach(p, r))
      /\ staged'[p][w] = Staging(p, w, reading)
      /\ \A x \in Watches : x # w =>
           found'[p][x] = found[p][x] /\ staged'[p][x] = staged[p][x]
  BY <1>1, <1>2 DEF CheckReserve, TypeOK
<1>4. \A q \in Passes : q # p => /\ found'[q] = found[q] /\ staged'[q] = staged[q]
                                 /\ stage'[q] = stage[q] /\ view'[q] = view[q]
  BY <1>1 DEF CheckReserve, TypeOK
<1>5. /\ stage[p] = "reserves" /\ stage'[p] \in {"reserves", "vaults"}
      /\ stage'[p] = "vaults" => view[p].todo = {r}
      /\ UNCHANGED <<current, baseline, rateBase, supply, blacklisted>>
  BY <1>1 DEF CheckReserve, TypeOK, loopVars, memory, chain
<1>6. /\ view'[p].todo = view[p].todo \ {r} /\ view'[p].rate = view[p].rate
      /\ view'[p].assessed = view[p].assessed /\ view'[p].commit = view[p].commit
      /\ view'[p].blacklist = view[p].blacklist
  <2>1. view' = [view EXCEPT ![p] = [view[p] EXCEPT !.todo = view[p].todo \ {r}]]
    BY DEF CheckReserve
  <2>2. view[p] \in View /\ view \in [Passes -> View]
    BY <1>1 DEF TypeOK
  <2> QED
    BY <2>1, <2>2 DEF View
<1>7. /\ RateBreach(p, r) \in BOOLEAN
      /\ RateBreach(p, r) => found'[p][w].breach
      /\ found'[p][w].breach => found'[p][w].score = 0
  <2>1. RateBreach(p, r) \in BOOLEAN
    BY DEF RateBreach
  <2>2. found'[p][w].breach => found'[p][w].score = 0
    BY <1>1, <1>2, <1>3, <2>1, CheckType
  <2> QED
    BY <1>3, <2>1, <2>2 DEF Result
<1> HIDE DEF w, reading
<1>8. IdleStaged'
  BY <1>4, <1>5 DEF IInv, IdleStaged
<1>9. BreachScored'
  BY <1>3, <1>4, <1>7 DEF IInv, BreachScored
<1>10. ASSUME p = current PROVE Running(p)'
  <2>1. MintFound(p)'
    <3> SUFFICES ASSUME NEW x \in Watches, Fresh(x), staged'[p][x].supply # Unknown,
                        Inflated(baseline[x].supply, staged'[p][x].supply)
                 PROVE  found'[p][x].breach
      BY <1>5 DEF MintFound, Fresh
    <3>1. CASE x = w
      <4>1. staged'[p][x].supply = reading
        BY <1>3, <3>1 DEF Staging
      <4> QED
        BY <1>1, <1>2, <1>3, <1>7, <3>1, <4>1, CheckFinds
    <3>2. CASE x # w
      BY <1>3, <1>10, <3>2 DEF IInv, Running, MintFound
    <3> QED BY <3>1, <3>2
  <2>2. RateFound(p)'
    <3> SUFFICES ASSUME NEW s \in Reserves,
                        stage'[p] = "vaults" \/ s \notin view'[p].todo,
                        RateBreach(p, s)
                 PROVE  found'[p][<<s, "own">>].breach
      BY <1>5, <1>6 DEF RateFound, RateBreach
    <3>1. CASE s = r
      BY <1>7, <3>1 DEF w
    <3>2. CASE s # r
      <4>1. s \notin view[p].todo
        BY <1>5, <1>6, <3>2
      <4>2. found[p][<<s, "own">>].breach
        BY <1>5, <1>10, <4>1 DEF IInv, Running, RateFound
      <4>3. <<s, "own">> \in Watches /\ <<s, "own">> # w
        BY <3>2 DEF Watches, w
      <4> QED
        BY <1>3, <4>2, <4>3
    <3> QED BY <3>1, <3>2
  <2>3. ActedOn(p)'
    BY <1>5, <1>6, <1>10 DEF IInv, Running, ActedOn
  <2> QED
    BY <2>1, <2>2, <2>3 DEF Running
<1>11. ASSUME NEW q \in Passes, q # p, q = current PROVE Running(q)'
  BY <1>4, <1>5, <1>11, Undisturbed DEF IInv, Fresh
<1> QED
  BY <1>1, <1>5, <1>8, <1>9, <1>10, <1>11 DEF IInv

LEMMA AssessStep ==
  ASSUME IInv, NEW p \in Passes, AssessVault(p)
  PROVE  IInv'
<1> DEFINE v == view[p].at
           danger == {r \in VaultReserves[v] : Dangerous(p, v, r)}
           catastrophes == {r \in danger : Catastrophic(p, r)}
<1>1. TypeOK /\ TypeOK'
  BY TypeStep DEF IInv, Next, Step
<1>2. /\ stage[p] = "vaults" /\ current = p
      /\ view' = [view EXCEPT ![p] = AfterVault(p, v, catastrophes)]
      /\ blacklisted' = IF v \in Live THEN blacklisted \cup catastrophes
                                      ELSE blacklisted
      /\ UNCHANGED <<current, stage, found, staged, baseline, rateBase>>
  BY DEF AssessVault, loopVars, memory
<1>3. v \in Vaults
  BY <1>1, ConstantsAssumption DEF AssessVault, Vaults, TypeOK, View
<1>4. catastrophes \in SUBSET Reserves
  BY <1>3, ConstantsAssumption
\* A breach is dangerous for every vault, so no catastrophe is missed.
<1>5. \A r \in VaultReserves[v] : Catastrophic(p, r) => r \in catastrophes
  BY DEF Catastrophic, Dangerous, IInv, BreachScored, Reaching
<1> HIDE DEF v, danger, catastrophes
<1>6. /\ view'[p].rate = view[p].rate
      /\ view'[p].assessed = view[p].assessed \cup VaultReserves[v]
      /\ view'[p].blacklist
           = view[p].blacklist \cup (IF v \in Live THEN catastrophes ELSE {})
      /\ view'[p].commit
           = IF v \in Live THEN view[p].commit \cup catastrophes
                           ELSE view[p].commit \ (catastrophes \ view[p].blacklist)
  <2> DEFINE after == AfterVault(p, v, catastrophes)
  <2>1. view'[p] = after
    BY <1>1, <1>2 DEF TypeOK
  <2>2. view[p] \in View /\ view[p].at + 1 \in 1..(NumVaults + 1)
    BY <1>1, <1>3, ConstantsAssumption DEF TypeOK, Vaults, v
  <2>3. VaultReserves[v] \subseteq Reserves
    BY <1>3, ConstantsAssumption
  <2>4. /\ after.rate = view[p].rate
        /\ after.assessed = view[p].assessed \cup VaultReserves[v]
        /\ after.blacklist
             = view[p].blacklist \cup (IF v \in Live THEN catastrophes ELSE {})
        /\ after.commit
             = IF v \in Live THEN view[p].commit \cup catastrophes
                             ELSE view[p].commit \ (catastrophes \ view[p].blacklist)
    BY <1>4, <2>2, <2>3 DEF AfterVault, View
  <2> HIDE DEF after
  <2> QED
    BY <2>1, <2>4
<1>7. IdleStaged' /\ BreachScored'
  BY <1>2 DEF IInv, IdleStaged, BreachScored
<1>8. MintFound(p) /\ RateFound(p) /\ ActedOn(p)
  BY <1>2 DEF IInv, Running
<1>9. MintFound(p)' /\ RateFound(p)'
  BY <1>2, <1>6, <1>8 DEF MintFound, Fresh, RateFound, RateBreach
<1>10. ActedOn(p)'
  <2>1. view'[p].blacklist \subseteq blacklisted'
    BY <1>2, <1>6, <1>8 DEF ActedOn
  <2>2. \A r \in view'[p].commit \cap view'[p].assessed :
          Catastrophic(p, r) => r \in blacklisted'
    BY <1>2, <1>5, <1>6, <1>8 DEF ActedOn
  <2> QED
    BY <1>2, <2>1, <2>2 DEF ActedOn, Catastrophic
<1> QED
  BY <1>1, <1>2, <1>7, <1>9, <1>10 DEF IInv, Running

LEMMA SkipStep ==
  ASSUME IInv, NEW p \in Passes, SkipVault(p)
  PROVE  IInv'
<1>1. TypeOK /\ TypeOK'
  BY TypeStep DEF IInv, Next
<1>2. UNCHANGED <<current, stage, found, staged, baseline, rateBase, blacklisted>>
  BY DEF SkipVault, loopVars, memory
<1>3. \A q \in Passes :
        /\ view'[q].rate = view[q].rate /\ view'[q].todo = view[q].todo
        /\ view'[q].commit = view[q].commit /\ view'[q].assessed = view[q].assessed
        /\ view'[q].blacklist = view[q].blacklist
  <2>1. view' = [view EXCEPT ![p] = [view[p] EXCEPT !.at = view[p].at + 1]]
    BY DEF SkipVault
  <2>2. view[p] \in View /\ view \in [Passes -> View]
    BY <1>1 DEF TypeOK
  <2> QED
    BY <2>1, <2>2 DEF View
<1>4. \A q \in Passes : q = current' => Running(q)'
  BY <1>2, <1>3, Undisturbed DEF IInv, Fresh
<1> QED
  BY <1>1, <1>2, <1>4 DEF IInv, IdleStaged, BreachScored

\* The end of a pass, which may have committed what it staged if it is current.
LEMMA EndStep ==
  ASSUME IInv, TypeOK', NEW p \in Passes, End(p), blacklisted' = blacklisted,
         p = current \/ UNCHANGED memory
  PROVE  IInv'
<1>1. TypeOK
  BY DEF IInv
<1>2. /\ stage'[p] = "idle" /\ staged'[p] = Unstaged /\ found'[p] = Safe
      /\ current' = IF current = p THEN NoPass ELSE current
      /\ \A q \in Passes : q # p => /\ stage'[q] = stage[q] /\ view'[q] = view[q]
                                    /\ found'[q] = found[q] /\ staged'[q] = staged[q]
  BY <1>1 DEF End, TypeOK
<1>3. IdleStaged' /\ BreachScored'
  BY <1>2 DEF IInv, IdleStaged, BreachScored, Safe
<1>4. ASSUME NEW q \in Passes, q = current' PROVE Running(q)'
  <2>1. q # p /\ q = current /\ UNCHANGED memory
    BY <1>2, <1>4, ConstantsAssumption
  <2>2. Running(q)
    BY <2>1 DEF IInv
  <2> QED
    BY <1>2, <2>1, <2>2, Undisturbed DEF Fresh, memory
<1> QED
  BY <1>3, <1>4 DEF IInv

LEMMA RestartStep == IInv /\ Restart => IInv'
<1> SUFFICES ASSUME IInv, Restart PROVE IInv'
  OBVIOUS
<1>1. TypeOK'
  BY TypeStep DEF IInv, Next
<1> QED
  BY <1>1, ConstantsAssumption DEF Restart, IInv, IdleStaged, BreachScored, Safe

\* The chain and the loop leave every pass as it is.
LEMMA OutsideStep ==
  ASSUME IInv,
         \/ TimeOut
         \/ \E m \in Mints : MintOrBurn(m)
         \/ \E r \in Reserves : Lose(r)
         \/ \E x \in Known : Reprice(x)
         \/ UNCHANGED vars
  PROVE  IInv'
<1>1. TypeOK'
  BY TypeStep DEF IInv, Next
<1>2. UNCHANGED <<current, passVars, memory, blacklisted>>
  BY DEF TimeOut, MintOrBurn, Lose, Reprice, vars, loopVars, passVars, memory
<1>3. \A q \in Passes : q = current' => Running(q)'
  BY <1>2, Undisturbed DEF IInv, Fresh, passVars, memory
<1> QED
  BY <1>1, <1>2, <1>3 DEF IInv, IdleStaged, BreachScored, passVars

LEMMA TickBaseline ==
  ASSUME TypeOK, Tick, NEW w \in Watches, Fresh(w)'
  PROVE  Fresh(w) /\ baseline'[w].supply = baseline[w].supply
<1>1. baseline[w] # Unknown
  BY DEF Fresh, Tick
<1>2. baseline[w] \in Observations
  BY <1>1 DEF TypeOK
<1>3. baseline'[w] = [baseline[w] EXCEPT !.age = Later(baseline[w].age, AgeCap)]
  BY <1>1 DEF Tick
<1>4. /\ baseline'[w].supply = baseline[w].supply
      /\ baseline'[w].age = Later(baseline[w].age, AgeCap)
  BY <1>2, <1>3 DEF Observations
<1>5. baseline[w].age \in Nat
  BY <1>2 DEF Observations
<1> QED
  BY <1>1, <1>4, <1>5, ConstantsAssumption DEF Fresh, Later, AgeCap, LagCap

LEMMA TickStep == IInv /\ Tick => IInv'
<1> SUFFICES ASSUME IInv, Tick PROVE IInv'
  OBVIOUS
<1>1. TypeOK /\ TypeOK'
  BY TypeStep DEF IInv, Next
<1>2. UNCHANGED <<current, stage, found, staged, rateBase, blacklisted>>
  BY DEF Tick
<1>3. \A q \in Passes :
        /\ view'[q].rate = view[q].rate /\ view'[q].todo = view[q].todo
        /\ view'[q].commit = view[q].commit /\ view'[q].assessed = view[q].assessed
        /\ view'[q].blacklist = view[q].blacklist
  BY <1>1 DEF Tick, TypeOK, View
<1>4. ASSUME NEW q \in Passes, q = current' PROVE Running(q)'
  BY <1>1, <1>2, <1>3, <1>4, TickBaseline, Undisturbed DEF IInv
<1> QED
  BY <1>1, <1>2, <1>4 DEF IInv, IdleStaged, BreachScored

LEMMA StepInv == IInv /\ [Next]_vars => IInv'
<1> SUFFICES ASSUME IInv, [Next]_vars PROVE IInv'
  OBVIOUS
<1>1. ASSUME NEW p \in Passes, Commit(p) \/ Abandon(p) \/ CannotCheck(p) \/ PassFails(p)
      PROVE  IInv'
  <2>1. TypeOK'
    BY TypeStep DEF IInv
  <2>2. End(p) /\ blacklisted' = blacklisted /\ (p = current \/ UNCHANGED memory)
    BY <1>1 DEF Commit, Abandon, CannotCheck, PassFails
  <2> QED
    BY <2>1, <2>2, EndStep
<1>2. ASSUME NEW p \in Passes, Step(p) PROVE IInv'
  BY <1>1, <1>2, CollateralStep, ReserveStep, AssessStep DEF Step
<1>3. CASE Next
  BY <1>1, <1>2, <1>3, StartStep, CollateralStep, SkipStep, OutsideStep, RestartStep,
     TickStep DEF Next
<1>4. CASE UNCHANGED vars
  BY <1>4, OutsideStep
<1> QED
  BY <1>3, <1>4

\* Whatever the current pass has staged or read beyond the committed baselines it
\* has found to be a breach, and what it will commit in spite of one is blacklisted.
THEOREM Invariance == Spec => []IInv
BY InitInv, StepInv, PTL DEF Spec

-----------------------------------------------------------------------------
(* What is committed                                                       *)

Absorbs ==
  /\ \A w \in Watches :
       Fresh(w) /\ baseline'[w] # Unknown
         /\ Inflated(baseline[w].supply, baseline'[w].supply)
         => Reached(w) \subseteq blacklisted
  /\ \A r \in Reserves :
       rateBase[r] # Unknown /\ rateBase'[r] # Unknown /\ rateBase'[r] > rateBase[r]
         => r \in blacklisted

LEMMA ObservedNat ==
  ASSUME TypeOK
  PROVE  /\ \A w \in Watches : baseline[w] # Unknown => baseline[w].supply \in Nat
         /\ \A r \in Reserves : rateBase[r] # Unknown => rateBase[r] \in Nat
BY ConstantsAssumption DEF TypeOK, Observations

LEMMA CommitAbsorbs ==
  ASSUME IInv, NEW p \in Passes, Commit(p)
  PROVE  Absorbs
<1>1. TypeOK /\ Running(p) /\ stage[p] = "vaults"
  BY DEF IInv, Commit
<1>2. \A w \in Committed(p) : found[p][w].breach => Reached(w) \subseteq blacklisted
  <2> SUFFICES ASSUME NEW w \in Committed(p), found[p][w].breach,
                      NEW r \in Reached(w)
               PROVE  r \in blacklisted
    OBVIOUS
  <2>1. w \in Watches /\ r \in view[p].commit \cap view[p].assessed
    BY DEF Committed
  <2>2. Catastrophic(p, r)
    BY <2>1 DEF Catastrophic, Reaching
  <2> QED
    BY <1>1, <2>1, <2>2 DEF Running, ActedOn
<1>3. ASSUME NEW w \in Watches, Fresh(w), baseline'[w] # Unknown,
             Inflated(baseline[w].supply, baseline'[w].supply)
      PROVE  Reached(w) \subseteq blacklisted
  <2>1. CASE w \in Committed(p) /\ staged[p][w].supply # Unknown
    <3>1. baseline'[w].supply = staged[p][w].supply
      BY <2>1 DEF Commit
    <3>2. found[p][w].breach
      BY <1>1, <1>3, <2>1, <3>1 DEF Running, MintFound
    <3> QED
      BY <1>2, <2>1, <3>2
  <2>2. CASE ~(w \in Committed(p) /\ staged[p][w].supply # Unknown)
    <3>1. baseline'[w] = baseline[w]
      BY <2>2 DEF Commit
    <3>2. baseline[w].supply \in Nat
      BY <1>1, <1>3, ObservedNat DEF Fresh
    <3> QED
      BY <1>3, <3>1, <3>2 DEF Inflated
  <2> QED
    BY <2>1, <2>2
<1>4. ASSUME NEW r \in Reserves, rateBase[r] # Unknown, rateBase'[r] > rateBase[r]
      PROVE  r \in blacklisted
  <2> DEFINE w == <<r, "own">>
  <2>1. w \in Watches /\ Reached(w) = {r}
    BY DEF Watches, Reached
  <2>2. CASE w \in Committed(p) /\ view[p].rate[r] # Drained
    <3>1. rateBase'[r] = view[p].rate[r]
      BY <2>2 DEF Commit
    <3>2. found[p][w].breach
      BY <1>1, <1>4, <3>1 DEF Running, RateFound, RateBreach
    <3> QED
      BY <1>2, <2>1, <2>2, <3>2
  <2>3. CASE ~(w \in Committed(p) /\ view[p].rate[r] # Drained)
    <3>1. rateBase'[r] = rateBase[r]
      BY <2>3 DEF Commit
    <3> QED
      BY <1>1, <1>4, <3>1, ObservedNat
  <2> QED
    BY <2>2, <2>3
<1> QED
  BY <1>3, <1>4 DEF Absorbs

\* Every other step leaves each supply and each rate that it does not forget.
LEMMA OthersAbsorbNothing ==
  ASSUME TypeOK, \A w \in Watches : (Fresh(w) /\ baseline'[w] # Unknown) =>
                          baseline'[w].supply = baseline[w].supply,
         \A r \in Reserves : rateBase'[r] # Unknown => rateBase'[r] = rateBase[r]
  PROVE  Absorbs
BY ObservedNat DEF Absorbs, Inflated, Fresh

LEMMA StepAbsorbs == IInv /\ [Next]_vars => Absorbs
<1> SUFFICES ASSUME IInv, [Next]_vars PROVE Absorbs
  OBVIOUS
<1>1. TypeOK
  BY DEF IInv
<1>2. CASE UNCHANGED memory
  BY <1>1, <1>2, OthersAbsorbNothing DEF memory
<1>3. CASE \E p \in Passes : Commit(p)
  BY <1>3, CommitAbsorbs
<1>4. CASE Restart
  BY <1>1, <1>4, OthersAbsorbNothing DEF Restart
<1>5. CASE Tick
  <2>1. ASSUME NEW w \in Watches, Fresh(w)
        PROVE  baseline'[w].supply = baseline[w].supply
    <3>1. baseline[w] # Unknown
      BY <2>1 DEF Fresh
    <3>2. baseline[w] \in Observations
      BY <1>1, <3>1 DEF TypeOK
    <3>3. baseline'[w] = [baseline[w] EXCEPT !.age = Later(baseline[w].age, AgeCap)]
      BY <1>5, <3>1 DEF Tick
    <3> QED
      BY <3>2, <3>3 DEF Observations
  <2>2. rateBase' = rateBase
    BY <1>5 DEF Tick
  <2> QED
    BY <1>1, <2>1, <2>2, OthersAbsorbNothing
<1>6. UNCHANGED memory \/ (\E p \in Passes : Commit(p)) \/ Restart \/ Tick
  BY DEF Next, Step, StartPass, CheckCollateral, CheckReserve, AssessVault, Abandon,
         CannotCheck, PassFails, SkipVault, TimeOut, MintOrBurn, Lose, Reprice, vars
<1> QED
  BY <1>2, <1>3, <1>4, <1>5, <1>6

\* A baseline moves over a supply jump or a loss only when every vault reserve it
\* counts for is in the blacklist, for any vaults, markets, faults and time-outs.
THEOREM NeverAbsorbed == Spec => BreachNeverAbsorbed
<1>1. IInv /\ [Next]_vars => [Absorbs]_vars
  BY StepAbsorbs
<1> QED
  BY <1>1, Invariance, PTL DEF Spec, BreachNeverAbsorbed, Absorbs
=============================================================================
