---------------------------- MODULE TriggerBaselines ----------------------------
(***************************************************************************)
(* The triggers of a danger pass that remember: infinite mint, exchange    *)
(* rate and the clock of a zero price, with the market collateral they are *)
(* checked for as well.                                                    *)
(*                                                                         *)
(* An observation is staged when a trigger is checked and becomes the      *)
(* baseline of later checks only when its pass commits it.  A pass that    *)
(* outlived its watchdog runs on beside a newer one.                       *)
(*                                                                         *)
(* Time is relative: ages and clocks grow with every tick.  The loop rests *)
(* and awaits a pass for less than a tick, so at most one tick falls into  *)
(* either; an abandoned pass may take any time.                            *)
(***************************************************************************)
EXTENDS Integers, FiniteSets, Folds

CONSTANTS
  Passes,         \* how many passes may be running at the same time
  NoPass,         \* not a pass
  NumVaults,      \* number of configured vaults, in the order of the config
  Reserves,       \* the reserves of the configured vaults
  Collateral,     \* the reserves that back borrowing in their market
  Market,         \* the lending market of each reserve
  Mint,           \* the token mint of each reserve
  VaultReserves,  \* the reserves each vault has in its allocation
  Live,           \* the vaults that are not dry-run
  Threshold,      \* the risk appetite of each vault, in tenths
  Supplies,       \* the supplies a mint may have
  Rates,          \* the exchange rates of a reserve with liquidity behind it
  MaxAge,         \* MAX_SUPPLY_BASELINE_AGE_SECONDS, in ticks
  Limit,          \* MAX_STALE_PRICE_DURATION_SECONDS, in ticks
  Drained,        \* cTokens outstanding and no liquidity behind them
  Unknown,        \* no baseline, no clock, nothing staged
  StartPrices,    \* the prices that the bot may find when it is first started
  MayChange,      \* bound: the mints, rates and prices that change
  MaxEvents,      \* bound: mints, losses and price changes in a behaviour
  MaxFaults       \* bound: timeouts, failed reads and restarts in a behaviour

Vaults == 1..NumVaults
Known == Reserves \cup Collateral
Mints == {Mint[x] : x \in Known}

\* What is watched: each vault reserve for itself, and each collateral for the vault
\* reserves of its market, with triggers and baselines of their own.
Watches ==
  {<<r, "own">> : r \in Reserves} \cup
  {<<c, "market">> : c \in {x \in Collateral :
     \E r \in Reserves : Market[r] = Market[x] /\ r # x}}

\* The vault reserves that the result of a check counts for.
Reached(w) ==
  IF w[2] = "own" THEN {w[1]}
                  ELSE {r \in Reserves : Market[r] = Market[w[1]] /\ r # w[1]}

Prices == {"healthy", "zero", "unavailable"}
Stages == {"idle", "collateral", "reserves", "vaults"}

\* Ticks beyond which it makes no difference how long ago something was.
LagCap == 2
AgeCap == MaxAge + LagCap + 1
ClockCap == 4 * Limit + LagCap + 1

Observations == [supply : Supplies, age : 0..AgeCap]
Results == [score : {0, 2, 4, 10}, breach : BOOLEAN]
Staged == [supply : Supplies \cup {Unknown}, zero : {"kept", "started", "ended"}]

ASSUME ConstantsAssumption ==
  /\ NoPass \notin Passes
  /\ NumVaults \in Nat
  /\ Reserves # {}
  /\ VaultReserves \in [Vaults -> SUBSET Reserves]
  /\ \A r \in Reserves : \E v \in Vaults : r \in VaultReserves[v]
  /\ Live \subseteq Vaults
  /\ Threshold \in [Vaults -> {1, 3, 5}]
  /\ Supplies \subseteq Nat /\ Supplies # {}
  /\ Rates \subseteq Nat /\ Rates # {}
  /\ MaxAge \in Nat
  /\ Limit \in Nat
  /\ StartPrices \subseteq [Known -> Prices]
  /\ MayChange \subseteq (Mints \X {"supply"}) \cup (Reserves \X {"rate"})
                       \cup (Known \X {"price"})
  /\ MaxEvents \in Nat
  /\ MaxFaults \in Nat
  /\ Unknown \notin Nat \cup Observations
  /\ Drained \notin Nat

VARIABLES
  awaited,   \* the pass the loop waits for
  current,   \* the pass that owns passGeneration
  ticked,    \* a tick has passed since the loop began to rest or to wait
  stage,     \* where each pass is suspended
  view,      \* what each pass has read and gathered
  found,     \* the result of each check of a pass
  staged,    \* the observations each pass has staged
  baseline,  \* previousSupplyByReserve, of both sets of triggers
  rateBase,  \* previousRateByReserve
  clock,     \* zeroPriceSinceByReserve, of both sets of triggers
  supply,    \* chain: the supply of each mint
  rate,      \* chain: cTokens per token of each reserve
  price,     \* chain: the Scope price of each reserve
  blacklisted, \* file: blacklistedReserves; only the command line removes any
  flagged,   \* history: the reserves each vault was last found in danger for
  events, faults

memory == <<baseline, rateBase, clock>>
chain == <<supply, rate, price>>
passVars == <<stage, view, found, staged>>
loopVars == <<awaited, current, ticked>>
bounds == <<events, faults>>
vars == <<loopVars, passVars, memory, chain, blacklisted, flagged, bounds>>

View == [lag : 0..LagCap,               \* ticks since currentLedgerInstant
         blacklist : SUBSET Reserves,   \* blacklistedReserves of the pass
         price : [Known -> Prices],     \* the Scope observations
         rate : [Reserves -> Rates \cup {Drained}], \* the loaded reserves
         market : SUBSET Collateral,    \* the collateral of readable markets
         todo : SUBSET Reserves,        \* the reserves yet to check
         at : 1..(NumVaults + 1),       \* the vault to assess next
         commit : SUBSET Reserves,      \* observationsToCommit
         assessed : SUBSET Reserves]    \* assessedReserves

EmptyView ==
  [lag |-> 0, blacklist |-> {}, price |-> [x \in Known |-> "healthy"],
   rate |-> [r \in Reserves |-> Drained], market |-> {}, todo |-> {}, at |-> 1,
   commit |-> {}, assessed |-> {}]

Safe == [w \in Watches |-> [score |-> 10, breach |-> FALSE]]
Unstaged == [w \in Watches |-> [supply |-> Unknown, zero |-> "kept"]]

TypeOK ==
  /\ awaited \in Passes \cup {NoPass}
  /\ current \in Passes \cup {NoPass}
  /\ ticked \in BOOLEAN
  /\ stage \in [Passes -> Stages]
  /\ view \in [Passes -> View]
  /\ found \in [Passes -> [Watches -> Results]]
  /\ staged \in [Passes -> [Watches -> Staged]]
  /\ baseline \in [Watches -> Observations \cup {Unknown}]
  /\ rateBase \in [Reserves -> Rates \cup {Unknown}]
  /\ clock \in [Watches -> (0..ClockCap) \cup {Unknown}]
  /\ supply \in [Mints -> Supplies]
  /\ rate \in [Reserves -> Rates \cup {Drained}]
  /\ price \in [Known -> Prices]
  /\ blacklisted \subseteq Reserves
  /\ flagged \in [Vaults -> SUBSET Reserves]
  /\ events \in 0..MaxEvents
  /\ faults \in 0..MaxFaults

Init ==
  /\ awaited = NoPass
  /\ current = NoPass
  /\ ticked = FALSE
  /\ stage = [p \in Passes |-> "idle"]
  /\ view = [p \in Passes |-> EmptyView]
  /\ found = [p \in Passes |-> Safe]
  /\ staged = [p \in Passes |-> Unstaged]
  /\ baseline = [w \in Watches |-> Unknown]
  /\ rateBase = [r \in Reserves |-> Unknown]
  /\ clock = [w \in Watches |-> Unknown]
  /\ supply = [m \in Mints |-> CHOOSE s \in Supplies : TRUE]
  /\ rate = [r \in Reserves |-> CHOOSE x \in Rates : TRUE]
  /\ price \in StartPrices
  /\ blacklisted = {}
  /\ flagged = [v \in Vaults |-> {}]
  /\ events = 0
  /\ faults = 0

Fault == faults < MaxFaults /\ faults' = faults + 1

-----------------------------------------------------------------------------
(* The triggers                                                            *)

\* A supply grew by more than half, or out of nothing.
Inflated(old, new) == 2 * (new - old) > old

Expired(p, w) ==
  baseline[w] # Unknown /\ baseline[w].age - view[p].lag > MaxAge

\* infinite-mint against a baseline that has not expired at the pass's instant.
MintBreach(p, w, reading) ==
  /\ baseline[w] # Unknown /\ ~Expired(p, w)
  /\ Inflated(baseline[w].supply, reading)

\* exchange-rate-anomaly: a total loss, or a rate above the committed one.
RateBreach(p, r) ==
  \/ view[p].rate[r] = Drained
  \/ rateBase[r] # Unknown /\ view[p].rate[r] > rateBase[r]

\* stale-price for a zero price, by how long the price has been zero.
ZeroScore(duration) ==
  IF duration > 4 * Limit THEN 0
  ELSE IF duration > 2 * Limit THEN 2
  ELSE IF duration > Limit THEN 4 ELSE 10

\* stale-price, for a feed that goes on publishing.
PriceScore(p, w) ==
  IF view[p].price[w[1]] = "zero" /\ clock[w] # Unknown
    THEN ZeroScore(clock[w] - view[p].lag)
    ELSE 10

\* Faulty variant of ClockChange: every pass that sees a zero starts the clock.
ClockRestarts(p, w) ==
  CASE view[p].price[w[1]] = "healthy" -> "ended"
    [] view[p].price[w[1]] = "zero" -> "started"
    [] OTHER -> "kept"

\* What the check of the price stages for the clock.
ClockChange(p, w) ==
  CASE view[p].price[w[1]] = "healthy" -> "ended"
    [] view[p].price[w[1]] = "zero" /\ clock[w] = Unknown -> "started"
    [] OTHER -> "kept"

\* Faulty variant of Staging: a reading that cannot be compared is dropped.
StagingUnlessExpired(p, w, reading) ==
  [supply |-> IF Expired(p, w) THEN Unknown ELSE reading,
   zero |-> ClockChange(p, w)]

\* The observations that the checks of w stage.
Staging(p, w, reading) ==
  [supply |-> reading, zero |-> ClockChange(p, w)]

\* The result of the checks of w and what they stage, with a supply reading.
Result(p, w, reading, breach) ==
  LET mint == reading # Unknown /\ MintBreach(p, w, reading)
  IN  [breach |-> breach \/ mint,
       score |-> IF breach \/ mint THEN 0 ELSE PriceScore(p, w)]

-----------------------------------------------------------------------------
(* The pass                                                                *)

Idle == {p \in Passes : stage[p] = "idle"}

\* A pass begins: it takes the next generation, reads the blacklist, the
\* markets, the ledger instant and the prices.
StartPass(p, unread) ==
  /\ awaited = NoPass
  /\ p \in Idle /\ p = CHOOSE q \in Idle : TRUE
  /\ IF unread = {} THEN UNCHANGED faults ELSE Fault
  /\ awaited' = p
  /\ current' = p
  /\ ticked' = FALSE
  /\ stage' = [stage EXCEPT ![p] = "collateral"]
  /\ view' = [view EXCEPT ![p] =
       [lag |-> 0, blacklist |-> blacklisted, price |-> price, rate |-> rate,
        market |-> {c \in Collateral : <<c, "market">> \in Watches
                                         /\ Market[c] \notin unread},
        todo |-> Reserves, at |-> 1, commit |-> Reserves, assessed |-> {}]]
  /\ UNCHANGED <<found, staged, memory, chain, blacklisted, flagged, events>>

\* assessMarketCollateral.  A supply that cannot be read leaves the result and
\* the observation of infinite-mint out.
CheckCollateral(p, unread) ==
  /\ stage[p] = "collateral"
  /\ unread \subseteq view[p].market
  /\ IF unread = {} THEN UNCHANGED faults ELSE Fault
  /\ LET Reading(w) == IF w[1] \in unread THEN Unknown ELSE supply[Mint[w[1]]]
         Checked(w) == w[2] = "market" /\ w[1] \in view[p].market
     IN  /\ found' = [found EXCEPT ![p] = [w \in Watches |->
              IF Checked(w) THEN Result(p, w, Reading(w), FALSE) ELSE @[w]]]
         /\ staged' = [staged EXCEPT ![p] = [w \in Watches |->
              IF Checked(w) THEN Staging(p, w, Reading(w)) ELSE @[w]]]
  /\ stage' = [stage EXCEPT ![p] = "reserves"]
  /\ UNCHANGED <<loopVars, view, memory, chain, blacklisted, flagged, events>>

\* assessAllReserves, for one reserve of the vaults.
CheckReserve(p, r) ==
  /\ stage[p] = "reserves"
  /\ r \in view[p].todo /\ r = CHOOSE x \in view[p].todo : TRUE
  /\ view[p].price[r] # "unavailable"
  /\ LET w == <<r, "own">>
         reading == supply[Mint[r]]
     IN  /\ found' = [found EXCEPT ![p][w] =
              Result(p, w, reading, RateBreach(p, r))]
         /\ staged' = [staged EXCEPT ![p][w] = Staging(p, w, reading)]
  /\ view' = [view EXCEPT ![p].todo = @ \ {r}]
  /\ stage' = IF view[p].todo = {r} THEN [stage EXCEPT ![p] = "vaults"] ELSE stage
  /\ UNCHANGED <<loopVars, memory, chain, blacklisted, flagged, bounds>>

\* The checks that count for a reserve.
Reaching(r) == {w \in Watches : r \in Reached(w)}

\* The product of their scores, in tenths to the power of their number.
Product(p, r) ==
  MapThenFoldSet(LAMBDA x, y : x * y, 1, LAMBDA w : found[p][w].score,
                 LAMBDA S : CHOOSE w \in S : TRUE, Reaching(r))

\* The combined safety is below the threshold of the vault's risk appetite: the
\* product is, and a single zero makes it zero.
Dangerous(p, v, r) ==
  \/ \E w \in Reaching(r) : found[p][w].score = 0
  \/ Product(p, r) < Threshold[v] * 10 ^ (Cardinality(Reaching(r)) - 1)

Catastrophic(p, r) == \E w \in Reaching(r) : found[p][w].breach

\* What the pass holds after a vault: a catastrophe that only dry-run vaults have
\* seen, and that is not in the blacklist, is not committed.
AfterVault(p, v, catastrophes) ==
  LET w == [view[p] EXCEPT !.at = @ + 1, !.assessed = @ \cup VaultReserves[v]]
  IN  IF v \in Live
        THEN [w EXCEPT !.blacklist = @ \cup catastrophes,
                       !.commit = @ \cup catastrophes]
        ELSE [w EXCEPT !.commit = @ \ (catastrophes \ w.blacklist)]

\* assessVault: a live vault puts the catastrophes it finds into the blacklist.
AssessVault(p) ==
  LET v == view[p].at
      danger == {r \in VaultReserves[v] : Dangerous(p, v, r)}
      catastrophes == {r \in danger : Catastrophic(p, r)}
  IN  /\ stage[p] = "vaults"
      /\ v <= NumVaults
      /\ current = p
      /\ view' = [view EXCEPT ![p] = AfterVault(p, v, catastrophes)]
      /\ blacklisted' = IF v \in Live THEN blacklisted \cup catastrophes
                                      ELSE blacklisted
      /\ flagged' = [flagged EXCEPT ![v] = danger]
      /\ UNCHANGED <<loopVars, stage, found, staged, memory, chain, bounds>>

\* A vault that could not be loaded or whose response is still in flight.
SkipVault(p) ==
  /\ stage[p] = "vaults"
  /\ view[p].at <= NumVaults
  /\ Fault
  /\ view' = [view EXCEPT ![p].at = @ + 1]
  /\ UNCHANGED <<loopVars, stage, found, staged, memory, chain, blacklisted,
                 flagged, events>>

\* The pass is over, for the loop too if it still waits for it.
End(p) ==
  /\ stage' = [stage EXCEPT ![p] = "idle"]
  /\ view' = [view EXCEPT ![p] = EmptyView]
  /\ found' = [found EXCEPT ![p] = Safe]
  /\ staged' = [staged EXCEPT ![p] = Unstaged]
  /\ current' = IF current = p THEN NoPass ELSE current
  /\ IF awaited = p THEN awaited' = NoPass /\ ticked' = FALSE
                    ELSE UNCHANGED <<awaited, ticked>>

\* Faulty variant of Committed: the reserves of skipped vaults are committed.
CommittedUnassessed(p) ==
  {w \in Watches : /\ Reached(w) \subseteq view[p].commit
                   /\ w[2] = "market" => w[1] \in view[p].market}

\* The watches whose staged observations are committed: the reserves assessed
\* and acted on, and the collateral that reaches none but these.
Committed(p) ==
  LET done == view[p].commit \cap view[p].assessed
  IN  {w \in Watches : /\ Reached(w) \subseteq done
                       /\ w[2] = "market" => w[1] \in view[p].market}

\* commitPassObservations.
Commit(p) ==
  /\ stage[p] = "vaults"
  /\ view[p].at > NumVaults
  /\ current = p
  /\ baseline' = [w \in Watches |->
       IF w \in Committed(p) /\ staged[p][w].supply # Unknown
         THEN [supply |-> staged[p][w].supply, age |-> view[p].lag]
         ELSE baseline[w]]
  /\ rateBase' = [r \in Reserves |->
       IF <<r, "own">> \in Committed(p) /\ view[p].rate[r] # Drained
         THEN view[p].rate[r] ELSE rateBase[r]]
  /\ clock' = [w \in Watches |->
       IF w \notin Committed(p) \/ staged[p][w].zero = "kept" THEN clock[w]
       ELSE IF staged[p][w].zero = "started" THEN view[p].lag ELSE Unknown]
  /\ End(p)
  /\ UNCHANGED <<chain, blacklisted, flagged, bounds>>

\* A superseded pass stops where it checks its generation.
Abandon(p) ==
  /\ stage[p] = "vaults"
  /\ current # p
  /\ End(p)
  /\ UNCHANGED <<memory, chain, blacklisted, flagged, bounds>>

\* Without its Scope price a vault reserve cannot be checked: the pass throws.
CannotCheck(p) ==
  /\ stage[p] = "reserves"
  /\ view[p].price[CHOOSE x \in view[p].todo : TRUE] = "unavailable"
  /\ End(p)
  /\ UNCHANGED <<memory, chain, blacklisted, flagged, bounds>>

\* A read of the pass, or its write of the blacklist, fails.
PassFails(p) ==
  /\ stage[p] # "idle"
  /\ Fault
  /\ End(p)
  /\ UNCHANGED <<memory, chain, blacklisted, flagged, events>>

\* The watchdog gives up on the pass, which runs on.
TimeOut ==
  /\ awaited # NoPass
  /\ Fault
  /\ awaited' = NoPass
  /\ ticked' = FALSE
  /\ UNCHANGED <<current, passVars, memory, chain, blacklisted, flagged, events>>

\* The process restarts: only the file and the chain are left.
Restart ==
  /\ Fault
  /\ awaited' = NoPass
  /\ current' = NoPass
  /\ ticked' = FALSE
  /\ stage' = [p \in Passes |-> "idle"]
  /\ view' = [p \in Passes |-> EmptyView]
  /\ found' = [p \in Passes |-> Safe]
  /\ staged' = [p \in Passes |-> Unstaged]
  /\ baseline' = [w \in Watches |-> Unknown]
  /\ rateBase' = [r \in Reserves |-> Unknown]
  /\ clock' = [w \in Watches |-> Unknown]
  /\ UNCHANGED <<chain, blacklisted, flagged, events>>

-----------------------------------------------------------------------------
(* The chain and time                                                      *)

Event == events < MaxEvents /\ events' = events + 1

MintOrBurn(m) ==
  /\ Event
  /\ <<m, "supply">> \in MayChange
  /\ \E s \in Supplies \ {supply[m]} : supply' = [supply EXCEPT ![m] = s]
  /\ UNCHANGED <<loopVars, passVars, memory, rate, price, blacklisted, flagged,
                 faults>>

\* A reserve loses liquidity, some of it or all.
Lose(r) ==
  /\ Event
  /\ <<r, "rate">> \in MayChange
  /\ rate[r] # Drained
  /\ \E x \in {y \in Rates : y > rate[r]} \cup {Drained} :
       rate' = [rate EXCEPT ![r] = x]
  /\ UNCHANGED <<loopVars, passVars, memory, supply, price, blacklisted, flagged,
                 faults>>

\* A price changes.  That it can be read again is not counted as an event.
Reprice(x) ==
  /\ IF price[x] = "unavailable" THEN UNCHANGED events ELSE Event
  /\ <<x, "price">> \in MayChange
  /\ \E q \in Prices \ {price[x]} : price' = [price EXCEPT ![x] = q]
  /\ UNCHANGED <<loopVars, passVars, memory, supply, rate, blacklisted, flagged,
                 faults>>

Later(n, cap) == IF n < cap THEN n + 1 ELSE cap

Tick ==
  /\ ~ticked
  /\ ticked' = TRUE
  /\ view' = [p \in Passes |->
       IF stage[p] = "idle" THEN view[p]
                            ELSE [view[p] EXCEPT !.lag = Later(@, LagCap)]]
  /\ baseline' = [w \in Watches |->
       IF baseline[w] = Unknown THEN Unknown
                                ELSE [baseline[w] EXCEPT !.age = Later(@, AgeCap)]]
  /\ clock' = [w \in Watches |->
       IF clock[w] = Unknown THEN Unknown ELSE Later(clock[w], ClockCap)]
  /\ UNCHANGED <<awaited, current, stage, found, staged, rateBase, chain,
                 blacklisted, flagged, bounds>>

Step(p) ==
  \/ CheckCollateral(p, {})
  \/ \E r \in Reserves : CheckReserve(p, r)
  \/ AssessVault(p)
  \/ Commit(p)
  \/ Abandon(p)
  \/ CannotCheck(p)

Next ==
  \/ \E p \in Passes :
       \/ \E unread \in SUBSET {Market[r] : r \in Reserves} : StartPass(p, unread)
       \/ \E unread \in (SUBSET Collateral) \ {{}} : CheckCollateral(p, unread)
       \/ Step(p)
       \/ SkipVault(p)
       \/ PassFails(p)
  \/ TimeOut
  \/ Restart
  \/ \E m \in Mints : MintOrBurn(m)
  \/ \E r \in Reserves : Lose(r)
  \/ \E x \in Known : Reprice(x)
  \/ Tick

Spec == Init /\ [][Next]_vars

\* Time passes, the loop starts passes, and every read comes to an end.
Fairness ==
  /\ WF_vars(Tick)
  /\ WF_vars(\E p \in Passes : StartPass(p, {}))
  /\ \A p \in Passes : WF_vars(Step(p))

FairSpec == Spec /\ Fairness

-----------------------------------------------------------------------------
(* Properties                                                              *)

Fresh(w) == baseline[w] # Unknown /\ baseline[w].age <= MaxAge

\* A jump of a supply or of an exchange rate does not become normal unseen: a
\* baseline moves over it only when every vault reserve it counts for is in the
\* blacklist, whichever pass staged it, whichever vaults are dry-run or skipped
\* and whatever reserves share the mint.
BreachNeverAbsorbed ==
  [][/\ \A w \in Watches :
          Fresh(w) /\ baseline'[w] # Unknown
            /\ Inflated(baseline[w].supply, baseline'[w].supply)
            => Reached(w) \subseteq blacklisted
     /\ \A r \in Reserves :
          rateBase[r] # Unknown /\ rateBase'[r] # Unknown /\ rateBase'[r] > rateBase[r]
            => r \in blacklisted]_vars

Readable == \A r \in Reserves : price[r] # "unavailable"

\* The watches whose danger some live vault would have to act on.
Watched == {w \in Watches : \E v \in Live : Reached(w) \cap VaultReserves[v] # {}}

\* Once the prices of the vault reserves can be read, the infinite-mint check has
\* a baseline for whatever a live vault depends on: again and again, one that has
\* not expired.
MintsStayWatched ==
  <>[]Readable => []<>(\A w \in Watched : Fresh(w))

\* A price that stays zero is left in the end by every live vault it counts for,
\* although passes fail, are superseded or lost on the way.
LastingZeroIsLeft ==
  \A v \in Live : \A r \in VaultReserves[v] :
    (<>[]Readable /\ <>[](\E w \in Reaching(r) : price[w[1]] = "zero"))
      => <>[](r \in flagged[v])

=============================================================================
