# Formal models of the vault bot

The bot keeps lending vaults invested. It moves the weights of a vault between
the reserves of the lending market, sends the invest instructions that make the
holdings follow the weights, and leaves a reserve in an emergency. It does this
with `await` between almost any two decisions, in two threads and several
processes, over an RPC that loses answers. The TLA+ modules in this directory
model that control flow, TLC checks them on small instances, and TLAPS proves
some of the results for every value of the constants.

`PROJECT.json` lists the runs, the theorems, the source lines of every
definition, the hazards each property is for, and for every property a plausible
fault of the code (the `Faulty variant` definitions) that breaks it.

## 1. The system

| Component | State | Operations |
|---|---|---|
| Allocation loop (`allocation_loop.ts`) | schedule of vaults, danger pass tracker | load vaults, run a danger pass under a watchdog, reconcile deposit freezes, rebalance due vaults, sleep |
| Danger coordinator (`danger/dangerCoordinator.ts`) | pass generation, responses in flight | assess each vault, record, respond, clear evacuations, commit observations |
| Danger detector and triggers (`danger/dangerDetector.ts`, `danger/triggers`, `danger/marketCollateral.ts`) | baselines and zero-price clocks of reserves and of market collateral, staged observations, reinvest cooldowns | check, stage, score, filter, commit |
| Danger response (`danger/dangerResponse.ts`, `danger/deinvestFailures.ts`) | failed broadcasts per reserve | zero weights, reload, withdraw in batches |
| Blacklist file (`danger/blacklistStore.ts`) | blacklist, pending evacuations, deposit freezes; a lock file | locked read-modify-write; commands of `cli.ts` |
| Deposit freezes (`danger/depositFreezes.ts`) | journal of frozen caps in that file | freeze, resend, lower, restore, drop |
| Allocation worker and supervisor (`allocation_worker.ts`, `allocationWorkerSupervisor.ts`, `index.ts`) | worker thread, restart budget, shutdown | start, restart, handle messages, stop |
| Loop health (`utils/loopHealth.ts`) | last heartbeat of each loop, alarm | publish readiness |
| Invest loop (`investing_loop.ts`, `investing/`, `utils/investReserves.ts`) | invest cooldowns, slots of landed invests | decide, plan, send, cool down |
| Transaction sending (`src/tx/src/instruction.ts`, `utils/reserveBatches.ts`) | attempt, blockhash | simulate, broadcast, confirm, look up, retry |
| Vault rebalance (`allocationsRebalance/dueVaults.ts`, `vaultRebalance.ts`) | last rebalance, retry delay and failures of each vault | select the due vaults, compute, send, invest, record the outcome |
| Strategies (`allocationsRebalance/strategies`, `utils`, `drift.ts`) | none between passes | choose a target, drift towards it, constrain, build the update |
| Configuration, swaps, wallet, prices, token flags, fees, logger | caches | reads of files and services |

How they interact:

- The allocation loop runs in a worker thread. It posts heartbeats, completed
  passes, the danger alarm and the reserves that get no new funds to the main
  thread, which supervises it, publishes readiness and runs the invest loop.
- Within the worker a danger pass may outlive its watchdog. Passes share the
  coordinator and are kept apart by the pass generation and the table of active
  responses.
- The bot and the command line share the blacklist file, guarded by a lock file.
  The invest loop of the main thread reads it without a lock.
- Everything meets on chain: the rebalance, the responses, the cap updates, the
  invests of both threads, operators and users change the same vault, and each
  actor works with a state it loaded some time before.

What is hard, and what makes each part correct:

- *Danger pass.* Timeouts that do not cancel, supersession between any two
  awaits, a crash between two writes, a baseline that must not move before its
  breach is on disk. Correct: responses never overlap on a vault, a superseded
  pass is inert, a catastrophe is never forgotten, an evacuation leaves the file
  only when the vault has been seen out, and no update sent after an evacuation is
  known exposes the vault again.
- *Blacklist file.* Two processes between any two system calls, killed ones,
  stale locks. Correct: no update is lost, and a lock left behind is taken over.
- *Deposit freezes.* Lost confirmations and failed writes between chain and
  journal. Correct: a cap that is not the operator's is on record, and restored.
- *Supervisor and health.* Error, messages and exit in turn, timers and
  signals in between. Correct: one worker, bounded restarts, an alarm that shows
  and clears, a shutdown that stops the worker first and ends.
- *Response and sending.* Unknown outcomes, retries of what may have happened,
  one bad reserve in a batch. Correct: nothing executes twice, a bad reserve
  stops nobody else, the report is what the ledger says.
- *Invest loop.* Decision, plan and send see three different states. Correct:
  no deposit where it was known not to be allowed, the right reserve gets the
  cooldown, nothing is left idle for the fault of another.
- *Trigger baselines.* What a check has seen becomes normal only by a commit,
  which dry-run and skipped vaults, shared mints, shared markets and superseded
  passes delay; baselines expire. Correct: no jump becomes normal unseen, the
  checks do not fall asleep, a lasting zero is left.
- *Vault rebalance.* Updates that are lost, strategies and farm data that always
  fail, retry delays beside frequencies. Correct: only a real rebalance counts,
  everyone is served, a blacklisted reserve loses its weight and gets nothing.
- *Strategies.* Two token projections, rounding, redistribution, a search that
  skips. Correct: weights in reach of every reserve and its utilization cap, no
  share diluted, and an unchanged market leads to rest.

## 2. Modules

| Module | Models | Proofs |
|---|---|---|
| `DangerPass` | allocation loop, coordinator, detector, blacklist content, chain exposure | `DangerPassProofs` |
| `TriggerBaselines` | the triggers with a memory, market collateral, staging and commit over time | `TriggerBaselinesProofs` |
| `BlacklistFile` | abstract: what users of the blacklist file rely on | |
| `BlacklistLock` | lock file protocol, shown to implement `BlacklistFile` | `BlacklistStoreProofs` |
| `DepositFreeze` | deposit freezes and the rebalance that follows | `BlacklistStoreProofs` |
| `WorkerSupervisor` | worker, supervisor, health, shutdown | `WorkerSupervisorProofs` |
| `SendTransaction` | one call of `sendAndConfirmTransactionV0`, and the ledger | |
| `ReserveBatches` | extends `SendTransaction` with the emergency response | `ReserveBatchesProofs` |
| `InvestLoop` | the invest loop and one vault beside the worker thread | `InvestLoopProofs` |
| `AllocationConstraints`, `Drift`, `GridSearch` | the arithmetic of weights, drift and search | `StrategyProofs` |
| `StrategyPass` | extends these three with the rebalance of one vault over many passes | `StrategyProofs` |
| `VaultRebalance` | the schedule of all vaults and what the outcome of a rebalance does to it | `VaultRebalanceProofs` |

`MC*.tla` give the sets of an instance that a `.cfg` cannot write.

The models overlap where components meet, each abstracting what another details:
`DangerPass` sees a response as transactions that land or not, of which
`ReserveBatches` has the stages; it sees a breach as a reserve that differs from
its baseline, of which `TriggerBaselines` has the history. `VaultRebalance` takes
the danger pass as a step that clears vaults and hands over a blacklist, and a
strategy as a choice of reserves, of which `StrategyPass` has the weights.

### DangerPass

A pass is suspended at an await, and `phase` says at which one; the synchronous code
between two awaits is one action, named after what it decides (`DecideDanger`,
`DecideEvacuation`, `DecideEnforcement`, `DecideClear`). `view[p]` is what pass
`p` has read: the exposure loaded when it started, reloaded after a response.
Pass slots stand for generations, which the code only compares for equality.
`exposure` is what a vault holds or gives weight to on chain. A response sends
one transaction per reserve, which lands or is lost; `ReserveBatches` has its
stages. `Timeout` frees the loop but not the pass. `Restart` wipes memory and
keeps file and chain; it also forgets baselines, so a breach before the first
observation is safe by definition, as in the code. Manual changes of weights by
operators are left out, and a reinvest cooldown ends at any time.

An update of weights or caps whose outcome stays unknown, or that is under way at
a restart, lands at any time until its blockhash expires (`late`,
`RebalanceUnresolved`, `LandLate`), whatever a later danger pass does meanwhile. It
may give a reserve weight that has been blacklisted, flagged or evacuated since.
A deposit freeze carries the weight the pass has loaded, so it may bring one back
too (`Grantable`). `regained` notes the reserves exposed again in this way. An
evacuation may be cleared while its reserve is exposed again, since the update may
land between the refreshed state and the clear: `EvacuationConfirmed` allows for
just that, `NoReexposure` counts the exposure that the bot newly sends, and `Evacuated`
says that the reserve is left in the end nevertheless. A rebalance that shrinks
the exposure is left out: the response does that, and with it the instance has
8.7 million states.

A loop that throws is started again inside its worker (`recursiveTryCatch`). In
the allocation loop every call of an iteration that may fail is behind `attempt` or a
catch, so only a programming error gets there; `Restart` is that of the process.

### TriggerBaselines

`Watches` are the pairs that are checked: a vault reserve for itself, and a
collateral reserve for every vault reserve of its market. The two have triggers,
baselines and clocks of their own. A pass reads blacklist, markets, ledger
instant and prices when it starts; the rates come with the reserves it was given;
supplies are read check by check, so that two reserves with one mint may
see different ones. What a check stages is kept per pass, as the code keeps it
per generation: the observation of an older pass is never committed. A price of a
vault reserve that cannot be read aborts the pass, that of a collateral only
leaves its clock alone. Scores multiply; a zero makes the product zero.

Time is relative: ages and clocks grow with `Tick`, and `lag` is how far the
instant of a pass lies behind. The loop rests and awaits for less than a tick
each (`ticked`), while an abandoned pass may take any time. Exit liquidity,
dominant depositor, the triggers without memory, publish ages, the exposure
filter, responses and the operator's commands are left out.

### BlacklistLock

Each system call of `acquireBlacklistLock` and `updateBlacklistFile` is a step.
The content of the file is the set of updates it results from, so a lost update
is a set that shrinks. Processes have distinct pids, so their temporary files
do not meet. `MaxStale` bounds how often a lock outlives the 30 s window, because
its holder was killed or is slow.

`BlacklistFile` is the abstract file: a call begins, its update is applied in one
step on top of all others, or it ends without. `UpdatesAreAtomic` is the
refinement, with `pending` the updates called and not over, up to
the first stale lock; after that it does not hold (section 6).

### DepositFreeze

One reserve of one vault: `chain`, the bot's `cached` copy, the journal
`record` and the update under way. The order of the code is kept: freezes are
recorded before they are sent, restores and lowerings after. Faults hit
the decision, the send (landed or not), the record and the reload. Interest is
ignored. Any update that the bot gives up, of a cap or of a weight, may land until
its blockhash expires (`lingering`, `LandLate`, `Expire`); a weight update carries
the cap of the cached state with it. The operator, who may lower a cap as well as
raise it, acts between passes and while nothing lingers.

The code tells its freezes by the cap alone, and some changes it cannot tell from
the file: a late update whose record has been dropped or lowered, or is about to be
by the pass under way, and an operator's cap at or below the frozen one.
`unnoticed` notes the first of them. `Journaled`, `CapRestored` and
`RestoresOperatorCap` hold up to there; the `.cfg` files of section 6 show that they
do not hold after it. `DepositsClosed` holds throughout.

### WorkerSupervisor

The worker with its phase in the loop and its danger pass tracker, the inbox of
the main thread, the supervisor and the health. Messages are handled in order
and the exit last. One slot holds the worker, since a start only follows a handled
exit; `OneWorker` checks just that. Every worker reads the allocation config
again. If it is empty, the loop beats without loading a vault (`BootIdle`), and an
alarm raised by an earlier worker stays. A signal may come at any time, also before
there is a supervisor to stop (`early`): then start-up goes on and creates a worker
that nobody stops, which is the exception in `WorkerStopsFirst` and `OneWorker`. A
rejected `terminate()` and the disabled health server are left out, and the
no-new-funds message is in `InvestLoop`.

### SendTransaction and ReserveBatches

A call simulates, broadcasts and confirms; if the confirmation fails it looks the
transaction up, and builds it again only if it has expired and was not found.
The ledger executes, rejects or drops a broadcast transaction at any time,
also after the call has thrown. Lookups do not lag behind the ledger for longer
than they poll. Repeated broadcasts of the same signed transaction, compute
budgets and the recovery of lookup tables, which never resends, are left out.

`ReserveBatches` is one emergency response: zero the weights in batches, reload,
withdraw in batches behind the preamble, retry a failed batch reserve by
reserve, force a transaction past a failed simulation while no reserve of it has
used up its limit. Weights and funds are re-read at the start of a response, so
they are arbitrary there. A plan whose instructions cannot be attributed to
reserves goes out in plain batches and is left out.

### InvestLoop

The view loaded at the start of the pass, the exclusions the decision read, the
plan the SDK built from a fresh load, and the exclusions read again: four points
in time between which the worker, bounded by `MaxEvents`, rebalances, invests,
blacklists and evacuates, and tells new exclusions. An instruction moves its
reserve to the target of the moment of its execution, or fails for a reason of
its own, for lack of idle funds or because there is nothing to move. A
transaction is one step with its three outcomes. The vault is always due:
the slots between invests, the funding of crank fees, the cap on one move, user
deposits and the plan without attribution are left out. A worker that dies
between the blacklist entry and the pending evacuation is in `DangerPass`. A
blacklist file that cannot be read throws out of the loop, which starts again
without its cooldowns.

### AllocationConstraints, Drift, GridSearch, StrategyPass

The code computes with decimals. Here a vector of fractional weights is a
function of integers with their common denominator, and comparisons are
cross-multiplied, so rounding happens where the code rounds and nowhere else.
`GridSearch` has the phases of `maxYieldOptimizers.ts`: coarse grid, windows
around the best points, the bound on candidates. `StrategyPass` is one vault: a
pass takes one snapshot, computes target, drift, constraints and update, sends it
or not, checks the utilization cap and invests; reserves, blacklist and cooldowns
change between passes. The SDK is external: it projects weights into tokens in
proportion, its yield falls with the tokens put in, and the utilization cap is a
bound on the tokens that move. Token caps of reserves are left out of the
projection. The search may run out of its budget. The bisection for a capped
drift has `Parts` fractions instead of 48 halvings. The drift of capped holdings
is exact where the code tolerates one lamport; scores that the code holds equal
after twenty digits go to the first in vault order; the coarse grid is assumed to lie
on the fine one. A vault with a reserve that did not load never gets here.

### VaultRebalance

Time since the last rebalance (`age`) and to the next retry (`wait`), in units of
which the longer frequencies are multiples. A pass selects the due vaults and
takes one after the other: load farm data, compute, send, reload and check the
vault, then plan and send the invest, whose tokens go by the weights on chain at that
time. Between any two of these an update that was given up before may land (`late`), one
by one for each reserve, and give weight to a blacklisted one: `risen` notes it
between the check and the invest, `overtaken` after the vault's own update.
Configurations may have farm data or a strategy that always fails, a signer that
cannot sign, a dry run, or updates that never fit in a transaction (`TooLarge`); the
zeros of those vaults are left to the danger pass, whose batches are smaller. The filter
of reserves in cooldown, which this invest has in common with the invest loop, is in
`InvestLoop`. The blacklist changes
at any time, and the pass goes by what the danger pass saw. `MaxFailures` caps
the exponent of the retry delay, which is capped by the frequency anyway. The
refresh of the KaminoManager may shorten the sleep. The settle sleep between
update and invest, and shutdown during it, are left to `WorkerSupervisor`.

## 3. Runs

| Run | Question | Distinct states |
|---|---|---|
| `DangerPass_mixed` | Can any interleaving of two passes, a timeout, faults and an operator break the safety of danger passes, with a live and a dry-run vault that share the reserve that breaches? | 4,657,565 |
| `DangerPass_live` | Is a breach acted upon and are two live vaults evacuated in the end? | 863,422 |
| `BlacklistLock_recovery` | Are the updates of three processes, killed or delayed anywhere, atomic until a lock goes stale, and is a lock left behind taken over? | 625,296 |
| `DepositFreeze_journal` | Is a frozen cap always on record, closed while excluded and restored after, whatever lands late, as far as the file can tell? | 1,628,073 |
| `WorkerSupervisor_loop` | Are workers single, restarts bounded, alarms cleared, shutdowns finished, at whatever time the signal comes? | 564,202 |
| `ReserveBatches_send` | Is anything executed twice, forced past the limit, blocked by another reserve or misreported? | 672,625 |
| `InvestLoop_worker` | Do deposits respect gate and exclusions, cooldowns hit the right reserve, and do funds not lie idle? | 302,162 |
| `StrategyPass_market` | Do the weights of every strategy stay in reach of the reserves, dilute nobody and come to rest? | 277,010 |
| `VaultRebalance_pass` | Is every vault served, only a real rebalance counted, the blacklist enforced and respected, with updates that land late? | 773,759 |
| `TriggerBaselines_shared` | Does no jump become normal unseen, does every check keep its baseline, is a lasting zero left? | 801,623 |

Two more runs, `BlacklistLock_stale` and `TriggerBaselines_dryrun`, end in a
violation: each states what a comment says, and TLC shows that the code does
otherwise (section 6). The `.cfg` files that no run uses are instances to try by
hand; sections 5 and 6 say what for.

### Bounds

- `DangerPass_mixed`: two running passes (one abandoned, one current), two
  vaults, two reserves, two faults and one clear. A third pass makes the
  instance too large for a run; the theorems cover any number of
  passes. A reserve that only breaches and one that is only flagged, in
  a live and a dry-run vault, give the order problems of commits; swapping passes
  is a symmetry. The faults bound the updates of unknown outcome too: two may
  be on their way at once. `DangerPass_live` has no symmetry, one reserve in both
  vaults and one fault, after which the system must recover. A third fault has
  been too much for a run.
- `BlacklistLock`: two contenders are needed for a race and a third to use the
  lock that was removed wrongly. Two updates each show a stale local copy.
- `DepositFreeze`: caps 0 to 3 distinguish the original cap, two frozen caps and
  an empty reserve; two faults are enough for an update that lands late and a record,
  reload or second send that fails, or for two updates that land in either order. One
  change by the operator may come at any of the times it can. The theorems cover
  any numbers.
- `WorkerSupervisor_loop`: the real limits of the code for restarts and failed
  passes, an inbox of three messages (a worker posts at most that between
  two awaits); heartbeats leave room for the other messages. The signal comes at
  any time, start-up included, and any worker may find the configuration empty.
- `ReserveBatches_send`: the real limits (three attempts, batches of two, three
  failures). Three reserves make a batch of two and a batch of one. The second
  is never rejected, so it shows what the other two do to it. A preamble of up
  to three instructions fills a transaction of its own and a part of the next.
- `InvestLoop_worker`: three reserves, the first may break, the second be
  excluded, the third be blacklisted; two tokens allow a deposit that needs a
  withdrawal, and three events are enough for a weight that rises, a
  blacklisting and one more. Four events pass as well, by hand (1,638,296 states).
- `StrategyPass_market`: three reserves and six tokens, a grid of six, so that
  every rounding falls between; twelve plans, one or more for each strategy
  with and without drift and cap; three starts, one with no weight; two markets, in
  which another reserve pays best, is at its limit or does not answer. RANDOM draws
  one vector.
- `VaultRebalance_pass`: two vaults of frequency 3 and 1 with a danger pass every
  2, so that one is due while the other waits; four configurations for what
  may always fail; two faults, and one update at a time that may land late, since a
  second needs both faults and leaves none for the pass it meets.
- `TriggerBaselines_shared`: two vault reserves that share mint and market and a
  collateral that reaches both; a dry-run vault inside a live one, with different
  risk appetites. Two passes, a baseline that expires after two ticks, a limit of
  one tick for a zero price. One event (apart from a price that can be read
  again) and one fault. Two events pass for `BreachNeverAbsorbed`, by hand
  (2.5 million states), and the theorem has no bound.

### Fairness

Weak fairness is only assumed of the bot's own steps: an event loop runs what
is ready, timers fire, promises settle because every call has a timeout.
`DangerPass` assumes it for each pass, the start of passes and the sleep;
`DepositFreeze` for the pass; `WorkerSupervisor` for the worker's pass, the
handling of what was posted, starts, restart timers and the two steps of the
shutdown; `BlacklistLock` for each process that is not killed and for the age of
a lock; `InvestLoop` for the loop, each cooldown and the response of the worker,
which is retried every pass; `StrategyPass` for the loop; `VaultRebalance` for
time and the loop; `TriggerBaselines` for time, the start of passes with all
markets readable, and each pass. Faults and what outsiders do are bounded by
counters and never fair, so liveness says what happens once they stop. Deadlock is
checked except where the system may stop: processes that have made their
updates, and a bot that has shut down.

## 4. Properties

Every property has a comment in its module. The ones that carry most:

- `SupersededPassIsInert`, `ResponseExclusive`, `CatastropheRemembered`,
  `NoReexposure`, `EvacuationConfirmed`, `CatastropheActedOn`, `Evacuated`.
- `UpdatesAreAtomic`, `LockRecovered`; `NoLostUpdate` in the run that refutes it.
- `Journaled`, `CapRestored`, `DepositsClosed`.
- `NotReadyUnlessWorking`, `AlarmClears`, `OneWorker`, `WorkerStopsFirst`,
  `RestartsBounded`, `ShutdownEnds`.
- `ExecutedAtMostOnce`, `ForceLimited`, `OthersNotStopped`, `OutcomeTruthful`.
- `ExclusionsHonoured`, `NoDepositOnceKnown`, `NoReserveBlamedForAnother`,
  `NothingLiesIdle`.
- `WithinCapacity`, `BoundsAgree`, `InvestWithinCap`, `SharesKept`, `SearchSound`,
  `Settles`.
- `DoneIsDone`, `InvestGuarded`, `Served`, `Enforced`.
- `BreachNeverAbsorbed`, `MintsStayWatched`, `LastingZeroIsLeft`.

`NoDepositOnceKnown` speaks of evacuations written down when the gate is passed.
The blacklist entry and the pending evacuation are two writes; a main thread that
reads the file between them, with a vault loaded before it had a weight in the
reserve, passes the gate. The response that follows withdraws such a deposit.

## 5. Proofs

Every proof module starts from the assumptions its module states on the
constants; what a proof assumes beyond them is said here.

- `DangerPassProofs`. The first invariant is `TypeOK`
  with `AtVault` (a pass in the middle of a vault is at a vault), `Registered`
  (a response in flight is registered, under its vault, by its pass),
  `Undisturbed` and `Owned` (when no pass is current, all are idle). Exclusion
  alone is not inductive: that a vault is free when a pass
  responds follows from the registration, not from the phases. `TypeCorrect`,
  `ExclusiveResponses` and `SupersededInert` follow. On top of it,
  `Remembering` says what the current pass will commit and has blacklisted, which
  gives `CatastrophesRemembered`; `Resting`, `Confirmed` and `Informed` say what
  the pass that the loop follows knows: all of the blacklist, and the evacuations
  of the vault it decides on; what is exposed beyond that has been `regained` by a
  late update. From these, `EvacuationsConfirmed` and `NeverReexposed`.
- `TriggerBaselinesProofs`. `NeverAbsorbed` looks one step back: what is committed
  was staged, so each jump in it must have been found when it was staged and
  still be one now. `MintFound` and `RateFound` say so of the current pass,
  for which baselines stay put or expire meanwhile; `BreachScored` that no risk
  appetite overlooks a breach; `ActedOn` that a reserve in a catastrophe is
  committed only when it is in the blacklist; `IdleStaged` that nothing is left
  staged for the next pass.
- `BlacklistStoreProofs`. *The lock.* Up to the first stale lock, `Owner`: whoever
  is between open and release owns the lock file, and `UpToDate`: what it has read
  is still the content. `FreshLockIsAtomic` is the refinement, step by step.
  `FreshLockKeepsUpdates` and `LockImplementsFile` are about locks that never go
  stale (`MaxStale = 0`).
  *The freezes*, for any number of faults, late updates and changes by the operator.
  The invariant holds up to the first change that is `unnoticed`:
  `Journaled` needs `Apart` (the operator's cap is above the recorded frozen one),
  `Cached` (what the bot has loaded agrees with chain and record where it
  decides) and `Updating` (the update under way fits the record). Two parts hold
  throughout: the types, and `UpdateOnRecord`, that there is a record while an
  update is under way. `FreezeJournaled` and `RestoreExactCap` follow;
  `DepositFreeze_lowered.cfg` and `DepositFreeze_late.cfg` show that `unnoticed` is
  needed, as they violate `Accountable`, which is `Journaled` without it.
- `WorkerSupervisorProofs`. `Posts`: an exit is the last
  message of a worker. `Supervised`: a restart is pending only between two
  workers. `Evidence`: whatever says that the loop works has loaded a vault or
  has none to load.
  `Published`: readiness is what was published last. `ReadyMeansWorking`,
  `StopsWorkerFirst` and `NeverTwoWorkers` follow, for a signal at any time: the
  first says the same of an early one, the other two name it as their exception, and
  `WorkerSupervisor_early.cfg` shows that it is one.
  `RestartsSpendCredit` needs no exception. `Credit` counts the pending restart,
  the rest of the budget and a new budget for every completed pass that is still
  in the inbox. It is a natural number that only a completed pass can raise, and each
  restart lowers it: this is what bounds the restarts in `RestartsBounded`.
- `ReserveBatchesProofs`. `Places` and `Attempts` follow one transaction through
  its attempts, `Executed` ties the ledger to the batches, `Reported` the
  outcomes; `Verdicted` and `Counted` add what a rejection was for.
  `NeverTwice`, `ReportTruthful`, `ForcedWithinLimit`, `OthersGoOn` follow.
  `ResponsesEnd`: `StepsLeft` is a natural number that every step of a response and of
  its calls lowers. It weighs the stages left, then the calls (two for a reserve
  that waits in a batch, as it may be sent again by itself, one for a reserve
  that is sent again), then the attempts.
- `InvestLoopProofs`. `Honoured`: a plan has no instruction for what was excluded
  before it was built; `Weightless`: what is known to be evacuating has no weight
  (`KnownIsWeightless`), so that an instruction for it can only withdraw
  (`KnownGetsNoDeposit`). `NobodyBlamedForAnother` needs `Accounted`: an instruction
  that did not land is still to be sent or was left out, and the plan is sent in its
  order, so that no withdrawal is owed to a deposit that is refused.
- `StrategyProofs`. The functions summed over a finite set come with no
  induction, so each claim about sums takes the smallest set for which it fails.
  On that rest the ranks of the largest remainders (every rank is taken once)
  and rounding: `NormalizeWeightsToTotal` returns whole weights that meet the
  total.
  - `InvestsWithinCap` with `Filtered`: weights that wait to be sent have passed
    the filter and leave the reserves in cooldown alone, so that they still pass
    once they are on chain.
  - `TypeCorrect` with `Landed`: what has been sent is what is on chain. Its work is
    in the algorithms: search, drift, constraint pass and rounding keep weights
    whole and never negative.
  - `WritesWithinCapacity` and `WritesKeepShares` (`SharesKept`), the two promises about
    what a pass writes.
  - `SearchIsSound`: the windows and the bound on candidates lose no coarse point
    that is better. `ProjectionsAgree` (`BoundsAgree`): whole weights within the bounds
    of the constraint pass are within the capacity of every reserve, in the canonical
    projection too.
  - Two loops are recursive functions. A general lemma says that a loop whose
    measure falls is the function that its equation says. `BisectionFindsEdge` and
    `RedistributionSucceeds` follow: the bisection ends at the edge of what is safe, and
    the redistribution meets the total whenever the bounds allow for it, so that neither
    the loop of `applyIntegerWeightDifference` nor its last check fails.
- `VaultRebalanceProofs`. `InvestsGuarded`: from the check to the invest the weight in
  blacklisted reserves is at most what has `risen` late, because the check is of the
  chain and not of what was sent. `RebalancesDone`: what is on chain after the vault's own update
  is that update, unless it is `overtaken`. `RetriesBackOff`: a retry waits one pass interval, then
  twice as long each time until it waits as long as the frequency, and
  `TypeCorrect` that no vault ever waits longer than that. The power of two is
  a recursive function, defined because each of its segments is.

Only `FreshLockKeepsUpdates` and `LockImplementsFile` assume more than the constants'
types (`MaxStale = 0`), and no theorem bounds the passes, vaults, reserves or faults. Every invariant and every action property of a run is a
theorem, except those a finding shows not to hold. Only model-checked is liveness, which
is out of the prover's reach: `RestartsSpendCredit` and `ResponsesEnd` prove the
descent, but the step from there to "in the end" stays with TLC. Type invariants that
no run lists are part of the inductive invariants.

## 6. Findings

All are disagreements between the code and what the repository says of it. Two
are runs:

- `BlacklistLock_stale`: two processes that find the same stale lock file both
  take it over, and an update is lost (`blacklistStore.ts:238`).
- `TriggerBaselines_dryrun`: a catastrophe in a reserve that only a dry-run vault
  holds is never committed, so neither is any collateral that reaches that reserve
  (`marketCollateral.ts:131`, `dangerCoordinator.ts:494`). While it lasts, the
  supply baseline of the collateral is not taken, or expires and is not replaced
  by "the next reading" (`infiniteMintTrigger.ts:26`), and an infinite mint of
  the collateral goes unseen for the live vaults of the market. The clock of a zero
  price of that collateral does not move either.

Others are instances to run by hand, with the property named in the `.cfg`:

- `DepositFreeze_late.cfg` (`Accountable`): a freeze that the bot sent before it
  crashed, or gave up, lands after its reserve has recovered and its record was
  dropped (`depositFreezes.ts:185`); line 194 says the cap saved before
  the freeze "can still restore it".
- `DepositFreeze_lowered.cfg` (`Accountable`): recovery overwrites a cap that the operator lowered
  while it was frozen (`depositFreezes.ts:175`).
- `DepositFreeze_unconfirmed.cfg` (`RebalanceKeepsCap`): a cap update that lands although its send throws
  is undone by the rebalance of the same iteration (`depositFreezes.ts:232`).
- `WorkerSupervisor_early.cfg` (`StoppedFirst`): a signal during start-up does not stop the worker
  that start-up then creates (`index.ts:238`).

Met while translating, with no run of their own: gaps of weights just above the
drift gate can still round to no move, so that a pass sends nothing; a vault that
stays put while blacklisted weight is forced to zero has a smaller total, and the
shares of cooling reserves and of the unallocated rest grow; a target that
is configured without any weight is written as it is, and a cooling reserve then has
the whole allocation (`SharesKept` is about targets with a weight); a capped drift of
holdings does nothing while the idle tokens differ from the canonical ones by
more than a lamport; a rebalance whose invest fails is retried before the
"minimum seconds between rebalances" have passed; a reserve in the blacklist with
large holdings blocks the capped invest of its vault, because the check of the
cap covers its withdrawal too.

## 7. Not modelled, and the plan

Not modelled for good: parsing of the configuration, the wallet, swaps, fee
estimates, prices, RPC transport and the logger. They are sequential, or pure
input and output, and enter the models as inputs and failures.

Left, in the order of importance:

1. The slots between invests (`isInvestDueBySlots`), with the landed invest whose
   confirmation is lost, and the funding of crank fees.
2. An abstract specification of a vault's safety (in danger, evacuating, out;
   deposits only when clear) that `DangerPass` implements by a refinement mapping.
3. The publish age of a price and the deposit block of broken collateral
   (`marketCollateralNoNewFunds`) in `TriggerBaselines`.
4. Reserves that cannot be read (`loadPassReserves`) and the retries of the vault
   fetch.
5. Proofs: that refinement, and the ranking functions of the other liveness
   properties (the settling of an unchanged market is the hardest).
