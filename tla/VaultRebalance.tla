----------------------------- MODULE VaultRebalance -----------------------------
(***************************************************************************)
(* The rebalance of all vaults in one pass of the allocation loop: which   *)
(* vaults are due (VaultRebalanceSchedule and selectDueVaults in           *)
(* dueVaults.ts), what one of them does (computeVaultRebalanceIxs and      *)
(* sendVaultRebalance in vaultRebalance.ts) and how its outcome moves its  *)
(* schedule (rebalanceDueVaults in allocation_loop.ts).                    *)
(*                                                                         *)
(* What the strategy chooses and where the invest puts the tokens is in    *)
(* StrategyPass; here a vault has a set of reserves with weight, and the   *)
(* strategy any set of reserves that are not blacklisted.  The danger pass *)
(* (DangerPass) clears vaults and gives the blacklist as it saw it.  The   *)
(* invest goes by the weights on chain, which an update given up before    *)
(* may change at any time.                                                 *)
(*                                                                         *)
(* Time is counted from the last rebalance and to the next retry, in units *)
(* of which the longer frequencies are multiples, and only as far as the   *)
(* schedule looks.                                                         *)
(***************************************************************************)
EXTENDS Integers, FiniteSets

CONSTANTS
  Vaults,        \* in config order: positions in the configuration
  Reserves,      \* that the vaults share
  Configs,       \* of the vaults: see config below
  DangerPassInterval,
  MaxFailures,   \* bound: failures in a row that the backoff tells apart
  MaxFaults,     \* bound: things that go wrong, and changes by the operator
  MaxLate        \* bound: updates of unknown outcome at a time

VARIABLES
  config,     \* what the vaults are like: see Config
  black,      \* the blacklist
  weighted,   \* reserves with weight on chain, of each vault
  late,       \* chain: updates of unknown outcome, which may land any time
  funded,     \* reserves that the invest under way has put tokens into
  risen,      \* history: reserves given weight late since the check of the invest
  overtaken,  \* history: an update has landed late since the vault's own
  age,        \* time since the vault's last rebalance
  wait,       \* time until the retry of a failed attempt
  failures,   \* failed attempts in a row
  sleep,      \* time until the next pass
  pc,         \* "sleep", "compute", "send", "reload", "invest" or "invested"
  due,        \* vaults that the pass has yet to rebalance
  seen,       \* the blacklist of the directives
  farmData,   \* farm states and prices are loaded
  update,     \* reserves with weight once the updates land
  failed,     \* strategyFailed
  allowed,    \* investAllowed
  faults

schedule == <<age, wait, failures>>
rebalance == <<update, failed, allowed>>
history == <<risen, overtaken>>
vars == <<config, black, weighted, late, funded, history, schedule, sleep, pc, due,
          seen, farmData, rebalance, faults>>

Smaller(x, y) == IF x < y THEN x ELSE y

\* Whether the farm data is needed, the strategy always throws, and updates do not
\* fit in one transaction.
Config ==
  [frequency : Nat \ {0}, dryRun : BOOLEAN, signable : BOOLEAN, farms : BOOLEAN,
   broken : BOOLEAN, large : BOOLEAN]

LateUpdate ==
  [nr : 1..MaxLate, vault : Vaults, on : SUBSET Reserves, off : SUBSET Reserves]

ASSUME RebalanceAssumption ==
  /\ Vaults \subseteq Nat /\ Vaults # {} /\ IsFiniteSet(Vaults)
  /\ Configs \subseteq [Vaults -> Config]
  /\ DangerPassInterval \in Nat \ {0}
  /\ MaxFailures \in Nat \ {0} /\ MaxFaults \in Nat /\ MaxLate \in Nat

-----------------------------------------------------------------------------
(* Schedule                                                                *)

\* summarizeAllocations, and the shorter of that and the danger pass interval.
MinFrequency ==
  CHOOSE f \in {config[v].frequency : v \in Vaults} :
    \A v \in Vaults : f <= config[v].frequency
PassInterval == Smaller(MinFrequency, DangerPassInterval)

\* A bound: any later is as good.
Never(v) == config[v].frequency + 1

IsDue(v) == wait[v] = 0 /\ age[v] > config[v].frequency

\* Two to the power of n.
PowerOfTwo[n \in Nat] == IF n = 0 THEN 1 ELSE 2 * PowerOfTwo[n - 1]

\* One pass interval, doubled with each failure in a row.
Delay(v, count) ==
  Smaller(PassInterval * PowerOfTwo[count - 1], config[v].frequency)

RecordDone(v) ==
  /\ age' = [age EXCEPT ![v] = 0]
  /\ wait' = [wait EXCEPT ![v] = 0]
  /\ failures' = [failures EXCEPT ![v] = 0]

RecordFailure(v) ==
  LET count == Smaller(failures[v] + 1, MaxFailures)
  IN  /\ failures' = [failures EXCEPT ![v] = count]
      /\ wait' = [wait EXCEPT ![v] = Delay(v, count)]
      /\ UNCHANGED age

\* Faulty variant of IsRebalanceDone: what the strategy did does not count.
IsUpdateDone(outcome, strategyFailed) == outcome \in {"sent", "unchanged", "dryRun"}

IsRebalanceDone(outcome, strategyFailed) ==
  ~strategyFailed /\ outcome \in {"sent", "unchanged", "dryRun"}

-----------------------------------------------------------------------------
(* Steps of the loop                                                       *)

Fault == faults < MaxFaults /\ faults' = faults + 1

\* kvault accepts the signature of the allocation admin; a dry run needs none.
CanUpdate(v) == config[v].dryRun \/ config[v].signable

IsNext(v) == v \in due /\ \A w \in due : v <= w

\* The pass is over when no vault is left, and what it had seen with it; the
\* refresh of the KaminoManager may shorten the sleep.
LeaveWith(rest, blacklist, farmsLoaded) ==
  /\ due' = rest
  /\ IF rest = {}
       THEN /\ pc' = "sleep" /\ sleep' \in 0..PassInterval
            /\ seen' = {} /\ farmData' = FALSE
       ELSE /\ pc' = "compute" /\ UNCHANGED sleep
            /\ seen' = blacklist /\ farmData' = farmsLoaded

\* Faulty variant of Leave: the vaults behind this one are dropped.
LeaveAll(v) == LeaveWith({}, seen, farmData)

Leave(v) == LeaveWith(due \ {v}, seen, farmData)

\* The danger pass clears vaults, or responds for them: then their weight in
\* blacklisted reserves is zeroed, if that succeeds.  The due ones are selected.
StartPass ==
  /\ pc = "sleep" /\ sleep = 0
  /\ \E cleared \in SUBSET Vaults, zeroed \in SUBSET Vaults :
       /\ zeroed \cap cleared = {}
       /\ IF cleared = Vaults THEN UNCHANGED faults ELSE Fault
       /\ weighted' = [v \in Vaults |-> IF v \in zeroed THEN weighted[v] \ black
                                                        ELSE weighted[v]]
       /\ \E farmsLoaded \in BOOLEAN :
            LeaveWith({v \in cleared : CanUpdate(v) /\ IsDue(v)}, black, farmsLoaded)
  /\ UNCHANGED <<config, black, late, funded, history, schedule, rebalance>>

\* The farm data or the vault state did not load: no attempt is recorded.
NotComputed(v) ==
  /\ pc = "compute" /\ IsNext(v)
  /\ \/ config[v].farms /\ ~farmData /\ UNCHANGED faults
     \/ Fault
  /\ Leave(v)
  /\ UNCHANGED <<config, black, weighted, late, funded, history, schedule, rebalance>>

Computed(v, weights, strategyFailed, investAllowed) ==
  /\ pc = "compute" /\ IsNext(v)
  /\ config[v].farms => farmData
  /\ update' = weights /\ failed' = strategyFailed /\ allowed' = investAllowed
  /\ pc' = "send"
  /\ UNCHANGED <<config, black, weighted, late, funded, history, schedule, sleep,
                 due, seen, farmData>>

\* The strategy weights reserves; the blacklisted ones are zeroed.
Rebalance(v) ==
  \E target \in SUBSET (Reserves \ seen) :
    ~config[v].broken /\ Computed(v, target, FALSE, TRUE) /\ UNCHANGED faults

\* Faulty variant of StrategyFails: a vault without a target is left alone.
NothingEnforced(v) ==
  \E investAllowed \in BOOLEAN :
    \/ config[v].broken /\ UNCHANGED faults
         /\ Computed(v, weighted[v], TRUE, investAllowed)
    \/ Fault /\ Computed(v, weighted[v], TRUE, investAllowed)

\* The strategy throws: only the forced zeros are left, if they can be built.
StrategyFails(v) ==
  \E investAllowed \in BOOLEAN :
    \/ config[v].broken /\ UNCHANGED faults
         /\ Computed(v, weighted[v] \ seen, TRUE, investAllowed)
    \/ Fault /\ \E weights \in {weighted[v], weighted[v] \ seen} :
                  Computed(v, weights, TRUE, investAllowed)

\* What is known of a vault only while it is rebalanced.
Reset ==
  /\ update' = {} /\ failed' = FALSE /\ allowed' = FALSE
  /\ funded' = {} /\ risen' = {} /\ overtaken' = FALSE

\* The outcome of vault v moves its schedule.
Finish(v, outcome) ==
  /\ IF IsRebalanceDone(outcome, failed) THEN RecordDone(v) ELSE RecordFailure(v)
  /\ Leave(v)
  /\ Reset
  /\ UNCHANGED <<config, black>>

DryRun(v) ==
  /\ pc = "send" /\ IsNext(v) /\ config[v].dryRun
  /\ Finish(v, "dryRun")
  /\ UNCHANGED <<weighted, late, faults>>

\* The updates do not fit in one transaction: none is sent, in this pass or in any
\* other, the forced zeros included.
TooLarge(v) ==
  /\ pc = "send" /\ IsNext(v) /\ ~config[v].dryRun
  /\ config[v].large
  /\ Finish(v, "tooLarge")
  /\ UNCHANGED <<weighted, late, faults>>

\* The updates are confirmed, or none is needed.  The invest comes next.
Send(v) ==
  /\ pc = "send" /\ IsNext(v) /\ ~config[v].dryRun
  /\ config[v].large => update = weighted[v]
  /\ weighted' = [weighted EXCEPT ![v] = update]
  /\ IF allowed
       THEN /\ pc' = "reload"
            /\ UNCHANGED <<config, black, funded, history, schedule, sleep, due, seen,
                           farmData, rebalance>>
       ELSE Finish(v, IF update = weighted[v] THEN "unchanged" ELSE "sent")
  /\ UNCHANGED <<late, faults>>

\* The updates of vault v are given up while they may still land.  There is one
\* for each reserve that gets or loses weight, and for some whose weight changes.
GiveUp(v) ==
  \/ UNCHANGED late
  \/ /\ ~config[v].large
     /\ \E nr \in 1..MaxLate, resized \in SUBSET (update \cap weighted[v]) :
          /\ \A u \in late : u.nr # nr
          /\ late' = late \cup
               {[nr |-> nr, vault |-> v, on |-> (update \ weighted[v]) \cup resized,
                 off |-> weighted[v] \ update]}

\* Not sent, or not known to have landed.
SendFails(v) ==
  /\ pc = "send" /\ IsNext(v) /\ ~config[v].dryRun
  /\ Fault
  /\ GiveUp(v)
  /\ Finish(v, "sendFailed")
  /\ UNCHANGED weighted

\* Faulty variant of MayInvest: the vault is taken to be as it was sent.
MayInvestAsSent(v) == update \cap seen = {}

\* What the reloaded state of the vault says.
MayInvest(v) == weighted[v] \cap seen = {}

InvestStep(v, from, to) ==
  /\ pc = from /\ pc' = to /\ IsNext(v)
  /\ UNCHANGED <<config, black, weighted, late, history, schedule, sleep, due, seen,
                 farmData, rebalance, faults>>

\* The check before the invest, which is then planned on states read later.
Reload(v) ==
  /\ InvestStep(v, "reload", "invest")
  /\ MayInvest(v)
  /\ UNCHANGED funded

\* Tokens go by the weights on chain: these are all that may get some.
Invest(v) ==
  /\ InvestStep(v, "invest", "invested")
  /\ funded' = weighted[v]

Invested(v) ==
  /\ pc = "invested" /\ IsNext(v)
  /\ Finish(v, "sent")
  /\ UNCHANGED <<weighted, late, faults>>

\* The vault is refused, or a read, the plan or a send fails, maybe with an effect.
InvestFails(v) ==
  /\ pc \in {"reload", "invest", "invested"} /\ IsNext(v)
  /\ IF pc = "reload" /\ ~MayInvest(v) THEN UNCHANGED faults ELSE Fault
  /\ Finish(v, "investFailed")
  /\ UNCHANGED <<weighted, late>>

Step ==
  \/ StartPass
  \/ \E v \in Vaults :
       \/ NotComputed(v) \/ Rebalance(v) \/ StrategyFails(v)
       \/ DryRun(v) \/ TooLarge(v) \/ Send(v) \/ SendFails(v)
       \/ Reload(v) \/ Invest(v) \/ Invested(v) \/ InvestFails(v)

-----------------------------------------------------------------------------
(* Around the loop                                                         *)

Tick ==
  /\ age' = [v \in Vaults |-> Smaller(age[v] + 1, Never(v))]
  /\ wait' = [v \in Vaults |-> IF wait[v] = 0 THEN 0 ELSE wait[v] - 1]
  /\ sleep' = IF sleep = 0 THEN 0 ELSE sleep - 1
  /\ UNCHANGED <<config, black, weighted, late, funded, history, failures, pc, due,
                 seen, farmData, rebalance, faults>>

\* The operator or the danger pass edits the blacklist.
BlacklistChanges ==
  /\ Fault
  /\ \E r \in Reserves : black' \in {black \cup {r}, black \ {r}} \ {black}
  /\ UNCHANGED <<config, weighted, late, funded, history, schedule, sleep, pc, due,
                 seen, farmData, rebalance>>

\* A transaction that the bot has given up lands.
LandLate(u) ==
  /\ late' = late \ {u}
  /\ weighted' = [weighted EXCEPT ![u.vault] = (@ \ u.off) \cup u.on]
  /\ risen' = IF pc = "invest" /\ IsNext(u.vault) THEN risen \cup u.on ELSE risen
  /\ overtaken' = (overtaken \/
       (pc \in {"reload", "invest", "invested"} /\ IsNext(u.vault)))
  /\ UNCHANGED <<config, black, funded, schedule, sleep, pc, due, seen, farmData,
                 rebalance, faults>>

\* The worker dies and starts again with an empty schedule.  What it has sent may
\* land.
Restart ==
  /\ Fault
  /\ \/ UNCHANGED late
     \/ \E v \in due : pc = "send" /\ IsNext(v) /\ ~config[v].dryRun /\ GiveUp(v)
  /\ age' = [v \in Vaults |-> Never(v)]
  /\ wait' = [v \in Vaults |-> 0] /\ failures' = [v \in Vaults |-> 0]
  /\ pc' = "sleep" /\ sleep' = 0 /\ due' = {} /\ seen' = {} /\ farmData' = FALSE
  /\ Reset
  /\ UNCHANGED <<config, black, weighted>>

Init ==
  /\ config \in Configs
  /\ black = {} /\ seen = {}
  /\ weighted = [v \in Vaults |-> Reserves] /\ late = {}
  /\ funded = {} /\ risen = {} /\ overtaken = FALSE
  /\ age = [v \in Vaults |-> Never(v)]
  /\ wait = [v \in Vaults |-> 0] /\ failures = [v \in Vaults |-> 0]
  /\ sleep = 0 /\ pc = "sleep" /\ due = {} /\ farmData = FALSE
  /\ update = {} /\ failed = FALSE /\ allowed = FALSE
  /\ faults = 0

Next ==
  \/ Step
  \/ Tick
  \/ BlacklistChanges
  \/ \E u \in late : LandLate(u)
  \/ Restart

\* Time passes, and the loop runs until shutdown.
Spec == Init /\ [][Next]_vars /\ WF_vars(Tick) /\ WF_vars(Step)

-----------------------------------------------------------------------------
(* Properties                                                              *)

\* Every variable has its type, and no retry waits longer than the frequency.
TypeOK ==
  /\ config \in Configs
  /\ black \subseteq Reserves /\ seen \subseteq Reserves /\ update \subseteq Reserves
  /\ weighted \in [Vaults -> SUBSET Reserves]
  /\ late \subseteq LateUpdate
  /\ funded \subseteq Reserves /\ risen \subseteq Reserves
  /\ age \in [Vaults -> Nat] /\ wait \in [Vaults -> Nat]
  /\ \A v \in Vaults : wait[v] <= config[v].frequency
  /\ failures \in [Vaults -> 0..MaxFailures]
  /\ sleep \in 0..PassInterval
  /\ pc \in {"sleep", "compute", "send", "reload", "invest", "invested"}
  /\ due \subseteq Vaults /\ (due = {} <=> pc = "sleep")
  /\ {farmData, failed, allowed, overtaken} \subseteq BOOLEAN
  /\ faults \in 0..MaxFaults

\* No invest puts tokens into a reserve that its pass knows to be blacklisted,
\* although a failed strategy, a failed enforcement or a lost update leaves weight
\* there, and an earlier update may give it weight again at any time: only weight
\* that lands between the check of the invest and its end (sendVaultRebalance).
InvestGuarded == funded \cap seen \subseteq risen

\* A rebalance counts towards the frequency only if the strategy chose the
\* weights that are on chain now, none of them for a blacklisted reserve, so that
\* everything else is tried again after the retry delay (isRebalanceDone).  Only
\* an earlier update that lands after the vault's own may have changed them.
DoneIsDone ==
  [][\A v \in Vaults :
       age[v] > 0 /\ age'[v] = 0 /\ ~config[v].dryRun =>
         /\ ~failed /\ update \cap seen = {}
         /\ weighted'[v] = update \/ overtaken]_vars

\* Once nothing goes wrong any more, every vault that can be updated is rebalanced
\* again and again, whatever the other vaults do: a strategy that always throws,
\* farm data that never load or updates that are too large stop no vault but their
\* own.
Served ==
  \A v \in Vaults :
    CanUpdate(v) /\ ~config[v].farms /\ ~config[v].broken /\ ~config[v].large =>
      []<>(age[v] = 0)

\* A blacklisted reserve does not keep its weight in a vault, even if the strategy
\* of the vault throws in every pass (computeVaultRebalanceIxs), unless its updates
\* are too large: then the danger pass alone can zero it.
Enforced ==
  \A v \in Vaults :
    (config[v].signable /\ ~config[v].dryRun /\ ~config[v].farms /\ ~config[v].large) =>
      <>[](weighted[v] \cap black = {})
=============================================================================
