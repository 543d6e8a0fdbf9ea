------------------------------- MODULE DangerPass -------------------------------
(***************************************************************************)
(* Danger passes of the allocation loop: DangerCoordinator with the part   *)
(* of DangerDetector it drives.                                            *)
(*                                                                         *)
(* The loop starts a pass and waits for it behind a watchdog.  The         *)
(* watchdog rejects the caller but cannot cancel the pass, so a pass may   *)
(* run on beside newer ones.  Every `await` of the code is a point where   *)
(* other passes, the operator, the chain and a restart may interleave; the *)
(* code between two awaits is one action.                                  *)
(*                                                                         *)
(* A pass is an element of Passes, reused once it has ended: passGeneration*)
(* is only ever compared for equality with the generation of a running     *)
(* pass, and `current` is the running pass that owns the latest value.     *)
(***************************************************************************)
EXTENDS Naturals, FiniteSets

CONSTANTS
  Passes,         \* how many passes may be running at the same time
  NoPass,         \* not a pass: no pass is current, no response is registered
  NumVaults,      \* number of configured vaults, in the order of the config
  Reserves,       \* the reserves of the configured vaults
  VaultReserves,  \* the reserves each vault has in its allocation
  Live,           \* the vaults that are not dry-run
  MayBreach,      \* reserves whose catastrophic condition may happen
  MayFlag,        \* reserves a transient trigger may flag
  MaxFaults,      \* bound: timeouts, failed calls and restarts in a behaviour
  MaxClears       \* bound: `danger clear-reserve` commands in a behaviour

Vaults == 1..NumVaults

ASSUME ConstantsAssumption ==
  /\ NoPass \notin Passes
  /\ NumVaults \in Nat
  /\ VaultReserves \in [Vaults -> SUBSET Reserves]
  /\ Live \subseteq Vaults
  /\ MayBreach \subseteq Reserves
  /\ MayFlag \subseteq Reserves
  /\ MaxFaults \in Nat
  /\ MaxClears \in Nat

VARIABLES
  loop,         \* the allocation loop: asleep, awaiting its pass, or rebalancing
  current,      \* the pass that owns passGeneration
  phase,        \* where each pass is suspended
  at,           \* the vault each pass is at
  view,         \* what each pass has read and gathered
  active,       \* activeResponses: the pass whose response is registered
  cooldown,     \* reinvestCooldownByReserve: the reserves cooling down
  staged,       \* the observations each pass has staged
  baseline,     \* the committed observation of each reserve
  blacklisted,  \* file: blacklistedReserves
  pending,      \* file: pendingEvacuations
  exposure,     \* chain: reserves a vault holds tokens in or gives weight to
  breached,     \* chain: reserves whose catastrophic condition has happened
  late,         \* chain: updates of unknown outcome, which may land any time
  regained,     \* history: what late updates gave each vault since its last load
  recorded,     \* history: reserves that have ever been in the blacklist
  faults,       \* faults so far
  clears        \* operator clears so far

passVars == <<phase, at, view, active, staged>>
memoryVars == <<cooldown, baseline>>
fileVars == <<blacklisted, pending, recorded>>
chainVars == <<exposure, breached, late, regained>>
boundVars == <<faults, clears>>
vars == <<loop, current, passVars, memoryVars, fileVars, chainVars, boundVars>>

Phases == {"idle", "starting", "next", "reading", "deciding", "responding",
           "confirming"}
Observation == {"none", "sound", "breached"}
Directive == {"none", "skip", "clear"}
ResponseKind == {"none", "danger", "evacuation", "enforcement"}

View == [blacklist : SUBSET Reserves,    \* blacklistedReserves of the pass
         cooldown : SUBSET Reserves,     \* cooldownReserves of the pass
         catastrophic : SUBSET Reserves, \* reserves assessed catastrophic
         commit : SUBSET Reserves,       \* observationsToCommit
         assessed : SUBSET Reserves,     \* assessedReserves
         directive : [Vaults -> Directive],
         flagged : [Vaults -> SUBSET Reserves], \* history: flags per vault
         loaded : [Vaults -> SUBSET Reserves],  \* exposure, as last loaded
         evacuate : SUBSET Reserves,     \* pendingEvacuations of this vault
         kind : ResponseKind,            \* the response under way
         todo : SUBSET Reserves,         \* reserves it has yet to withdraw
         tx : SUBSET Reserves]           \* the transaction awaiting confirmation

\* `nr` keeps updates with the same content apart.
Update == [vault : Vaults, gains : SUBSET Reserves, nr : 0..MaxFaults]

EmptyView ==
  [blacklist |-> {}, cooldown |-> {}, catastrophic |-> {}, commit |-> {},
   assessed |-> {}, directive |-> [v \in Vaults |-> "none"],
   flagged |-> [v \in Vaults |-> {}], loaded |-> [v \in Vaults |-> {}],
   evacuate |-> {},
   kind |-> "none", todo |-> {}, tx |-> {}]

Unstaged == [r \in Reserves |-> "none"]

TypeOK ==
  /\ loop \in {"asleep", "awaiting", "rebalancing"}
  /\ current \in Passes \cup {NoPass}
  /\ phase \in [Passes -> Phases]
  /\ at \in [Passes -> 1..(NumVaults + 1)]
  /\ view \in [Passes -> View]
  /\ active \in [Vaults -> Passes \cup {NoPass}]
  /\ cooldown \subseteq Reserves
  /\ staged \in [Passes -> [Reserves -> Observation]]
  /\ baseline \in [Reserves -> Observation]
  /\ blacklisted \subseteq Reserves
  /\ pending \in [Vaults -> SUBSET Reserves]
  /\ exposure \in [Vaults -> SUBSET Reserves]
  /\ breached \subseteq Reserves
  /\ late \subseteq Update
  /\ regained \in [Vaults -> SUBSET Reserves]
  /\ recorded \subseteq Reserves
  /\ faults \in 0..MaxFaults
  /\ clears \in 0..MaxClears

Init ==
  /\ loop = "asleep"
  /\ current = NoPass
  /\ phase = [p \in Passes |-> "idle"]
  /\ at = [p \in Passes |-> 1]
  /\ view = [p \in Passes |-> EmptyView]
  /\ active = [v \in Vaults |-> NoPass]
  /\ cooldown = {}
  /\ staged = [p \in Passes |-> Unstaged]
  /\ baseline = Unstaged
  /\ blacklisted = {}
  /\ pending = [v \in Vaults |-> {}]
  /\ exposure = VaultReserves
  /\ breached = {}
  /\ late = {}
  /\ regained = [v \in Vaults |-> {}]
  /\ recorded = {}
  /\ faults = 0
  /\ clears = 0

Fault ==
  /\ faults < MaxFaults
  /\ faults' = faults + 1
  /\ UNCHANGED clears

-----------------------------------------------------------------------------
(* A pass: start, assessment of the reserves, and the walk over the vaults *)

\* The loop wakes up, loads the vaults and calls detectAndRespond.  Up to its
\* first await: the generation, the blacklist read from the file, and the
\* cooldowns that have not elapsed.
StartPass(p) ==
  /\ loop = "asleep"
  /\ phase[p] = "idle"
  /\ loop' = "awaiting"
  /\ current' = p
  /\ phase' = [phase EXCEPT ![p] = "starting"]
  /\ at' = [at EXCEPT ![p] = 1]
  /\ \E kept \in SUBSET cooldown :
       /\ cooldown' = kept
       /\ view' = [view EXCEPT ![p] = [EmptyView EXCEPT
            !.blacklist = blacklisted, !.cooldown = kept, !.loaded = exposure]]
  /\ staged' = [staged EXCEPT ![p] = Unstaged]
  /\ regained' = [v \in Vaults |-> {}]
  /\ UNCHANGED <<active, baseline, fileVars, exposure, breached, late, boundVars>>

Observed(r) == IF r \in breached THEN "breached" ELSE "sound"

\* A reserve is catastrophic when its observation breaks with the baseline; a
\* first observation is safe.
Catastrophic(r) == baseline[r] = "sound" /\ Observed(r) = "breached"

\* Staging drops what passes older than the staging one have left.
Stage(p) ==
  [q \in Passes |-> IF q = p THEN [r \in Reserves |-> Observed(r)]
                    ELSE IF current = p THEN Unstaged ELSE staged[q]]

\* The rest of startPass.  `stale` are the reserves without a usable Scope
\* price or collateral: they get no new funds in this pass.
AssessReserves(p, stale) ==
  /\ phase[p] = "starting"
  /\ stale \subseteq MayFlag
  /\ phase' = [phase EXCEPT ![p] = "next"]
  /\ view' = [view EXCEPT ![p] = [view[p] EXCEPT
       !.cooldown = @ \cup stale,
       !.catastrophic = {r \in Reserves : Catastrophic(r)},
       !.commit = Reserves]]
  /\ staged' = Stage(p)
  /\ UNCHANGED <<loop, current, at, active, memoryVars, fileVars, chainVars,
                 boundVars>>

Advance(p) ==
  /\ phase' = [phase EXCEPT ![p] = "next"]
  /\ at' = [at EXCEPT ![p] = @ + 1]

\* Faulty variant of BeginVault: activeResponses is not consulted.
BeginVaultUnregistered(p) ==
  /\ phase[p] = "next"
  /\ at[p] \in Vaults
  /\ current = p
  /\ phase' = [phase EXCEPT ![p] = "reading"]
  /\ UNCHANGED <<loop, current, at, view, active, staged, memoryVars, fileVars,
                 chainVars, boundVars>>

\* assessVault up to its first await: a vault with a registered response is
\* skipped.
BeginVault(p) ==
  /\ phase[p] = "next"
  /\ at[p] \in Vaults
  /\ current = p
  /\ \/ /\ active[at[p]] # NoPass
        /\ Advance(p)
        /\ view' = [view EXCEPT ![p].directive[at[p]] = "skip"]
     \/ /\ active[at[p]] = NoPass
        /\ phase' = [phase EXCEPT ![p] = "reading"]
        /\ UNCHANGED <<at, view>>
  /\ UNCHANGED <<loop, current, active, staged, memoryVars, fileVars,
                 chainVars, boundVars>>

\* Faulty variant of SkipMissingVault: the walk runs past the last vault.
SkipBeyondLastVault(p) ==
  /\ phase[p] = "next"
  /\ Fault
  /\ Advance(p)
  /\ UNCHANGED <<loop, current, view, active, staged, memoryVars, fileVars,
                 chainVars>>

\* The vault did not load, or one of its reserves did not: it has no entry in
\* kaminoVaultsMap and gets no directive.
SkipMissingVault(p) ==
  /\ phase[p] = "next"
  /\ at[p] \in Vaults
  /\ Fault
  /\ Advance(p)
  /\ UNCHANGED <<loop, current, view, active, staged, memoryVars, fileVars,
                 chainVars>>

\* After the vault's state (cached since the load) and holdings: the pending
\* evacuations are read from the file.  The vault triggers run after that.
ReadVault(p) ==
  /\ phase[p] = "reading"
  /\ phase' = [phase EXCEPT ![p] = "deciding"]
  /\ view' = [view EXCEPT ![p].evacuate = pending[at[p]]]
  /\ UNCHANGED <<loop, current, at, active, staged, memoryVars, fileVars,
                 chainVars, boundVars>>

-----------------------------------------------------------------------------
(* The decision for one vault, once its triggers have answered             *)

\* Faulty variant of CatastrophicFor: reserves that already get no new funds are
\* left out.
CatastrophicUnlessCooling(p) ==
  (view[p].catastrophic \ view[p].cooldown) \cap VaultReserves[at[p]]

CatastrophicFor(p) == view[p].catastrophic \cap VaultReserves[at[p]]

\* `flags` are the reserves whose combined safety is under the vault's
\* threshold for a transient reason.
Flaggable(p, flags) ==
  /\ phase[p] = "deciding"
  /\ flags \subseteq (MayFlag \cap VaultReserves[at[p]]) \ CatastrophicFor(p)

\* A transient flag matters to a vault that gives the reserve weight or holds
\* it; one that does not only starts the reinvest cooldown again.
Exposed(p, flags) == flags \cap view[p].loaded[at[p]]
Unexposed(p, flags) == flags \ view[p].loaded[at[p]]
Dangerous(p, flags) == CatastrophicFor(p) \cup Exposed(p, flags)

\* Faulty variant of Gathered: a catastrophic observation that only a dry-run
\* vault has seen stays committable.
GatheredCommittable(p, flags) ==
  [view[p] EXCEPT
     !.cooldown = @ \cup Unexposed(p, flags),
     !.assessed = @ \cup VaultReserves[at[p]],
     !.flagged[at[p]] = flags \cup CatastrophicFor(p)]

\* What assessVault gathers in the pass before it decides on a response.
Gathered(p, flags) ==
  LET v == at[p] IN
  [view[p] EXCEPT
     !.cooldown = @ \cup Unexposed(p, flags),
     !.assessed = @ \cup VaultReserves[v],
     !.flagged[v] = flags \cup CatastrophicFor(p),
     !.commit = @ \ (CatastrophicFor(p) \ view[p].blacklist)]

NeedsResponse(p, flags) ==
  at[p] \in Live /\ (Dangerous(p, flags) # {} \/ view[p].evacuate # {})

\* Blacklist enforcement: only when nothing else is wrong with the vault.
NeedsEnforcement(p, flags) ==
  /\ Dangerous(p, flags) = {}
  /\ view[p].evacuate = {}
  /\ at[p] \in Live
  /\ view[p].blacklist \cap view[p].loaded[at[p]] # {}

\* respondExclusively: the response starts and is registered in the same
\* synchronous section as the check that the pass is current.
Respond(p, gathered, kind, directive, targets) ==
  /\ phase' = [phase EXCEPT ![p] = "responding"]
  /\ active' = [active EXCEPT ![at[p]] = p]
  /\ view' = [view EXCEPT ![p] = [gathered EXCEPT
       !.directive[at[p]] = directive,
       !.kind = kind,
       !.todo = targets \cap VaultReserves[at[p]]]]

\* Faulty variant of DecideDanger: supersession is checked only where the vault
\* was begun, not again after the awaits.
DecideDangerUnchecked(p, flags) ==
  LET v == at[p]
      gathered == Gathered(p, flags)
  IN
  /\ Flaggable(p, flags)
  /\ v \in Live
  /\ Dangerous(p, flags) # {}
  /\ blacklisted' = blacklisted \cup CatastrophicFor(p)
  /\ recorded' = recorded \cup CatastrophicFor(p)
  /\ pending' = [pending EXCEPT ![v] = @ \cup Exposed(p, flags)]
  /\ cooldown' = cooldown \cup flags
  /\ Respond(p, gathered, "danger", "skip", Dangerous(p, flags))
  /\ UNCHANGED <<loop, current, at, staged, baseline, chainVars, boundVars>>

\* Live danger: persist the catastrophic reserves, then the transient ones as
\* pending evacuations, and respond.
DecideDanger(p, flags) ==
  LET v == at[p]
      exposed == Exposed(p, flags)
      gathered == Gathered(p, flags)
      blacklist == view[p].blacklist \cup (CatastrophicFor(p) \ blacklisted)
      evacuate == view[p].evacuate \cup (exposed \ pending[v])
  IN
  /\ Flaggable(p, flags)
  /\ v \in Live
  /\ Dangerous(p, flags) # {}
  /\ current = p
  /\ blacklisted' = blacklisted \cup CatastrophicFor(p)
  /\ recorded' = recorded \cup CatastrophicFor(p)
  /\ pending' = [pending EXCEPT ![v] = @ \cup exposed]
  /\ cooldown' = cooldown \cup flags
  /\ Respond(p, [gathered EXCEPT
                   !.blacklist = blacklist,
                   !.evacuate = evacuate,
                   !.commit = @ \cup CatastrophicFor(p),
                   !.cooldown = @ \cup exposed],
             "danger", "skip",
             blacklist \cup evacuate \cup Dangerous(p, flags))
  /\ UNCHANGED <<loop, current, at, staged, baseline, chainVars, boundVars>>

\* Faulty variant of DecideEvacuation: the vault stays open to the rebalance.
DecideEvacuationOpen(p, flags) ==
  /\ Flaggable(p, flags)
  /\ at[p] \in Live
  /\ Dangerous(p, flags) = {}
  /\ view[p].evacuate # {}
  /\ current = p
  /\ cooldown' = cooldown \cup flags
  /\ Respond(p, Gathered(p, flags), "evacuation", "clear",
             view[p].blacklist \cup view[p].evacuate)
  /\ UNCHANGED <<loop, current, at, staged, baseline, fileVars, chainVars,
                 boundVars>>

\* No danger now, but the vault has reserves it still has to get out of.
DecideEvacuation(p, flags) ==
  /\ Flaggable(p, flags)
  /\ at[p] \in Live
  /\ Dangerous(p, flags) = {}
  /\ view[p].evacuate # {}
  /\ current = p
  /\ cooldown' = cooldown \cup flags
  /\ Respond(p, Gathered(p, flags), "evacuation", "skip",
             view[p].blacklist \cup view[p].evacuate)
  /\ UNCHANGED <<loop, current, at, staged, baseline, fileVars, chainVars,
                 boundVars>>

\* Clear, but the vault is exposed to a reserve blacklisted before.
DecideEnforcement(p, flags) ==
  /\ Flaggable(p, flags)
  /\ NeedsEnforcement(p, flags)
  /\ current = p
  /\ cooldown' = cooldown \cup flags
  /\ Respond(p, Gathered(p, flags), "enforcement", "clear", view[p].blacklist)
  /\ UNCHANGED <<loop, current, at, staged, baseline, fileVars, chainVars,
                 boundVars>>

\* Nothing to send: the vault is healthy, or dry-run.
DecideClear(p, flags) ==
  /\ Flaggable(p, flags)
  /\ ~NeedsResponse(p, flags)
  /\ ~NeedsEnforcement(p, flags)
  /\ cooldown' = cooldown \cup Unexposed(p, flags)
  /\ Advance(p)
  /\ view' = [view EXCEPT ![p] = [Gathered(p, flags) EXCEPT
       !.directive[at[p]] = "clear"]]
  /\ UNCHANGED <<loop, current, active, staged, baseline, fileVars, chainVars,
                 boundVars>>

\* A response is due but a newer pass has started: the pass is abandoned.  The
\* cooldowns of the unexposed flags have been recorded by then.
DecideTooLate(p, flags) ==
  /\ Flaggable(p, flags)
  /\ NeedsResponse(p, flags) \/ NeedsEnforcement(p, flags)
  /\ current # p
  /\ cooldown' = cooldown \cup Unexposed(p, flags)
  /\ phase' = [phase EXCEPT ![p] = "idle"]
  /\ UNCHANGED <<loop, current, at, view, active, staged, baseline, fileVars,
                 chainVars, boundVars>>

\* The pass fails: the loop, if it still waits for it, goes to sleep.
Fails(p) ==
  /\ Fault
  /\ phase' = [phase EXCEPT ![p] = "idle"]
  /\ loop' = IF loop = "awaiting" /\ current = p THEN "asleep" ELSE loop

\* A file update throws in the middle of DecideDanger: addToBlacklist (nothing
\* is persisted) or addPendingEvacuations (the blacklist entries are).
DecisionFails(p, flags) ==
  /\ Flaggable(p, flags)
  /\ at[p] \in Live
  /\ Dangerous(p, flags) # {}
  /\ current = p
  /\ Fails(p)
  /\ \/ /\ cooldown' = cooldown \cup Unexposed(p, flags)
        /\ UNCHANGED <<blacklisted, recorded>>
     \/ /\ cooldown' = cooldown \cup flags
        /\ blacklisted' = blacklisted \cup CatastrophicFor(p)
        /\ recorded' = recorded \cup CatastrophicFor(p)
  /\ UNCHANGED <<current, at, view, active, staged, baseline, pending,
                 chainVars>>

-----------------------------------------------------------------------------
(* A response in flight (executeDangerResponse, one reserve per transaction)*)

\* The response asks whether its pass is superseded right before each send.
SendTx(p) ==
  /\ phase[p] = "responding"
  /\ view[p].tx = {}
  /\ current = p
  /\ \E r \in view[p].todo :
       view' = [view EXCEPT ![p] =
                  [view[p] EXCEPT !.tx = {r}, !.todo = @ \ {r}]]
  /\ UNCHANGED <<loop, current, phase, at, active, staged, memoryVars,
                 fileVars, chainVars, boundVars>>

\* The transaction is executed: the vault has left the reserve.
LandTx(p) ==
  /\ phase[p] = "responding"
  /\ view[p].tx # {}
  /\ exposure' = [exposure EXCEPT ![at[p]] = @ \ view[p].tx]
  /\ view' = [view EXCEPT ![p].tx = {}]
  /\ UNCHANGED <<loop, current, phase, at, active, staged, memoryVars,
                 fileVars, breached, late, regained, boundVars>>

\* The transaction is rejected, or withdraws less than the vault holds.  What a
\* response gave up may land later as well: it only takes the vault further out.
LoseTx(p) ==
  /\ phase[p] = "responding"
  /\ view[p].tx # {}
  /\ Fault
  /\ view' = [view EXCEPT ![p].tx = {}]
  /\ UNCHANGED <<loop, current, phase, at, active, staged, memoryVars,
                 fileVars, chainVars>>

\* Faulty variant of Unregister: the registration outlives the response.
UnregisterNever(p) == UNCHANGED active

\* The response settles: only its own registration is removed.
Unregister(p) ==
  active' = [active EXCEPT ![at[p]] = IF @ = p THEN NoPass ELSE @]

\* Everything is sent.  The response has reloaded the vault; an evacuating one
\* goes on to clear the pending evacuations unless a newer pass has started.
CompleteResponse(p) ==
  LET evacuating == view[p].kind # "enforcement"
      loaded == [view EXCEPT ![p].loaded[at[p]] = exposure[at[p]]]
  IN
  /\ phase[p] = "responding"
  /\ view[p].tx = {}
  /\ view[p].todo = {}
  /\ Unregister(p)
  /\ \/ /\ evacuating /\ current # p
        /\ phase' = [phase EXCEPT ![p] = "idle"]
        /\ UNCHANGED <<at, view, regained>>
     \/ /\ evacuating /\ current = p /\ view[p].evacuate # {}
        /\ phase' = [phase EXCEPT ![p] = "confirming"]
        /\ view' = loaded
        /\ regained' = [regained EXCEPT ![at[p]] = {}]
        /\ UNCHANGED at
     \/ /\ ~evacuating \/ (current = p /\ view[p].evacuate = {})
        /\ Advance(p)
        /\ view' = loaded
        /\ UNCHANGED regained
  /\ UNCHANGED <<loop, current, staged, memoryVars, fileVars, exposure, breached,
                 late, boundVars>>

\* The response throws before its next send because a newer pass has started.
\* The failure is logged and the pass goes on to the next vault.
AbortResponse(p) ==
  /\ phase[p] = "responding"
  /\ view[p].tx = {}
  /\ view[p].todo # {}
  /\ current # p
  /\ Unregister(p)
  /\ Advance(p)
  /\ UNCHANGED <<loop, current, view, staged, memoryVars, fileVars, chainVars,
                 boundVars>>

\* The response throws because a call failed: logged in the same way.
ResponseFails(p) ==
  /\ phase[p] = "responding"
  /\ view[p].tx = {}
  /\ Fault
  /\ Unregister(p)
  /\ Advance(p)
  /\ UNCHANGED <<loop, current, view, staged, memoryVars, fileVars, chainVars>>

\* Faulty variant of ClearEvacuated: every evacuation the response was sent for
\* counts as completed.
ClearWithoutConfirming(p) ==
  /\ phase[p] = "confirming"
  /\ current = p
  /\ pending' = [pending EXCEPT ![at[p]] = @ \ view[p].evacuate]
  /\ Advance(p)
  /\ UNCHANGED <<loop, current, view, active, staged, memoryVars, blacklisted,
                 recorded, chainVars, boundVars>>

\* clearCompletedPendingEvacuations after its reads: the reserves the vault has
\* left are removed from the file.
ClearEvacuated(p) ==
  /\ phase[p] = "confirming"
  /\ current = p
  /\ pending' = [pending EXCEPT ![at[p]] =
                   @ \ (view[p].evacuate \ view[p].loaded[at[p]])]
  /\ Advance(p)
  /\ UNCHANGED <<loop, current, view, active, staged, memoryVars, blacklisted,
                 recorded, chainVars, boundVars>>

\* The reads or the file update fail: logged, the evacuations stay pending.
ClearingFails(p) ==
  /\ phase[p] = "confirming"
  /\ Fault
  /\ Advance(p)
  /\ UNCHANGED <<loop, current, view, active, staged, memoryVars, fileVars,
                 chainVars>>

-----------------------------------------------------------------------------
(* The end of a pass                                                       *)

\* assertPassCurrent throws at a vault, before the commit or before a clear.
Abandon(p) ==
  /\ phase[p] \in {"next", "confirming"}
  /\ current # p
  /\ phase' = [phase EXCEPT ![p] = "idle"]
  /\ UNCHANGED <<loop, current, at, view, active, staged, memoryVars, fileVars,
                 chainVars, boundVars>>

\* The observations a pass commits: those of the reserves it has assessed, less
\* the catastrophic ones it could not persist.
Committed(p) == view[p].commit \cap view[p].assessed

\* A pass that assessed no vault counts as failed.
AssessedAny(p) == \E v \in Vaults : view[p].directive[v] # "none"

\* Every vault has been visited: commit the observations and return.
Commit(p) ==
  /\ phase[p] = "next"
  /\ at[p] = NumVaults + 1
  /\ current = p
  /\ baseline' = [r \in Reserves |->
       IF r \in Committed(p) /\ staged[p][r] # "none" THEN staged[p][r]
                                                      ELSE baseline[r]]
  /\ staged' = [staged EXCEPT ![p] = [r \in Reserves |->
       IF r \in Committed(p) THEN "none" ELSE staged[p][r]]]
  /\ phase' = [phase EXCEPT ![p] = "idle"]
  /\ loop' = IF loop # "awaiting" THEN loop
             ELSE IF AssessedAny(p) THEN "rebalancing" ELSE "asleep"
  /\ UNCHANGED <<current, at, view, active, cooldown, fileVars, chainVars,
                 boundVars>>

\* An RPC call or a file read throws out of the pass.
PassFails(p) ==
  /\ phase[p] \in {"starting", "reading", "deciding"}
  /\ Fails(p)
  /\ UNCHANGED <<current, at, view, active, staged, memoryVars, fileVars,
                 chainVars>>

\* The watchdog rejects the loop's wait.  The pass itself runs on.
Timeout ==
  /\ loop = "awaiting"
  /\ Fault
  /\ loop' = "asleep"
  /\ UNCHANGED <<current, passVars, memoryVars, fileVars, chainVars>>

-----------------------------------------------------------------------------
(* The loop after a pass, the operator, the chain and restarts             *)

\* The loop sends to the live vaults with a clear directive.
Sends(v) ==
  /\ loop = "rebalancing"
  /\ v \in Live
  /\ view[current].directive[v] = "clear"

\* What its updates may give a vault.  Reserves in the blacklist and the cooldown
\* sets of the pass get no new allocation, but a deposit freeze sends their cap
\* with the weight of the state the pass has loaded.
Grantable(v) ==
  (VaultReserves[v] \ (view[current].blacklist \cup view[current].cooldown))
    \cup view[current].loaded[v]

\* The vault is frozen and rebalanced.  That a rebalance also takes a vault out of
\* reserves is left out: responses do so, which asks more of the passes.
Rebalance(v) ==
  /\ Sends(v)
  /\ \E gained \in SUBSET Grantable(v) :
       exposure' = [exposure EXCEPT ![v] = @ \cup gained]
  /\ UNCHANGED <<loop, current, passVars, memoryVars, fileVars, breached, late,
                 regained, boundVars>>

\* The outcome of an update stays unknown, to the lookup that follows a failed
\* send or because the process restarts next.  Its transaction is valid until
\* its blockhash expires.
RebalanceUnresolved(v) ==
  /\ Sends(v)
  /\ Fault
  /\ \E gains \in SUBSET Grantable(v) \ {{}} :
       late' = late \cup {[vault |-> v, gains |-> gains, nr |-> faults]}
  /\ UNCHANGED <<loop, current, passVars, memoryVars, fileVars, exposure,
                 breached, regained>>

\* It lands after all, whatever the bot does by then.  One that expires is one
\* that never lands.
LandLate(u) ==
  /\ late' = late \ {u}
  /\ exposure' = [exposure EXCEPT ![u.vault] = @ \cup u.gains]
  /\ regained' = [regained EXCEPT ![u.vault] = @ \cup u.gains]
  /\ UNCHANGED <<loop, current, passVars, memoryVars, fileVars, breached,
                 boundVars>>

Sleep ==
  /\ loop = "rebalancing"
  /\ loop' = "asleep"
  /\ UNCHANGED <<current, passVars, memoryVars, fileVars, chainVars, boundVars>>

\* `danger clear-reserve`, and `danger clear-all` as several of them.
OperatorClears(r) ==
  /\ r \in blacklisted
  /\ clears < MaxClears
  /\ clears' = clears + 1
  /\ blacklisted' = blacklisted \ {r}
  /\ UNCHANGED <<loop, current, passVars, memoryVars, pending, recorded,
                 chainVars, faults>>

\* Supply is inflated, or the exchange rate drops: it stays so.
Breach(r) ==
  /\ r \in MayBreach \ breached
  /\ breached' = breached \cup {r}
  /\ UNCHANGED <<loop, current, passVars, memoryVars, fileVars, exposure, late,
                 regained, boundVars>>

\* The process restarts: only the file and the chain survive.
Restart ==
  /\ Fault
  /\ loop' = "asleep"
  /\ current' = NoPass
  /\ phase' = [p \in Passes |-> "idle"]
  /\ at' = [p \in Passes |-> 1]
  /\ view' = [p \in Passes |-> EmptyView]
  /\ active' = [v \in Vaults |-> NoPass]
  /\ staged' = [p \in Passes |-> Unstaged]
  /\ cooldown' = {}
  /\ baseline' = Unstaged
  /\ regained' = [v \in Vaults |-> {}]
  /\ UNCHANGED <<fileVars, exposure, breached, late>>

Decide(p, flags) ==
  \/ DecideDanger(p, flags)
  \/ DecideEvacuation(p, flags)
  \/ DecideEnforcement(p, flags)
  \/ DecideClear(p, flags)
  \/ DecideTooLate(p, flags)

\* The steps a pass takes on its own as long as calls are answered.
PassStep(p) ==
  \/ \E stale \in SUBSET MayFlag : AssessReserves(p, stale)
  \/ BeginVault(p)
  \/ ReadVault(p)
  \/ \E flags \in SUBSET MayFlag : Decide(p, flags)
  \/ SendTx(p)
  \/ LandTx(p)
  \/ CompleteResponse(p)
  \/ AbortResponse(p)
  \/ ClearEvacuated(p)
  \/ Abandon(p)
  \/ Commit(p)

PassFault(p) ==
  \/ SkipMissingVault(p)
  \/ \E flags \in SUBSET MayFlag : DecisionFails(p, flags)
  \/ LoseTx(p)
  \/ ResponseFails(p)
  \/ ClearingFails(p)
  \/ PassFails(p)

Next ==
  \/ \E p \in Passes : StartPass(p) \/ PassStep(p) \/ PassFault(p)
  \/ \E v \in Vaults : Rebalance(v) \/ RebalanceUnresolved(v)
  \/ \E u \in late : LandLate(u)
  \/ \E r \in Reserves : OperatorClears(r) \/ Breach(r)
  \/ Sleep
  \/ Timeout
  \/ Restart

Spec == Init /\ [][Next]_vars

\* The loop goes on starting passes, and calls and transactions are answered:
\* all that may go wrong is counted in `faults`.
Fairness ==
  /\ WF_vars(\E p \in Passes : StartPass(p))
  /\ WF_vars(Sleep)
  /\ \A p \in Passes : WF_vars(PassStep(p))

FairSpec == Spec /\ Fairness

-----------------------------------------------------------------------------
(* Properties                                                              *)

\* At most one emergency response is in flight for a vault, whatever passes
\* outlive their watchdog (activeResponses with assertPassCurrent).
ResponseExclusive ==
  \A p, q \in Passes :
    p # q /\ phase[p] = "responding" /\ phase[q] = "responding"
      => at[p] # at[q]

\* A step of a pass that a newer one has superseded.
SupersededStep(p) ==
  /\ phase[p] # "idle" /\ current # p /\ current' = current
  /\ <<phase[p], at[p], view[p]>>' # <<phase[p], at[p], view[p]>>

\* A pass that a newer one has superseded sends no transaction and changes
\* neither the file nor a committed baseline, at any await it resumes from.
SupersededPassIsInert ==
  [][\A p \in Passes : SupersededStep(p) =>
       /\ UNCHANGED <<blacklisted, pending, baseline>>
       /\ view[p].tx = {} => view'[p].tx = {}]_vars

\* A catastrophic observation becomes the baseline, after which it is no longer
\* detected, only once the reserve has been written to the blacklist file: not
\* by a pass that failed, was superseded, saw it only in a dry-run vault or
\* skipped the vaults that hold it.
CatastropheRemembered ==
  [][\A r \in Reserves :
       baseline[r] = "sound" /\ baseline'[r] = "breached"
         => r \in recorded]_vars

\* What a step gives a vault or sends out to give it: not what is carried by an
\* update that was sent before and lands now.
LandedNow(v) == UNION {u.gains : u \in {w \in late \ late' : w.vault = v}}
SentNow(v) == UNION {u.gains : u \in {w \in late' \ late : w.vault = v}}
Given(v) == ((exposure'[v] \ exposure[v]) \ LandedNow(v)) \cup SentNow(v)

\* Nothing is given to a vault, nor sent to it, while an emergency response is in
\* flight for it or an evacuation is pending, and nothing into a reserve that is
\* blacklisted or that the pass flagged for the vault, except for a weight that
\* the pass has loaded and a freeze sends along.  An update sent before that and
\* landing late is not undone here: see Evacuated.
NoReexposure ==
  [][\A v \in Vaults :
       Given(v) # {} =>
         /\ active[v] = NoPass
         /\ pending[v] = {}
         /\ Given(v) \cap (blacklisted \cup view[current].flagged[v])
              \subseteq view[current].loaded[v]]_vars

\* A pending evacuation leaves the file only when the vault has left the
\* reserve, although it is decided from state read before the write.  The one
\* exception is a vault that an update sent earlier has taken back into the
\* reserve since its state was read.
EvacuationConfirmed ==
  [][\A v \in Vaults :
       (pending[v] \ pending'[v]) \cap exposure[v] \subseteq regained[v]]_vars

\* A breach of a baselined reserve that a live vault holds is blacklisted in
\* the end, unless the process restarts and loses the baseline.
CatastropheActedOn ==
  \A r \in UNION {VaultReserves[v] : v \in Live} :
    Catastrophic(r) ~> (r \in recorded \/ baseline[r] = "none")

\* A live vault leaves every reserve that stays blacklisted or pending, also one
\* that a late update or a freeze has taken it back into.
Evacuated ==
  \A v \in Live : \A r \in VaultReserves[v] :
    (r \in exposure[v] /\ r \in blacklisted \cup pending[v])
      ~> (r \notin exposure[v] \/ r \notin blacklisted \cup pending[v])

=============================================================================
