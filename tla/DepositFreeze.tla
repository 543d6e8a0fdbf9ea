------------------------------ MODULE DepositFreeze ------------------------------
(***************************************************************************)
(* Deposit freezes (depositFreezes.ts) for one reserve of one vault, with  *)
(* the weight updates of the rebalance that follows in the same pass.      *)
(*                                                                         *)
(* An allocation on chain has a weight and a deposit cap.  An update of the*)
(* one carries the other as it is in the bot's cached vault state, so a    *)
(* cache that is behind the chain undoes changes.  The record of a freeze  *)
(* in the blacklist file outlives a restart of the bot; the cache does not.*)
(*                                                                         *)
(* Deposits and withdrawals, by any cranker or user, happen at any time.   *)
(* The operator changes caps only while no pass runs and nothing it has    *)
(* sent may still land: a change that races a pass is lost or kept by      *)
(* chance, whatever the bot does.                                          *)
(*                                                                         *)
(* Any update the bot gives up may land until its blockhash expires.       *)
(***************************************************************************)
EXTENDS Naturals

CONSTANTS
  NoFreeze,    \* no record, and no update to send
  MaxCap,      \* bound: caps and holdings, in units of deposits
  MaxFaults,   \* bound: failed calls and restarts
  MaxChanges   \* bound: changes the operator makes

Caps == 0..MaxCap
Record == [original : Caps, frozen : Caps]
UpdateKind == {"freeze", "lower", "restore"}
Update == [kind : UpdateKind, cap : Caps]
LateUpdate == [cap : Caps, weighted : BOOLEAN, nr : 0..MaxFaults]
Allocation == [listed : BOOLEAN, cap : Caps, weighted : BOOLEAN, held : Caps]

ASSUME FreezeAssumption ==
  /\ MaxCap \in Nat
  /\ MaxFaults \in Nat
  /\ MaxChanges \in Nat
  /\ NoFreeze \notin Record \cup Update

VARIABLES
  chain,        \* the allocation on chain
  lingering,    \* chain: the updates that were given up and may still land
  operatorCap,  \* history: the cap the operator last set
  unnoticed,    \* history: whether the cap has changed so that the bot cannot tell
  record,       \* file: the deposit freeze
  pc,           \* where the pass is
  excluded,     \* whether the pass has the reserve in noNewFundsReserves
  cached,       \* the allocation as the bot has loaded it
  update,       \* the cap update to send
  faults, changes

passVars == <<pc, excluded, cached, update>>
vars == <<chain, lingering, operatorCap, unnoticed, record, passVars, faults,
          changes>>

TypeOK ==
  /\ chain \in Allocation
  /\ lingering \subseteq LateUpdate
  /\ operatorCap \in Caps
  /\ unnoticed \in BOOLEAN
  /\ record \in Record \cup {NoFreeze}
  /\ pc \in {"idle", "deciding", "sending", "recording", "reloading", "rebalancing"}
  /\ excluded \in BOOLEAN
  /\ cached \in Allocation
  /\ update \in Update \cup {NoFreeze}
  /\ faults \in 0..MaxFaults
  /\ changes \in 0..MaxChanges

Init ==
  /\ chain \in [listed : {TRUE}, cap : Caps, weighted : BOOLEAN, held : {0}]
  /\ lingering = {}
  /\ operatorCap = chain.cap
  /\ unnoticed = FALSE
  /\ record = NoFreeze
  /\ pc = "idle"
  /\ excluded = FALSE
  /\ cached = chain
  /\ update = NoFreeze
  /\ faults = 0
  /\ changes = 0

Fault ==
  /\ faults < MaxFaults
  /\ faults' = faults + 1
  /\ UNCHANGED changes

Fine == UNCHANGED <<faults, changes>>

\* The pass has loaded the vault and has gone through danger detection, which
\* lets the vault go on and says whether the reserve gets new funds.
Load ==
  /\ pc = "idle"
  /\ pc' = "deciding"
  /\ cached' = chain
  /\ excluded' \in BOOLEAN
  /\ update' = NoFreeze
  /\ UNCHANGED <<chain, lingering, operatorCap, unnoticed, record>>
  /\ Fine

-----------------------------------------------------------------------------
(* reconcileVault up to its first send                                     *)

\* A cap at or below the recorded frozen cap is taken to be the bot's.
Frozen(cap) == record # NoFreeze /\ cap <= record.frozen

Decided(newRecord, newUpdate) ==
  /\ pc = "deciding"
  /\ record' = newRecord
  /\ update' = newUpdate
  /\ pc' = IF newUpdate = NoFreeze THEN "rebalancing" ELSE "sending"
  /\ UNCHANGED <<chain, lingering, operatorCap, unnoticed, excluded, cached>>
  /\ Fine

\* No new funds, not frozen yet: the original cap is saved before the send.
Freeze ==
  /\ cached.listed /\ excluded /\ cached.weighted
  /\ record = NoFreeze
  /\ cached.held < cached.cap
  /\ Decided([original |-> cached.cap, frozen |-> cached.held],
             [kind |-> "freeze", cap |-> cached.held])

\* Frozen at or below the recorded cap: follow the holding down.
Lower ==
  /\ cached.listed /\ excluded /\ cached.weighted
  /\ Frozen(cached.cap)
  /\ cached.held < cached.cap
  /\ Decided(record, [kind |-> "lower", cap |-> cached.held])

\* Faulty variant of Resend: a freeze on record is taken to have landed.
ResendNothing ==
  /\ cached.listed /\ excluded /\ cached.weighted
  /\ record # NoFreeze
  /\ ~Frozen(cached.cap)
  /\ cached.cap = record.original
  /\ Decided(record, NoFreeze)

\* The freeze did not land: send it again, or a lower cap.
Resend ==
  /\ cached.listed /\ excluded /\ cached.weighted
  /\ record # NoFreeze
  /\ ~Frozen(cached.cap)
  /\ cached.cap = record.original
  /\ Decided(record,
             IF cached.held < record.frozen
               THEN [kind |-> "lower", cap |-> cached.held]
               ELSE [kind |-> "freeze", cap |-> record.frozen])

\* Faulty variant of Restore: a cap below the recorded one is not the bot's.
RestoreExact ==
  /\ cached.listed /\ ~excluded
  /\ Frozen(cached.cap)
  /\ Decided(record, IF cached.cap = record.frozen
                       THEN [kind |-> "restore", cap |-> record.original]
                       ELSE NoFreeze)

\* Recovered: restore the original cap.
Restore ==
  /\ cached.listed /\ ~excluded
  /\ Frozen(cached.cap)
  /\ Decided(record, [kind |-> "restore", cap |-> record.original])

\* The reserve has left the vault, the operator has raised the cap, or it has
\* recovered with its original cap: the record is dropped, the cap kept.
Drop ==
  /\ record # NoFreeze
  /\ \/ ~cached.listed
     \/ /\ excluded /\ cached.weighted
        /\ ~Frozen(cached.cap)
        /\ cached.cap # record.original
     \/ ~excluded /\ ~Frozen(cached.cap)
  /\ Decided(NoFreeze, NoFreeze)

\* Nothing to do: not weighted, frozen low enough, or neither frozen nor to be.
Keep ==
  /\ \/ cached.listed /\ excluded /\ ~cached.weighted
     \/ /\ cached.listed /\ excluded /\ cached.weighted
        /\ record = NoFreeze \/ Frozen(cached.cap)
        /\ cached.held >= cached.cap
     \/ record = NoFreeze /\ (~excluded \/ ~cached.listed)
  /\ Decided(record, NoFreeze)

\* The file, its lock or the holdings cannot be read or written: the vault goes
\* on to the rebalance without a reconciliation.
DecisionFails ==
  /\ pc = "deciding"
  /\ Fault
  /\ pc' = "rebalancing"
  /\ UNCHANGED <<chain, lingering, operatorCap, unnoticed, record, excluded,
                 cached, update>>

-----------------------------------------------------------------------------
(* Sends, records and reloads                                              *)

\* The update as the chain executes it.
Landed == chain' = [chain EXCEPT !.cap = update.cap, !.weighted = cached.weighted]

\* Confirmed.  A lower or a restore is recorded after that.
Send ==
  /\ pc = "sending"
  /\ Landed
  /\ pc' = IF update.kind = "freeze" THEN "reloading" ELSE "recording"
  /\ UNCHANGED <<lingering, operatorCap, unnoticed, record, excluded, cached, update>>
  /\ Fine

\* The weight update of the rebalance that follows, with the cap of the cache.
\* An excluded reserve gets no weight it did not have.
Reweighs == cached.listed /\ (excluded => cached.weighted)

\* An update under way, of a cap or of a weight, is given up.
GiveUp ==
  \/ UNCHANGED lingering
  \/ /\ pc = "sending"
     /\ lingering' = lingering \cup
          {[cap |-> update.cap, weighted |-> cached.weighted, nr |-> faults]}
  \/ /\ pc = "rebalancing" /\ Reweighs
     /\ lingering' = lingering \cup
          {[cap |-> cached.cap, weighted |-> ~cached.weighted, nr |-> faults]}

\* The send throws without effect so far, or the reserve is not loaded.
SendFails ==
  /\ pc = "sending"
  /\ Fault
  /\ GiveUp
  /\ pc' = "rebalancing"
  /\ UNCHANGED <<chain, operatorCap, unnoticed, record, excluded, cached, update>>

\* The send throws although the transaction lands: its outcome stayed unknown.
LandsUnconfirmed ==
  /\ pc = "sending"
  /\ Fault
  /\ Landed
  /\ pc' = "rebalancing"
  /\ UNCHANGED <<lingering, operatorCap, unnoticed, record, excluded, cached, update>>

\* Faulty variant of RecordUpdate: a lowered cap starts a new record.
RecordAnew ==
  /\ pc = "recording"
  /\ record' = IF update.kind = "restore" THEN NoFreeze
               ELSE [original |-> cached.cap, frozen |-> update.cap]
  /\ pc' = "reloading"
  /\ UNCHANGED <<chain, lingering, operatorCap, unnoticed, excluded, cached, update>>
  /\ Fine

RecordUpdate ==
  /\ pc = "recording"
  /\ record' = IF update.kind = "restore" THEN NoFreeze
               ELSE [record EXCEPT !.frozen = update.cap]
  /\ pc' = "reloading"
  /\ UNCHANGED <<chain, lingering, operatorCap, unnoticed, excluded, cached, update>>
  /\ Fine

\* The file update throws: the vault is reloaded all the same.
RecordingFails ==
  /\ pc = "recording"
  /\ Fault
  /\ pc' = "reloading"
  /\ UNCHANGED <<chain, lingering, operatorCap, unnoticed, record, excluded,
                 cached, update>>

Reload ==
  /\ pc = "reloading"
  /\ cached' = chain
  /\ pc' = "rebalancing"
  /\ UNCHANGED <<chain, lingering, operatorCap, unnoticed, record, excluded, update>>
  /\ Fine

\* Not reloaded: the vault is not rebalanced in this pass.
ReloadFails ==
  /\ pc = "reloading"
  /\ Fault
  /\ pc' = "idle"
  /\ UNCHANGED <<chain, lingering, operatorCap, unnoticed, record, excluded,
                 cached, update>>

\* The rebalance sets the weight; an unchanged weight is not sent.
Rebalance ==
  /\ pc = "rebalancing"
  /\ \/ UNCHANGED chain
     \/ /\ Reweighs
        /\ chain' = [chain EXCEPT !.cap = cached.cap,
                                  !.weighted = ~cached.weighted]
  /\ pc' = "idle"
  /\ UNCHANGED <<lingering, operatorCap, unnoticed, record, excluded, cached, update>>
  /\ Fine

\* Its send throws.
RebalanceFails ==
  /\ pc = "rebalancing"
  /\ Fault
  /\ GiveUp
  /\ pc' = "idle"
  /\ UNCHANGED <<chain, operatorCap, unnoticed, record, excluded, cached, update>>

-----------------------------------------------------------------------------
(* Restarts, the chain and the operator                                    *)

Restart ==
  /\ pc # "idle"
  /\ Fault
  /\ GiveUp
  /\ pc' = "idle"
  /\ UNCHANGED <<chain, operatorCap, unnoticed, record, excluded, cached, update>>

\* The file tells this cap to be the bot's, and has the operator's cap for it.
OnRecord(cap) == Frozen(cap) /\ record.original = operatorCap

\* A transaction the bot has given up lands.  The bot cannot tell that its cap is
\* a freeze once the record is gone or lowered, or when the pass is about to drop
\* or to change the record for what it has loaded or sent.
LandLate(u) ==
  /\ lingering' = lingering \ {u}
  /\ chain' = [chain EXCEPT !.cap = u.cap, !.weighted = u.weighted]
  /\ unnoticed' = (unnoticed \/ ( /\ u.cap # operatorCap
                                 /\ \/ ~OnRecord(u.cap)
                                    \/ pc = "deciding" /\ ~excluded
                                    \/ pc = "recording" ))
  /\ UNCHANGED <<operatorCap, record, passVars>>
  /\ Fine

\* Its blockhash expires.
Expire(u) ==
  /\ lingering' = lingering \ {u}
  /\ UNCHANGED <<chain, operatorCap, unnoticed, record, passVars>>
  /\ Fine

\* Any cranker moves funds into the reserve, up to its cap.
Deposit ==
  /\ chain.listed /\ chain.weighted
  /\ chain.held < chain.cap
  /\ chain' = [chain EXCEPT !.held = @ + 1]
  /\ UNCHANGED <<lingering, operatorCap, unnoticed, record, passVars>>
  /\ Fine

Withdraw ==
  /\ chain.held > 0
  /\ chain' = [chain EXCEPT !.held = @ - 1]
  /\ UNCHANGED <<lingering, operatorCap, unnoticed, record, passVars>>
  /\ Fine

Operator ==
  /\ pc = "idle" /\ lingering = {}
  /\ changes < MaxChanges
  /\ changes' = changes + 1
  /\ UNCHANGED <<lingering, record, passVars, faults>>

\* The operator sets the cap, of a reserve that may have left the vault before.
\* One at or below the frozen cap passes for the bot's.
OperatorSetsCap ==
  /\ Operator
  /\ \E c \in Caps :
       /\ chain.listed => c # chain.cap
       /\ chain' = [chain EXCEPT !.listed = TRUE, !.cap = c]
       /\ operatorCap' = c
       /\ unnoticed' = (unnoticed \/ Frozen(c))

\* The reserve leaves the vault.
OperatorDelists ==
  /\ Operator
  /\ chain.listed /\ chain.held = 0
  /\ chain' = [chain EXCEPT !.listed = FALSE, !.weighted = FALSE]
  /\ UNCHANGED <<operatorCap, unnoticed>>

Reconcile ==
  \/ Freeze
  \/ Lower
  \/ Resend
  \/ Restore
  \/ Drop
  \/ Keep

PassStep == Load \/ Reconcile \/ Send \/ RecordUpdate \/ Reload \/ Rebalance

PassFault ==
  \/ DecisionFails
  \/ SendFails
  \/ LandsUnconfirmed
  \/ RecordingFails
  \/ ReloadFails
  \/ RebalanceFails
  \/ Restart

Next ==
  \/ PassStep
  \/ PassFault
  \/ \E u \in lingering : LandLate(u) \/ Expire(u)
  \/ Deposit
  \/ Withdraw
  \/ OperatorSetsCap
  \/ OperatorDelists

Spec == Init /\ [][Next]_vars

\* The loop goes on; what may go wrong is counted in `faults`.
FairSpec == Spec /\ WF_vars(PassStep)

-----------------------------------------------------------------------------
(* Properties                                                              *)

\* A cap that is not the operator's can be told and undone: its freeze is on
\* record with the operator's cap, and it is at or below the frozen cap.
Accountable == chain.listed /\ chain.cap # operatorCap => OnRecord(chain.cap)

\* So it is at every point where the bot may crash or a call may fail, also after
\* updates that land late, except for the changes that the file cannot tell: a
\* late update whose record has been dropped or lowered, or is by the pass under
\* way, and an operator's cap at or below the frozen one (compare Accountable).
Journaled == ~unnoticed => Accountable

\* With the same exceptions, a restore gives the reserve the cap the operator
\* last set, not an older one.
RestoresOperatorCap ==
  [][~unnoticed /\ pc = "sending" /\ update.kind = "restore" /\ pc' # "sending"
       /\ chain'.cap # chain.cap => chain'.cap = operatorCap]_vars

\* Once the reserve stays recovered, its cap is the operator's for good, unless
\* the cap has changed so that the bot could not tell.
CapRestored ==
  <>[](~excluded) =>
    <>unnoticed \/ <>[](chain.listed => chain.cap = operatorCap)

\* While the reserve stays excluded, deposits are closed again and again,
\* whatever landed late: by a freeze that did not land and is sent once more, or
\* one that follows the holding down.
DepositsClosed ==
  <>[]excluded => []<>(chain.weighted => chain.cap <= chain.held)

\* Changed vaults are reloaded or not rebalanced, so that a weight update does
\* not give a vault its old caps back.
RebalanceKeepsCap ==
  [][pc = "rebalancing" /\ pc' = "idle" => chain'.cap = chain.cap]_vars

=============================================================================
