------------------------------ MODULE InvestLoop ------------------------------
(***************************************************************************)
(* The invest loop of the main process (investing_loop.ts) and one vault.  *)
(* A pass loads the vault, decides whether to invest it                    *)
(* (investing/investDecision.ts), has the SDK build the instructions from a*)
(* fresh load, drops those into reserves that get no new funds and sends   *)
(* the others in batches (utils/investReserves.ts).  Meanwhile the worker  *)
(* thread blacklists reserves, evacuates and rebalances the vault, and     *)
(* tells which reserves get no new funds.                                  *)
(*                                                                         *)
(* An instruction moves its reserve to the target the program computes     *)
(* from the weights when it executes.  A transaction is a single step: it  *)
(* lands, is rejected or its outcome stays unknown (see SendTransaction).  *)
(* The preamble (see ReserveBatches), the slots between invests, the cap on*)
(* a single move and deposits or withdrawals of users are left out.        *)
(***************************************************************************)
EXTENDS Integers, FiniteSets, FiniteSetsExt

CONSTANTS
  Reserves,      \* those of the vault, by their place in the SDK's order
  Assets,        \* the vault's tokens
  MinInvest,     \* minInvestTokens
  BatchSize,     \* reserves in a transaction
  MayBreak,      \* reserves whose instruction the program may reject
  MayExclude,    \* reserves that may get no new funds
  MayBlacklist,  \* reserves that may be blacklisted
  MaxEvents      \* bound: what others do, and faults

ASSUME InvestAssumption ==
  /\ Reserves \subseteq Nat \ {0} /\ IsFiniteSet(Reserves)
  /\ Assets \in Nat /\ MinInvest \in Nat /\ MaxEvents \in Nat
  /\ BatchSize \in Nat \ {0}
  /\ MayBreak \subseteq Reserves
  /\ MayExclude \subseteq Reserves
  /\ MayBlacklist \subseteq Reserves

Amounts == [Reserves -> 0..Assets]
Total(tokens, S) == MapThenSumSet(LAMBDA r : tokens[r], S)
Holdings == {h \in Amounts : Total(h, Reserves) <= Assets}
Empty == [r \in Reserves |-> 0]
NoView == [target |-> Empty, held |-> Empty]

VARIABLES
  \* chain
  target,     \* tokens each reserve should hold, by the weights
  held,       \* tokens it holds; the rest of the assets are idle
  broken,     \* reserves whose instruction is rejected whatever it moves
  \* worker thread
  blacklist,  \* the file: reserves
  fresh,      \* those of them without their pending evacuation so far
  pending,    \* the file: pending evacuations of the vault
  excluded,   \* no new funds, as last told to the main process
  \* invest loop
  pc,
  view,       \* the vault as loaded at the start of the pass
  decided,    \* the exclusions the decision counts with
  cooling,    \* reserves in cooldown
  out, in,    \* the plan: withdrawals go before deposits
  rest,       \* instructions that no batch has taken yet
  solo,       \* those of a failed batch that are still to be sent alone
  missing,    \* instructions that were left out or rejected
  sent,
  \* history
  known,      \* blacklisted, with their evacuation pending, at the gate
  closed,     \* excluded all the time since before the plan was built
  events

chain == <<target, held, broken>>
worker == <<blacklist, fresh, pending, excluded>>
decision == <<view, decided, known>>
batches == <<out, in, rest, solo, missing, sent>>
vars == <<chain, worker, pc, decision, cooling, batches, closed, events>>

TypeOK ==
  /\ target \in Holdings /\ held \in Holdings
  /\ broken \subseteq MayBreak
  /\ blacklist \subseteq MayBlacklist
  /\ fresh \subseteq blacklist /\ pending \subseteq blacklist
  /\ excluded \subseteq MayExclude
  /\ pc \in {"idle", "loaded", "gating", "weighing", "building", "checking", "sending"}
  /\ view \in [target : Holdings, held : Holdings]
  /\ decided \subseteq MayExclude
  /\ cooling \subseteq Reserves
  /\ out \subseteq Reserves /\ in \subseteq Reserves \ out
  /\ rest \subseteq out \cup in /\ solo \subseteq out \cup in
  /\ missing \subseteq out \cup in /\ sent \subseteq (out \cup in) \ missing
  /\ known \subseteq MayBlacklist
  /\ closed \subseteq MayExclude
  /\ events \in 0..MaxEvents

Init ==
  /\ target \in Holdings
  /\ held \in {target, Empty}
  /\ broken = {}
  /\ blacklist = {} /\ fresh = {} /\ pending = {} /\ excluded = {}
  /\ pc = "idle"
  /\ view = NoView
  /\ decided = {} /\ cooling = {}
  /\ out = {} /\ in = {} /\ rest = {} /\ solo = {} /\ missing = {} /\ sent = {}
  /\ known = {} /\ closed = {}
  /\ events = 0

-----------------------------------------------------------------------------
(* The decision                                                            *)

\* The loop turns to the next pass; what it knew of the vault is dropped.
Leave ==
  /\ pc' = "idle"
  /\ view' = NoView
  /\ decided' = {} /\ known' = {} /\ closed' = {}
  /\ out' = {} /\ in' = {} /\ rest' = {} /\ solo' = {} /\ missing' = {} /\ sent' = {}

\* A pass in which the vault is due.
StartPass ==
  /\ pc = "idle"
  /\ pc' = "loaded"
  /\ view' = [target |-> target, held |-> held]
  /\ UNCHANGED <<chain, worker, decided, known, cooling, batches, closed, events>>

\* The vault's turn: the exclusions are read, then its holdings computed.
TakeUp ==
  /\ pc = "loaded"
  /\ pc' = "gating"
  /\ decided' = excluded
  /\ UNCHANGED <<chain, worker, view, known, cooling, batches, closed, events>>

\* vaultHasExposureToReserves, for what was loaded
Exposed(reserves) == \E r \in reserves : view.target[r] > 0 \/ view.held[r] > 0

\* Faulty variant of Blocked: the pending evacuations are not looked at.
BlockedByExposure == Exposed(blacklist)

\* shouldBlockVaultInvestmentForDangerNow
Blocked == pending # {} \/ Exposed(blacklist)

Gate ==
  /\ pc = "gating"
  /\ IF Blocked
       THEN Leave
       ELSE /\ pc' = "weighing"
            /\ known' = blacklist \ fresh
            /\ UNCHANGED <<view, decided, batches, closed>>
  /\ UNCHANGED <<chain, worker, cooling, events>>

\* depositsInto
DepositsInto(noNewFunds, wanted, holding) ==
  {r \in noNewFunds : wanted[r] > holding[r]}

\* Tokens that the invest can be expected to move, either way.
ToMove ==
  LET dropped == DepositsInto(decided, view.target, view.held)
      more == [r \in Reserves |-> view.target[r] - view.held[r]]
      up == {r \in Reserves : more[r] > 0}
      free == Reserves \ (cooling \cup dropped)
      deposits == Total(more, up \cap free)
      withdrawals == -Total(more, free \ up)
      unsent == Total(more, up \ free)
  IN IF Total(view.target, Reserves) = 0
       THEN Total(view.held, Reserves \ cooling)
       ELSE Max({deposits, withdrawals - unsent})

Weigh ==
  /\ pc = "weighing"
  /\ IF ToMove > MinInvest
       THEN pc' = "building" /\ UNCHANGED <<decision, batches, closed>>
       ELSE Leave
  /\ UNCHANGED <<chain, worker, cooling, events>>

\* Faulty variant of Plan: the exclusions of the decision hold.
StalePlan(noNewFunds) ==
  LET skipped == (in \cap decided) \cup (cooling \cap (out \cup in)) IN
  /\ missing' = skipped
  /\ rest' = (out \cup in) \ skipped

\* Instructions that are skipped from the start: deposits into reserves that get
\* no new funds, and those of reserves in cooldown.
Plan(noNewFunds) ==
  LET skipped == (in \cap noNewFunds) \cup (cooling \cap (out \cup in)) IN
  /\ missing' = skipped
  /\ rest' = (out \cup in) \ skipped

\* The SDK loads the vault again and builds the instructions.
Build ==
  /\ pc = "building"
  /\ pc' = "checking"
  /\ out' = {r \in Reserves : target[r] < held[r]}
  /\ in' = {r \in Reserves : target[r] > held[r]}
  /\ closed' = excluded
  /\ UNCHANGED <<chain, worker, decision, cooling, rest, solo, missing, sent, events>>

\* The exclusions are read again.
ReadExclusions ==
  /\ pc = "checking"
  /\ pc' = "sending"
  /\ Plan(excluded)
  /\ UNCHANGED <<chain, worker, decision, cooling, out, in, solo, sent, closed, events>>

-----------------------------------------------------------------------------
(* Sending                                                                 *)

\* The order of the plan.
Before(a, b) ==
  \/ a \in out /\ b \in in
  \/ (a \in out <=> b \in out) /\ a < b

First(n, S) == {r \in S : Cardinality({q \in S : Before(q, r)}) < n}

\* What the program answers to the instruction of r when the reserves hold `tokens`.
Answer(tokens, r) ==
  LET more == target[r] - tokens[r]
      idle == Assets - Total(tokens, Reserves)
  IN  IF r \in broken THEN "own"
      ELSE IF more = 0 THEN "minimum"
      ELSE IF more > idle THEN "funds"
      ELSE "done"

\* The holdings with the reserves of S at their targets.
Moved(S) == [r \in Reserves |-> IF r \in S THEN target[r] ELSE held[r]]

\* A transaction executes its instructions in order, all of them or none.
Executes(batch) ==
  \A r \in batch : Answer(Moved({q \in batch : Before(q, r)}), r) = "done"

Lands(batch) ==
  /\ Executes(batch)
  /\ held' = Moved(batch)
  /\ sent' = sent \cup batch

\* The outcome is unknown: the error is passed on, and the vault left alone.
Lost(batch) ==
  /\ events < MaxEvents
  /\ events' = events + 1
  /\ held' = held \/ (Executes(batch) /\ held' = Moved(batch))
  /\ Leave
  /\ UNCHANGED <<target, broken, worker, cooling>>

\* Faulty variant of SendBatch: a rejected batch ends the invest of the vault.
SendBatchOrLeave ==
  /\ pc = "sending" /\ solo = {} /\ rest # {}
  /\ LET batch == First(BatchSize, rest) IN
     /\ Cardinality(batch) > 1
     /\ \/ /\ Lands(batch)
           /\ rest' = rest \ batch
           /\ UNCHANGED <<solo, pc, decision, out, in, missing, closed>>
        \/ ~Executes(batch) /\ Leave /\ UNCHANGED held
  /\ UNCHANGED <<target, broken, worker, cooling, events>>

\* The next transaction of several reserves; when it is rejected, each of them is
\* sent alone.
SendBatch ==
  /\ pc = "sending" /\ solo = {} /\ rest # {}
  /\ LET batch == First(BatchSize, rest) IN
     /\ Cardinality(batch) > 1
     /\ rest' = rest \ batch
     /\ \/ Lands(batch) /\ UNCHANGED solo
        \/ ~Executes(batch) /\ solo' = batch /\ UNCHANGED <<held, sent>>
  /\ UNCHANGED <<target, broken, worker, pc, decision, cooling, out, in, missing, closed, events>>

\* Faulty variant of RecordFailure: only a move that is too small is forgiven.
RecordAnyFailure(r, failure) ==
  /\ cooling' = IF failure = "minimum" THEN cooling ELSE cooling \cup {r}
  /\ missing' = missing \cup {r}

\* recordProgramFailure: funds that an instruction before it was to bring are not
\* the reserve's fault, nor is a move that is too small by now.
RecordFailure(r, failure) ==
  /\ cooling' =
       IF failure = "minimum" \/ (failure = "funds" /\ \E m \in missing : Before(m, r))
         THEN cooling
         ELSE cooling \cup {r}
  /\ missing' = missing \cup {r}

\* A reserve alone: the last batch, or one of a failed batch.
SendOne ==
  /\ pc = "sending"
  /\ \E r \in First(1, IF solo # {} THEN solo ELSE rest) :
       /\ solo # {} \/ First(BatchSize, rest) = {r}
       /\ rest' = rest \ {r} /\ solo' = solo \ {r}
       /\ \/ Lands({r}) /\ UNCHANGED <<cooling, missing>>
          \/ /\ ~Executes({r})
             /\ RecordFailure(r, Answer(held, r))
             /\ UNCHANGED <<held, sent>>
  /\ UNCHANGED <<target, broken, worker, pc, decision, out, in, closed, events>>

LoseOne ==
  /\ pc = "sending"
  /\ \/ solo # {} /\ Lost(First(1, solo))
     \/ solo = {} /\ rest # {} /\ Lost(First(BatchSize, rest))

Finish ==
  /\ pc = "sending" /\ solo = {} /\ rest = {}
  /\ Leave
  /\ UNCHANGED <<chain, worker, cooling, events>>

-----------------------------------------------------------------------------
(* What else happens                                                       *)

Happens ==
  /\ events < MaxEvents
  /\ events' = events + 1

\* A load fails, the SDK does not answer or the utilization limit forbids the
\* plan: this vault is left alone for the pass.
SkipVault ==
  /\ pc \in {"loaded", "gating", "weighing", "building", "checking"}
  /\ Happens
  /\ Leave
  /\ UNCHANGED <<chain, worker, cooling>>

\* The file cannot be read: the loop throws and is started again without what
\* it kept in memory.
RestartLoop ==
  /\ pc = "gating"
  /\ Happens
  /\ Leave
  /\ cooling' = {}
  /\ UNCHANGED <<chain, worker>>

\* A cooldown elapses.
Elapse(r) ==
  /\ r \in cooling
  /\ cooling' = cooling \ {r}
  /\ UNCHANGED <<chain, worker, pc, decision, batches, closed, events>>

\* A reserve breaks or works again.
Break ==
  /\ Happens
  /\ \E r \in MayBreak : broken' = (broken \ {r}) \cup ({r} \ broken)
  /\ UNCHANGED <<target, held, worker, pc, decision, cooling, batches, closed>>

\* A rebalance of the worker changes the weights; blacklisted reserves get none.
Rebalance ==
  /\ fresh = {} /\ pending = {}
  /\ Happens
  /\ \E wanted \in Holdings :
       /\ \A r \in blacklist : wanted[r] = 0
       /\ target' = wanted
  /\ UNCHANGED <<held, broken, worker, pc, decision, cooling, batches, closed>>

\* Another invest of the vault, the rebalance's own, moves a reserve.
InvestedElsewhere ==
  /\ fresh = {} /\ pending = {}
  /\ Happens
  /\ \E r \in Reserves \ blacklist :
       /\ Executes({r})
       /\ held' = Moved({r})
  /\ UNCHANGED <<target, broken, worker, pc, decision, cooling, batches, closed>>

\* A danger pass ends and tells which reserves get no new funds.
TellExclusions ==
  /\ Happens
  /\ excluded' \in SUBSET MayExclude \ {excluded}
  /\ closed' = closed \cap excluded'
  /\ UNCHANGED <<chain, blacklist, fresh, pending, pc, decision, cooling, batches>>

\* A danger pass blacklists a reserve ...
Blacklist ==
  /\ fresh = {} /\ pending = {}
  /\ Happens
  /\ \E r \in MayBlacklist \ blacklist :
       /\ blacklist' = blacklist \cup {r}
       /\ fresh' = {r}
  /\ UNCHANGED <<chain, pending, excluded, pc, decision, cooling, batches, closed>>

\* ... writes down the evacuation of the vault, if it is exposed ...
RegisterEvacuation ==
  /\ fresh # {}
  /\ pending' = {r \in fresh : target[r] > 0 \/ held[r] > 0}
  /\ fresh' = {}
  /\ UNCHANGED <<chain, blacklist, excluded, pc, decision, cooling, batches, closed, events>>

\* ... takes away the weight, withdraws, and clears the evacuation.
ZeroWeight ==
  /\ fresh = {}
  /\ \E r \in pending :
       /\ target[r] > 0
       /\ target' = [target EXCEPT ![r] = 0]
  /\ UNCHANGED <<held, broken, worker, pc, decision, cooling, batches, closed, events>>

Evacuate ==
  /\ fresh = {}
  /\ \E r \in pending :
       /\ target[r] = 0 /\ held[r] > 0
       /\ held' = [held EXCEPT ![r] = 0]
  /\ UNCHANGED <<target, broken, worker, pc, decision, cooling, batches, closed, events>>

ClearEvacuation ==
  /\ fresh = {} /\ pending # {}
  /\ \A r \in pending : target[r] = 0 /\ held[r] = 0
  /\ pending' = {}
  /\ UNCHANGED <<chain, blacklist, fresh, excluded, pc, decision, cooling, batches, closed, events>>

InvestStep ==
  \/ StartPass \/ TakeUp \/ Gate \/ Weigh \/ Build \/ ReadExclusions
  \/ SendBatch \/ SendOne \/ Finish

Response == RegisterEvacuation \/ ZeroWeight \/ Evacuate \/ ClearEvacuation

Next ==
  \/ InvestStep \/ LoseOne \/ SkipVault \/ RestartLoop \/ \E r \in Reserves : Elapse(r)
  \/ Response \/ Blacklist \/ Rebalance \/ InvestedElsewhere \/ TellExclusions \/ Break

\* The loop goes on, each cooldown elapses, and the response is retried every pass.
Fairness ==
  /\ WF_vars(InvestStep)
  /\ \A r \in Reserves : WF_vars(Elapse(r))
  /\ WF_vars(Response)

Spec == Init /\ [][Next]_vars
FairSpec == Spec /\ Fairness

-----------------------------------------------------------------------------
(* Properties                                                              *)

\* A vault whose evacuation was pending when the gate was passed is not invested,
\* whatever the loop had loaded before: no transaction of the loop deposits into
\* a reserve whose evacuation had been written down by then.
NoDepositOnceKnown ==
  [][pc = "sending" /\ <<InvestStep \/ LoseOne>>_vars
       => \A r \in known : held'[r] <= held[r]]_vars

\* A danger pass that ends before the plan is complete counts: a reserve that has
\* been excluded since before the plan was built gets no instruction to deposit.
ExclusionsHonoured ==
  pc = "sending" => in \cap closed \cap (rest \cup solo \cup sent) = {}

\* The cooldown of a reserve never starts for a fault that is not its own: not
\* when the funds for its deposit would have come from an instruction of the
\* same plan that was left out or rejected.
Owing(r) == {m \in (out \cup in) \ sent : Before(m, r) /\ target[m] < held[m]}

NoReserveBlamedForAnother ==
  [][\A r \in cooling' \ cooling :
       \/ r \in broken
       \/ target[r] - held[r] - Total([m \in Reserves |-> held[m] - target[m]], Owing(r)) >
            Assets - Total(held, Reserves)]_vars

\* One reserve that keeps being rejected does not keep the vault uninvested: in
\* the end nothing that could be deposited lies idle.
Depositable(r) ==
  /\ r \notin broken \cup excluded \cup blacklist
  /\ target[r] > held[r]
  /\ target[r] - held[r] <= Assets - Total(held, Reserves)

NothingLiesIdle == <>[](\A r \in Reserves : ~Depositable(r))

=============================================================================
