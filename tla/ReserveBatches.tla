------------------------------ MODULE ReserveBatches ------------------------------
(***************************************************************************)
(* The emergency response to a vault (dangerResponse.ts): the weights of   *)
(* the dangerous reserves are set to zero, the vault is reloaded, and their*)
(* funds are withdrawn, both in batches (reserveBatches.ts) of which a     *)
(* failed one is sent again reserve by reserve.  A reserve whose broadcasts*)
(* keep failing is no longer forced past a failed simulation               *)
(* (deinvestFailures.ts).  Each batch is a call of SendTransaction.        *)
(*                                                                         *)
(* A reserve is its ordinal in the plan of the SDK.  What a transaction of *)
(* an earlier response may still do is left out: weights and funds are read*)
(* afresh, so they are any at the start of a response.  So is the plan with*)
(* instructions that cannot be told apart, which goes out in plain batches.*)
(***************************************************************************)
EXTENDS SendTransaction, FiniteSets

CONSTANTS
  BatchSize,    \* instructions in a transaction
  Limit,        \* DEFAULT_FORCE_SEND_FAILURE_LIMIT
  MaxPreamble   \* bound: accounts the SDK creates before the withdrawals

ASSUME BatchAssumption ==
  /\ Reserves \subseteq Nat
  /\ IsFiniteSet(Reserves)
  /\ BatchSize \in Nat \ {0}
  /\ Limit \in Nat \ {0}
  /\ MaxPreamble \in Nat

VARIABLES
  stage,      \* where executeDangerResponse is
  plan,       \* the reserves that have an instruction in this stage
  rest,       \* those that no batch has taken yet
  solo,       \* those of a failed batch that are still to be sent alone
  retrying,   \* the transaction is such a retry, of one that was broadcast or not
  preamble,   \* instructions to go first that have not been confirmed
  zeroed,     \* chain: the reserves without a weight
  sent, failed,
  missing,    \* reserves whose withdrawal was rejected and comes first
  failures,   \* failed broadcasts in a row, up to Limit
  streak      \* history: those that count, by what the call threw

batchVars == <<plan, rest, solo, retrying, preamble>>
outcomeVars == <<sent, failed, missing>>
vars == <<sendVars, stage, batchVars, zeroed, outcomeVars, failures, streak>>

TypeOK ==
  /\ SendTypeOK
  /\ stage \in {"idle", "zeroing", "withdrawing", "done"}
  /\ plan \subseteq Reserves
  /\ rest \subseteq plan
  /\ solo \subseteq plan
  /\ retrying \in {"no", "unsent", "broadcast"}
  /\ preamble \in 0..MaxPreamble
  /\ zeroed \subseteq Reserves
  /\ sent \subseteq Reserves
  /\ failed \subseteq Reserves
  /\ missing \subseteq Reserves
  /\ failures \in [Reserves -> 0..Limit]
  /\ streak \in [Reserves -> 0..Limit]

Init ==
  /\ SendInit
  /\ stage = "idle"
  /\ plan = {} /\ rest = {} /\ solo = {}
  /\ retrying = "no"
  /\ preamble = 0
  /\ zeroed = Reserves
  /\ sent = {} /\ failed = {} /\ missing = {}
  /\ failures = [r \in Reserves |-> 0]
  /\ streak = [r \in Reserves |-> 0]

-----------------------------------------------------------------------------
(* The stages of the response                                              *)

\* The calls of a stage begin: there are none yet, and this is its plan.
Planned(reserves, first) ==
  /\ Forget
  /\ plan' = reserves
  /\ rest' = reserves
  /\ solo' = {}
  /\ retrying' = "no"
  /\ preamble' = first
  /\ sent' = {} /\ failed' = {} /\ missing' = {}

\* The response is over.
Ended ==
  /\ stage' = "idle"
  /\ zeroed' = Reserves
  /\ Planned({}, 0)

\* Weights are zeroed where there is one and the state of the reserve is known.
Respond ==
  /\ stage = "idle"
  /\ stage' = "zeroing"
  /\ \E weighted \in SUBSET Reserves : \E known \in SUBSET weighted :
       /\ zeroed' = Reserves \ weighted
       /\ Planned(known, 0)
  /\ UNCHANGED <<failures, streak>>

Between == pc = "idle" /\ rest = {} /\ solo = {}

\* The vault is reloaded: withdrawals from what is zeroed by then.
Reload ==
  /\ stage = "zeroing" /\ Between
  /\ stage' = "withdrawing"
  /\ \E reserves \in SUBSET zeroed :
       \E first \in IF reserves = {} THEN {0} ELSE 0..MaxPreamble :
         Planned(reserves, first)
  /\ UNCHANGED <<zeroed, failures, streak>>

Finish ==
  /\ stage = "withdrawing" /\ Between
  /\ stage' = "done"
  /\ UNCHANGED <<sendVars, batchVars, zeroed, outcomeVars, failures, streak>>

\* The caller takes the outcome.
Return ==
  /\ stage = "done"
  /\ Ended
  /\ UNCHANGED <<failures, streak>>

\* The pass has been superseded, or the vault cannot be reloaded.
Abort ==
  /\ stage \in {"zeroing", "withdrawing"}
  /\ pc = "idle"
  /\ Ended
  /\ UNCHANGED <<failures, streak>>

-----------------------------------------------------------------------------
(* sendReserveBatches                                                      *)

\* The first n members in the order of the plan.
First(n, S) == {r \in S : Cardinality({q \in S : q < r}) < n}

\* A batch of the preamble alone.
SendPreamble ==
  /\ stage = "withdrawing" /\ pc = "idle"
  /\ rest = plan /\ preamble >= BatchSize
  /\ Begin({}, TRUE)
  /\ UNCHANGED <<stage, batchVars, zeroed, landed, outcomeVars, failures, streak>>

\* The next batch, with what is left of the preamble.
SendBatch ==
  /\ stage \in {"zeroing", "withdrawing"} /\ pc = "idle"
  /\ preamble < BatchSize
  /\ rest # {} /\ solo = {}
  /\ LET batch == First(BatchSize - preamble, rest) IN
       /\ Begin(batch, preamble > 0)
       /\ rest' = rest \ batch
  /\ retrying' = "no"
  /\ UNCHANGED <<stage, plan, solo, preamble, zeroed, landed, outcomeVars, failures, streak>>

\* A reserve of a failed batch, alone.
SendSolo ==
  /\ stage \in {"zeroing", "withdrawing"} /\ pc = "idle"
  /\ \E r \in First(1, solo) :
       /\ Begin({r}, preamble > 0)
       /\ solo' = solo \ {r}
  /\ UNCHANGED <<stage, plan, rest, retrying, preamble, zeroed, landed, outcomeVars, failures, streak>>

\* shouldForceSend for the whole batch; a preamble alone is always forced.
ForceEligible == \A r \in call.batch : failures[r] < Limit

\* isDownstreamFundingFailure: the funds may be wanting because an earlier
\* withdrawal of this response did not happen.
Earlier(r) == \E m \in missing : m < r

Downstream(e) ==
  /\ stage = "withdrawing"
  /\ e.type # "unknown" /\ e.verdict.funding
  /\ IF e.verdict.blame \in call.batch
       THEN Earlier(e.verdict.blame)
       ELSE \E r \in call.batch : Earlier(r)

\* Faulty variant of Allowed: each reserve of the batch may be forced by itself.
AllowedForAny(e) ==
  \/ call.batch = {}
  \/ /\ \E r \in call.batch : failures[r] < Limit
     /\ ~(retrying = "broadcast" /\ Attributable(e))
     /\ ~Downstream(e)

\* Whether a transaction goes out although its simulation threw e.
Allowed(e) ==
  \/ call.batch = {}
  \/ /\ ForceEligible
     /\ ~(retrying = "broadcast" /\ Attributable(e))
     /\ ~Downstream(e)

\* Faulty variant of Handled: an unknown outcome is like a rejection.
HandledUnknown(e) ==
  /\ call.batch # {}
  /\ ~(stage = "withdrawing" /\ e.verdict.blame = Outside)

\* The failures of which the response goes on with other transactions.  One
\* that may still land is never among them.
Handled(e) ==
  /\ call.batch # {}
  /\ \/ Attributable(e) /\ ~(stage = "withdrawing" /\ e.verdict.blame = Outside)
     \/ /\ e.type = "simulation" /\ ~Attributable(e)
        /\ stage = "zeroing" => ~ForceEligible

Count(f, r) == [f EXCEPT ![r] = IF @ < Limit THEN @ + 1 ELSE @]

Cleared(f) == [r \in Reserves |-> IF r \in call.batch THEN 0 ELSE f[r]]

Returned ==
  /\ pc = "returned"
  /\ pc' = "idle"
  /\ preamble' = IF call.batch = {} THEN preamble - BatchSize ELSE 0
  /\ failures' = Cleared(failures)
  /\ streak' = Cleared(streak)
  /\ failed' = failed \ call.batch
  /\ sent' = IF stage = "withdrawing" THEN sent \cup call.batch ELSE sent
  /\ UNCHANGED <<callVars, ledgerVars, stage, plan, rest, solo, retrying, zeroed, missing>>

\* The reserve a failed broadcast counts for.
Blamed(e) ==
  IF e.type # "landed" \/ Downstream(e) THEN {}
  ELSE IF e.verdict.blame \in call.batch THEN {e.verdict.blame}
  ELSE IF Cardinality(call.batch) = 1 THEN call.batch
  ELSE {}

Recorded(e) ==
  failures' = IF Blamed(e) = {} THEN failures
              ELSE Count(failures, CHOOSE r \in Blamed(e) : TRUE)

\* Faulty variant of BatchFailed: the batch is given up.
BatchGivenUp ==
  /\ pc = "threw" /\ Handled(error)
  /\ Cardinality(call.batch) > 1
  /\ pc' = "idle"
  /\ failed' = failed \cup call.batch
  /\ UNCHANGED <<callVars, ledgerVars, stage, batchVars, zeroed, sent, missing, failures, streak>>

\* onBatchFailure: the reserves of the batch are sent one at a time.
BatchFailed ==
  /\ pc = "threw" /\ Handled(error)
  /\ Cardinality(call.batch) > 1
  /\ pc' = "idle"
  /\ solo' = call.batch
  /\ retrying' = IF error.type = "landed" THEN "broadcast" ELSE "unsent"
  /\ Recorded(error)
  /\ UNCHANGED <<callVars, ledgerVars, stage, plan, rest, preamble, zeroed, outcomeVars, streak>>

\* onReserveFailure
ReserveFailed ==
  /\ pc = "threw" /\ Handled(error)
  /\ Cardinality(call.batch) = 1
  /\ pc' = "idle"
  /\ failed' = failed \cup call.batch
  /\ missing' = IF stage = "withdrawing" THEN missing \cup call.batch ELSE missing
  /\ Recorded(error)
  /\ UNCHANGED <<callVars, ledgerVars, stage, batchVars, zeroed, sent, streak>>

\* Anything else ends the response.
Rethrown ==
  /\ pc = "threw" /\ ~Handled(error)
  /\ Ended
  /\ UNCHANGED <<failures, streak>>

-----------------------------------------------------------------------------
(* The calls                                                               *)

\* The history: a broadcast that was rejected counts for the reserve it is
\* attributed to, unless it wants funds that an earlier withdrawal, which did
\* not happen, was to bring.
Attributed(e) ==
  [r \in Reserves |->
     IF /\ e.type = "landed" /\ streak[r] < Limit
        /\ e.verdict.blame = r \/ (e.verdict.blame = Nobody /\ call.batch = {r})
        /\ e.verdict.funding /\ stage = "withdrawing"
             => \A m \in plan : m < r => m \notin failed
       THEN streak[r] + 1
       ELSE streak[r]]

SendStep ==
  /\ \/ SimulationPasses
     \/ SimulationFails({e \in Errors : Allowed(e)})
     \/ SetupFails
     \/ Confirmed
     \/ ConfirmationFails
     \/ FoundExecuted
     \/ FoundRejected
     \/ StaysUnknown
     \/ Retry
  /\ streak' = IF pc' = "threw" THEN Attributed(error') ELSE streak
  /\ UNCHANGED <<stage, batchVars, zeroed, outcomeVars, failures>>

\* The ledger, while the response runs.
LedgerStep ==
  /\ Ledger
  /\ zeroed' = IF stage = "zeroing"
                 THEN zeroed \cup {r \in Reserves : landed'[r] > 0}
                 ELSE zeroed
  /\ UNCHANGED <<stage, batchVars, outcomeVars, failures, streak>>

\* The failures are counted in memory.
Restart ==
  /\ Ended
  /\ failures' = [r \in Reserves |-> 0]
  /\ streak' = [r \in Reserves |-> 0]

ResponseStep ==
  \/ Respond \/ Reload \/ Finish \/ Return
  \/ SendPreamble \/ SendBatch \/ SendSolo
  \/ Returned \/ BatchFailed \/ ReserveFailed \/ Rethrown

Next == ResponseStep \/ Abort \/ Restart \/ SendStep \/ LedgerStep

Spec == Init /\ [][Next]_vars

-----------------------------------------------------------------------------
(* Properties                                                              *)

\* No instruction of a response is executed twice: not by a retry of an expired
\* transaction, nor by the retry of a failed batch reserve by reserve.
ExecutedAtMostOnce == \A r \in Reserves : landed[r] <= 1

\* A transaction is forced past a failed simulation only while each of its
\* reserves has fewer than `Limit` attributed failed broadcasts in a row.
ForceLimited ==
  pc = "confirming" /\ forced => \A r \in call.batch : streak[r] < Limit

\* One rejected reserve does not stop the others: when a response comes to its
\* end, every reserve that the programs do not reject has been zeroed, and its
\* withdrawal executed.
OthersNotStopped ==
  /\ stage = "zeroing" /\ Between => plan \ MayReject \subseteq zeroed
  /\ stage = "done" => plan \ MayReject \subseteq sent

\* The outcome that is reported at the end is what the ledger says.
OutcomeTruthful ==
  stage = "done" =>
    /\ sent = {r \in plan : landed[r] > 0}
    /\ failed = plan \ sent

=============================================================================
