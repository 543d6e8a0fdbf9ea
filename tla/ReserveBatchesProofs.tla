-------------------------- MODULE ReserveBatchesProofs --------------------------
(***************************************************************************)
(* Nothing is executed twice and the outcome is what the ledger says, for  *)
(* every plan, batch size, number of attempts and limit on forced sends.   *)
(* And a response ends: whatever fails, its steps use up a finite number.  *)
(***************************************************************************)
EXTENDS ReserveBatches, FiniteSetTheorems, WellFoundedInduction, TLAPS

\* The reserves of the call that is under way.
InFlight == IF pc = "idle" THEN {} ELSE call.batch

Places ==
  /\ pc \in {"idle", "simulating", "confirming", "reconciling", "returned", "threw"}
  /\ stage \in {"idle", "zeroing", "withdrawing", "done"}
  /\ pc # "idle" => stage \in {"zeroing", "withdrawing"}
  /\ call.batch \subseteq Reserves
  /\ plan \subseteq Reserves /\ zeroed \subseteq Reserves
  /\ rest \subseteq plan /\ solo \subseteq plan /\ InFlight \subseteq plan
  /\ rest \cap solo = {} /\ rest \cap InFlight = {} /\ solo \cap InFlight = {}
  /\ pc # "idle" /\ solo # {} => call.batch = {} \/ Cardinality(call.batch) = 1

\* What the ledger may still do with the transactions of a call: an earlier
\* attempt has been dropped for good, and a call that is over for the response
\* has nothing under way.
Attempts ==
  /\ attempt \in 1..MaxAttempts
  /\ fate \in [1..MaxAttempts -> Fates]
  /\ \A k \in 1..MaxAttempts :
       /\ k < attempt => fate[k] = "dropped"
       /\ k > attempt => fate[k] = "unsent"
  /\ pc = "idle" => fate[attempt] # "pending"
  /\ pc = "simulating" => fate[attempt] = "unsent"
  /\ pc = "reconciling" /\ expired => fate[attempt] # "pending"
  /\ pc = "returned" => fate[attempt] = "executed"
  /\ error.type \in {"simulation", "landed", "unknown"}
  /\ pc = "threw" /\ error.type = "simulation" => fate[attempt] = "unsent"
  /\ pc = "threw" /\ error.type = "landed" => fate[attempt] = "rejected"

\* An instruction has been executed if the last attempt of its call has, and not
\* before its call.
Executed ==
  /\ landed \in [Reserves -> 0..1]
  /\ \A r \in rest \cup solo : landed[r] = 0
  /\ \A r \in InFlight : landed[r] = IF fate[attempt] = "executed" THEN 1 ELSE 0

\* Every reserve of the plan is waiting, under way, sent or failed.
Reported ==
  /\ sent \subseteq plan /\ failed \subseteq plan
  /\ stage \in {"withdrawing", "done"} =>
       /\ plan = rest \cup solo \cup InFlight \cup sent \cup failed
       /\ \A r \in sent : landed[r] = 1
  /\ \A r \in failed :
       (stage \in {"withdrawing", "done"} => landed[r] = 0) /\ r \notin rest \cup solo \cup InFlight
  /\ stage = "done" => rest = {} /\ solo = {}

IInv == Places /\ Attempts /\ Executed /\ Reported

\* A stage begins, or the response ends, with nothing sent yet.
LEMMA PlannedHolds ==
  ASSUME NEW R \in SUBSET Reserves, NEW n, Planned(R, n),
         stage' \in {"idle", "zeroing", "withdrawing"}, zeroed' \subseteq Reserves
  PROVE  IInv'
<1>1. 1 \in 1..MaxAttempts
  BY SendAssumption
<1>2. Places'
  BY DEF Planned, Forget, Places, InFlight
<1>3. Attempts'
  BY <1>1 DEF Planned, Forget, Attempts, Fates, Unknown
<1>4. Executed'
  BY DEF Planned, Forget, Executed, InFlight
<1>5. Reported'
  BY DEF Planned, Forget, Reported, InFlight
<1> QED BY <1>2, <1>3, <1>4, <1>5 DEF IInv

LEMMA EndedHolds == Ended => IInv'
BY PlannedHolds DEF Ended

LEMMA InitHolds == Init => IInv
<1> SUFFICES ASSUME Init PROVE IInv
  OBVIOUS
<1>1. 1 \in 1..MaxAttempts
  BY SendAssumption
<1>2. Places
  BY DEF Init, SendInit, Places, InFlight
<1>3. Attempts
  BY <1>1 DEF Init, SendInit, Attempts, Fates, Unknown
<1>4. Executed
  BY DEF Init, SendInit, Executed, InFlight
<1>5. Reported
  BY DEF Init, SendInit, Reported, InFlight
<1> QED BY <1>2, <1>3, <1>4, <1>5 DEF IInv

-----------------------------------------------------------------------------
(* The response                                                            *)

\* A call begins for reserves that have been waiting.
LEMMA BeginHolds ==
  ASSUME IInv, NEW B \in SUBSET plan, NEW first, Begin(B, first),
         stage \in {"zeroing", "withdrawing"},
         B \subseteq rest \cup solo,
         rest' = rest \ B, solo' = solo \ B,
         solo' = {} \/ B = {} \/ Cardinality(B) = 1,
         UNCHANGED <<stage, plan, zeroed, landed, sent, failed>>
  PROVE  IInv'
<1> USE DEF IInv
<1>1. InFlight = {} /\ InFlight' = B
  BY DEF Begin, InFlight
<1>2. Places'
  BY <1>1 DEF Begin, Places, InFlight
<1>3. Attempts'
  <2>1. 1 \in 1..MaxAttempts
    BY SendAssumption
  <2> QED BY <2>1 DEF Begin, Attempts, Fates, Unknown
<1>4. Executed'
  <2>1. fate'[attempt'] = "unsent"
    BY SendAssumption DEF Begin
  <2> QED BY <1>1, <2>1 DEF Executed
<1>5. Reported'
  BY <1>1 DEF Begin, Reported
<1> QED BY <1>2, <1>3, <1>4, <1>5

LEMMA ReturnedHolds == IInv /\ Returned => IInv'
<1> SUFFICES ASSUME IInv, Returned PROVE IInv'
  OBVIOUS
<1> USE DEF IInv
<1>1. InFlight = call.batch /\ InFlight' = {}
  BY DEF Returned, InFlight
<1>2. UNCHANGED <<call, attempt, fate, landed, expired, error, stage, plan, zeroed, rest, solo>>
  BY DEF Returned, callVars, ledgerVars
<1>3. Places'
  BY <1>1, <1>2 DEF Returned, Places
<1>4. Attempts'
  BY <1>2 DEF Returned, Attempts
<1>5. Executed'
  BY <1>1, <1>2 DEF Executed
<1>6. \A r \in call.batch : landed[r] = 1
  BY <1>1 DEF Returned, Attempts, Executed
<1>7. failed' = failed \ call.batch
      /\ sent' = IF stage = "withdrawing" THEN sent \cup call.batch ELSE sent
  BY DEF Returned
<1>8. stage # "done"
  BY DEF Returned, Places
<1>9. Reported'
  BY <1>1, <1>2, <1>6, <1>7, <1>8 DEF Reported, Places
<1> QED BY <1>3, <1>4, <1>5, <1>9

\* A failure the response goes on after leaves nothing behind on the ledger.
LEMMA HandledLeavesNothing ==
  ASSUME IInv, pc = "threw", Handled(error)
  PROVE  /\ fate[attempt] \in {"unsent", "rejected"}
         /\ \A r \in call.batch : landed[r] = 0
         /\ call.batch # {}
<1>1. error.type \in {"simulation", "landed"}
  BY DEF Handled, Attributable, IInv, Attempts
<1>2. fate[attempt] \in {"unsent", "rejected"}
  BY <1>1 DEF IInv, Attempts
<1> QED BY <1>2 DEF IInv, Executed, InFlight, Handled

LEMMA BatchFailedHolds == IInv /\ BatchFailed => IInv'
<1> SUFFICES ASSUME IInv, BatchFailed PROVE IInv'
  OBVIOUS
<1> USE DEF IInv
<1>1. InFlight = call.batch /\ InFlight' = {} /\ pc' = "idle" /\ pc = "threw"
  BY DEF BatchFailed, InFlight
<1>2. UNCHANGED <<call, attempt, fate, landed, expired, error, stage, plan, zeroed, rest, sent, failed>>
  BY DEF BatchFailed, callVars, ledgerVars, outcomeVars
<1>3. fate[attempt] \in {"unsent", "rejected"} /\ \A r \in call.batch : landed[r] = 0
  BY HandledLeavesNothing DEF BatchFailed
<1>4. solo = {} /\ solo' = call.batch
  <2>1. call.batch # {}
    BY HandledLeavesNothing DEF BatchFailed
  <2> QED BY <2>1 DEF BatchFailed, Places
<1>5. Places'
  BY <1>1, <1>2, <1>4 DEF Places
<1>6. Attempts'
  BY <1>1, <1>2, <1>3 DEF Attempts
<1>7. Executed'
  BY <1>1, <1>2, <1>3, <1>4 DEF Executed
<1>8. Reported'
  BY <1>1, <1>2, <1>4 DEF Reported, Places
<1> QED BY <1>5, <1>6, <1>7, <1>8

LEMMA ReserveFailedHolds == IInv /\ ReserveFailed => IInv'
<1> SUFFICES ASSUME IInv, ReserveFailed PROVE IInv'
  OBVIOUS
<1> USE DEF IInv
<1>1. InFlight = call.batch /\ InFlight' = {} /\ pc' = "idle" /\ pc = "threw"
  BY DEF ReserveFailed, InFlight
<1>2. UNCHANGED <<call, attempt, fate, landed, expired, error, stage, plan, zeroed, rest, solo, sent>>
  BY DEF ReserveFailed, callVars, ledgerVars, batchVars
<1>3. fate[attempt] \in {"unsent", "rejected"} /\ \A r \in call.batch : landed[r] = 0
  BY HandledLeavesNothing DEF ReserveFailed
<1>4. failed' = failed \cup call.batch
  BY DEF ReserveFailed
<1>5. Places'
  BY <1>1, <1>2 DEF Places
<1>6. Attempts'
  BY <1>1, <1>2, <1>3 DEF Attempts
<1>7. Executed'
  BY <1>1, <1>2 DEF Executed
<1>8. Reported'
  BY <1>1, <1>2, <1>3, <1>4 DEF Reported, Places
<1> QED BY <1>5, <1>6, <1>7, <1>8

LEMMA ResponseHolds == IInv /\ (ResponseStep \/ Abort \/ Restart) => IInv'
<1> SUFFICES ASSUME IInv, ResponseStep \/ Abort \/ Restart PROVE IInv'
  OBVIOUS
<1>1. CASE Respond
  <2>1. PICK weighted \in SUBSET Reserves :
          zeroed' = Reserves \ weighted /\ \E known \in SUBSET weighted : Planned(known, 0)
    BY <1>1 DEF Respond
  <2>2. PICK known \in SUBSET weighted : Planned(known, 0)
    BY <2>1
  <2>3. known \in SUBSET Reserves /\ zeroed' \subseteq Reserves
    BY <2>1
  <2> QED BY <1>1, <2>2, <2>3, PlannedHolds DEF Respond
<1>2. CASE Reload
  <2>1. PICK reserves \in SUBSET zeroed :
          \E first \in IF reserves = {} THEN {0} ELSE 0..MaxPreamble : Planned(reserves, first)
    BY <1>2 DEF Reload
  <2>2. zeroed \subseteq Reserves
    BY DEF IInv, Places
  <2>3. reserves \in SUBSET Reserves
    BY <2>2
  <2> QED BY <1>2, <2>1, <2>2, <2>3, PlannedHolds DEF Reload
<1>3. CASE Finish
  BY <1>3 DEF Finish, Between, IInv, Places, Attempts, Executed, Reported, InFlight,
              sendVars, callVars, ledgerVars, batchVars, outcomeVars
<1>4. CASE Return \/ Abort \/ Restart \/ Rethrown
  BY <1>4, EndedHolds DEF Return, Abort, Restart, Rethrown
<1>5. CASE SendPreamble
  <2>1. Begin({}, TRUE) /\ UNCHANGED <<stage, plan, rest, solo, zeroed, landed, sent, failed>>
        /\ stage = "withdrawing"
    BY <1>5 DEF SendPreamble, batchVars, outcomeVars
  <2>2. {} \in SUBSET plan /\ {} \subseteq rest \cup solo
        /\ rest' = rest \ {} /\ solo' = solo \ {}
    BY <2>1
  <2> QED BY <2>1, <2>2, BeginHolds
<1>6. CASE SendBatch
  <2> DEFINE B == First(BatchSize - preamble, rest)
  <2>1. B \subseteq rest
    BY DEF First
  <2>2. /\ Begin(B, preamble > 0) /\ rest' = rest \ B /\ solo = {} /\ solo' = solo
        /\ stage \in {"zeroing", "withdrawing"}
        /\ UNCHANGED <<stage, plan, zeroed, landed, sent, failed>>
    BY <1>6 DEF SendBatch, outcomeVars
  <2>3. B \in SUBSET plan
    BY <2>1 DEF IInv, Places
  <2> HIDE DEF B
  <2> QED BY <2>1, <2>2, <2>3, BeginHolds
<1>7. CASE SendSolo
  <2>1. PICK r \in First(1, solo) : Begin({r}, preamble > 0) /\ solo' = solo \ {r}
    BY <1>7 DEF SendSolo
  <2>2. /\ stage \in {"zeroing", "withdrawing"} /\ rest' = rest
        /\ UNCHANGED <<stage, plan, zeroed, landed, sent, failed>>
    BY <1>7 DEF SendSolo, outcomeVars
  <2>3. r \in solo /\ {r} \in SUBSET plan /\ rest' = rest \ {r}
    BY <2>2 DEF First, IInv, Places
  <2>4. Cardinality({r}) = 1
    BY FS_Singleton
  <2> QED BY <2>1, <2>2, <2>3, <2>4, BeginHolds
<1>8. CASE Returned
  BY <1>8, ReturnedHolds
<1>9. CASE BatchFailed
  BY <1>9, BatchFailedHolds
<1>10. CASE ReserveFailed
  BY <1>10, ReserveFailedHolds
<1> QED BY <1>1, <1>2, <1>3, <1>4, <1>5, <1>6, <1>7, <1>8, <1>9, <1>10 DEF ResponseStep

-----------------------------------------------------------------------------
(* The call and the ledger                                                 *)

\* A step of the call moves no reserve between the places of the response; it
\* keeps the invariant if what it says of the attempts does.
LEMMA CallHolds ==
  ASSUME IInv, pc # "idle", pc' # "idle",
         pc' \in {"simulating", "confirming", "reconciling", "returned", "threw"},
         UNCHANGED <<stage, zeroed, batchVars, outcomeVars, call, landed>>,
         (fate'[attempt'] = "executed") <=> (fate[attempt] = "executed"),
         Attempts'
  PROVE  IInv'
<1> USE DEF IInv, batchVars, outcomeVars
<1>1. InFlight' = InFlight
  BY DEF InFlight
<1>2. Places'
  BY <1>1 DEF Places
<1>3. Executed'
  BY <1>1 DEF Executed
<1>4. Reported'
  BY <1>1 DEF Reported
<1> QED BY <1>2, <1>3, <1>4

LEMMA SendHolds == IInv /\ SendStep => IInv'
<1> SUFFICES ASSUME IInv, SendStep PROVE IInv'
  OBVIOUS
<1> USE DEF IInv
<1>1. UNCHANGED <<stage, zeroed, batchVars, outcomeVars>>
  BY DEF SendStep
<1>2. ASSUME NEW force, Broadcast(force) PROVE IInv'
  <2>1. /\ fate' = [fate EXCEPT ![attempt] = "pending"]
        /\ pc = "simulating" /\ pc' = "confirming"
        /\ UNCHANGED <<call, attempt, expired, error, landed>>
    BY <1>2 DEF Broadcast
  <2>2. Attempts'
    BY <2>1 DEF Attempts, Fates
  <2> QED BY <1>1, <2>1, <2>2, CallHolds DEF Attempts
<1>3. ASSUME NEW e, Threw(e), pc \in {"simulating", "reconciling"},
             e.type \in {"simulation", "landed", "unknown"},
             e.type = "simulation" => pc = "simulating",
             e.type = "landed" => fate[attempt] = "rejected"
      PROVE  IInv'
  <2>1. pc' = "threw" /\ error' = e /\ UNCHANGED <<call, attempt, expired, fate, landed>>
    BY <1>3 DEF Threw, ledgerVars
  <2>2. Attempts'
    BY <1>3, <2>1 DEF Attempts
  <2> QED BY <1>1, <1>3, <2>1, <2>2, CallHolds
<1>4. CASE SimulationPasses
  BY <1>2, <1>4 DEF SimulationPasses
<1>5. CASE SimulationFails({e \in Errors : Allowed(e)})
  <2>1. pc = "simulating"
    BY <1>5 DEF SimulationFails
  <2>2. PICK v \in Rejections \cup {Silent} :
          \/ Broadcast(TRUE)
          \/ Threw([type |-> "simulation", verdict |-> v])
    BY <1>5 DEF SimulationFails
  <2> QED BY <1>2, <1>3, <2>1, <2>2
<1>6. CASE SetupFails
  BY <1>3, <1>6 DEF SetupFails, Unknown
<1>7. CASE Confirmed \/ FoundExecuted
  <2>1. /\ pc \in {"confirming", "reconciling"} /\ pc' = "returned" /\ fate[attempt] = "executed"
        /\ UNCHANGED <<call, attempt, expired, error, fate, landed>>
    BY <1>7 DEF Confirmed, FoundExecuted, callVars, ledgerVars
  <2>2. Attempts'
    BY <2>1 DEF Attempts
  <2> QED BY <1>1, <2>1, <2>2, CallHolds
<1>8. CASE ConfirmationFails
  <2>1. /\ pc = "confirming" /\ pc' = "reconciling"
        /\ expired' => fate[attempt] # "pending"
        /\ UNCHANGED <<call, attempt, error, fate, landed>>
    BY <1>8 DEF ConfirmationFails, ledgerVars
  <2>2. Attempts'
    BY <2>1 DEF Attempts
  <2> QED BY <1>1, <2>1, <2>2, CallHolds
<1>9. CASE FoundRejected
  BY <1>3, <1>9 DEF FoundRejected
<1>10. CASE StaysUnknown
  BY <1>3, <1>10 DEF StaysUnknown, Unknown
<1>11. CASE Retry
  <2>1. /\ pc = "reconciling" /\ pc' = "simulating" /\ expired
        /\ fate[attempt] \in {"pending", "dropped"} /\ attempt < MaxAttempts
        /\ attempt' = attempt + 1
        /\ UNCHANGED <<call, expired, error, fate, landed>>
    BY <1>11 DEF Retry, ledgerVars
  <2>2. fate[attempt] = "dropped"
    BY <2>1 DEF Attempts
  <2>3. attempt' \in 1..MaxAttempts /\ fate'[attempt'] = "unsent"
    BY <2>1, SendAssumption DEF Attempts
  <2>4. Attempts'
    BY <2>1, <2>2, <2>3, SendAssumption DEF Attempts
  <2> QED BY <1>1, <2>1, <2>2, <2>3, <2>4, CallHolds
<1> QED BY <1>4, <1>5, <1>6, <1>7, <1>8, <1>9, <1>10, <1>11 DEF SendStep

LEMMA LedgerHolds == IInv /\ LedgerStep => IInv'
<1> SUFFICES ASSUME IInv, LedgerStep PROVE IInv'
  OBVIOUS
<1> USE DEF IInv
<1>1. UNCHANGED <<stage, plan, rest, solo, sent, failed>>
  BY DEF LedgerStep, batchVars, outcomeVars
<1>2. PICK k \in 1..MaxAttempts : Execute(k) \/ Reject(k) \/ Drop(k)
  BY DEF LedgerStep, Ledger
<1>3. fate[k] = "pending" /\ UNCHANGED <<pc, call, attempt, expired, error>>
  BY <1>2 DEF Execute, Reject, Drop, callVars
<1>4. k = attempt /\ pc \notin {"idle", "simulating", "returned"}
  BY <1>3, SendAssumption DEF Attempts
<1>5. PICK f \in {"executed", "rejected", "dropped"} :
        fate' = [fate EXCEPT ![attempt] = f] /\ (f = "executed" <=> Execute(k))
  <2>1. CASE Execute(k)
    BY <2>1, <1>4 DEF Execute
  <2>2. CASE ~Execute(k) /\ Reject(k)
    BY <2>2, <1>4 DEF Reject
  <2>3. CASE ~Execute(k) /\ Drop(k)
    BY <2>3, <1>4 DEF Drop
  <2> QED BY <1>2, <2>1, <2>2, <2>3
<1>6. Attempts'
  BY <1>3, <1>4, <1>5 DEF Attempts, Fates
<1>7. InFlight' = InFlight /\ InFlight = call.batch
  BY <1>3, <1>4 DEF InFlight
<1>8. Places'
  <2>1. zeroed' \subseteq Reserves
    BY DEF LedgerStep, Places
  <2> QED BY <1>1, <1>3, <1>7, <2>1 DEF Places
<1>9. fate'[attempt'] = f
  BY <1>3, <1>5 DEF Attempts
<1>10. CASE Execute(k)
  <2>1. landed' = [r \in Reserves |->
          IF r \in call.batch /\ landed[r] < 2 THEN landed[r] + 1 ELSE landed[r]]
    BY <1>10 DEF Execute
  <2>2. \A r \in call.batch : r \in Reserves /\ landed[r] = 0
    BY <1>3, <1>4, <1>7 DEF Executed, Places
  <2>3. \A r \in Reserves : landed'[r] = IF r \in call.batch THEN 1 ELSE landed[r]
    BY <2>1, <2>2
  <2>4. landed' \in [Reserves -> 0..1]
    BY <2>1, <2>2 DEF Executed
  <2>5. Executed'
    BY <1>1, <1>5, <1>7, <1>9, <1>10, <2>3, <2>4 DEF Executed, Places
  <2>6. Reported'
    BY <1>1, <1>3, <1>7, <2>3 DEF Reported, Places
  <2> QED BY <1>6, <1>8, <2>5, <2>6
<1>11. CASE ~Execute(k)
  <2>1. landed' = landed
    BY <1>2, <1>11 DEF Reject, Drop
  <2>2. Executed'
    BY <1>1, <1>3, <1>4, <1>5, <1>7, <1>9, <1>11, <2>1 DEF Executed
  <2>3. Reported'
    BY <1>1, <1>3, <1>7, <2>1 DEF Reported
  <2> QED BY <1>6, <1>8, <2>2, <2>3
<1> QED BY <1>10, <1>11

LEMMA StepKeepsInvariant == IInv /\ [Next]_vars => IInv'
<1>1. IInv /\ UNCHANGED vars => IInv'
  BY DEF IInv, Places, Attempts, Executed, Reported, InFlight, vars, sendVars, callVars,
         ledgerVars, batchVars, outcomeVars
<1> QED BY <1>1, ResponseHolds, SendHolds, LedgerHolds DEF Next

-----------------------------------------------------------------------------
(* The limit on forced sends                                               *)

\* What the verdict of a rejected transaction can be about.
Verdicted ==
  /\ preamble \in Int
  /\ stage = "zeroing" => preamble <= 0
  /\ pc # "idle" /\ call.preamble => stage = "withdrawing"
  /\ pc # "idle" /\ fate[attempt] = "rejected" => verdict \in Rejections
  /\ pc = "threw" /\ error.type = "landed" => error.verdict \in Rejections
  /\ stage = "withdrawing" => missing = failed

\* The error that was thrown counts for reserve r in the history.
CountsFor(r) ==
  /\ error.type = "landed"
  /\ error.verdict.blame = r \/ (error.verdict.blame = Nobody /\ call.batch = {r})
  /\ error.verdict.funding /\ stage = "withdrawing"
       => \A m \in plan : m < r => m \notin failed

\* The counters of the bot are those of the history, which is ahead while an
\* error is being handled.
Counted ==
  /\ failures \in [Reserves -> 0..Limit]
  /\ streak = [r \in Reserves |->
       IF pc = "threw" /\ CountsFor(r) /\ failures[r] < Limit
         THEN failures[r] + 1 ELSE failures[r]]
  /\ pc = "confirming" /\ forced => \A r \in call.batch : failures[r] < Limit

JInv == IInv /\ Verdicted /\ Counted

LEMMA VerdictsHold == IInv /\ Verdicted /\ [Next]_vars => Verdicted'
<1> SUFFICES ASSUME IInv, Verdicted, [Next]_vars PROVE Verdicted'
  OBVIOUS
<1>1. ASSUME NEW R, NEW n \in Int, Planned(R, n), stage' = "zeroing" => n = 0
      PROVE  Verdicted'
  BY <1>1 DEF Planned, Forget, Verdicted
<1>2. CASE Respond
  BY <1>1, <1>2 DEF Respond
<1>3. CASE Reload
  <2>1. PICK reserves \in SUBSET zeroed :
          \E first \in IF reserves = {} THEN {0} ELSE 0..MaxPreamble : Planned(reserves, first)
    BY <1>3 DEF Reload
  <2> QED BY <1>1, <1>3, <2>1, BatchAssumption DEF Reload
<1>4. CASE Return \/ Abort \/ Restart \/ Rethrown
  BY <1>1, <1>4 DEF Return, Abort, Restart, Rethrown, Ended
<1>5. CASE Finish
  BY <1>5 DEF Finish, Between, Verdicted, sendVars, batchVars, outcomeVars
<1>6. CASE SendPreamble \/ SendBatch \/ SendSolo
  <2>1. stage \in {"zeroing", "withdrawing"} /\ UNCHANGED <<stage, preamble, missing, failed>>
    BY <1>6 DEF SendPreamble, SendBatch, SendSolo, batchVars, outcomeVars
  <2>2. ASSUME NEW B, NEW first, Begin(B, first), first => preamble > 0 \/ stage = "withdrawing"
        PROVE  Verdicted'
    <3>1. fate'[attempt'] = "unsent"
      BY <2>2, SendAssumption DEF Begin
    <3> QED BY <2>1, <2>2, <3>1 DEF Begin, Verdicted
  <2>3. CASE SendPreamble
    BY <2>2, <2>3 DEF SendPreamble
  <2>4. CASE SendBatch
    BY <2>2, <2>4 DEF SendBatch
  <2>5. CASE SendSolo
    BY <2>2, <2>5 DEF SendSolo
  <2> QED BY <1>6, <2>3, <2>4, <2>5
<1>7. CASE Returned
  <2>1. preamble' \in Int /\ (preamble <= 0 => preamble' <= 0)
    BY <1>7, BatchAssumption DEF Returned, Verdicted
  <2>2. stage = "withdrawing" => missing' = failed'
    BY <1>7 DEF Returned, Verdicted, IInv, Reported, InFlight
  <2> QED BY <1>7, <2>1, <2>2 DEF Returned, Verdicted
<1>8. CASE BatchFailed \/ ReserveFailed
  BY <1>8 DEF BatchFailed, ReserveFailed, Verdicted, batchVars, outcomeVars
<1>9. CASE SendStep
  <2>1. UNCHANGED <<stage, preamble, missing, failed, call, verdict>> /\ Rejections' = Rejections
    <3>1. UNCHANGED <<stage, preamble, missing, failed>>
      BY <1>9 DEF SendStep, batchVars, outcomeVars
    <3>2. UNCHANGED <<call, verdict>>
      BY <1>9 DEF SendStep, SimulationPasses, SimulationFails, SetupFails, Broadcast, Threw,
                  Confirmed, ConfirmationFails, FoundExecuted, FoundRejected, StaysUnknown,
                  Retry, callVars, ledgerVars
    <3> QED BY <3>1, <3>2 DEF Rejections
  <2>2. pc # "idle"
    BY <1>9 DEF SendStep, SimulationPasses, SimulationFails, SetupFails, Broadcast, Threw,
                Confirmed, ConfirmationFails, FoundExecuted, FoundRejected, StaysUnknown, Retry
  <2>3. fate'[attempt'] = "rejected" => fate[attempt] = "rejected"
    <3>1. CASE Retry
      <4>1. attempt + 1 \in 1..MaxAttempts
        BY <3>1, SendAssumption DEF Retry, IInv, Attempts
      <4>2. fate'[attempt'] = "unsent"
        BY <3>1, <4>1 DEF Retry, ledgerVars, IInv, Attempts
      <4> QED BY <4>2
    <3>2. CASE ~Retry
      <4>1. UNCHANGED fate \/ fate' = [fate EXCEPT ![attempt] = "pending"]
        BY <1>9, <3>2 DEF SendStep, SimulationPasses, SimulationFails, SetupFails, Broadcast,
                          Threw, Confirmed, ConfirmationFails, FoundExecuted, FoundRejected,
                          StaysUnknown, ledgerVars
      <4>2. UNCHANGED attempt
        BY <1>9, <3>2 DEF SendStep, SimulationPasses, SimulationFails, SetupFails, Broadcast,
                          Threw, Confirmed, ConfirmationFails, FoundExecuted, FoundRejected,
                          StaysUnknown, callVars
      <4> QED BY <4>1, <4>2 DEF IInv, Attempts
    <3> QED BY <3>1, <3>2
  <2>4. ASSUME pc' = "threw", error'.type = "landed"
        PROVE  error'.verdict = verdict /\ fate[attempt] = "rejected"
    <3>1. ASSUME NEW v, Threw([type |-> "simulation", verdict |-> v]) PROVE FALSE
      BY <2>4, <3>1 DEF Threw
    <3>2. ~SimulationFails({e \in Errors : Allowed(e)})
      BY <2>4, <3>1 DEF SimulationFails, Broadcast
    <3>3. ~SimulationPasses /\ ~SetupFails /\ ~StaysUnknown
      BY <2>4 DEF SimulationPasses, Broadcast, SetupFails, StaysUnknown, Threw, Unknown
    <3>4. ~Confirmed /\ ~ConfirmationFails /\ ~FoundExecuted /\ ~Retry
      BY <2>4 DEF Confirmed, ConfirmationFails, FoundExecuted, Retry
    <3>5. FoundRejected
      BY <1>9, <3>2, <3>3, <3>4 DEF SendStep
    <3> QED BY <3>5 DEF FoundRejected, Threw
  <2> QED BY <2>1, <2>2, <2>3, <2>4 DEF Verdicted
<1>10. CASE LedgerStep
  <2>1. UNCHANGED <<stage, preamble, missing, failed>>
    BY <1>10 DEF LedgerStep, batchVars, outcomeVars
  <2>2. PICK k \in 1..MaxAttempts : Execute(k) \/ Reject(k) \/ Drop(k)
    BY <1>10 DEF LedgerStep, Ledger
  <2>3. UNCHANGED <<pc, call, attempt, error>> /\ Rejections' = Rejections
    BY <2>2 DEF Execute, Reject, Drop, callVars, Rejections
  <2>4. k = attempt
    BY <2>2, SendAssumption DEF Execute, Reject, Drop, IInv, Attempts
  <2>5. CASE Reject(k)
    BY <2>1, <2>3, <2>5 DEF Reject, Verdicted
  <2>6. CASE Execute(k) \/ Drop(k)
    <3>1. fate'[attempt'] # "rejected" /\ verdict' = verdict
      BY <2>3, <2>4, <2>6 DEF Execute, Drop, IInv, Attempts
    <3> QED BY <2>1, <2>3, <3>1 DEF Verdicted
  <2> QED BY <2>2, <2>5, <2>6
<1>11. CASE UNCHANGED vars
  BY <1>11 DEF vars, sendVars, callVars, ledgerVars, batchVars, outcomeVars, Verdicted, Rejections
<1> QED BY <1>2, <1>3, <1>4, <1>5, <1>6, <1>7, <1>8, <1>9, <1>10, <1>11 DEF Next, ResponseStep

\* No error that counts is pending.
Settled == \A r \in Reserves : pc = "threw" => ~CountsFor(r)

LEMMA SettledStep ==
  ASSUME JInv, Settled, pc' \notin {"threw", "confirming"}, UNCHANGED <<failures, streak>>
  PROVE  Counted'
<1>1. streak = [r \in Reserves |-> failures[r]]
  BY DEF JInv, Counted, Settled
<1> QED BY <1>1 DEF JInv, Counted

\* An error that the response does not go on after counts for no reserve.
LEMMA UnhandledSettled == ASSUME JInv, pc = "threw", ~Handled(error) PROVE Settled
<1> SUFFICES ASSUME NEW r \in Reserves, CountsFor(r) PROVE FALSE
  BY DEF Settled
<1>1. error.type = "landed"
      /\ (error.verdict.blame = r \/ (error.verdict.blame = Nobody /\ call.batch = {r}))
  BY DEF CountsFor
<1>2. error.verdict \in Rejections
  BY <1>1 DEF JInv, Verdicted
<1>3. call.batch # {}
  BY <1>1, <1>2, SendAssumption DEF Rejections
<1>4. error.verdict.blame \notin {Outside, NoVerdict}
  BY <1>1, SendAssumption
<1> QED BY <1>1, <1>3, <1>4 DEF Handled, Attributable

\* recordFailedBroadcasts counts for the reserve it should.
LEMMA RecordedCounts ==
  ASSUME JInv, pc = "threw", Handled(error), Recorded(error)
  PROVE  failures' = streak
<1>1. call.batch # {} /\ call.batch \subseteq Reserves /\ call.batch \subseteq plan
  BY DEF Handled, JInv, IInv, Places, InFlight
<1>2. stage = "withdrawing" =>
        \A r : Earlier(r) <=> \E m \in plan : m < r /\ m \in failed
  BY DEF JInv, Verdicted, IInv, Reported, Earlier
<1>3. \A r \in Reserves : CountsFor(r) <=> r \in Blamed(error)
  <2>1. CASE error.type # "landed"
    BY <2>1 DEF CountsFor, Blamed
  <2>2. CASE error.type = "landed"
    <3>1. error.verdict \in Rejections
      BY <2>2 DEF JInv, Verdicted
    <3>2. error.verdict.blame \in Reserves => error.verdict.blame \in call.batch
      BY <3>1, SendAssumption DEF Rejections
    <3>3. error.verdict.blame \notin call.batch => error.verdict.blame = Nobody
      <4>1. error.verdict.blame # NoVerdict
        BY <2>2 DEF Handled, Attributable
      <4>2. error.verdict.blame # Outside
        <5>1. CASE stage = "withdrawing"
          BY <2>2, <5>1 DEF Handled
        <5>2. CASE stage = "zeroing"
          BY <3>1, <5>2, <1>1, SendAssumption DEF Rejections, JInv, Verdicted
        <5> QED BY <5>1, <5>2 DEF JInv, IInv, Places
      <4> QED BY <3>1, <4>1, <4>2 DEF Rejections
    <3>4. CASE error.verdict.blame \in call.batch
      BY <1>1, <1>2, <2>2, <3>4, SendAssumption DEF CountsFor, Blamed, Downstream
    <3>5. CASE error.verdict.blame \notin call.batch /\ Cardinality(call.batch) = 1
      <4>1. PICK x : call.batch = {x}
        BY <1>1, <3>5, FS_Subset, FS_Singleton, BatchAssumption
      <4>2. error.verdict.blame = Nobody /\ x \in Reserves
        BY <1>1, <3>3, <3>5, <4>1
      <4>3. \A r \in Reserves : CountsFor(r) <=>
              r = x /\ (error.verdict.funding /\ stage = "withdrawing"
                          => \A m \in plan : m < r => m \notin failed)
        BY <2>2, <4>1, <4>2, SendAssumption DEF CountsFor
      <4>4. Downstream(error) <=>
              stage = "withdrawing" /\ error.verdict.funding /\ Earlier(x)
        BY <2>2, <3>5, <4>1 DEF Downstream
      <4> QED BY <1>2, <2>2, <3>5, <4>1, <4>3, <4>4 DEF Blamed
    <3>6. CASE error.verdict.blame \notin call.batch /\ Cardinality(call.batch) # 1
      <4>1. Blamed(error) = {}
        BY <3>6 DEF Blamed
      <4>2. ASSUME NEW r \in Reserves, CountsFor(r) PROVE FALSE
        <5>1. call.batch = {r}
          BY <3>2, <3>6, <4>2 DEF CountsFor
        <5> QED BY <3>6, <5>1, FS_Singleton
      <4> QED BY <4>1, <4>2
    <3> QED BY <3>4, <3>5, <3>6
  <2> QED BY <2>1, <2>2
<1>4. streak = [r \in Reserves |->
        IF r \in Blamed(error) /\ failures[r] < Limit THEN failures[r] + 1 ELSE failures[r]]
  BY <1>3 DEF JInv, Counted
<1>5. CASE Blamed(error) = {}
  BY <1>4, <1>5 DEF Recorded, JInv, Counted
<1>6. CASE Blamed(error) # {}
  <2>1. PICK x \in Reserves : Blamed(error) = {x}
    <3>1. CASE error.verdict.blame \in call.batch
      BY <1>1, <1>6, <3>1 DEF Blamed
    <3>2. CASE error.verdict.blame \notin call.batch
      <4>1. Cardinality(call.batch) = 1 /\ Blamed(error) = call.batch
        BY <1>6, <3>2 DEF Blamed
      <4> QED BY <1>1, <4>1, FS_Subset, FS_Singleton, BatchAssumption
    <3> QED BY <3>1, <3>2
  <2>2. (CHOOSE r \in Blamed(error) : TRUE) = x
    BY <2>1
  <2>3. failures' = Count(failures, x)
    BY <1>6, <2>2 DEF Recorded
  <2> QED BY <1>4, <2>1, <2>3 DEF Count, JInv, Counted
<1> QED BY <1>5, <1>6

LEMMA CountsHold == JInv /\ [Next]_vars => Counted'
<1> SUFFICES ASSUME JInv, [Next]_vars PROVE Counted'
  OBVIOUS
<1>1. CASE Respond \/ Reload \/ Finish \/ Return \/ Abort
           \/ SendPreamble \/ SendBatch \/ SendSolo
  <2>1. pc = "idle"
    BY <1>1 DEF Respond, Reload, Finish, Between, Return, Abort, SendPreamble, SendBatch,
                SendSolo, JInv, IInv, Places
  <2>2. pc' \in {"idle", "simulating"} /\ UNCHANGED <<failures, streak>>
    BY <1>1, <2>1 DEF Respond, Reload, Finish, Return, Abort, Ended, Planned, Forget,
                SendPreamble, SendBatch, SendSolo, Begin, sendVars
  <2> QED BY <2>1, <2>2, SettledStep DEF Settled
<1>2. CASE Rethrown
  <2>1. pc' = "idle" /\ UNCHANGED <<failures, streak>> /\ pc = "threw" /\ ~Handled(error)
    BY <1>2 DEF Rethrown, Ended, Planned, Forget
  <2> QED BY <2>1, UnhandledSettled, SettledStep
<1>3. CASE Restart
  <2>1. pc' = "idle" /\ 0 \in 0..Limit
    BY <1>3, BatchAssumption DEF Restart, Ended, Planned, Forget
  <2> QED BY <1>3, <2>1 DEF Restart, Counted
<1>4. CASE Returned
  <2>1. streak = [r \in Reserves |-> failures[r]] /\ 0 \in 0..Limit
    BY <1>4, BatchAssumption DEF Returned, JInv, Counted
  <2>2. failures' = Cleared(failures) /\ streak' = Cleared(streak) /\ pc' = "idle"
    BY <1>4 DEF Returned
  <2> QED BY <2>1, <2>2 DEF Cleared, JInv, Counted
<1>5. CASE BatchFailed \/ ReserveFailed
  <2>1. /\ pc = "threw" /\ Handled(error) /\ Recorded(error)
        /\ pc' = "idle" /\ streak' = streak
    BY <1>5 DEF BatchFailed, ReserveFailed
  <2>2. streak \in [Reserves -> 0..Limit]
    BY BatchAssumption DEF JInv, Counted
  <2>3. failures' = streak
    BY <2>1, RecordedCounts
  <2> QED BY <2>1, <2>2, <2>3 DEF Counted
<1>6. CASE SendStep
  <2>1. pc \notin {"idle", "threw"} /\ failures' = failures
    BY <1>6 DEF SendStep, SimulationPasses, SimulationFails, SetupFails, Broadcast, Threw,
                Confirmed, ConfirmationFails, FoundExecuted, FoundRejected, StaysUnknown, Retry
  <2>2. streak = failures
    BY <2>1 DEF JInv, Counted
  <2>3. ASSUME Broadcast(FALSE) PROVE Counted'
    <3>1. pc' = "confirming" /\ ~forced' /\ streak' = streak
      BY <1>6, <2>3 DEF Broadcast, SendStep
    <3> QED BY <2>1, <2>2, <3>1 DEF JInv, Counted
  <2>4. ASSUME NEW e, Allowed(e), Broadcast(TRUE) PROVE Counted'
    <3>1. pc' = "confirming" /\ streak' = streak /\ call' = call
      BY <1>6, <2>4 DEF Broadcast, SendStep
    <3>2. \A r \in call.batch : failures[r] < Limit
      BY <2>4 DEF Allowed, ForceEligible
    <3> QED BY <2>1, <2>2, <3>1, <3>2 DEF JInv, Counted
  <2>5. ASSUME NEW e, Threw(e) PROVE Counted'
    <3>1. /\ pc' = "threw" /\ streak' = Attributed(error')
          /\ UNCHANGED <<call, stage, plan, failed>>
      BY <1>6, <2>5 DEF SendStep, Threw, batchVars, outcomeVars
    <3> QED BY <2>1, <2>2, <3>1 DEF JInv, Counted, Attributed, CountsFor
  <2>6. CASE SimulationPasses
    BY <2>3, <2>6 DEF SimulationPasses
  <2>7. CASE SimulationFails({e \in Errors : Allowed(e)})
    BY <2>4, <2>5, <2>7 DEF SimulationFails
  <2>8. CASE SetupFails \/ FoundRejected \/ StaysUnknown
    BY <2>5, <2>8 DEF SetupFails, FoundRejected, StaysUnknown
  <2>9. CASE Confirmed \/ ConfirmationFails \/ FoundExecuted \/ Retry
    <3>1. pc' \in {"returned", "reconciling", "simulating"}
      BY <2>9 DEF Confirmed, ConfirmationFails, FoundExecuted, Retry
    <3>2. streak' = streak
      BY <1>6, <3>1 DEF SendStep
    <3> QED BY <2>1, <3>1, <3>2, SettledStep DEF Settled
  <2> QED BY <1>6, <2>6, <2>7, <2>8, <2>9 DEF SendStep
<1>7. CASE LedgerStep
  <2>1. UNCHANGED <<pc, call, forced, error>>
    BY <1>7 DEF LedgerStep, Ledger, Execute, Reject, Drop, callVars
  <2>2. UNCHANGED <<stage, plan, failed, failures, streak>>
    BY <1>7 DEF LedgerStep, batchVars, outcomeVars
  <2> QED BY <2>1, <2>2 DEF JInv, Counted, CountsFor
<1>8. CASE UNCHANGED vars
  BY <1>8 DEF vars, sendVars, callVars, ledgerVars, batchVars, outcomeVars, JInv, Counted,
              CountsFor
<1> QED BY <1>1, <1>2, <1>3, <1>4, <1>5, <1>6, <1>7, <1>8 DEF Next, ResponseStep

LEMMA StepKeepsCounts == JInv /\ [Next]_vars => JInv'
BY StepKeepsInvariant, VerdictsHold, CountsHold DEF JInv

LEMMA CountsInit == Init => JInv
<1>1. Init => Verdicted
  BY DEF Init, SendInit, Verdicted
<1>2. Init => Counted
  BY BatchAssumption DEF Init, SendInit, Counted
<1> QED BY <1>1, <1>2, InitHolds DEF JInv

-----------------------------------------------------------------------------
(* Reserves that are never rejected                                        *)

\* The node did not answer the simulation.
NoAnswer == [type |-> "simulation", verdict |-> Silent]

\* They never fail, and while weights are zeroed those of the plan are waiting,
\* under way or zeroed.
Unrejected ==
  /\ \A r \in Reserves \ MayReject : failures[r] = 0
  /\ failed \subseteq MayReject
  /\ pc = "threw" /\ error.type = "simulation" =>
       error.verdict \in Rejections \/ (error.verdict = Silent /\ ~Allowed(NoAnswer))
  /\ stage = "zeroing" =>
       /\ \A r \in Reserves : landed[r] = 1 => r \in zeroed
       /\ plan \ MayReject \subseteq rest \cup solo \cup InFlight \cup zeroed

\* The response only goes on without a reserve that may be rejected.
LEMMA OnlyRejectableFail ==
  ASSUME JInv, Unrejected, pc = "threw", Handled(error), NEW r \in Reserves, call.batch = {r}
  PROVE  r \in MayReject
<1>1. error.type \in {"simulation", "landed"}
  BY DEF Handled, Attributable, JInv, IInv, Attempts
<1>2. CASE error.verdict \in Rejections
  <2>1. error.verdict.blame # Outside
    <3>1. CASE stage = "withdrawing"
      BY <3>1, SendAssumption DEF Handled, Attributable
    <3>2. CASE stage = "zeroing"
      BY <1>2, <3>2, SendAssumption DEF Rejections, JInv, Verdicted
    <3> QED BY <3>1, <3>2 DEF JInv, IInv, Places
  <2>2. error.verdict.blame \in MayReject \cup {Outside, Nobody, NoVerdict}
    BY <1>2 DEF Rejections, Verdicts
  <2> QED BY <1>2, <2>1, <2>2, SendAssumption DEF Rejections
<1>3. CASE error.verdict = Silent /\ ~Allowed(NoAnswer)
  <2>1. ~Attributable(NoAnswer) /\ ~Downstream(NoAnswer)
    BY DEF NoAnswer, Silent, Attributable, Downstream
  <2>2. ~ForceEligible
    BY <1>3, <2>1 DEF Allowed
  <2>3. failures[r] # 0
    BY <2>2, BatchAssumption DEF ForceEligible
  <2> QED BY <2>3 DEF Unrejected
<1>4. CASE error.type = "landed"
  BY <1>2, <1>4 DEF JInv, Verdicted
<1> QED BY <1>1, <1>2, <1>3, <1>4 DEF Unrejected

LEMMA OnlyRejectableCount ==
  ASSUME JInv, Unrejected, pc = "threw", Handled(error), Recorded(error)
  PROVE  \A r \in Reserves \ MayReject : failures'[r] = 0
<1> SUFFICES ASSUME NEW r \in Reserves \ MayReject PROVE failures'[r] = 0
  OBVIOUS
<1>1. failures' = streak
  BY RecordedCounts
<1>2. ~CountsFor(r)
  <2> SUFFICES ASSUME CountsFor(r) PROVE FALSE
    OBVIOUS
  <2>1. error.verdict \in Rejections
    BY DEF CountsFor, JInv, Verdicted
  <2> QED BY <2>1, SendAssumption DEF CountsFor, Rejections, Verdicts
<1> QED BY <1>1, <1>2 DEF JInv, Counted, Unrejected

LEMMA UnrejectedHolds == JInv /\ Unrejected /\ [Next]_vars => Unrejected'
<1> SUFFICES ASSUME JInv, Unrejected, [Next]_vars PROVE Unrejected'
  OBVIOUS
<1>1. ASSUME NEW R, NEW n, Planned(R, n), failures' = failures
             \/ failures' = [r \in Reserves |-> 0]
      PROVE  Unrejected'
  BY <1>1 DEF Planned, Forget, Unrejected
<1>2. CASE Respond \/ Reload \/ Return \/ Abort \/ Restart \/ Rethrown
  BY <1>1, <1>2 DEF Respond, Reload, Return, Abort, Restart, Rethrown, Ended
<1>3. CASE Finish
  BY <1>3 DEF Finish, Unrejected, Between, sendVars, batchVars, outcomeVars
<1>4. CASE SendPreamble \/ SendBatch \/ SendSolo
  <2>1. ASSUME NEW B, NEW first, Begin(B, first),
               rest' = rest \ B, solo' = solo \ B,
               UNCHANGED <<stage, plan, zeroed, landed, failed, failures>>
        PROVE  Unrejected'
    <3>1. InFlight' = B /\ pc' = "simulating" /\ InFlight = {}
      BY <2>1 DEF Begin, InFlight
    <3> QED BY <2>1, <3>1 DEF Unrejected
  <2>2. UNCHANGED <<stage, plan, zeroed, landed, failed, failures>>
    BY <1>4 DEF SendPreamble, SendBatch, SendSolo, batchVars, outcomeVars
  <2>3. CASE SendPreamble
    <3>1. Begin({}, TRUE) /\ rest' = rest \ {} /\ solo' = solo \ {}
      BY <2>3 DEF SendPreamble, batchVars
    <3> QED BY <2>1, <2>2, <3>1
  <2>4. CASE SendBatch
    <3> DEFINE B == First(BatchSize - preamble, rest)
    <3>1. Begin(B, preamble > 0) /\ rest' = rest \ B /\ solo' = solo \ B
      BY <2>4 DEF SendBatch
    <3> HIDE DEF B
    <3> QED BY <2>1, <2>2, <3>1
  <2>5. CASE SendSolo
    <3>1. PICK r \in First(1, solo) : Begin({r}, preamble > 0) /\ solo' = solo \ {r}
      BY <2>5 DEF SendSolo
    <3>2. rest' = rest \ {r}
      BY <2>5, <3>1 DEF SendSolo, First, JInv, IInv, Places
    <3> QED BY <2>1, <2>2, <3>1, <3>2
  <2> QED BY <1>4, <2>3, <2>4, <2>5
<1>5. CASE Returned
  <2>1. /\ pc' = "idle" /\ failures' = Cleared(failures) /\ failed' = failed \ call.batch
        /\ UNCHANGED <<stage, plan, zeroed, landed, rest, solo>>
    BY <1>5 DEF Returned, ledgerVars
  <2>2. \A r \in call.batch : landed[r] = 1
    BY <1>5 DEF Returned, JInv, IInv, Attempts, Executed, InFlight
  <2>3. InFlight = call.batch /\ InFlight' = {} /\ call.batch \subseteq Reserves
    BY <1>5 DEF Returned, InFlight, JInv, IInv, Places
  <2> QED BY <2>1, <2>2, <2>3 DEF Unrejected, Cleared
<1>6. CASE BatchFailed
  <2>1. /\ pc' = "idle" /\ solo' = call.batch /\ solo = {} /\ InFlight = call.batch
        /\ UNCHANGED <<stage, plan, zeroed, landed, rest, failed>>
    <3>1. call.batch # {}
      BY <1>6, HandledLeavesNothing DEF BatchFailed, JInv
    <3> QED BY <1>6, <3>1 DEF BatchFailed, ledgerVars, outcomeVars, JInv, IInv, Places, InFlight
  <2>2. \A r \in Reserves \ MayReject : failures'[r] = 0
    BY <1>6, OnlyRejectableCount DEF BatchFailed
  <2> QED BY <2>1, <2>2 DEF Unrejected, InFlight
<1>7. CASE ReserveFailed
  <2>1. /\ pc' = "idle" /\ failed' = failed \cup call.batch /\ InFlight = call.batch
        /\ UNCHANGED <<stage, plan, zeroed, landed, rest, solo>>
    BY <1>7 DEF ReserveFailed, ledgerVars, batchVars, InFlight
  <2>2. \A r \in Reserves \ MayReject : failures'[r] = 0
    BY <1>7, OnlyRejectableCount DEF ReserveFailed
  <2>3. call.batch \subseteq MayReject
    <3>1. call.batch \subseteq Reserves
      BY DEF JInv, IInv, Places
    <3>2. PICK r : call.batch = {r}
      BY <1>7, <3>1, FS_Subset, FS_Singleton, BatchAssumption DEF ReserveFailed
    <3> QED BY <1>7, <3>1, <3>2, OnlyRejectableFail DEF ReserveFailed
  <2> QED BY <2>1, <2>2, <2>3 DEF Unrejected, InFlight
<1>8. CASE SendStep
  <2>1. /\ UNCHANGED <<stage, plan, rest, solo, retrying, zeroed, failed, missing, failures>>
    BY <1>8 DEF SendStep, batchVars, outcomeVars
  <2>2. UNCHANGED <<call, landed>> /\ pc # "idle" /\ pc' # "idle"
    BY <1>8 DEF SendStep, SimulationPasses, SimulationFails, SetupFails, Broadcast, Threw,
                Confirmed, ConfirmationFails, FoundExecuted, FoundRejected, StaysUnknown, Retry,
                callVars, ledgerVars
  <2>3. Rejections' = Rejections /\ InFlight' = InFlight
    BY <2>2 DEF Rejections, InFlight
  <2>4. ASSUME pc' = "threw", error'.type = "simulation"
        PROVE  error'.verdict \in Rejections \/ (error'.verdict = Silent /\ ~Allowed(NoAnswer))
    <3>1. ~SimulationPasses /\ ~Confirmed /\ ~ConfirmationFails /\ ~FoundExecuted /\ ~Retry
      BY <2>4 DEF SimulationPasses, Broadcast, Confirmed, ConfirmationFails, FoundExecuted, Retry
    <3>2. ~SetupFails /\ ~FoundRejected /\ ~StaysUnknown
      BY <2>4 DEF SetupFails, FoundRejected, StaysUnknown, Threw, Unknown
    <3>3. SimulationFails({e \in Errors : Allowed(e)})
      BY <1>8, <3>1, <3>2 DEF SendStep
    <3>4. PICK v \in Rejections \cup {Silent} :
            LET e == [type |-> "simulation", verdict |-> v] IN
            e \notin {x \in Errors : Allowed(x)} /\ error' = e
      BY <2>4, <3>3 DEF SimulationFails, Broadcast, Threw
    <3>5. NoAnswer \in Errors
      BY DEF NoAnswer, Silent, Errors, Verdicts
    <3> QED BY <3>4, <3>5 DEF NoAnswer
  <2>5. Allowed(NoAnswer)' <=> Allowed(NoAnswer)
    BY <2>1, <2>2 DEF Allowed, ForceEligible, Attributable, Downstream, Earlier
  <2> QED BY <2>1, <2>2, <2>3, <2>4, <2>5 DEF Unrejected
<1>9. CASE LedgerStep
  <2>1. UNCHANGED <<pc, call, error>>
    BY <1>9 DEF LedgerStep, Ledger, Execute, Reject, Drop, callVars
  <2>2. /\ UNCHANGED <<stage, plan, rest, solo, retrying, failed, missing, failures>>
        /\ stage = "zeroing" => zeroed' = zeroed \cup {r \in Reserves : landed'[r] > 0}
    BY <1>9 DEF LedgerStep, batchVars, outcomeVars
  <2>3. Rejections' = Rejections /\ InFlight' = InFlight
    BY <2>1 DEF Rejections, InFlight
  <2>4. Allowed(NoAnswer)' <=> Allowed(NoAnswer)
    BY <2>1, <2>2 DEF Allowed, ForceEligible, Attributable, Downstream, Earlier
  <2> QED BY <2>1, <2>2, <2>3, <2>4 DEF Unrejected
<1>10. CASE UNCHANGED vars
  <2>1. UNCHANGED <<pc, call, error, stage, plan, rest, solo, retrying, zeroed, landed, failed,
                    missing, failures>>
    BY <1>10 DEF vars, sendVars, callVars, ledgerVars, batchVars, outcomeVars
  <2>2. Rejections' = Rejections /\ InFlight' = InFlight
    BY <2>1 DEF Rejections, InFlight
  <2>3. Allowed(NoAnswer)' <=> Allowed(NoAnswer)
    BY <2>1 DEF Allowed, ForceEligible, Attributable, Downstream, Earlier
  <2> QED BY <2>1, <2>2, <2>3 DEF Unrejected
<1> QED BY <1>2, <1>3, <1>4, <1>5, <1>6, <1>7, <1>8, <1>9, <1>10 DEF Next, ResponseStep

-----------------------------------------------------------------------------
\* The invariant holds in every state.
THEOREM Invariance == Spec => []IInv
BY StepKeepsInvariant, InitHolds, PTL DEF Spec

\* No instruction of a response is executed twice, however often its transaction
\* is built again and its batch split up (tx/src/instruction.ts:259,
\* utils/reserveBatches.ts).
THEOREM NeverTwice == Spec => []ExecutedAtMostOnce
<1>1. IInv => ExecutedAtMostOnce
  BY DEF IInv, Executed, ExecutedAtMostOnce
<1> QED BY <1>1, Invariance, PTL

\* A response that comes to its end reports as sent what was executed and as
\* failed what was not (executeDangerResponse).
THEOREM ReportTruthful == Spec => []OutcomeTruthful
<1>1. IInv => OutcomeTruthful
  <2> SUFFICES ASSUME IInv, stage = "done"
               PROVE  sent = {r \in plan : landed[r] > 0} /\ failed = plan \ sent
    BY DEF OutcomeTruthful
  <2>1. plan = sent \cup failed
    BY DEF IInv, Places, Reported, InFlight
  <2>2. \A r \in sent : landed[r] = 1
    BY DEF IInv, Reported
  <2>3. \A r \in failed : landed[r] = 0
    BY DEF IInv, Reported
  <2> QED BY <2>1, <2>2, <2>3
<1> QED BY <1>1, Invariance, PTL

\* A transaction is forced past a failed simulation only while every reserve in
\* it has fewer failed broadcasts in a row than the limit (deinvestFailures.ts:21,
\* reserveBatches.ts).
THEOREM ForcedWithinLimit == Spec => []ForceLimited
<1>1. JInv => ForceLimited
  BY DEF JInv, Counted, ForceLimited
<1> QED BY <1>1, CountsInit, StepKeepsCounts, PTL DEF Spec

\* A reserve that is rejected never keeps the weight of another from being
\* zeroed, nor the withdrawal of another from being executed (reserveBatches.ts:102).
THEOREM OthersGoOn == Spec => []OthersNotStopped
<1>1. Init => Unrejected
  BY DEF Init, SendInit, Unrejected
<1>2. JInv /\ Unrejected => OthersNotStopped
  <2> SUFFICES ASSUME JInv, Unrejected PROVE OthersNotStopped
    OBVIOUS
  <2>1. stage = "zeroing" /\ Between => plan \ MayReject \subseteq zeroed
    BY DEF Between, Unrejected, InFlight
  <2>2. stage = "done" => plan \ MayReject \subseteq sent
    BY DEF JInv, IInv, Places, Reported, InFlight, Unrejected
  <2> QED BY <2>1, <2>2 DEF OthersNotStopped
<1> QED BY <1>1, <1>2, CountsInit, StepKeepsCounts, UnrejectedHolds, PTL DEF Spec
-----------------------------------------------------------------------------
(* The end of the response                                                 *)
(*                                                                         *)
(* StepsLeft bounds the steps that a response may still take.  A batch     *)
(* that fails is sent again reserve by reserve, and a transaction that     *)
(* expires is built again, but both use up what is left.                   *)

\* Steps in a call: those of each attempt, and the one that takes its result.
Round == 3 * MaxAttempts + 2

\* Steps that are left in the call.
InCall ==
  IF pc = "idle" THEN 0
  ELSE IF pc \in {"returned", "threw"} THEN 1
  ELSE 3 * (MaxAttempts - attempt)
         + (IF pc = "simulating" THEN 4 ELSE IF pc = "confirming" THEN 3 ELSE 2)

\* A batch of several reserves may come back as retries.
Retries ==
  IF pc # "idle" /\ Cardinality(call.batch) > 1 THEN Cardinality(call.batch) ELSE 0

\* Calls that are left in the stage; one that carries preamble alone leaves less.
CallsLeft ==
  2 * Cardinality(rest) + Cardinality(solo) + Retries
    + (IF pc # "idle" /\ call.batch = {} THEN preamble - 1 ELSE preamble)

StagesLeft ==
  IF stage = "zeroing" THEN 3 ELSE IF stage = "withdrawing" THEN 2
  ELSE IF stage = "done" THEN 1 ELSE 0

PerStage == Round * (2 * Cardinality(Reserves) + MaxPreamble) + 1

StepsLeft == PerStage * StagesLeft + Round * CallsLeft + InCall

\* A call without reserves carries as much of the preamble as fits.
Preambled ==
  /\ preamble \in Nat
  /\ pc # "idle" /\ call.batch = {} => preamble >= BatchSize

LEMMA Fewer ==
  ASSUME NEW k \in Nat, NEW x \in Nat, NEW y \in Nat
  PROVE  /\ k * x \in Nat /\ k * y \in Nat
         /\ y <= x => k * y <= k * x
         /\ y < x => k * y <= k * x - k
OBVIOUS

\* A later stage, fewer calls or fewer steps in the call.
LEMMA Descends ==
  ASSUME NEW b \in Nat \ {0}, NEW k \in Nat,
         NEW s \in Nat, NEW c \in Nat, NEW i \in Nat,
         NEW t \in Nat, NEW d \in Nat, NEW j \in Nat,
         \/ t < s /\ k * d + j < b
         \/ t <= s /\ d < c /\ j < k
         \/ t <= s /\ d <= c /\ j < i
         \/ t < s /\ d <= c /\ j <= i
  PROVE  b * t + k * d + j < b * s + k * c + i
<1> DEFINE bs == b * s  bt == b * t  kc == k * c  kd == k * d
<1>1. bs \in Nat /\ bt \in Nat /\ (t <= s => bt <= bs) /\ (t < s => bt <= bs - b)
  BY Fewer
<1>2. kc \in Nat /\ kd \in Nat /\ (d <= c => kd <= kc) /\ (d < c => kd <= kc - k)
  BY Fewer
<1>3. \/ t < s /\ kd + j < b
      \/ t <= s /\ d < c /\ j < k
      \/ t <= s /\ d <= c /\ j < i
      \/ t < s /\ d <= c /\ j <= i
  OBVIOUS
<1> HIDE DEF bs, bt, kc, kd
<1>4. bt + kd + j < bs + kc + i
  BY <1>1, <1>2, <1>3
<1> QED BY <1>4 DEF bs, bt, kc, kd

\* A batch is not empty while reserves are left.
LEMMA FirstExists ==
  ASSUME NEW S \in SUBSET Reserves, S # {}, NEW n \in Nat \ {0}
  PROVE  First(n, S) # {}
<1> DEFINE Below(r) == {q \in S : q < r}
           Belows == {Below(r) : r \in S}
<1>1. IsFiniteSet(S) /\ S \subseteq Nat
  BY BatchAssumption, FS_Subset
<1>2. PICK B \in Belows : \A C \in Belows : <<C, B>> \notin StrictSubsetOrdering(S)
  <2>1. IsWellFoundedOn(StrictSubsetOrdering(S), SUBSET S)
    BY <1>1, FS_StrictSubsetOrderingWellFounded, FS_FiniteSubsetsOfFinite
  <2>2. Belows \subseteq SUBSET S /\ Belows # {}
    OBVIOUS
  <2> HIDE DEF Belows
  <2> QED BY <2>1, <2>2, WFMin
<1>3. PICK r \in S : B = Below(r)
  OBVIOUS
<1>4. Below(r) = {}
  <2> SUFFICES ASSUME NEW q \in Below(r) PROVE FALSE
    OBVIOUS
  <2>1. q \in S /\ q < r /\ q \in Nat /\ r \in Nat
    BY <1>1
  <2>2. Below(q) \subseteq Below(r) /\ q \notin Below(q)
    <3>1. \A p \in S : p \in Nat /\ (p < q => p < r)
      BY <1>1, <2>1
    <3>2. ~(q < q)
      BY <2>1
    <3> QED BY <3>1, <3>2
  <2>3. <<Below(q), Below(r)>> \in StrictSubsetOrdering(S)
    BY <2>2 DEF StrictSubsetOrdering
  <2> QED BY <1>2, <1>3, <2>1, <2>3
<1>5. Cardinality(Below(r)) = 0
  BY <1>4, FS_EmptySet
<1>6. r \in First(n, S)
  BY <1>5 DEF First
<1> QED BY <1>6

LEMMA ReservesFinite ==
  ASSUME NEW S \in SUBSET Reserves
  PROVE  IsFiniteSet(S) /\ Cardinality(S) \in Nat /\ Cardinality(S) <= Cardinality(Reserves)
BY BatchAssumption, FS_Subset, FS_CardinalityType

\* What is counted are numbers.
Numbers ==
  /\ StagesLeft \in 0..3 /\ InCall \in 0..(Round - 1) /\ CallsLeft \in Nat
  /\ Round \in Nat \ {0} /\ PerStage \in Nat \ {0}
  /\ Cardinality(rest) \in Nat /\ Cardinality(solo) \in Nat
  /\ Cardinality(call.batch) \in Nat /\ Retries \in Nat

LEMMA CountsAreNumbers == IInv /\ Preambled => Numbers
<1> SUFFICES ASSUME IInv, Preambled PROVE Numbers
  OBVIOUS
<1>1. MaxAttempts \in Nat \ {0} /\ attempt \in 1..MaxAttempts
  BY SendAssumption DEF IInv, Attempts
<1>2. rest \in SUBSET Reserves /\ solo \in SUBSET Reserves /\ call.batch \in SUBSET Reserves
  BY DEF IInv, Places
<1>3. /\ Cardinality(rest) \in Nat /\ Cardinality(solo) \in Nat
      /\ Cardinality(call.batch) \in Nat /\ Cardinality(Reserves) \in Nat
  BY <1>2, ReservesFinite
<1>4. Round \in Nat \ {0} /\ InCall \in 0..(Round - 1)
  BY <1>1 DEF Round, InCall
<1>5. Retries \in Nat
  BY <1>3 DEF Retries
<1>6. BatchSize \in Nat \ {0} /\ MaxPreamble \in Nat
  BY BatchAssumption
<1>7. CallsLeft \in Nat
  BY <1>3, <1>5, <1>6 DEF CallsLeft, Preambled
<1>8. PerStage \in Nat \ {0}
  <2> DEFINE n == 2 * Cardinality(Reserves) + MaxPreamble
  <2>1. n \in Nat
    BY <1>3, <1>6
  <2>2. PerStage = Round * n + 1
    BY DEF PerStage
  <2> HIDE DEF n
  <2> QED BY <1>4, <2>1, <2>2, Fewer
<1>9. StagesLeft \in 0..3
  BY DEF StagesLeft
<1> QED BY <1>3, <1>4, <1>5, <1>7, <1>8, <1>9 DEF Numbers

LEMMA PreambledStep ==
  ASSUME IInv, Preambled, [Next]_vars
  PROVE  Preambled'
<1> USE DEF Preambled
<1>1. CASE Respond \/ Return \/ Abort \/ Restart \/ Rethrown
  BY <1>1 DEF Respond, Return, Abort, Restart, Rethrown, Ended, Planned, Forget
<1>2. CASE Reload
  BY <1>2, BatchAssumption DEF Reload, Planned, Forget
<1>3. CASE SendPreamble
  BY <1>3, BatchAssumption DEF SendPreamble, Begin, batchVars
<1>4. CASE SendBatch
  <2>1. rest \in SUBSET Reserves /\ rest # {} /\ BatchSize - preamble \in Nat \ {0}
    BY <1>4, BatchAssumption DEF SendBatch, IInv, Places
  <2>2. First(BatchSize - preamble, rest) # {}
    BY <2>1, FirstExists
  <2> QED BY <1>4, <2>2 DEF SendBatch, Begin
<1>5. CASE SendSolo
  <2>1. PICK r \in First(1, solo) : Begin({r}, preamble > 0)
    BY <1>5 DEF SendSolo
  <2> QED BY <1>5, <2>1 DEF SendSolo, Begin
<1>6. CASE Returned
  BY <1>6, BatchAssumption DEF Returned
<1>7. CASE BatchFailed \/ ReserveFailed
  BY <1>7 DEF BatchFailed, ReserveFailed, batchVars
<1>8. CASE Finish \/ UNCHANGED vars
  BY <1>8 DEF Finish, vars, sendVars, callVars, batchVars
<1>9. CASE SendStep
  <2>1. UNCHANGED <<preamble, call>> /\ pc # "idle"
    BY <1>9 DEF SendStep, SimulationPasses, SimulationFails, SetupFails, Confirmed,
       ConfirmationFails, FoundExecuted, FoundRejected, StaysUnknown, Retry, Broadcast,
       Threw, batchVars, callVars
  <2> QED BY <2>1
<1>10. CASE LedgerStep
  BY <1>10 DEF LedgerStep, Ledger, Execute, Reject, Drop, batchVars, callVars
<1> QED
  BY <1>1, <1>2, <1>3, <1>4, <1>5, <1>6, <1>7, <1>8, <1>9, <1>10 DEF Next, ResponseStep

\* A response that is over has no steps left.
LEMMA EndedLeavesNone == Ended => StepsLeft' = 0
<1> SUFFICES ASSUME Ended PROVE StepsLeft' = 0
  OBVIOUS
<1>1. rest' = {} /\ solo' = {} /\ preamble' = 0 /\ pc' = "idle" /\ stage' = "idle"
  BY DEF Ended, Planned, Forget
<1>2. StagesLeft' = 0 /\ InCall' = 0 /\ CallsLeft' = 0
  BY <1>1, FS_EmptySet DEF StagesLeft, InCall, CallsLeft, Retries
<1>3. Round \in Nat /\ PerStage \in Int
  <2>1. Round \in Nat /\ Cardinality(Reserves) \in Nat /\ MaxPreamble \in Nat
    BY SendAssumption, BatchAssumption, FS_CardinalityType DEF Round
  <2> DEFINE n == 2 * Cardinality(Reserves) + MaxPreamble
  <2>2. n \in Nat /\ PerStage = Round * n + 1
    BY <2>1 DEF PerStage
  <2> HIDE DEF n
  <2> QED BY <2>1, <2>2, Fewer
<1>4. PerStage' = PerStage /\ Round' = Round
  BY DEF PerStage, Round
<1> QED BY <1>2, <1>3, <1>4 DEF StepsLeft

\* A step in the call leaves the batches alone.
LEMMA CallDescends ==
  ASSUME IInv, SendStep
  PROVE  /\ UNCHANGED <<stage, rest, solo, preamble, call>>
         /\ pc # "idle" /\ pc' # "idle" /\ InCall' < InCall
<1>1. UNCHANGED <<stage, batchVars>>
  BY DEF SendStep
<1>2. attempt \in 1..MaxAttempts /\ MaxAttempts \in Nat
  BY SendAssumption DEF IInv, Attempts
<1>3. CASE SimulationPasses \/ SimulationFails({e \in Errors : Allowed(e)}) \/ SetupFails
  <2>1. /\ UNCHANGED <<call, attempt>> /\ pc = "simulating"
        /\ pc' \in {"confirming", "threw"}
    BY <1>3 DEF SimulationPasses, SimulationFails, SetupFails, Broadcast, Threw
  <2> QED BY <1>1, <1>2, <2>1 DEF InCall, batchVars
<1>4. CASE Confirmed \/ ConfirmationFails
  <2>1. /\ UNCHANGED <<call, attempt>> /\ pc = "confirming"
        /\ pc' \in {"returned", "reconciling"}
    BY <1>4 DEF Confirmed, ConfirmationFails, callVars
  <2> QED BY <1>1, <1>2, <2>1 DEF InCall, batchVars
<1>5. CASE FoundExecuted \/ FoundRejected \/ StaysUnknown
  <2>1. /\ UNCHANGED <<call, attempt>> /\ pc = "reconciling"
        /\ pc' \in {"returned", "threw"}
    BY <1>5 DEF FoundExecuted, FoundRejected, StaysUnknown, Threw, callVars
  <2> QED BY <1>1, <1>2, <2>1 DEF InCall, batchVars
<1>6. CASE Retry
  <2>1. /\ UNCHANGED call /\ attempt' = attempt + 1 /\ pc = "reconciling"
        /\ attempt < MaxAttempts /\ pc' = "simulating"
    BY <1>6 DEF Retry
  <2> QED BY <1>1, <1>2, <2>1 DEF InCall, batchVars
<1> QED BY <1>3, <1>4, <1>5, <1>6 DEF SendStep
LEMMA ResponseDescends ==
  ASSUME IInv, Preambled, Numbers, Preambled', Numbers', ResponseStep, ~Respond
  PROVE  StepsLeft' < StepsLeft
<1> DEFINE K == Round  B == PerStage
           s == StagesLeft  c == CallsLeft  i == InCall
           t == StagesLeft'  d == CallsLeft'  j == InCall'
<1>1. /\ s \in 0..3 /\ i \in 0..(K - 1) /\ c \in Nat /\ K \in Nat \ {0} /\ B \in Nat \ {0}
      /\ t \in 0..3 /\ j \in 0..(K - 1) /\ d \in Nat
      /\ K' = K /\ B' = B
  <2>1. K' = K /\ B' = B
    BY DEF PerStage, Round
  <2> QED BY <2>1 DEF Numbers
<1>2. StepsLeft = B * s + K * c + i /\ StepsLeft' = B * t + K * d + j
  BY <1>1 DEF StepsLeft
<1>3. /\ Cardinality(rest) \in Nat /\ Cardinality(solo) \in Nat
      /\ Cardinality(call.batch) \in Nat /\ Retries \in Nat
      /\ Cardinality(rest') \in Nat /\ Cardinality(solo') \in Nat
      /\ Cardinality(call'.batch) \in Nat /\ Retries' \in Nat
  BY DEF Numbers
<1>4. rest \in SUBSET Reserves /\ solo \in SUBSET Reserves /\ call.batch \in SUBSET Reserves
      /\ IsFiniteSet(rest) /\ IsFiniteSet(solo) /\ IsFiniteSet(call.batch)
  <2>1. rest \in SUBSET Reserves /\ solo \in SUBSET Reserves /\ call.batch \in SUBSET Reserves
    BY DEF IInv, Places
  <2> QED BY <2>1, ReservesFinite
<1>5. preamble \in Nat /\ preamble' \in Nat /\ BatchSize \in Nat \ {0}
  BY BatchAssumption DEF Preambled
<1>6. SUFFICES \/ t < s /\ K * d + j < B
               \/ t <= s /\ d < c /\ j < K
               \/ t <= s /\ d <= c /\ j < i
               \/ t < s /\ d <= c /\ j <= i
  <2> HIDE DEF K, B, s, c, i, t, d, j
  <2> QED BY <1>1, <1>2, Descends
<1>7. CASE Return \/ Rethrown
  <2>1. rest' = {} /\ solo' = {} /\ preamble' = 0 /\ pc' = "idle" /\ stage' = "idle"
    BY <1>7 DEF Return, Rethrown, Ended, Planned, Forget
  <2>2. t = 0 /\ j = 0 /\ d = 0
    BY <2>1, FS_EmptySet DEF StagesLeft, InCall, CallsLeft, Retries
  <2>3. s > 0 \/ i > 0
    BY <1>7 DEF Return, Rethrown, StagesLeft, InCall
  <2>4. K * 0 = 0
    BY <1>1
  <2> HIDE DEF K, B, s, c, i, t, d, j
  <2> QED BY <1>1, <2>2, <2>3, <2>4
<1>8. CASE Reload
  <2>1. /\ stage = "zeroing" /\ stage' = "withdrawing" /\ pc' = "idle" /\ solo' = {}
        /\ rest' \in SUBSET Reserves /\ preamble' \in 0..MaxPreamble
    <3>1. PICK reserves \in SUBSET zeroed :
            \E first \in IF reserves = {} THEN {0} ELSE 0..MaxPreamble : Planned(reserves, first)
      BY <1>8 DEF Reload
    <3>2. zeroed \subseteq Reserves /\ 0 \in 0..MaxPreamble
      BY BatchAssumption DEF IInv, Places
    <3> QED BY <1>8, <3>1, <3>2 DEF Reload, Planned, Forget
  <2>2. t < s /\ j = 0
    BY <2>1 DEF StagesLeft, InCall
  <2> DEFINE n == 2 * Cardinality(Reserves) + MaxPreamble
  <2>3. d <= n /\ n \in Nat
    <3>1. d = 2 * Cardinality(rest') + 0 + 0 + preamble'
      BY <2>1, FS_EmptySet DEF CallsLeft, Retries
    <3>2. Cardinality(rest') <= Cardinality(Reserves) /\ Cardinality(Reserves) \in Nat
      BY <2>1, ReservesFinite
    <3> HIDE DEF d
    <3> QED BY <1>3, <1>5, <2>1, <3>1, <3>2, BatchAssumption
  <2>4. B = K * n + 1
    BY DEF PerStage
  <2> HIDE DEF K, B, s, c, i, t, d, j, n
  <2>5. K * d <= K * n /\ K * d \in Nat /\ K * n \in Nat
    BY <1>1, <2>3, Fewer
  <2>6. K * d + j < B
    BY <2>2, <2>4, <2>5
  <2> QED BY <2>2, <2>6
<1>9. CASE Finish
  <2>1. /\ UNCHANGED <<pc, call, attempt, rest, solo, preamble>>
        /\ stage = "withdrawing" /\ stage' = "done"
    BY <1>9 DEF Finish, sendVars, callVars, batchVars
  <2>2. t < s /\ d = c /\ j = i
    BY <2>1 DEF StagesLeft, CallsLeft, Retries, InCall
  <2> HIDE DEF K, B, s, c, i, t, d, j
  <2> QED BY <1>1, <2>2
<1>10. CASE SendPreamble
  <2>1. /\ UNCHANGED <<stage, rest, solo, preamble>> /\ pc = "idle" /\ pc' # "idle"
        /\ call'.batch = {}
    BY <1>10 DEF SendPreamble, Begin, batchVars
  <2>2. t = s /\ Retries = 0 /\ Retries' = 0
    BY <2>1, FS_EmptySet DEF StagesLeft, Retries
  <2>3. d = c - 1
    BY <1>3, <1>5, <2>1, <2>2 DEF CallsLeft
  <2> HIDE DEF K, B, s, c, i, t, d, j
  <2> QED BY <1>1, <2>2, <2>3
<1>11. CASE SendBatch
  <2> DEFINE batch == First(BatchSize - preamble, rest)
  <2>1. /\ UNCHANGED <<stage, solo, preamble>> /\ pc = "idle" /\ pc' # "idle"
        /\ call'.batch = batch /\ rest' = rest \ batch
    BY <1>11 DEF SendBatch, Begin
  <2>2. batch \subseteq rest /\ batch # {}
    <3>1. rest # {} /\ BatchSize - preamble \in Nat \ {0}
      BY <1>5, <1>11 DEF SendBatch
    <3> QED BY <1>4, <3>1, FirstExists DEF First
  <2> HIDE DEF batch
  <2>3. /\ Cardinality(rest') = Cardinality(rest) - Cardinality(batch)
        /\ Cardinality(batch) \in Nat \ {0}
    <3>1. rest \cap batch = batch /\ IsFiniteSet(batch)
      BY <1>4, <2>2, FS_Subset
    <3>2. Cardinality(rest \ batch) = Cardinality(rest) - Cardinality(rest \cap batch)
      BY <1>4, FS_Difference
    <3>3. Cardinality(batch) \in Nat /\ Cardinality(batch) # 0
      BY <2>2, <3>1, FS_EmptySet, FS_CardinalityType
    <3> QED BY <2>1, <3>1, <3>2, <3>3
  <2>4. t = s /\ Retries = 0 /\ Retries' <= Cardinality(batch)
    BY <2>1, <2>3 DEF StagesLeft, Retries
  <2>5. d < c
    BY <1>3, <1>5, <2>1, <2>2, <2>3, <2>4 DEF CallsLeft
  <2> HIDE DEF K, B, s, c, i, t, d, j
  <2> QED BY <1>1, <2>4, <2>5
<1>12. CASE SendSolo
  <2>1. PICK r \in First(1, solo) : Begin({r}, preamble > 0) /\ solo' = solo \ {r}
    BY <1>12 DEF SendSolo
  <2>2. /\ UNCHANGED <<stage, rest, preamble>> /\ pc = "idle" /\ pc' # "idle"
        /\ call'.batch = {r}
    BY <1>12, <2>1 DEF SendSolo, Begin
  <2>3. Cardinality(solo') = Cardinality(solo) - 1 /\ Cardinality({r}) = 1
    BY <1>4, <2>1, FS_RemoveElement, FS_Singleton DEF First
  <2>4. t = s /\ Retries = 0 /\ Retries' = 0
    BY <2>2, <2>3 DEF StagesLeft, Retries
  <2>5. d = c - 1
    BY <1>3, <1>5, <2>2, <2>3, <2>4 DEF CallsLeft
  <2> HIDE DEF K, B, s, c, i, t, d, j
  <2> QED BY <1>1, <2>4, <2>5
<1>13. CASE Returned
  <2>1. /\ UNCHANGED <<stage, rest, solo, call>> /\ pc = "returned" /\ pc' = "idle"
        /\ preamble' = IF call.batch = {} THEN preamble - BatchSize ELSE 0
    BY <1>13 DEF Returned, callVars
  <2>2. t = s /\ j < i /\ Retries' = 0
    BY <2>1 DEF StagesLeft, InCall, Retries
  <2>3. d <= c
    BY <1>3, <1>5, <2>1, <2>2 DEF CallsLeft
  <2> HIDE DEF K, B, s, c, i, t, d, j
  <2> QED BY <1>1, <2>2, <2>3
<1>14. CASE BatchFailed
  <2>1. /\ UNCHANGED <<stage, rest, call, preamble>> /\ pc = "threw" /\ pc' = "idle"
        /\ solo' = call.batch /\ Cardinality(call.batch) > 1
    BY <1>14 DEF BatchFailed, callVars
  <2>2. solo = {} /\ call.batch # {} /\ Cardinality(solo) = 0
    <3>1. call.batch # {}
      BY <2>1, FS_EmptySet
    <3> QED BY <1>3, <2>1, <3>1, FS_EmptySet DEF IInv, Places
  <2>3. t = s /\ j < i /\ Retries' = 0 /\ Retries = Cardinality(call.batch)
    BY <2>1 DEF StagesLeft, InCall, Retries
  <2>4. d = c
    BY <1>3, <1>5, <2>1, <2>2, <2>3 DEF CallsLeft
  <2> HIDE DEF K, B, s, c, i, t, d, j
  <2> QED BY <1>1, <2>3, <2>4
<1>15. CASE ReserveFailed
  <2>1. /\ UNCHANGED <<stage, rest, solo, call, preamble>> /\ pc = "threw" /\ pc' = "idle"
        /\ Cardinality(call.batch) = 1
    BY <1>15 DEF ReserveFailed, callVars, batchVars
  <2>2. call.batch # {}
    BY <2>1, FS_EmptySet
  <2>3. t = s /\ j < i /\ Retries' = 0 /\ Retries = 0
    BY <2>1 DEF StagesLeft, InCall, Retries
  <2>4. d = c
    BY <1>3, <1>5, <2>1, <2>2, <2>3 DEF CallsLeft
  <2> HIDE DEF K, B, s, c, i, t, d, j
  <2> QED BY <1>1, <2>3, <2>4
<1> QED
  BY <1>7, <1>8, <1>9, <1>10, <1>11, <1>12, <1>13, <1>14, <1>15 DEF ResponseStep

LEMMA StepsDescend ==
  ASSUME IInv, Preambled, Numbers', [Next]_vars, ~Respond
  PROVE  /\ StepsLeft \in Nat
         /\ StepsLeft' <= StepsLeft
         /\ ResponseStep \/ SendStep => StepsLeft' < StepsLeft
<1>1. IInv' /\ Preambled' /\ Numbers
  BY StepKeepsInvariant, PreambledStep, CountsAreNumbers
<1>2. StepsLeft \in Nat
  <2> DEFINE b == PerStage * StagesLeft  k == Round * CallsLeft
  <2>1. b \in Nat /\ k \in Nat /\ InCall \in Nat /\ StepsLeft = b + k + InCall
    BY <1>1, Fewer DEF StepsLeft, Numbers
  <2> HIDE DEF b, k
  <2> QED BY <2>1
<1>3. StepsLeft' \in Nat
  <2>1. /\ PerStage' \in Nat /\ StagesLeft' \in Nat /\ Round' \in Nat
        /\ CallsLeft' \in Nat /\ InCall' \in Nat
    BY DEF Numbers
  <2>2. PerStage' * StagesLeft' \in Nat /\ Round' * CallsLeft' \in Nat
    BY <2>1, Fewer
  <2>3. \A x, y, z \in Nat : x + y + z \in Nat
    OBVIOUS
  <2>4. PerStage' * StagesLeft' + Round' * CallsLeft' + InCall' \in Nat
    BY <2>1, <2>2, <2>3
  <2> QED BY <2>4 DEF StepsLeft
<1>4. CASE ResponseStep
  BY <1>1, <1>2, <1>3, <1>4, ResponseDescends
<1>5. CASE SendStep
  <2>1. UNCHANGED <<StagesLeft, CallsLeft>> /\ InCall' < InCall
    BY <1>5, CallDescends DEF StagesLeft, CallsLeft, Retries
  <2>2. UNCHANGED <<PerStage, Round>>
    BY DEF PerStage, Round
  <2>3. /\ StagesLeft \in Nat /\ InCall \in Nat /\ CallsLeft \in Nat
        /\ Round \in Nat /\ PerStage \in Nat \ {0} /\ InCall' \in Nat
    BY <1>1 DEF Numbers
  <2>4. StepsLeft' = PerStage * StagesLeft + Round * CallsLeft + InCall'
    BY <2>1, <2>2 DEF StepsLeft
  <2>5. PerStage * StagesLeft + Round * CallsLeft + InCall' < StepsLeft
    <3> DEFINE b == PerStage  k == Round  s == StagesLeft  c == CallsLeft  i == InCall  j == InCall'
    <3>1. /\ b \in Nat \ {0} /\ k \in Nat /\ s \in Nat /\ c \in Nat /\ i \in Nat /\ j \in Nat
          /\ s <= s /\ c <= c /\ j < i
      BY <2>1, <2>3
    <3>2. StepsLeft = b * s + k * c + i
      BY DEF StepsLeft
    <3> HIDE DEF b, k, s, c, i, j
    <3>3. b * s + k * c + j < b * s + k * c + i
      BY <3>1, Descends
    <3> QED BY <3>2, <3>3 DEF b, k, s, c, j
  <2>6. StepsLeft' < StepsLeft
    BY <2>4, <2>5
  <2> QED BY <1>2, <1>3, <2>6
<1>6. CASE Abort \/ Restart
  <2>1. StepsLeft' = 0
    BY <1>6, EndedLeavesNone DEF Abort, Restart
  <2>2. ~SendStep
    BY <1>6, CallDescends DEF Abort, Restart, Ended, Planned, Forget
  <2> QED BY <1>2, <1>4, <2>1, <2>2
<1>7. CASE LedgerStep \/ UNCHANGED vars
  <2>1. UNCHANGED <<pc, call, attempt, stage, rest, solo, preamble>>
    BY <1>7 DEF LedgerStep, Ledger, Execute, Reject, Drop, vars, sendVars, callVars, batchVars
  <2>2. UNCHANGED StepsLeft
    BY <2>1 DEF StepsLeft, PerStage, Round, StagesLeft, CallsLeft, Retries, InCall
  <2> QED BY <1>2, <1>4, <1>5, <2>2
<1> QED BY <1>4, <1>5, <1>6, <1>7 DEF Next

LEMMA StepsLeftNat ==
  ASSUME Numbers
  PROVE  StepsLeft \in Nat
<1>1. PerStage * StagesLeft \in Nat /\ Round * CallsLeft \in Nat /\ InCall \in Nat
  <2>1. \A k, n \in Nat : k * n \in Nat
    OBVIOUS
  <2> QED BY <2>1 DEF Numbers
<1> QED BY <1>1 DEF StepsLeft

\* A response comes to its end whatever the programs reject and whichever calls
\* fail: each step of it uses up some of a finite number of steps, until the next
\* response, so that no batch is split up and no transaction built again for ever
\* (sendReserveBatches, sendAndConfirmTransactionV0).
THEOREM ResponsesEnd ==
  Spec => /\ [](StepsLeft \in Nat)
          /\ [][~Respond => /\ StepsLeft' <= StepsLeft
                            /\ ResponseStep \/ SendStep => StepsLeft' < StepsLeft]_vars
<1>1. Init => Preambled
  BY DEF Init, SendInit, Preambled
<1>2. IInv /\ Preambled /\ [Next]_vars => Preambled'
  BY PreambledStep
<1>3. IInv /\ Preambled /\ Numbers' /\ [Next]_vars =>
        [~Respond => /\ StepsLeft' <= StepsLeft
                     /\ ResponseStep \/ SendStep => StepsLeft' < StepsLeft]_vars
  BY StepsDescend
<1>4. Numbers => StepsLeft \in Nat
  BY StepsLeftNat
<1> QED BY <1>1, <1>2, <1>3, <1>4, Invariance, CountsAreNumbers, PTL DEF Spec
=============================================================================
