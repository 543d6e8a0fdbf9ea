------------------------------ MODULE SendTransaction ------------------------------
(***************************************************************************)
(* One call of sendAndConfirmTransactionV0 (tx/src/instruction.ts): a      *)
(* transaction is simulated, broadcast and confirmed, a confirmation that  *)
(* fails is settled by looking the transaction up on the ledger, and an    *)
(* expired transaction is built again with a fresh blockhash.              *)
(*                                                                         *)
(* The ledger goes on by itself: a transaction that was broadcast lands, is*)
(* rejected or expires at any time, also after the call has given up.  A   *)
(* lookup does not lag behind the ledger for longer than it polls.         *)
(*                                                                         *)
(* The module that extends this one sets `call` with Begin and takes the   *)
(* result in the states where pc is "returned" or "threw".                 *)
(***************************************************************************)
EXTENDS Naturals

CONSTANTS
  Reserves,     \* the reserves the instructions are about
  MayReject,    \* those whose instruction the programs may reject
  Outside,      \* an instruction that is about no reserve
  Nobody,       \* the programs rejected it, and do not say which instruction
  NoVerdict,    \* the error says nothing about what the programs think
  MaxAttempts   \* MAX_BLOCK_HEIGHT_RETRIES

ASSUME SendAssumption ==
  /\ MayReject \subseteq Reserves
  /\ MaxAttempts \in Nat \ {0}
  /\ Outside \notin Reserves /\ Nobody \notin Reserves /\ NoVerdict \notin Reserves
  /\ Outside # Nobody /\ Nobody # NoVerdict /\ Outside # NoVerdict

Verdicts ==
  [blame : MayReject \cup {Outside, Nobody, NoVerdict}, funding : BOOLEAN]
Errors == [type : {"simulation", "landed", "unknown"}, verdict : Verdicts]
Fates == {"unsent", "pending", "executed", "rejected", "dropped"}
Calls == [batch : SUBSET Reserves, preamble : BOOLEAN]

Silent == [blame |-> NoVerdict, funding |-> FALSE]
Unknown == [type |-> "unknown", verdict |-> Silent]

VARIABLES
  pc,       \* where the call is
  call,     \* what it sends: the reserves' instructions, and the preamble
  attempt,
  fate,     \* ledger: the transaction of each attempt
  verdict,  \* ledger: why it was rejected
  landed,   \* ledger: how often each reserve's instruction was executed
  forced,   \* the transaction was sent although its simulation failed
  expired,  \* the confirmation failed because the block height was exceeded
  error     \* what the call throws

callVars == <<call, attempt, forced, expired, error>>
ledgerVars == <<fate, verdict, landed>>
sendVars == <<pc, callVars, ledgerVars>>

SendTypeOK ==
  /\ pc \in {"idle", "simulating", "confirming", "reconciling", "returned", "threw"}
  /\ call \in Calls
  /\ attempt \in 1..MaxAttempts
  /\ fate \in [1..MaxAttempts -> Fates]
  /\ verdict \in Verdicts
  /\ landed \in [Reserves -> 0..2]
  /\ forced \in BOOLEAN
  /\ expired \in BOOLEAN
  /\ error \in Errors

SendInit ==
  /\ pc = "idle"
  /\ call = [batch |-> {}, preamble |-> FALSE]
  /\ attempt = 1
  /\ fate = [k \in 1..MaxAttempts |-> "unsent"]
  /\ verdict = Silent
  /\ landed = [r \in Reserves |-> 0]
  /\ forced = FALSE
  /\ expired = FALSE
  /\ error = Unknown

\* The caller has returned or starts anew.
Forget ==
  /\ pc' = "idle"
  /\ call' = [batch |-> {}, preamble |-> FALSE]
  /\ attempt' = 1
  /\ fate' = [k \in 1..MaxAttempts |-> "unsent"]
  /\ verdict' = Silent
  /\ landed' = [r \in Reserves |-> 0]
  /\ forced' = FALSE
  /\ expired' = FALSE
  /\ error' = Unknown

\* The call up to its first simulation.
Begin(batch, preamble) ==
  /\ pc = "idle"
  /\ pc' = "simulating"
  /\ call' = [batch |-> batch, preamble |-> preamble]
  /\ attempt' = 1
  /\ fate' = [k \in 1..MaxAttempts |-> "unsent"]
  /\ verdict' = Silent
  /\ forced' = FALSE
  /\ expired' = FALSE
  /\ error' = Unknown

\* What the programs may have against the transaction.  They name the preamble,
\* which creates accounts, when it is at fault.
Rejections ==
  {v \in Verdicts :
     \/ v.blame \in call.batch
     \/ v.blame = Outside /\ call.preamble
     \/ v.blame \in {Nobody, NoVerdict} /\ call.batch \cap MayReject # {}}

\* isReserveAttributableFailure
Attributable(e) == e.type # "unknown" /\ e.verdict.blame # NoVerdict

Threw(e) ==
  /\ pc' = "threw"
  /\ error' = e
  /\ UNCHANGED <<call, attempt, forced, expired, ledgerVars>>

Broadcast(force) ==
  /\ pc = "simulating"
  /\ pc' = "confirming"
  /\ fate' = [fate EXCEPT ![attempt] = "pending"]
  /\ forced' = force
  /\ UNCHANGED <<call, attempt, expired, error, verdict, landed>>

SimulationPasses == Broadcast(FALSE)

\* The fees or the blockhash cannot be had, or the transaction not be built.
SetupFails ==
  /\ pc = "simulating"
  /\ Threw(Unknown)

\* The simulation fails, by a verdict of the programs or because the node did
\* not answer; `forcible` are the errors that assertSimulationAllowsSend lets
\* pass under the options of the call.
SimulationFails(forcible) ==
  /\ pc = "simulating"
  /\ \E v \in Rejections \cup {Silent} :
       LET e == [type |-> "simulation", verdict |-> v] IN
       \/ e \in forcible /\ Broadcast(TRUE)
       \/ e \notin forcible /\ Threw(e)

\* Kit reports the confirmation, and the status that is read again is clean.
Confirmed ==
  /\ pc = "confirming"
  /\ fate[attempt] = "executed"
  /\ pc' = "returned"
  /\ UNCHANGED <<callVars, ledgerVars>>

\* The block height is exceeded, which it is not while the transaction may
\* still land; or anything else throws: the deadline, the status, an error in it.
ConfirmationFails ==
  /\ pc = "confirming"
  /\ expired' \in BOOLEAN
  /\ expired' => fate[attempt] # "pending"
  /\ pc' = "reconciling"
  /\ UNCHANGED <<call, attempt, forced, error, ledgerVars>>

\* The lookup finds the transaction: it has landed after all ...
FoundExecuted ==
  /\ pc = "reconciling"
  /\ fate[attempt] = "executed"
  /\ pc' = "returned"
  /\ UNCHANGED <<callVars, ledgerVars>>

\* ... or it was rejected.
FoundRejected ==
  /\ pc = "reconciling"
  /\ fate[attempt] = "rejected"
  /\ Threw([type |-> "landed", verdict |-> verdict])

\* The lookup fails as well, or finds nothing although the transaction has not
\* expired, or the attempts are used up.
StaysUnknown ==
  /\ pc = "reconciling"
  /\ Threw(Unknown)

\* Faulty variant of Retry: whatever the lookup did not find is built again.
RetryAnyway ==
  /\ pc = "reconciling"
  /\ fate[attempt] \in {"pending", "dropped"}
  /\ attempt < MaxAttempts
  /\ attempt' = attempt + 1
  /\ pc' = "simulating"
  /\ UNCHANGED <<call, forced, expired, error, ledgerVars>>

\* Expired and not on the ledger: it is built again with a fresh blockhash.
Retry ==
  /\ pc = "reconciling"
  /\ expired
  /\ fate[attempt] \in {"pending", "dropped"}
  /\ attempt < MaxAttempts
  /\ attempt' = attempt + 1
  /\ pc' = "simulating"
  /\ UNCHANGED <<call, forced, expired, error, ledgerVars>>

-----------------------------------------------------------------------------
(* The ledger                                                              *)

\* The instructions of a transaction are executed together.
Execute(k) ==
  /\ fate[k] = "pending"
  /\ fate' = [fate EXCEPT ![k] = "executed"]
  /\ landed' = [r \in Reserves |->
       IF r \in call.batch /\ landed[r] < 2 THEN landed[r] + 1 ELSE landed[r]]
  /\ UNCHANGED <<pc, callVars, verdict>>

Reject(k) ==
  /\ fate[k] = "pending"
  /\ fate' = [fate EXCEPT ![k] = "rejected"]
  /\ verdict' \in Rejections
  /\ UNCHANGED <<pc, callVars, landed>>

Drop(k) ==
  /\ fate[k] = "pending"
  /\ fate' = [fate EXCEPT ![k] = "dropped"]
  /\ UNCHANGED <<pc, callVars, verdict, landed>>

Ledger == \E k \in 1..MaxAttempts : Execute(k) \/ Reject(k) \/ Drop(k)

=============================================================================
