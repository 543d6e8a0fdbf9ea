---------------------------- MODULE DangerPassProofs ----------------------------
(***************************************************************************)
(* Proofs about DangerPass: type correctness, the registration of emergency*)
(* responses, what a superseded pass may still do, and what passes promise *)
(* about reserves: a catastrophe is not forgotten, an evacuation is not    *)
(* cleared while the vault is exposed, and meanwhile the loop sends nothing*)
(* that exposes the vault again.  For any number of passes, vaults and     *)
(* reserves and any number of faults; an update sent before may land at any*)
(* time after that.                                                        *)
(***************************************************************************)
EXTENDS DangerPass, TLAPS

\* A pass that is past BeginVault is at a vault of the config.
AtVault ==
  \A p \in Passes :
    phase[p] \in {"reading", "deciding", "responding", "confirming"}
      => at[p] \in Vaults

\* activeResponses holds exactly the passes whose response is in flight, each
\* under its vault.
Registered ==
  /\ \A p \in Passes : phase[p] = "responding" => active[at[p]] = p
  /\ \A v \in Vaults : active[v] # NoPass =>
       phase[active[v]] = "responding" /\ at[active[v]] = v

\* The vault the current pass decides on has no response in flight: none can be
\* registered between BeginVault and the decision.
Undisturbed ==
  \A p \in Passes :
    current = p /\ phase[p] \in {"reading", "deciding"}
      => active[at[p]] = NoPass

\* While no pass is current, none is running and the loop sends nothing.
Owned ==
  current = NoPass => loop # "rebalancing" /\ \A p \in Passes : phase[p] = "idle"

IInv == TypeOK /\ AtVault /\ Registered /\ Undisturbed /\ Owned

-----------------------------------------------------------------------------
(* Types                                                                   *)

LEMMA EmptyViewType == EmptyView \in View
BY DEF EmptyView, View, Directive, ResponseKind

LEMMA StageType ==
  ASSUME TypeOK, NEW p \in Passes
  PROVE  Stage(p) \in [Passes -> [Reserves -> Observation]]
BY DEF TypeOK, Stage, Observed, Unstaged, Observation

LEMMA FlagsType ==
  ASSUME TypeOK, ConstantsAssumption, NEW p \in Passes,
         NEW flags \in SUBSET MayFlag, Flaggable(p, flags)
  PROVE  /\ flags \subseteq Reserves
         /\ CatastrophicFor(p) \subseteq Reserves
         /\ Exposed(p, flags) \subseteq Reserves
         /\ Unexposed(p, flags) \subseteq Reserves
         /\ Dangerous(p, flags) \subseteq Reserves
<1>1. flags \subseteq Reserves /\ view[p].catastrophic \subseteq Reserves
  BY DEF TypeOK, View, ConstantsAssumption
<1> QED
  BY <1>1 DEF CatastrophicFor, Exposed, Unexposed, Dangerous

LEMMA GatheredType ==
  ASSUME TypeOK, ConstantsAssumption, NEW p \in Passes, at[p] \in Vaults,
         NEW flags \in SUBSET MayFlag, Flaggable(p, flags)
  PROVE  Gathered(p, flags) \in View
<1>1. /\ view[p] \in View
      /\ VaultReserves[at[p]] \subseteq Reserves
  BY DEF TypeOK, ConstantsAssumption
<1> QED
  BY <1>1, FlagsType DEF Gathered, View

LEMMA UpdateView ==
  ASSUME TypeOK, NEW p \in Passes, NEW w \in View
  PROVE  [view EXCEPT ![p] = w] \in [Passes -> View]
BY DEF TypeOK

LEMMA RespondType ==
  ASSUME TypeOK, ConstantsAssumption, NEW p \in Passes, at[p] \in Vaults,
         NEW g \in View, NEW kind \in ResponseKind, NEW directive \in Directive,
         NEW targets, Respond(p, g, kind, directive, targets)
  PROVE  /\ phase' \in [Passes -> Phases]
         /\ active' \in [Vaults -> Passes \cup {NoPass}]
         /\ view' \in [Passes -> View]
<1>1. phase' \in [Passes -> Phases] /\ active' \in [Vaults -> Passes \cup
  {NoPass}]
  BY DEF TypeOK, Respond, Phases
<1>2. VaultReserves[at[p]] \subseteq Reserves
  BY DEF ConstantsAssumption
<1>3. [g EXCEPT !.directive[at[p]] = directive, !.kind = kind,
                !.todo = targets \cap VaultReserves[at[p]]] \in View
  BY <1>2 DEF View
<1> QED
  BY <1>1, <1>3, UpdateView DEF Respond

LEMMA AdvanceType ==
  ASSUME TypeOK, ConstantsAssumption, NEW p \in Passes, at[p] \in Vaults,
         Advance(p)
  PROVE  /\ phase' \in [Passes -> Phases]
         /\ at' \in [Passes -> 1..(NumVaults + 1)]
BY DEF TypeOK, ConstantsAssumption, Advance, Phases, Vaults

LEMMA UnregisterType ==
  ASSUME TypeOK, NEW p \in Passes, at[p] \in Vaults, Unregister(p)
  PROVE  active' \in [Vaults -> Passes \cup {NoPass}]
BY DEF TypeOK, Unregister

LEMMA GrantableType ==
  ASSUME TypeOK, ConstantsAssumption, Owned, NEW v \in Vaults, Sends(v)
  PROVE  Grantable(v) \subseteq Reserves
<1>1. current \in Passes
  BY DEF Sends, Owned, TypeOK
<1>2. view[current] \in View
  BY <1>1 DEF TypeOK
<1> QED
  BY <1>2 DEF Grantable, View, ConstantsAssumption

\* TypeOK in three parts, each shown to be preserved on its own.
ControlOK ==
  /\ loop \in {"asleep", "awaiting", "rebalancing"}
  /\ current \in Passes \cup {NoPass}
  /\ phase \in [Passes -> Phases]
  /\ at \in [Passes -> 1..(NumVaults + 1)]
  /\ active \in [Vaults -> Passes \cup {NoPass}]

ViewOK == view \in [Passes -> View]

DataOK ==
  /\ cooldown \subseteq Reserves
  /\ staged \in [Passes -> [Reserves -> Observation]]
  /\ baseline \in [Reserves -> Observation]
  /\ blacklisted \subseteq Reserves
  /\ pending \in [Vaults -> SUBSET Reserves]
  /\ exposure \in [Vaults -> SUBSET Reserves]
  /\ breached \subseteq Reserves
  /\ late \subseteq Update
  /\ regained \in [Vaults -> SUBSET Reserves]
  /\ recorded \subseteq Reserves
  /\ faults \in 0..MaxFaults
  /\ clears \in 0..MaxClears

LEMMA TypeParts == TypeOK <=> ControlOK /\ ViewOK /\ DataOK
BY DEF TypeOK, ControlOK, ViewOK, DataOK

LEMMA UnstagedType == Unstaged \in [Reserves -> Observation]
BY DEF Unstaged, Observation

\* The control state of the loop and of the passes keeps its type.
LEMMA ControlStep ==
  ASSUME IInv, ConstantsAssumption, [Next]_vars
  PROVE  ControlOK'
<1> USE TypeParts DEF IInv, passVars, memoryVars, fileVars, chainVars, boundVars
<1>1. ASSUME NEW p \in Passes, StartPass(p)
      PROVE  ControlOK'
  BY <1>1 DEF StartPass, ControlOK, Phases, ConstantsAssumption
<1>2. ASSUME NEW p \in Passes, NEW stale \in SUBSET MayFlag,
             AssessReserves(p, stale)
      PROVE  ControlOK'
  BY <1>2 DEF AssessReserves, ControlOK, Phases
<1>3. ASSUME NEW p \in Passes, BeginVault(p)
      PROVE  ControlOK'
  <2>1. CASE at' = at /\ phase' = [phase EXCEPT ![p] = "reading"]
    BY <1>3, <2>1 DEF BeginVault, ControlOK, Phases
  <2>2. CASE Advance(p)
    BY <1>3, <2>2, AdvanceType DEF BeginVault, ControlOK
  <2> QED
    BY <1>3, <2>1, <2>2 DEF BeginVault
<1>4. ASSUME NEW p \in Passes, ReadVault(p)
      PROVE  ControlOK'
  BY <1>4 DEF ReadVault, ControlOK, Phases
<1>5. ASSUME NEW p \in Passes, NEW flags \in SUBSET MayFlag,
             DecideDanger(p, flags)
      PROVE  ControlOK'
  BY <1>5 DEF DecideDanger, ControlOK, AtVault, Phases, Flaggable, Respond
<1>6. ASSUME NEW p \in Passes, NEW flags \in SUBSET MayFlag,
             DecideEvacuation(p, flags)
      PROVE  ControlOK'
  BY <1>6 DEF DecideEvacuation, ControlOK, AtVault, Phases, Flaggable, Respond
<1>7. ASSUME NEW p \in Passes, NEW flags \in SUBSET MayFlag,
             DecideEnforcement(p, flags)
      PROVE  ControlOK'
  BY <1>7 DEF DecideEnforcement, ControlOK, AtVault, Phases, Flaggable, Respond
<1>8. ASSUME NEW p \in Passes, NEW flags \in SUBSET MayFlag,
             DecideClear(p, flags)
      PROVE  ControlOK'
  BY <1>8 DEF DecideClear, ControlOK, Advance, Phases, Vaults,
     ConstantsAssumption, AtVault, Flaggable
<1>9. ASSUME NEW p \in Passes, NEW flags \in SUBSET MayFlag,
             DecideTooLate(p, flags)
      PROVE  ControlOK'
  BY <1>9 DEF DecideTooLate, ControlOK, Phases
<1>10. ASSUME NEW p \in Passes, SendTx(p)
      PROVE  ControlOK'
  BY <1>10 DEF SendTx, ControlOK, Phases
<1>11. ASSUME NEW p \in Passes, LandTx(p)
      PROVE  ControlOK'
  BY <1>11 DEF LandTx, ControlOK, Phases
<1>12. ASSUME NEW p \in Passes, CompleteResponse(p)
      PROVE  ControlOK'
  <2>1. at[p] \in Vaults
    BY <1>12 DEF CompleteResponse, AtVault
  <2>2. active' \in [Vaults -> Passes \cup {NoPass}]
    BY <1>12, <2>1, UnregisterType DEF CompleteResponse
  <2>3. CASE Advance(p)
    BY <1>12, <2>1, <2>2, <2>3, AdvanceType DEF CompleteResponse, ControlOK
  <2>4. CASE at' = at /\ phase' = [phase EXCEPT ![p] = "idle"]
    BY <1>12, <2>2, <2>4 DEF CompleteResponse, ControlOK, Phases
  <2>5. CASE at' = at /\ phase' = [phase EXCEPT ![p] = "confirming"]
    BY <1>12, <2>2, <2>5 DEF CompleteResponse, ControlOK, Phases
  <2> QED
    BY <1>12, <2>3, <2>4, <2>5 DEF CompleteResponse
<1>13. ASSUME NEW p \in Passes, AbortResponse(p)
      PROVE  ControlOK'
  BY <1>13 DEF AbortResponse, ControlOK, Advance, Phases, Vaults,
     ConstantsAssumption, AtVault, Unregister
<1>14. ASSUME NEW p \in Passes, ClearEvacuated(p)
      PROVE  ControlOK'
  BY <1>14 DEF ClearEvacuated, ControlOK, Advance, Phases, Vaults,
     ConstantsAssumption, AtVault
<1>15. ASSUME NEW p \in Passes, Abandon(p)
      PROVE  ControlOK'
  BY <1>15 DEF Abandon, ControlOK, Phases
<1>16. ASSUME NEW p \in Passes, Commit(p)
      PROVE  ControlOK'
  BY <1>16 DEF Commit, ControlOK, Phases
<1>17. ASSUME NEW p \in Passes, SkipMissingVault(p)
      PROVE  ControlOK'
  BY <1>17 DEF SkipMissingVault, ControlOK, Advance, Phases, Vaults,
     ConstantsAssumption, AtVault
<1>18. ASSUME NEW p \in Passes, NEW flags \in SUBSET MayFlag,
             DecisionFails(p, flags)
      PROVE  ControlOK'
  BY <1>18 DEF DecisionFails, ControlOK, Phases, Fails
<1>19. ASSUME NEW p \in Passes, LoseTx(p)
      PROVE  ControlOK'
  BY <1>19 DEF LoseTx, ControlOK, Phases
<1>20. ASSUME NEW p \in Passes, ResponseFails(p)
      PROVE  ControlOK'
  BY <1>20 DEF ResponseFails, ControlOK, Advance, Phases, Vaults,
     ConstantsAssumption, AtVault, Unregister
<1>21. ASSUME NEW p \in Passes, ClearingFails(p)
      PROVE  ControlOK'
  BY <1>21 DEF ClearingFails, ControlOK, Advance, Phases, Vaults,
     ConstantsAssumption, AtVault
<1>22. ASSUME NEW p \in Passes, PassFails(p)
      PROVE  ControlOK'
  BY <1>22 DEF PassFails, ControlOK, Phases, Fails
<1>23. ASSUME Sleep PROVE ControlOK'
  BY <1>23 DEF Sleep, ControlOK, Phases
<1>24. ASSUME Timeout PROVE ControlOK'
  BY <1>24 DEF Timeout, ControlOK, Phases
<1>25. ASSUME Restart PROVE ControlOK'
  BY <1>25 DEF Restart, ControlOK, Phases, ConstantsAssumption
<1>26. CASE UNCHANGED <<loop, current, phase, at, active>>
  BY <1>26 DEF ControlOK
<1> QED
  BY <1>1, <1>2, <1>3, <1>4, <1>5, <1>6, <1>7, <1>8, <1>9, <1>10, <1>11, <1>12,
     <1>13, <1>14, <1>15, <1>16, <1>17, <1>18, <1>19, <1>20, <1>21, <1>22,
     <1>23, <1>24, <1>25, <1>26
  DEF Next, PassStep, PassFault, Decide, vars, Rebalance, RebalanceUnresolved, LandLate,
    OperatorClears, Breach

\* So do the observations, the files and the chain.
LEMMA DataStep ==
  ASSUME IInv, ConstantsAssumption, [Next]_vars
  PROVE  DataOK'
<1> USE TypeParts DEF IInv, passVars, memoryVars, fileVars, chainVars, boundVars
<1>1. ASSUME NEW p \in Passes, StartPass(p)
      PROVE  DataOK'
  BY <1>1, UnstagedType DEF StartPass, DataOK
<1>2. ASSUME NEW p \in Passes, NEW stale \in SUBSET MayFlag,
             AssessReserves(p, stale)
      PROVE  DataOK'
  BY <1>2, StageType DEF AssessReserves, DataOK
<1>3. ASSUME NEW p \in Passes, NEW flags \in SUBSET MayFlag,
             DecideDanger(p, flags)
      PROVE  DataOK'
  <2>1. /\ CatastrophicFor(p) \subseteq Reserves
        /\ Exposed(p, flags) \subseteq Reserves
        /\ flags \subseteq Reserves
    BY <1>3, FlagsType DEF DecideDanger
  <2> QED
    BY <1>3, <2>1 DEF DecideDanger, DataOK
<1>4. ASSUME NEW p \in Passes, NEW flags \in SUBSET MayFlag,
             DecideEvacuation(p, flags)
      PROVE  DataOK'
  BY <1>4, FlagsType DEF DecideEvacuation, DataOK
<1>5. ASSUME NEW p \in Passes, NEW flags \in SUBSET MayFlag,
             DecideEnforcement(p, flags)
      PROVE  DataOK'
  BY <1>5, FlagsType DEF DecideEnforcement, DataOK
<1>6. ASSUME NEW p \in Passes, NEW flags \in SUBSET MayFlag,
             DecideClear(p, flags)
      PROVE  DataOK'
  BY <1>6, FlagsType DEF DecideClear, DataOK
<1>7. ASSUME NEW p \in Passes, NEW flags \in SUBSET MayFlag,
             DecideTooLate(p, flags)
      PROVE  DataOK'
  BY <1>7, FlagsType DEF DecideTooLate, DataOK
<1>8. ASSUME NEW p \in Passes, LandTx(p)
      PROVE  DataOK'
  BY <1>8 DEF LandTx, DataOK
<1>9. ASSUME NEW p \in Passes, ClearEvacuated(p)
      PROVE  DataOK'
  BY <1>9 DEF ClearEvacuated, DataOK
<1>10. ASSUME NEW p \in Passes, Commit(p)
      PROVE  DataOK'
  BY <1>10 DEF Commit, DataOK, Observation
<1>11. ASSUME NEW p \in Passes, SkipMissingVault(p)
      PROVE  DataOK'
  BY <1>11 DEF SkipMissingVault, Fault, DataOK, ConstantsAssumption
<1>12. ASSUME NEW p \in Passes, NEW flags \in SUBSET MayFlag,
             DecisionFails(p, flags)
      PROVE  DataOK'
  <2>1. /\ CatastrophicFor(p) \subseteq Reserves
        /\ Unexposed(p, flags) \subseteq Reserves
        /\ flags \subseteq Reserves
    BY <1>12, FlagsType DEF DecisionFails
  <2> QED
    BY <1>12, <2>1 DEF DecisionFails, Fails, Fault, DataOK, ConstantsAssumption
<1>13. ASSUME NEW p \in Passes, LoseTx(p)
      PROVE  DataOK'
  BY <1>13 DEF LoseTx, Fault, DataOK, ConstantsAssumption
<1>14. ASSUME NEW p \in Passes, ResponseFails(p)
      PROVE  DataOK'
  BY <1>14 DEF ResponseFails, Fault, DataOK, ConstantsAssumption
<1>15. ASSUME NEW p \in Passes, ClearingFails(p)
      PROVE  DataOK'
  BY <1>15 DEF ClearingFails, Fault, DataOK, ConstantsAssumption
<1>16. ASSUME NEW p \in Passes, PassFails(p)
      PROVE  DataOK'
  BY <1>16 DEF PassFails, Fails, Fault, DataOK, ConstantsAssumption
<1>17. ASSUME NEW v \in Vaults, Rebalance(v)
      PROVE  DataOK'
  <2>1. Grantable(v) \subseteq Reserves
    BY <1>17, GrantableType DEF Rebalance
  <2> QED
    BY <1>17, <2>1 DEF Rebalance, DataOK
<1>18. ASSUME NEW r \in Reserves, OperatorClears(r)
      PROVE  DataOK'
  BY <1>18 DEF OperatorClears, DataOK, ConstantsAssumption
<1>19. ASSUME NEW r \in Reserves, Breach(r)
      PROVE  DataOK'
  BY <1>19 DEF Breach, DataOK, ConstantsAssumption
<1>20. ASSUME Timeout PROVE DataOK'
  BY <1>20 DEF Timeout, Fault, DataOK, ConstantsAssumption
<1>21. ASSUME Restart PROVE DataOK'
  BY <1>21, UnstagedType DEF Restart, Fault, DataOK, ConstantsAssumption
<1>22. CASE UNCHANGED <<cooldown, staged, baseline, blacklisted, pending,
                      exposure, breached, late, regained, recorded, faults, clears>>
  BY <1>22 DEF DataOK
<1>23. ASSUME NEW v \in Vaults, RebalanceUnresolved(v)
      PROVE  DataOK'
  <2>1. /\ faults \in 0..MaxFaults /\ faults < MaxFaults /\ MaxFaults \in Nat
        /\ late \subseteq Update
    BY <1>23 DEF RebalanceUnresolved, Fault, DataOK, ConstantsAssumption
  <2>2. Grantable(v) \subseteq Reserves
    BY <1>23, GrantableType DEF RebalanceUnresolved
  <2>3. late' \subseteq Update
    <3>1. PICK gains \in SUBSET Grantable(v) \ {{}} :
            late' = late \cup {[vault |-> v, gains |-> gains, nr |-> faults]}
      BY <1>23 DEF RebalanceUnresolved
    <3> QED
      BY <2>1, <2>2, <3>1 DEF Update
  <2> QED
    BY <1>23, <2>1, <2>3 DEF RebalanceUnresolved, Fault, DataOK
<1>24. ASSUME NEW u \in late, LandLate(u)
      PROVE  DataOK'
  <2>1. u.vault \in Vaults /\ u.gains \subseteq Reserves
    BY <1>24 DEF DataOK, Update
  <2> QED
    BY <1>24, <2>1 DEF LandLate, DataOK
<1>25. ASSUME NEW p \in Passes, CompleteResponse(p)
      PROVE  DataOK'
  <2>1. at[p] \in Vaults
    BY <1>25 DEF CompleteResponse, AtVault
  <2>2. regained' \in [Vaults -> SUBSET Reserves]
    BY <1>25, <2>1 DEF CompleteResponse, DataOK
  <2> QED
    BY <1>25, <2>2 DEF CompleteResponse, DataOK
<1> QED
  BY <1>1, <1>2, <1>3, <1>4, <1>5, <1>6, <1>7, <1>8, <1>9, <1>10, <1>11, <1>12,
     <1>13, <1>14, <1>15, <1>16, <1>17, <1>18, <1>19, <1>20, <1>21, <1>22,
     <1>23, <1>24, <1>25
  DEF Next, PassStep, PassFault, Decide, vars, BeginVault, ReadVault, SendTx,
    AbortResponse, Abandon, Sleep

\* And so does what each pass has read and gathered.
LEMMA ViewStep ==
  ASSUME IInv, ConstantsAssumption, [Next]_vars
  PROVE  ViewOK'
<1> USE TypeParts DEF IInv, passVars, memoryVars, fileVars, chainVars, boundVars
<1>0. ASSUME NEW p \in Passes
      PROVE  view[p] \in View
  BY DEF ViewOK
<1>1. ASSUME NEW p \in Passes, StartPass(p)
      PROVE  ViewOK'
  <2>1. PICK kept \in SUBSET cooldown :
          view' = [view EXCEPT ![p] = [EmptyView EXCEPT
            !.blacklist = blacklisted, !.cooldown = kept, !.loaded = exposure]]
    BY <1>1 DEF StartPass
  <2> DEFINE w == [EmptyView EXCEPT !.blacklist = blacklisted,
                                    !.cooldown = kept, !.loaded = exposure]
  <2>2. w \in View
    BY <2>1, EmptyViewType DEF View, DataOK
  <2>3. view' = [view EXCEPT ![p] = w]
    BY <2>1
  <2> HIDE DEF w
  <2> QED
    BY <2>2, <2>3, UpdateView DEF ViewOK
<1>2. ASSUME NEW p \in Passes, NEW stale \in SUBSET MayFlag,
             AssessReserves(p, stale)
      PROVE  ViewOK'
  <2> DEFINE w == [view[p] EXCEPT
               !.cooldown = @ \cup stale,
               !.catastrophic = {r \in Reserves : Catastrophic(r)},
               !.commit = Reserves]
  <2>1. w \in View
    BY <1>0, <1>2 DEF AssessReserves, View, ConstantsAssumption
  <2>2. view' = [view EXCEPT ![p] = w]
    BY <1>2 DEF AssessReserves
  <2> HIDE DEF w
  <2> QED
    BY <2>1, <2>2, UpdateView DEF ViewOK
<1>3. ASSUME NEW p \in Passes, BeginVault(p)
      PROVE  ViewOK'
  <2>1. [view[p] EXCEPT !.directive[at[p]] = "skip"] \in View
    BY <1>0 DEF View, Directive
  <2> QED
    BY <1>3, <2>1, UpdateView DEF BeginVault, ViewOK
<1>4. ASSUME NEW p \in Passes, ReadVault(p)
      PROVE  ViewOK'
  <2>0. view[p] \in View /\ pending[at[p]] \in SUBSET Reserves
    BY <1>4 DEF ReadVault, ViewOK, DataOK, AtVault
  <2>1. [view[p] EXCEPT !.evacuate = pending[at[p]]] \in View
    BY <2>0 DEF View
  <2> QED
    BY <1>4, <2>1, UpdateView DEF ReadVault, ViewOK
<1>5. ASSUME NEW p \in Passes, NEW flags \in SUBSET MayFlag,
             DecideDanger(p, flags)
      PROVE  ViewOK'
  <2> DEFINE blacklist == view[p].blacklist \cup (CatastrophicFor(p) \
    blacklisted)
             evacuate == view[p].evacuate \cup (Exposed(p, flags) \
               pending[at[p]])
             gathered == [Gathered(p, flags) EXCEPT
                            !.blacklist = blacklist, !.evacuate = evacuate,
                            !.commit = @ \cup CatastrophicFor(p),
                            !.cooldown = @ \cup Exposed(p, flags)]
  <2>1. at[p] \in Vaults
    BY <1>5 DEF DecideDanger, Flaggable, AtVault
  <2>2. /\ CatastrophicFor(p) \subseteq Reserves
        /\ Exposed(p, flags) \subseteq Reserves
        /\ Gathered(p, flags) \in View
    BY <1>5, <2>1, FlagsType, GatheredType DEF DecideDanger
  <2>3. view[p].blacklist \subseteq Reserves /\ view[p].evacuate \subseteq
    Reserves
    BY <1>0 DEF View
  <2>4. gathered \in View
    BY <2>2, <2>3 DEF View
  <2>5. "danger" \in ResponseKind /\ "skip" \in Directive
    BY DEF ResponseKind, Directive
  <2>6. Respond(p, gathered, "danger", "skip",
                blacklist \cup evacuate \cup Dangerous(p, flags))
    BY <1>5 DEF DecideDanger
  <2> HIDE DEF gathered, blacklist, evacuate
  <2> QED
    BY <2>1, <2>4, <2>5, <2>6, RespondType DEF ViewOK
<1>6. ASSUME NEW p \in Passes, NEW flags \in SUBSET MayFlag,
             DecideEvacuation(p, flags)
      PROVE  ViewOK'
  <2>1. at[p] \in Vaults
    BY <1>6 DEF DecideEvacuation, Flaggable, AtVault
  <2>2. Gathered(p, flags) \in View
    BY <1>6, <2>1, GatheredType DEF DecideEvacuation
  <2>3. "evacuation" \in ResponseKind /\ "skip" \in Directive
    BY DEF ResponseKind, Directive
  <2>4. Respond(p, Gathered(p, flags), "evacuation", "skip",
                view[p].blacklist \cup view[p].evacuate)
    BY <1>6 DEF DecideEvacuation
  <2> QED
    BY <2>1, <2>2, <2>3, <2>4, RespondType DEF ViewOK
<1>7. ASSUME NEW p \in Passes, NEW flags \in SUBSET MayFlag,
             DecideEnforcement(p, flags)
      PROVE  ViewOK'
  <2>1. at[p] \in Vaults
    BY <1>7 DEF DecideEnforcement, Flaggable, AtVault
  <2>2. Gathered(p, flags) \in View
    BY <1>7, <2>1, GatheredType DEF DecideEnforcement
  <2>3. "enforcement" \in ResponseKind /\ "clear" \in Directive
    BY DEF ResponseKind, Directive
  <2>4. Respond(p, Gathered(p, flags), "enforcement", "clear",
                view[p].blacklist)
    BY <1>7 DEF DecideEnforcement
  <2> QED
    BY <2>1, <2>2, <2>3, <2>4, RespondType DEF ViewOK
<1>8. ASSUME NEW p \in Passes, NEW flags \in SUBSET MayFlag,
             DecideClear(p, flags)
      PROVE  ViewOK'
  <2>1. at[p] \in Vaults
    BY <1>8 DEF DecideClear, Flaggable, AtVault
  <2>2. Gathered(p, flags) \in View
    BY <1>8, <2>1, GatheredType DEF DecideClear
  <2>3. [Gathered(p, flags) EXCEPT !.directive[at[p]] = "clear"] \in View
    BY <2>1, <2>2 DEF View, Directive
  <2> QED
    BY <1>8, <2>3, UpdateView DEF DecideClear, ViewOK
<1>9. ASSUME NEW p \in Passes, SendTx(p)
      PROVE  ViewOK'
  <2>1. PICK r \in view[p].todo :
          view' = [view EXCEPT ![p] = [view[p] EXCEPT !.tx = {r}, !.todo = @ \
            {r}]]
    BY <1>9 DEF SendTx
  <2>2. [view[p] EXCEPT !.tx = {r}, !.todo = @ \ {r}] \in View
    BY <1>0, <2>1 DEF View
  <2> QED
    BY <2>1, <2>2, UpdateView DEF ViewOK
<1>10. ASSUME NEW p \in Passes, LandTx(p)
      PROVE  ViewOK'
  <2>1. [view[p] EXCEPT !.tx = {}] \in View
    BY <1>0 DEF View
  <2> QED
    BY <1>10, <2>1, UpdateView DEF LandTx, ViewOK
<1>11. ASSUME NEW p \in Passes, CompleteResponse(p)
      PROVE  ViewOK'
  <2>1. at[p] \in Vaults
    BY <1>11 DEF CompleteResponse, AtVault
  <2>2. view[p] \in View /\ exposure[at[p]] \in SUBSET Reserves
    BY <2>1 DEF ViewOK, DataOK
  <2> DEFINE w == [view[p] EXCEPT !.loaded[at[p]] = exposure[at[p]]]
  <2>3. w \in View
    BY <2>1, <2>2 DEF View
  <2>4. [view EXCEPT ![p] = w] \in [Passes -> View]
    BY <2>3, UpdateView
  <2> QED
    BY <1>11, <2>4 DEF CompleteResponse, ViewOK
<1>12. ASSUME NEW p \in Passes, LoseTx(p)
      PROVE  ViewOK'
  <2>1. [view[p] EXCEPT !.tx = {}] \in View
    BY <1>0 DEF View
  <2> QED
    BY <1>12, <2>1, UpdateView DEF LoseTx, ViewOK
<1>13. ASSUME Restart PROVE ViewOK'
  BY <1>13, EmptyViewType DEF Restart, ViewOK
<1>14. CASE UNCHANGED view
  BY <1>14 DEF ViewOK
<1> QED
  BY <1>1, <1>2, <1>3, <1>4, <1>5, <1>6, <1>7, <1>8, <1>9, <1>10, <1>11, <1>12,
     <1>13, <1>14
  DEF Next, PassStep, PassFault, Decide, vars, DecideTooLate, AbortResponse,
    ClearEvacuated, Abandon, Commit, SkipMissingVault, DecisionFails,
      ResponseFails, ClearingFails, PassFails, Rebalance, RebalanceUnresolved,
        LandLate, OperatorClears, Breach, Sleep, Timeout

-----------------------------------------------------------------------------
(* The registration of responses                                           *)

\* A pass decides and responds only at a vault of the config.
LEMMA AtVaultStep ==
  ASSUME IInv, ConstantsAssumption, [Next]_vars
  PROVE  AtVault'
<1> USE TypeParts DEF IInv, passVars
<1>1. ASSUME NEW p \in Passes, StartPass(p)
      PROVE  AtVault'
  BY <1>1 DEF StartPass, ControlOK, AtVault
<1>2. ASSUME NEW p \in Passes, NEW stale \in SUBSET MayFlag,
             AssessReserves(p, stale)
      PROVE  AtVault'
  BY <1>2 DEF AssessReserves, ControlOK, AtVault
<1>3. ASSUME NEW p \in Passes, BeginVault(p)
      PROVE  AtVault'
  BY <1>3 DEF BeginVault, Advance, ControlOK, AtVault
<1>4. ASSUME NEW p \in Passes, ReadVault(p)
      PROVE  AtVault'
  BY <1>4 DEF ReadVault, ControlOK, AtVault
<1>5. ASSUME NEW p \in Passes, NEW flags \in SUBSET MayFlag,
             DecideDanger(p, flags)
      PROVE  AtVault'
  BY <1>5 DEF DecideDanger, Respond, Flaggable, ControlOK, AtVault
<1>6. ASSUME NEW p \in Passes, NEW flags \in SUBSET MayFlag,
             DecideEvacuation(p, flags)
      PROVE  AtVault'
  BY <1>6 DEF DecideEvacuation, Respond, Flaggable, ControlOK, AtVault
<1>7. ASSUME NEW p \in Passes, NEW flags \in SUBSET MayFlag,
             DecideEnforcement(p, flags)
      PROVE  AtVault'
  BY <1>7 DEF DecideEnforcement, Respond, Flaggable, ControlOK, AtVault
<1>8. ASSUME NEW p \in Passes, NEW flags \in SUBSET MayFlag,
             DecideClear(p, flags)
      PROVE  AtVault'
  BY <1>8 DEF DecideClear, Advance, Flaggable, ControlOK, AtVault
<1>9. ASSUME NEW p \in Passes, NEW flags \in SUBSET MayFlag,
             DecideTooLate(p, flags)
      PROVE  AtVault'
  BY <1>9 DEF DecideTooLate, Flaggable, ControlOK, AtVault
<1>10. ASSUME NEW p \in Passes, CompleteResponse(p)
      PROVE  AtVault'
  BY <1>10 DEF CompleteResponse, Unregister, Advance, ControlOK, AtVault
<1>11. ASSUME NEW p \in Passes, AbortResponse(p)
      PROVE  AtVault'
  BY <1>11 DEF AbortResponse, Unregister, Advance, ControlOK, AtVault
<1>12. ASSUME NEW p \in Passes, ClearEvacuated(p)
      PROVE  AtVault'
  BY <1>12 DEF ClearEvacuated, Advance, ControlOK, AtVault
<1>13. ASSUME NEW p \in Passes, Abandon(p)
      PROVE  AtVault'
  BY <1>13 DEF Abandon, ControlOK, AtVault
<1>14. ASSUME NEW p \in Passes, Commit(p)
      PROVE  AtVault'
  BY <1>14 DEF Commit, ControlOK, AtVault
<1>15. ASSUME NEW p \in Passes, SkipMissingVault(p)
      PROVE  AtVault'
  BY <1>15 DEF SkipMissingVault, Advance, ControlOK, AtVault
<1>16. ASSUME NEW p \in Passes, NEW flags \in SUBSET MayFlag,
             DecisionFails(p, flags)
      PROVE  AtVault'
  BY <1>16 DEF DecisionFails, Fails, Flaggable, ControlOK, AtVault
<1>17. ASSUME NEW p \in Passes, ResponseFails(p)
      PROVE  AtVault'
  BY <1>17 DEF ResponseFails, Unregister, Advance, ControlOK, AtVault
<1>18. ASSUME NEW p \in Passes, ClearingFails(p)
      PROVE  AtVault'
  BY <1>18 DEF ClearingFails, Advance, ControlOK, AtVault
<1>19. ASSUME NEW p \in Passes, PassFails(p)
      PROVE  AtVault'
  BY <1>19 DEF PassFails, Fails, ControlOK, AtVault
<1>20. ASSUME Restart PROVE AtVault'
  BY <1>20 DEF Restart, ControlOK, AtVault
<1>21. CASE UNCHANGED <<current, phase, at, active>>
  BY <1>21 DEF AtVault
<1> QED
  BY <1>1, <1>2, <1>3, <1>4, <1>5, <1>6, <1>7, <1>8, <1>9, <1>10, <1>11, <1>12,
     <1>13, <1>14, <1>15, <1>16, <1>17, <1>18, <1>19, <1>20, <1>21
  DEF Next, PassStep, PassFault, Decide, vars, SendTx, LandTx, LoseTx,
    Rebalance, RebalanceUnresolved, LandLate, OperatorClears, Breach, Sleep, Timeout

\* Registering a response and removing it keep activeResponses exact.
LEMMA RegisteredStep ==
  ASSUME IInv, ConstantsAssumption, [Next]_vars
  PROVE  Registered'
<1> USE TypeParts DEF IInv, passVars
<1>1. ASSUME NEW p \in Passes, StartPass(p)
      PROVE  Registered'
  BY <1>1 DEF StartPass, ControlOK, AtVault, Registered, Undisturbed
<1>2. ASSUME NEW p \in Passes, NEW stale \in SUBSET MayFlag,
             AssessReserves(p, stale)
      PROVE  Registered'
  BY <1>2 DEF AssessReserves, ControlOK, AtVault, Registered, Undisturbed
<1>3. ASSUME NEW p \in Passes, BeginVault(p)
      PROVE  Registered'
  BY <1>3 DEF BeginVault, Advance, ControlOK, AtVault, Registered, Undisturbed
<1>4. ASSUME NEW p \in Passes, ReadVault(p)
      PROVE  Registered'
  BY <1>4 DEF ReadVault, ControlOK, AtVault, Registered, Undisturbed
<1>5. ASSUME NEW p \in Passes, NEW flags \in SUBSET MayFlag,
             DecideDanger(p, flags)
      PROVE  Registered'
  BY <1>5 DEF DecideDanger, Respond, Flaggable, ControlOK, AtVault, Registered,
     Undisturbed
<1>6. ASSUME NEW p \in Passes, NEW flags \in SUBSET MayFlag,
             DecideEvacuation(p, flags)
      PROVE  Registered'
  BY <1>6 DEF DecideEvacuation, Respond, Flaggable, ControlOK, AtVault,
     Registered, Undisturbed
<1>7. ASSUME NEW p \in Passes, NEW flags \in SUBSET MayFlag,
             DecideEnforcement(p, flags)
      PROVE  Registered'
  BY <1>7 DEF DecideEnforcement, Respond, Flaggable, ControlOK, AtVault,
     Registered, Undisturbed
<1>8. ASSUME NEW p \in Passes, NEW flags \in SUBSET MayFlag,
             DecideClear(p, flags)
      PROVE  Registered'
  BY <1>8 DEF DecideClear, Advance, Flaggable, ControlOK, AtVault, Registered,
     Undisturbed
<1>9. ASSUME NEW p \in Passes, NEW flags \in SUBSET MayFlag,
             DecideTooLate(p, flags)
      PROVE  Registered'
  BY <1>9 DEF DecideTooLate, Flaggable, ControlOK, AtVault, Registered,
     Undisturbed
<1>10. ASSUME NEW p \in Passes, CompleteResponse(p)
      PROVE  Registered'
  BY <1>10 DEF CompleteResponse, Unregister, Advance, ControlOK, AtVault,
     Registered, Undisturbed
<1>11. ASSUME NEW p \in Passes, AbortResponse(p)
      PROVE  Registered'
  BY <1>11 DEF AbortResponse, Unregister, Advance, ControlOK, AtVault,
     Registered, Undisturbed
<1>12. ASSUME NEW p \in Passes, ClearEvacuated(p)
      PROVE  Registered'
  BY <1>12 DEF ClearEvacuated, Advance, ControlOK, AtVault, Registered,
     Undisturbed
<1>13. ASSUME NEW p \in Passes, Abandon(p)
      PROVE  Registered'
  BY <1>13 DEF Abandon, ControlOK, AtVault, Registered, Undisturbed
<1>14. ASSUME NEW p \in Passes, Commit(p)
      PROVE  Registered'
  BY <1>14 DEF Commit, ControlOK, AtVault, Registered, Undisturbed
<1>15. ASSUME NEW p \in Passes, SkipMissingVault(p)
      PROVE  Registered'
  BY <1>15 DEF SkipMissingVault, Advance, ControlOK, AtVault, Registered,
     Undisturbed
<1>16. ASSUME NEW p \in Passes, NEW flags \in SUBSET MayFlag,
             DecisionFails(p, flags)
      PROVE  Registered'
  BY <1>16 DEF DecisionFails, Fails, Flaggable, ControlOK, AtVault, Registered,
     Undisturbed
<1>17. ASSUME NEW p \in Passes, ResponseFails(p)
      PROVE  Registered'
  BY <1>17 DEF ResponseFails, Unregister, Advance, ControlOK, AtVault,
     Registered, Undisturbed
<1>18. ASSUME NEW p \in Passes, ClearingFails(p)
      PROVE  Registered'
  BY <1>18 DEF ClearingFails, Advance, ControlOK, AtVault, Registered,
     Undisturbed
<1>19. ASSUME NEW p \in Passes, PassFails(p)
      PROVE  Registered'
  BY <1>19 DEF PassFails, Fails, ControlOK, AtVault, Registered, Undisturbed
<1>20. ASSUME Restart PROVE Registered'
  BY <1>20 DEF Restart, ControlOK, AtVault, Registered, Undisturbed
<1>21. CASE UNCHANGED <<current, phase, at, active>>
  BY <1>21 DEF Registered
<1> QED
  BY <1>1, <1>2, <1>3, <1>4, <1>5, <1>6, <1>7, <1>8, <1>9, <1>10, <1>11, <1>12,
     <1>13, <1>14, <1>15, <1>16, <1>17, <1>18, <1>19, <1>20, <1>21
  DEF Next, PassStep, PassFault, Decide, vars, SendTx, LandTx, LoseTx,
    Rebalance, RebalanceUnresolved, LandLate, OperatorClears, Breach, Sleep, Timeout

\* Only the current pass registers, and it is at one vault.
LEMMA UndisturbedStep ==
  ASSUME IInv, ConstantsAssumption, [Next]_vars
  PROVE  Undisturbed'
<1> USE TypeParts DEF IInv, passVars
<1>1. ASSUME NEW p \in Passes, StartPass(p)
      PROVE  Undisturbed'
  BY <1>1 DEF StartPass, ControlOK, Undisturbed, Registered
<1>2. ASSUME NEW p \in Passes, NEW stale \in SUBSET MayFlag,
             AssessReserves(p, stale)
      PROVE  Undisturbed'
  BY <1>2 DEF AssessReserves, ControlOK, Undisturbed, Registered
<1>3. ASSUME NEW p \in Passes, BeginVault(p)
      PROVE  Undisturbed'
  BY <1>3 DEF BeginVault, Advance, ControlOK, Undisturbed, Registered
<1>4. ASSUME NEW p \in Passes, ReadVault(p)
      PROVE  Undisturbed'
  BY <1>4 DEF ReadVault, ControlOK, Undisturbed, Registered
<1>5. ASSUME NEW p \in Passes, NEW flags \in SUBSET MayFlag,
             DecideDanger(p, flags)
      PROVE  Undisturbed'
  BY <1>5 DEF DecideDanger, Respond, Flaggable, ControlOK, Undisturbed,
     Registered
<1>6. ASSUME NEW p \in Passes, NEW flags \in SUBSET MayFlag,
             DecideEvacuation(p, flags)
      PROVE  Undisturbed'
  BY <1>6 DEF DecideEvacuation, Respond, Flaggable, ControlOK, Undisturbed,
     Registered
<1>7. ASSUME NEW p \in Passes, NEW flags \in SUBSET MayFlag,
             DecideEnforcement(p, flags)
      PROVE  Undisturbed'
  BY <1>7 DEF DecideEnforcement, Respond, Flaggable, ControlOK, Undisturbed,
     Registered
<1>8. ASSUME NEW p \in Passes, NEW flags \in SUBSET MayFlag,
             DecideClear(p, flags)
      PROVE  Undisturbed'
  BY <1>8 DEF DecideClear, Advance, Flaggable, ControlOK, Undisturbed,
     Registered
<1>9. ASSUME NEW p \in Passes, NEW flags \in SUBSET MayFlag,
             DecideTooLate(p, flags)
      PROVE  Undisturbed'
  BY <1>9 DEF DecideTooLate, Flaggable, ControlOK, Undisturbed, Registered
<1>10. ASSUME NEW p \in Passes, CompleteResponse(p)
      PROVE  Undisturbed'
  BY <1>10 DEF CompleteResponse, Unregister, Advance, ControlOK, Undisturbed,
     Registered
<1>11. ASSUME NEW p \in Passes, AbortResponse(p)
      PROVE  Undisturbed'
  BY <1>11 DEF AbortResponse, Unregister, Advance, ControlOK, Undisturbed,
     Registered
<1>12. ASSUME NEW p \in Passes, ClearEvacuated(p)
      PROVE  Undisturbed'
  BY <1>12 DEF ClearEvacuated, Advance, ControlOK, Undisturbed, Registered
<1>13. ASSUME NEW p \in Passes, Abandon(p)
      PROVE  Undisturbed'
  BY <1>13 DEF Abandon, ControlOK, Undisturbed, Registered
<1>14. ASSUME NEW p \in Passes, Commit(p)
      PROVE  Undisturbed'
  BY <1>14 DEF Commit, ControlOK, Undisturbed, Registered
<1>15. ASSUME NEW p \in Passes, SkipMissingVault(p)
      PROVE  Undisturbed'
  BY <1>15 DEF SkipMissingVault, Advance, ControlOK, Undisturbed, Registered
<1>16. ASSUME NEW p \in Passes, NEW flags \in SUBSET MayFlag,
             DecisionFails(p, flags)
      PROVE  Undisturbed'
  BY <1>16 DEF DecisionFails, Fails, Flaggable, ControlOK, Undisturbed,
     Registered
<1>17. ASSUME NEW p \in Passes, ResponseFails(p)
      PROVE  Undisturbed'
  BY <1>17 DEF ResponseFails, Unregister, Advance, ControlOK, Undisturbed,
     Registered
<1>18. ASSUME NEW p \in Passes, ClearingFails(p)
      PROVE  Undisturbed'
  BY <1>18 DEF ClearingFails, Advance, ControlOK, Undisturbed, Registered
<1>19. ASSUME NEW p \in Passes, PassFails(p)
      PROVE  Undisturbed'
  BY <1>19 DEF PassFails, Fails, ControlOK, Undisturbed, Registered
<1>20. ASSUME Restart PROVE Undisturbed'
  BY <1>20 DEF Restart, ControlOK, Undisturbed, Registered
<1>21. CASE UNCHANGED <<current, phase, at, active>>
  BY <1>21 DEF Undisturbed
<1> QED
  BY <1>1, <1>2, <1>3, <1>4, <1>5, <1>6, <1>7, <1>8, <1>9, <1>10, <1>11, <1>12,
     <1>13, <1>14, <1>15, <1>16, <1>17, <1>18, <1>19, <1>20, <1>21
  DEF Next, PassStep, PassFault, Decide, vars, SendTx, LandTx, LoseTx,
    Rebalance, RebalanceUnresolved, LandLate, OperatorClears, Breach, Sleep, Timeout

\* Only StartPass wakes an idle pass, and it makes that pass the current one.
LEMMA OwnedStep ==
  ASSUME IInv, ConstantsAssumption, [Next]_vars
  PROVE  Owned'
<1> USE TypeParts DEF IInv, passVars
<1>1. ASSUME NEW p \in Passes, StartPass(p)
      PROVE  Owned'
  BY <1>1 DEF StartPass, ControlOK, Owned, ConstantsAssumption
<1>2. ASSUME NEW p \in Passes, NEW stale \in SUBSET MayFlag,
             AssessReserves(p, stale)
      PROVE  Owned'
  BY <1>2 DEF AssessReserves, ControlOK, Owned
<1>3. ASSUME NEW p \in Passes, BeginVault(p)
      PROVE  Owned'
  BY <1>3 DEF BeginVault, Advance, ControlOK, Owned
<1>4. ASSUME NEW p \in Passes, ReadVault(p)
      PROVE  Owned'
  BY <1>4 DEF ReadVault, ControlOK, Owned
<1>5. ASSUME NEW p \in Passes, NEW flags \in SUBSET MayFlag,
             DecideDanger(p, flags)
      PROVE  Owned'
  BY <1>5 DEF DecideDanger, Respond, Flaggable, ControlOK, Owned
<1>6. ASSUME NEW p \in Passes, NEW flags \in SUBSET MayFlag,
             DecideEvacuation(p, flags)
      PROVE  Owned'
  BY <1>6 DEF DecideEvacuation, Respond, Flaggable, ControlOK, Owned
<1>7. ASSUME NEW p \in Passes, NEW flags \in SUBSET MayFlag,
             DecideEnforcement(p, flags)
      PROVE  Owned'
  BY <1>7 DEF DecideEnforcement, Respond, Flaggable, ControlOK, Owned
<1>8. ASSUME NEW p \in Passes, NEW flags \in SUBSET MayFlag,
             DecideClear(p, flags)
      PROVE  Owned'
  BY <1>8 DEF DecideClear, Advance, Flaggable, ControlOK, Owned
<1>9. ASSUME NEW p \in Passes, NEW flags \in SUBSET MayFlag,
             DecideTooLate(p, flags)
      PROVE  Owned'
  BY <1>9 DEF DecideTooLate, Flaggable, ControlOK, Owned
<1>10. ASSUME NEW p \in Passes, CompleteResponse(p)
      PROVE  Owned'
  BY <1>10 DEF CompleteResponse, Unregister, Advance, ControlOK, Owned
<1>11. ASSUME NEW p \in Passes, AbortResponse(p)
      PROVE  Owned'
  BY <1>11 DEF AbortResponse, Unregister, Advance, ControlOK, Owned
<1>12. ASSUME NEW p \in Passes, ClearEvacuated(p)
      PROVE  Owned'
  BY <1>12 DEF ClearEvacuated, Advance, ControlOK, Owned
<1>13. ASSUME NEW p \in Passes, Abandon(p)
      PROVE  Owned'
  BY <1>13 DEF Abandon, ControlOK, Owned
<1>14. ASSUME NEW p \in Passes, Commit(p)
      PROVE  Owned'
  BY <1>14 DEF Commit, ControlOK, Owned
<1>15. ASSUME NEW p \in Passes, SkipMissingVault(p)
      PROVE  Owned'
  BY <1>15 DEF SkipMissingVault, Advance, ControlOK, Owned
<1>16. ASSUME NEW p \in Passes, NEW flags \in SUBSET MayFlag,
             DecisionFails(p, flags)
      PROVE  Owned'
  BY <1>16 DEF DecisionFails, Fails, Flaggable, ControlOK, Owned
<1>17. ASSUME NEW p \in Passes, ResponseFails(p)
      PROVE  Owned'
  BY <1>17 DEF ResponseFails, Unregister, Advance, ControlOK, Owned
<1>18. ASSUME NEW p \in Passes, ClearingFails(p)
      PROVE  Owned'
  BY <1>18 DEF ClearingFails, Advance, ControlOK, Owned
<1>19. ASSUME NEW p \in Passes, PassFails(p)
      PROVE  Owned'
  BY <1>19 DEF PassFails, Fails, ControlOK, Owned
<1>20. ASSUME Restart PROVE Owned'
  BY <1>20 DEF Restart, ControlOK, Owned
<1>21. CASE UNCHANGED <<current, phase>> /\ loop' \in {loop, "asleep"}
  BY <1>21 DEF Owned
<1> QED
  BY <1>1, <1>2, <1>3, <1>4, <1>5, <1>6, <1>7, <1>8, <1>9, <1>10, <1>11, <1>12,
     <1>13, <1>14, <1>15, <1>16, <1>17, <1>18, <1>19, <1>20, <1>21
  DEF Next, PassStep, PassFault, Decide, vars, SendTx, LandTx, LoseTx,
    Rebalance, RebalanceUnresolved, LandLate, OperatorClears, Breach, Sleep, Timeout

-----------------------------------------------------------------------------
(* Theorems                                                                *)

\* The strengthening is inductive.
THEOREM Invariance == Spec => []IInv
<1>1. Init => IInv
  <2>1. Init => TypeOK
    BY ConstantsAssumption, EmptyViewType, UnstagedType
    DEF Init, TypeOK, Phases, Vaults
  <2> QED
    BY <2>1 DEF Init, IInv, AtVault, Registered, Undisturbed, Owned
<1>2. IInv /\ [Next]_vars => IInv'
  BY ConstantsAssumption, TypeParts, ControlStep, ViewStep, DataStep,
     AtVaultStep, RegisteredStep, UndisturbedStep, OwnedStep
  DEF IInv, TypeOK, ControlOK, ViewOK, DataOK
<1> QED
  BY <1>1, <1>2, PTL DEF Spec

\* Every variable keeps its type, whatever passes overlap.
THEOREM TypeCorrect == Spec => []TypeOK
<1>1. IInv => TypeOK
  BY DEF IInv
<1> QED
  BY <1>1, Invariance, PTL

\* At most one emergency response is in flight for a vault, for any number of
\* passes that outlive their watchdog.
THEOREM ExclusiveResponses == Spec => []ResponseExclusive
<1>1. IInv => ResponseExclusive
  BY DEF IInv, Registered, ResponseExclusive
<1> QED
  BY <1>1, Invariance, PTL

\* A superseded pass, wherever it is suspended, sends nothing more and leaves
\* the file and the baselines alone.
THEOREM SupersededInert == Spec => SupersededPassIsInert
<1> DEFINE Inert(p) == /\ UNCHANGED <<blacklisted, pending, baseline>>
                       /\ view[p].tx = {} => view'[p].tx = {}
<1>1. IInv /\ [Next]_vars =>
        [\A p \in Passes : SupersededStep(p) => Inert(p)]_vars
  <2> SUFFICES ASSUME IInv, Next, NEW p \in Passes, SupersededStep(p)
               PROVE  Inert(p)
    OBVIOUS
  <2> USE TypeParts DEF IInv, ViewOK, SupersededStep, passVars, fileVars,
    memoryVars
  <2>1. ASSUME NEW q \in Passes, StartPass(q)
        PROVE  Inert(p)
    BY <2>1 DEF StartPass
  <2>2. ASSUME NEW q \in Passes, NEW stale \in SUBSET MayFlag,
               AssessReserves(q, stale)
        PROVE  Inert(p)
    BY <2>2 DEF AssessReserves, ControlOK
  <2>3. ASSUME NEW q \in Passes, BeginVault(q)
        PROVE  Inert(p)
    BY <2>3 DEF BeginVault, ControlOK, Advance
  <2>4. ASSUME NEW q \in Passes, ReadVault(q)
        PROVE  Inert(p)
    BY <2>4 DEF ReadVault, ControlOK
  <2>5. ASSUME NEW q \in Passes, NEW flags \in SUBSET MayFlag,
             DecideDanger(q, flags)
        PROVE  Inert(p)
    BY <2>5 DEF DecideDanger, ControlOK, Respond
  <2>6. ASSUME NEW q \in Passes, NEW flags \in SUBSET MayFlag,
               DecideEvacuation(q, flags)
        PROVE  Inert(p)
    BY <2>6 DEF DecideEvacuation, ControlOK, Respond
  <2>7. ASSUME NEW q \in Passes, NEW flags \in SUBSET MayFlag,
               DecideEnforcement(q, flags)
        PROVE  Inert(p)
    BY <2>7 DEF DecideEnforcement, ControlOK, Respond
  <2>8. ASSUME NEW q \in Passes, NEW flags \in SUBSET MayFlag,
             DecideClear(q, flags)
        PROVE  Inert(p)
    BY <2>8 DEF DecideClear, ControlOK, Advance, Gathered
  <2>9. ASSUME NEW q \in Passes, NEW flags \in SUBSET MayFlag,
             DecideTooLate(q, flags)
        PROVE  Inert(p)
    BY <2>9 DEF DecideTooLate, ControlOK
  <2>10. ASSUME NEW q \in Passes, SendTx(q)
        PROVE  Inert(p)
    BY <2>10 DEF SendTx, ControlOK
  <2>11. ASSUME NEW q \in Passes, LandTx(q)
        PROVE  Inert(p)
    BY <2>11 DEF LandTx, ControlOK
  <2>12. ASSUME NEW q \in Passes, CompleteResponse(q)
        PROVE  Inert(p)
    <3>1. view'[q].tx = view[q].tx
      BY <2>12 DEF CompleteResponse, View
    <3> QED
      BY <2>12, <3>1 DEF CompleteResponse, ControlOK
  <2>13. ASSUME NEW q \in Passes, AbortResponse(q)
        PROVE  Inert(p)
    BY <2>13 DEF AbortResponse, ControlOK, Advance
  <2>14. ASSUME NEW q \in Passes, ClearEvacuated(q)
        PROVE  Inert(p)
    BY <2>14 DEF ClearEvacuated, ControlOK, Advance
  <2>15. ASSUME NEW q \in Passes, Abandon(q)
        PROVE  Inert(p)
    BY <2>15 DEF Abandon, ControlOK
  <2>16. ASSUME NEW q \in Passes, Commit(q)
        PROVE  Inert(p)
    BY <2>16 DEF Commit, ControlOK
  <2>17. ASSUME NEW q \in Passes, SkipMissingVault(q)
        PROVE  Inert(p)
    BY <2>17 DEF SkipMissingVault, ControlOK, Advance
  <2>18. ASSUME NEW q \in Passes, NEW flags \in SUBSET MayFlag,
                DecisionFails(q, flags)
        PROVE  Inert(p)
    BY <2>18 DEF DecisionFails, ControlOK, Fails
  <2>19. ASSUME NEW q \in Passes, LoseTx(q)
        PROVE  Inert(p)
    BY <2>19 DEF LoseTx, ControlOK
  <2>20. ASSUME NEW q \in Passes, ResponseFails(q)
        PROVE  Inert(p)
    BY <2>20 DEF ResponseFails, ControlOK, Advance
  <2>21. ASSUME NEW q \in Passes, ClearingFails(q)
        PROVE  Inert(p)
    BY <2>21 DEF ClearingFails, ControlOK, Advance
  <2>22. ASSUME NEW q \in Passes, PassFails(q)
        PROVE  Inert(p)
    BY <2>22 DEF PassFails, ControlOK, Fails
  <2>23. CASE UNCHANGED <<phase, at, view>> \/ Restart
    BY <2>23 DEF Restart, Owned
  <2> QED
    BY <2>1, <2>2, <2>3, <2>4, <2>5, <2>6, <2>7, <2>8, <2>9, <2>10, <2>11,
       <2>12, <2>13, <2>14, <2>15, <2>16, <2>17, <2>18, <2>19, <2>20, <2>21,
       <2>22, <2>23
    DEF Next, PassStep, PassFault, Decide, Rebalance, RebalanceUnresolved, LandLate,
      OperatorClears, Breach, Sleep, Timeout
<1> QED
  BY <1>1, Invariance, PTL DEF Spec, SupersededPassIsInert

-----------------------------------------------------------------------------
(* What a step does to the views                                           *)

\* Two views agree on what a pass has found out about the reserves.
SameFindings(w, x) ==
  /\ w.blacklist = x.blacklist /\ w.cooldown = x.cooldown
  /\ w.catastrophic = x.catastrophic /\ w.commit = x.commit
  /\ w.assessed = x.assessed /\ w.flagged = x.flagged

\* No finding changes, and no vault becomes clear.
Unfound ==
  \A q \in Passes :
    /\ SameFindings(view'[q], view[q])
    /\ \A v \in Vaults :
         view'[q].directive[v] = "clear" => view[q].directive[v] = "clear"

LEMMA SameViews == UNCHANGED view => Unfound
BY DEF Unfound, SameFindings

LEMMA GatheredFields ==
  ASSUME TypeOK, NEW p \in Passes, at[p] \in Vaults, NEW flags
  PROVE  LET g == Gathered(p, flags) IN
         /\ g.blacklist = view[p].blacklist /\ g.catastrophic = view[p].catastrophic
         /\ g.cooldown = view[p].cooldown \cup Unexposed(p, flags)
         /\ g.assessed = view[p].assessed \cup VaultReserves[at[p]]
         /\ g.commit = view[p].commit \ (CatastrophicFor(p) \ view[p].blacklist)
         /\ g.flagged = [view[p].flagged EXCEPT ![at[p]] = flags \cup CatastrophicFor(p)]
         /\ g.directive = view[p].directive
         /\ g.evacuate = view[p].evacuate
<1>1. view[p] \in View
  BY DEF TypeOK
<1> QED BY <1>1 DEF Gathered, View

LEMMA RespondFields ==
  ASSUME TypeOK, NEW p \in Passes, at[p] \in Vaults, NEW g \in View, NEW kind, NEW directive,
         NEW targets, Respond(p, g, kind, directive, targets)
  PROVE  /\ SameFindings(view'[p], g)
         /\ view'[p].directive = [g.directive EXCEPT ![at[p]] = directive]
         /\ \A q \in Passes : q # p => view'[q] = view[q] /\ phase'[q] = phase[q]
         /\ phase'[p] = "responding"
         /\ active' = [active EXCEPT ![at[p]] = p]
<1> DEFINE w == [g EXCEPT !.directive[at[p]] = directive, !.kind = kind,
                          !.todo = targets \cap VaultReserves[at[p]]]
<1>1. /\ w.blacklist = g.blacklist /\ w.cooldown = g.cooldown
      /\ w.catastrophic = g.catastrophic /\ w.commit = g.commit
      /\ w.assessed = g.assessed /\ w.flagged = g.flagged
      /\ w.directive = [g.directive EXCEPT ![at[p]] = directive]
  BY DEF View
<1>2. view' = [view EXCEPT ![p] = w] /\ phase' = [phase EXCEPT ![p] = "responding"]
      /\ active' = [active EXCEPT ![at[p]] = p]
  BY DEF Respond
<1> HIDE DEF w
<1> QED BY <1>1, <1>2 DEF TypeOK, SameFindings

LEMMA OneView ==
  ASSUME TypeOK, NEW p \in Passes, NEW w, view' = [view EXCEPT ![p] = w],
         SameFindings(w, view[p]), w.directive = view[p].directive
  PROVE  Unfound
BY DEF Unfound, SameFindings, TypeOK

\* The steps of a pass that find nothing out.
Quiet(p) ==
  \/ BeginVault(p) \/ SkipMissingVault(p) \/ ReadVault(p)
  \/ SendTx(p) \/ LandTx(p) \/ LoseTx(p)
  \/ CompleteResponse(p) \/ AbortResponse(p) \/ ResponseFails(p)
  \/ ClearEvacuated(p) \/ ClearingFails(p) \/ Abandon(p) \/ Commit(p) \/ PassFails(p)

LEMMA QuietSteps == ASSUME IInv, NEW p \in Passes, Quiet(p) PROVE Unfound
<1> USE DEF IInv
<1>1. \A q \in Passes : view[q] \in View
  BY DEF TypeOK
<1>2. CASE BeginVault(p)
  <2>1. CASE UNCHANGED view
    BY <2>1, SameViews
  <2>2. CASE view' = [view EXCEPT ![p].directive[at[p]] = "skip"]
    BY <1>1, <2>2 DEF Unfound, SameFindings, TypeOK, View
  <2> QED BY <1>2, <2>1, <2>2 DEF BeginVault
<1>3. CASE ReadVault(p)
  BY <1>1, <1>3 DEF ReadVault, Unfound, SameFindings, TypeOK, View
<1>4. CASE SendTx(p)
  <2>1. PICK r \in view[p].todo :
          view' = [view EXCEPT ![p] = [view[p] EXCEPT !.tx = {r}, !.todo = @ \ {r}]]
    BY <1>4 DEF SendTx
  <2> DEFINE w == [view[p] EXCEPT !.tx = {r}, !.todo = @ \ {r}]
  <2>2. SameFindings(w, view[p]) /\ w.directive = view[p].directive
    BY <1>1 DEF SameFindings, View
  <2> HIDE DEF w
  <2>3. view' = [view EXCEPT ![p] = w]
    BY <2>1 DEF w
  <2> QED BY <2>2, <2>3, OneView
<1>5. CASE LandTx(p) \/ LoseTx(p)
  <2> DEFINE w == [view[p] EXCEPT !.tx = {}]
  <2>1. SameFindings(w, view[p]) /\ w.directive = view[p].directive
    BY <1>1 DEF SameFindings, View
  <2>2. view' = [view EXCEPT ![p] = w]
    BY <1>5 DEF LandTx, LoseTx
  <2> HIDE DEF w
  <2> QED BY <2>1, <2>2, OneView
<1>6. CASE CompleteResponse(p)
  <2>1. CASE UNCHANGED view
    BY <2>1, SameViews
  <2>2. CASE view' = [view EXCEPT ![p].loaded[at[p]] = exposure[at[p]]]
    BY <1>1, <2>2 DEF Unfound, SameFindings, TypeOK, View
  <2> QED BY <1>6, <2>1, <2>2 DEF CompleteResponse
<1>7. CASE SkipMissingVault(p) \/ AbortResponse(p) \/ ResponseFails(p) \/ ClearEvacuated(p)
           \/ ClearingFails(p) \/ Abandon(p) \/ Commit(p) \/ PassFails(p)
  BY <1>7, SameViews DEF SkipMissingVault, AbortResponse, ResponseFails, ClearEvacuated,
     ClearingFails, Abandon, Commit, PassFails
<1> QED BY <1>2, <1>3, <1>4, <1>5, <1>6, <1>7 DEF Quiet

\* What a decision leaves in the view of its pass.
DecidedView(p, flags) ==
  /\ phase[p] = "deciding" /\ at[p] \in Vaults
  /\ phase'[p] \in {"responding", "next"}
  /\ \A q \in Passes : q # p => view'[q] = view[q] /\ phase'[q] = phase[q]
  /\ view'[p].catastrophic = view[p].catastrophic
  /\ view'[p].assessed = view[p].assessed \cup VaultReserves[at[p]]
  /\ view'[p].flagged = [view[p].flagged EXCEPT ![at[p]] = flags \cup CatastrophicFor(p)]
  /\ view[p].cooldown \cup Unexposed(p, flags) \subseteq view'[p].cooldown

LEMMA DangerView ==
  ASSUME IInv, NEW p \in Passes, NEW flags \in SUBSET MayFlag, DecideDanger(p, flags)
  PROVE  /\ DecidedView(p, flags)
         /\ view'[p].blacklist = view[p].blacklist \cup (CatastrophicFor(p) \ blacklisted)
         /\ view'[p].directive = [view[p].directive EXCEPT ![at[p]] = "skip"]
         /\ view'[p].commit \subseteq view[p].commit \cup CatastrophicFor(p)
         /\ active' = [active EXCEPT ![at[p]] = p]
<1> DEFINE g == Gathered(p, flags)
           blacklist == view[p].blacklist \cup (CatastrophicFor(p) \ blacklisted)
           evacuate == view[p].evacuate \cup (Exposed(p, flags) \ pending[at[p]])
           h == [g EXCEPT !.blacklist = blacklist, !.evacuate = evacuate,
                          !.commit = @ \cup CatastrophicFor(p),
                          !.cooldown = @ \cup Exposed(p, flags)]
           targets == blacklist \cup evacuate \cup Dangerous(p, flags)
<1>1. phase[p] = "deciding" /\ Flaggable(p, flags) /\ at[p] \in Vaults
      /\ Respond(p, h, "danger", "skip", targets)
  BY DEF DecideDanger, Flaggable, IInv, AtVault
<1>2. g \in View
  BY <1>1, GatheredType, ConstantsAssumption DEF IInv
<1>3. /\ CatastrophicFor(p) \subseteq Reserves /\ Exposed(p, flags) \subseteq Reserves
      /\ view[p].blacklist \subseteq Reserves /\ view[p].evacuate \subseteq Reserves
  BY <1>1, FlagsType, ConstantsAssumption DEF IInv, TypeOK, View
<1>4. h \in View
  BY <1>2, <1>3 DEF View
<1>5. /\ h.blacklist = blacklist /\ h.catastrophic = g.catastrophic
      /\ h.cooldown = g.cooldown \cup Exposed(p, flags)
      /\ h.assessed = g.assessed /\ h.flagged = g.flagged /\ h.directive = g.directive
      /\ h.commit = g.commit \cup CatastrophicFor(p)
  BY <1>2 DEF View
<1>6. /\ g.catastrophic = view[p].catastrophic
      /\ g.cooldown = view[p].cooldown \cup Unexposed(p, flags)
      /\ g.assessed = view[p].assessed \cup VaultReserves[at[p]]
      /\ g.flagged = [view[p].flagged EXCEPT ![at[p]] = flags \cup CatastrophicFor(p)]
      /\ g.directive = view[p].directive /\ g.commit \subseteq view[p].commit
  BY <1>1, GatheredFields DEF IInv
<1> HIDE DEF g, h, targets
<1>7. /\ SameFindings(view'[p], h)
      /\ view'[p].directive = [h.directive EXCEPT ![at[p]] = "skip"]
      /\ \A q \in Passes : q # p => view'[q] = view[q] /\ phase'[q] = phase[q]
      /\ phase'[p] = "responding" /\ active' = [active EXCEPT ![at[p]] = p]
  BY <1>1, <1>4, RespondFields DEF IInv
<1> QED BY <1>1, <1>5, <1>6, <1>7 DEF SameFindings, DecidedView

LEMMA OtherView ==
  ASSUME IInv, NEW p \in Passes, NEW flags \in SUBSET MayFlag,
         DecideEvacuation(p, flags) \/ DecideEnforcement(p, flags) \/ DecideClear(p, flags)
  PROVE  /\ DecidedView(p, flags)
         /\ view'[p].blacklist = view[p].blacklist
         /\ view'[p].commit = view[p].commit \ (CatastrophicFor(p) \ view[p].blacklist)
         /\ \A v \in Vaults : view'[p].directive[v] = "clear" =>
              \/ v # at[p] /\ view[p].directive[v] = "clear"
              \/ v = at[p] /\ ~DecideEvacuation(p, flags)
         /\ active' = [active EXCEPT ![at[p]] = p] \/ active' = active
<1> DEFINE g == Gathered(p, flags)
<1>1. phase[p] = "deciding" /\ Flaggable(p, flags) /\ at[p] \in Vaults
  BY DEF DecideEvacuation, DecideEnforcement, DecideClear, Flaggable, IInv, AtVault
<1>2. g \in View
  BY <1>1, GatheredType, ConstantsAssumption DEF IInv
<1>3. /\ g.blacklist = view[p].blacklist /\ g.catastrophic = view[p].catastrophic
      /\ g.cooldown = view[p].cooldown \cup Unexposed(p, flags)
      /\ g.assessed = view[p].assessed \cup VaultReserves[at[p]]
      /\ g.commit = view[p].commit \ (CatastrophicFor(p) \ view[p].blacklist)
      /\ g.flagged = [view[p].flagged EXCEPT ![at[p]] = flags \cup CatastrophicFor(p)]
      /\ g.directive = view[p].directive
  BY <1>1, GatheredFields DEF IInv
<1>4. ASSUME NEW kind, NEW directive, NEW targets, Respond(p, g, kind, directive, targets)
      PROVE  /\ SameFindings(view'[p], g)
             /\ view'[p].directive = [g.directive EXCEPT ![at[p]] = directive]
             /\ \A q \in Passes : q # p => view'[q] = view[q] /\ phase'[q] = phase[q]
             /\ phase'[p] = "responding" /\ active' = [active EXCEPT ![at[p]] = p]
  BY <1>1, <1>2, <1>4, RespondFields DEF IInv
<1>5. g.directive \in [Vaults -> Directive]
  BY <1>2 DEF View
<1>6. CASE DecideEvacuation(p, flags)
  <2>1. Respond(p, g, "evacuation", "skip", view[p].blacklist \cup view[p].evacuate)
    BY <1>6 DEF DecideEvacuation
  <2> HIDE DEF g
  <2>2. \A v \in Vaults : view'[p].directive[v] = "clear" =>
          v # at[p] /\ view[p].directive[v] = "clear"
    <3>1. view'[p].directive = [view[p].directive EXCEPT ![at[p]] = "skip"]
      BY <1>3, <1>4, <2>1
    <3>2. view[p].directive \in [Vaults -> Directive]
      BY <1>3, <1>5
    <3> QED BY <1>1, <3>1, <3>2
  <2> QED BY <1>1, <1>3, <1>4, <2>1, <2>2 DEF SameFindings, DecidedView
<1>7. CASE DecideEnforcement(p, flags)
  <2>1. Respond(p, g, "enforcement", "clear", view[p].blacklist)
        /\ ~DecideEvacuation(p, flags)
    BY <1>7 DEF DecideEnforcement, NeedsEnforcement, DecideEvacuation
  <2> HIDE DEF g
  <2>2. \A v \in Vaults : v # at[p] => view'[p].directive[v] = view[p].directive[v]
    BY <1>1, <1>3, <1>4, <1>5, <2>1
  <2> QED BY <1>1, <1>3, <1>4, <2>1, <2>2 DEF SameFindings, DecidedView
<1>8. CASE DecideClear(p, flags)
  <2> DEFINE w == [g EXCEPT !.directive[at[p]] = "clear"]
  <2>1. /\ view' = [view EXCEPT ![p] = w] /\ phase' = [phase EXCEPT ![p] = "next"]
        /\ active' = active /\ ~DecideEvacuation(p, flags)
    BY <1>8 DEF DecideClear, Advance, NeedsResponse, DecideEvacuation
  <2>2. SameFindings(w, g) /\ w.directive = [g.directive EXCEPT ![at[p]] = "clear"]
    BY <1>2 DEF SameFindings, View
  <2> HIDE DEF g, w
  <2>3. view'[p] = w /\ phase'[p] = "next"
        /\ \A q \in Passes : q # p => view'[q] = view[q] /\ phase'[q] = phase[q]
    BY <2>1 DEF IInv, TypeOK
  <2>4. \A v \in Vaults : v # at[p] => view'[p].directive[v] = view[p].directive[v]
    BY <1>1, <1>3, <1>5, <2>2, <2>3
  <2> QED BY <1>1, <1>3, <2>1, <2>2, <2>3, <2>4 DEF SameFindings, DecidedView
<1> QED BY <1>6, <1>7, <1>8

\* How they move a pass on.
LEMMA QuietPhases ==
  ASSUME IInv, NEW p \in Passes, Quiet(p)
  PROVE  /\ \A q \in Passes : q # p => phase'[q] = phase[q]
         /\ phase[p] # "idle"
         /\ phase'[p] \in {"next", "reading", "deciding", "responding", "confirming", "idle"}
         /\ phase'[p] # "idle" => phase[p] # "starting"
<1>1. phase \in [Passes -> Phases]
  BY DEF IInv, TypeOK
<1>2. CASE BeginVault(p)
  BY <1>1, <1>2 DEF BeginVault, Advance
<1>3. CASE SkipMissingVault(p) \/ ReadVault(p) \/ SendTx(p) \/ LandTx(p) \/ LoseTx(p)
  BY <1>1, <1>3 DEF SkipMissingVault, ReadVault, SendTx, LandTx, LoseTx, Advance
<1>4. CASE CompleteResponse(p)
  BY <1>1, <1>4 DEF CompleteResponse, Advance
<1>5. CASE AbortResponse(p) \/ ResponseFails(p) \/ ClearEvacuated(p) \/ ClearingFails(p)
  BY <1>1, <1>5 DEF AbortResponse, ResponseFails, ClearEvacuated, ClearingFails, Advance
<1>6. CASE Abandon(p) \/ Commit(p) \/ PassFails(p)
  BY <1>1, <1>6 DEF Abandon, Commit, PassFails, Fails
<1> QED BY <1>2, <1>3, <1>4, <1>5, <1>6 DEF Quiet

LEMMA QuietFrame ==
  ASSUME NEW p \in Passes, Quiet(p)
  PROVE  /\ UNCHANGED <<current, blacklisted, recorded, cooldown>>
         /\ ~Commit(p) => UNCHANGED <<baseline, staged>>
<1> USE DEF memoryVars, fileVars
<1>1. CASE BeginVault(p) \/ SkipMissingVault(p) \/ ReadVault(p)
  BY <1>1 DEF BeginVault, SkipMissingVault, ReadVault
<1>2. CASE SendTx(p) \/ LandTx(p) \/ LoseTx(p)
  BY <1>2 DEF SendTx, LandTx, LoseTx
<1>3. CASE CompleteResponse(p) \/ AbortResponse(p) \/ ResponseFails(p)
  BY <1>3 DEF CompleteResponse, AbortResponse, ResponseFails
<1>4. CASE ClearEvacuated(p) \/ ClearingFails(p) \/ Abandon(p) \/ Commit(p) \/ PassFails(p)
  BY <1>4 DEF ClearEvacuated, ClearingFails, Abandon, Commit, PassFails
<1> QED BY <1>1, <1>2, <1>3, <1>4 DEF Quiet

-----------------------------------------------------------------------------
(* A catastrophe is not forgotten                                          *)

\* Whatever a pass may commit has been recorded if it is catastrophic, and the
\* current pass found every breach of what it would replace.
Remembering ==
  /\ blacklisted \subseteq recorded
  /\ \A p \in Passes :
       /\ view[p].blacklist \subseteq recorded
       /\ phase[p] = "starting" => view[p].assessed = {}
       /\ view[p].catastrophic \cap view[p].commit \cap view[p].assessed \subseteq recorded
       /\ current = p /\ phase[p] \notin {"idle", "starting"} =>
            \A r \in Reserves :
              staged[p][r] = "breached" /\ baseline[r] = "sound"
                => r \in view[p].catastrophic

\* Steps of the loop's updates touch neither a pass, nor its memory, nor the file.
Updating ==
  \/ \E v \in Vaults : Rebalance(v) \/ RebalanceUnresolved(v)
  \/ \E u \in late : LandLate(u)

LEMMA UpdatingSteps ==
  ASSUME Updating
  PROVE  UNCHANGED <<loop, current, phase, at, view, active, staged, cooldown, baseline,
                     blacklisted, pending, recorded>>
BY DEF Updating, Rebalance, RebalanceUnresolved, LandLate, passVars, memoryVars, fileVars

LEMMA RememberingStep ==
  ASSUME IInv, Remembering, [Next]_vars
  PROVE  Remembering'
<1> USE DEF Remembering
<1>0. /\ view \in [Passes -> View] /\ phase \in [Passes -> Phases]
      /\ staged \in [Passes -> [Reserves -> Observation]]
  BY DEF IInv, TypeOK
<1>1. ASSUME NEW p \in Passes, StartPass(p) PROVE Remembering'
  <2>1. PICK kept \in SUBSET cooldown :
          view' = [view EXCEPT ![p] = [EmptyView EXCEPT
                     !.blacklist = blacklisted, !.cooldown = kept, !.loaded = exposure]]
    BY <1>1 DEF StartPass
  <2> DEFINE w == [EmptyView EXCEPT
                     !.blacklist = blacklisted, !.cooldown = kept, !.loaded = exposure]
  <2>2. w.blacklist = blacklisted /\ w.assessed = {} /\ w.commit = {} /\ w.catastrophic = {}
    BY DEF EmptyView
  <2> HIDE DEF w
  <2>3. view'[p] = w /\ \A q \in Passes : q # p => view'[q] = view[q]
    BY <1>0, <2>1 DEF w
  <2>4. /\ UNCHANGED <<blacklisted, recorded>> /\ current' = p
        /\ phase' = [phase EXCEPT ![p] = "starting"]
    BY <1>1 DEF StartPass, fileVars
  <2> QED BY <1>0, <2>2, <2>3, <2>4
<1>2. ASSUME NEW p \in Passes, NEW stale, AssessReserves(p, stale) PROVE Remembering'
  <2> DEFINE w == [view[p] EXCEPT !.cooldown = @ \cup stale,
                     !.catastrophic = {r \in Reserves : Catastrophic(r)}, !.commit = Reserves]
  <2>1. /\ w.blacklist = view[p].blacklist /\ w.assessed = view[p].assessed
        /\ w.catastrophic = {r \in Reserves : Catastrophic(r)}
    BY <1>0 DEF View
  <2>2. view' = [view EXCEPT ![p] = w] /\ phase' = [phase EXCEPT ![p] = "next"]
        /\ phase[p] = "starting" /\ staged' = Stage(p)
        /\ UNCHANGED <<current, blacklisted, recorded, baseline, breached>>
    BY <1>2 DEF AssessReserves, memoryVars, fileVars, chainVars
  <2> HIDE DEF w
  <2>3. view'[p] = w /\ \A q \in Passes : q # p => view'[q] = view[q]
    BY <1>0, <2>2
  <2>4. \A r \in Reserves : staged'[p][r] = "breached" /\ baseline[r] = "sound"
          => r \in w.catastrophic
    BY <2>1, <2>2 DEF Stage, Catastrophic
  <2>5. \A q \in Passes : q # p /\ current = q => staged'[q] = staged[q]
    BY <2>2 DEF Stage
  <2> QED BY <1>0, <2>1, <2>2, <2>3, <2>4, <2>5
<1>3. ASSUME NEW p \in Passes, NEW flags \in SUBSET MayFlag, DecideDanger(p, flags)
      PROVE  Remembering'
  <2>1. /\ DecidedView(p, flags)
        /\ view'[p].blacklist = view[p].blacklist \cup (CatastrophicFor(p) \ blacklisted)
    BY <1>3, DangerView
  <2>2. /\ recorded' = recorded \cup CatastrophicFor(p)
        /\ blacklisted' = blacklisted \cup CatastrophicFor(p)
        /\ UNCHANGED <<current, staged, baseline>>
    BY <1>3 DEF DecideDanger
  <2>3. view'[p].commit \subseteq view[p].commit \cup CatastrophicFor(p)
    BY <1>3, DangerView
  <2>4. view'[p].catastrophic \cap view'[p].commit \cap view'[p].assessed \subseteq recorded'
    BY <2>1, <2>2, <2>3 DEF DecidedView, CatastrophicFor
  <2> QED BY <2>1, <2>2, <2>4 DEF DecidedView
<1>4. ASSUME NEW p \in Passes, NEW flags \in SUBSET MayFlag,
             DecideEvacuation(p, flags) \/ DecideEnforcement(p, flags) \/ DecideClear(p, flags)
      PROVE  Remembering'
  <2>1. /\ DecidedView(p, flags) /\ view'[p].blacklist = view[p].blacklist
        /\ view'[p].commit = view[p].commit \ (CatastrophicFor(p) \ view[p].blacklist)
    BY <1>4, OtherView
  <2>2. UNCHANGED <<current, staged, baseline, blacklisted, recorded>>
    BY <1>4 DEF DecideEvacuation, DecideEnforcement, DecideClear, fileVars
  <2>3. view'[p].catastrophic \cap view'[p].commit \cap view'[p].assessed \subseteq recorded'
    BY <2>1, <2>2 DEF DecidedView, CatastrophicFor
  <2> QED BY <2>1, <2>2, <2>3 DEF DecidedView
<1>5. ASSUME NEW p \in Passes, NEW flags, DecideTooLate(p, flags) \/ DecisionFails(p, flags)
      PROVE  Remembering'
  <2>1. /\ UNCHANGED <<current, view, staged, baseline>>
        /\ phase' = [phase EXCEPT ![p] = "idle"]
        /\ recorded \subseteq recorded' /\ blacklisted' \subseteq recorded'
    BY <1>5 DEF DecideTooLate, DecisionFails, Fails, fileVars
  <2> QED BY <1>0, <2>1
<1>6. ASSUME NEW p \in Passes, Quiet(p), ~Commit(p) PROVE Remembering'
  <2>1. Unfound
    BY <1>6, QuietSteps
  <2>2. UNCHANGED <<current, blacklisted, recorded, baseline, staged>>
    BY <1>6, QuietFrame
  <2>3. \A q \in Passes : q # p => phase'[q] = phase[q]
    BY <1>6, QuietPhases
  <2>4. phase'[p] # "starting" /\ (phase'[p] # "idle" => phase[p] \notin {"idle", "starting"})
    BY <1>6, QuietPhases
  <2> QED BY <2>1, <2>2, <2>3, <2>4 DEF Unfound, SameFindings
<1>7. ASSUME NEW p \in Passes, Commit(p) PROVE Remembering'
  <2>1. /\ UNCHANGED <<current, view, blacklisted, recorded>> /\ current = p
        /\ phase' = [phase EXCEPT ![p] = "idle"]
    BY <1>7 DEF Commit, fileVars
  <2> QED BY <1>0, <2>1
<1>8. CASE \/ Updating
           \/ \E r \in Reserves : OperatorClears(r) \/ Breach(r)
           \/ Sleep \/ Timeout \/ UNCHANGED vars
  <2>1. UNCHANGED <<current, phase, view, staged, baseline, recorded>>
        /\ blacklisted' \subseteq blacklisted
    BY <1>8, UpdatingSteps DEF OperatorClears, Breach, Sleep, Timeout, vars, passVars, memoryVars,
                fileVars
  <2> QED BY <2>1
<1>9. CASE Restart
  <2>1. /\ phase' = [p \in Passes |-> "idle"] /\ view' = [p \in Passes |-> EmptyView]
        /\ UNCHANGED <<blacklisted, recorded>>
    BY <1>9 DEF Restart, fileVars
  <2>2. EmptyView.blacklist = {} /\ EmptyView.commit = {}
    BY DEF EmptyView
  <2> QED BY <2>1, <2>2
<1> QED BY <1>1, <1>2, <1>3, <1>4, <1>5, <1>6, <1>7, <1>8, <1>9
        DEF Next, PassStep, PassFault, Decide, Quiet, Updating

LEMMA RememberingInit == Init => Remembering
<1>1. EmptyView.blacklist = {} /\ EmptyView.commit = {}
  BY DEF EmptyView
<1> QED BY <1>1 DEF Init, Remembering

\* A breach becomes the baseline, after which it is no longer detected, only
\* once the reserve is in the blacklist file (dangerCoordinator.ts:487).
THEOREM CatastrophesRemembered == Spec => CatastropheRemembered
<1>1. IInv /\ Remembering /\ [Next]_vars =>
        [\A r \in Reserves :
           baseline[r] = "sound" /\ baseline'[r] = "breached" => r \in recorded]_vars
  <2> SUFFICES ASSUME IInv, Remembering, [Next]_vars, NEW r \in Reserves,
                      baseline[r] = "sound", baseline'[r] = "breached"
               PROVE  r \in recorded
    OBVIOUS
  <2>1. CASE \E p \in Passes : Commit(p)
    <3>1. PICK p \in Passes : Commit(p)
      BY <2>1
    <3>2. r \in Committed(p) /\ staged[p][r] = "breached"
      BY <3>1 DEF Commit
    <3>3. r \in view[p].catastrophic
      BY <3>1, <3>2 DEF Commit, Remembering
    <3> QED BY <3>2, <3>3 DEF Committed, Remembering
  <2>2. CASE ~\E p \in Passes : Commit(p)
    <3>1. baseline' = baseline \/ baseline' = Unstaged
      <4>1. CASE \E p \in Passes : StartPass(p) \/ PassStep(p) \/ PassFault(p)
        <5>1. PICK p \in Passes : StartPass(p) \/ PassStep(p) \/ PassFault(p)
          BY <4>1
        <5>2. CASE Quiet(p)
          BY <2>2, <5>2, QuietFrame
        <5>3. CASE StartPass(p) \/ (\E stale \in SUBSET MayFlag : AssessReserves(p, stale))
          BY <5>3 DEF StartPass, AssessReserves, memoryVars
        <5>4. CASE \E flags \in SUBSET MayFlag : Decide(p, flags) \/ DecisionFails(p, flags)
          BY <5>4 DEF Decide, DecideDanger, DecideEvacuation, DecideEnforcement, DecideClear,
                      DecideTooLate, DecisionFails
        <5> QED BY <5>1, <5>2, <5>3, <5>4 DEF PassStep, PassFault, Quiet
      <4>2. CASE ~\E p \in Passes : StartPass(p) \/ PassStep(p) \/ PassFault(p)
        BY <4>2, UpdatingSteps DEF Next, Updating, OperatorClears, Breach, Sleep, Timeout, Restart, vars,
                    memoryVars
      <4> QED BY <4>1, <4>2
    <3> QED BY <3>1 DEF Unstaged
  <2> QED BY <2>1, <2>2
<1>2. IInv /\ Remembering /\ [Next]_vars => Remembering'
  BY RememberingStep
<1> QED BY <1>1, <1>2, RememberingInit, Invariance, PTL DEF Spec, CatastropheRemembered

-----------------------------------------------------------------------------
(* What a step of a pass leaves to the others                              *)

LEMMA PassFrame ==
  ASSUME IInv, NEW p \in Passes, PassStep(p) \/ PassFault(p)
  PROVE  /\ phase[p] # "idle" /\ current' = current
         /\ \A q \in Passes : q # p => phase'[q] = phase[q] /\ at'[q] = at[q] /\ view'[q] = view[q]
         /\ \A v \in Vaults : exposure'[v] \subseteq exposure[v]
         /\ late' = late
         /\ loop' \in {loop, "asleep"} \/ Commit(p)
<1>0. /\ view \in [Passes -> View] /\ phase \in [Passes -> Phases]
      /\ at \in [Passes -> 1..(NumVaults + 1)] /\ exposure \in [Vaults -> SUBSET Reserves]
  BY DEF IInv, TypeOK
<1> USE DEF chainVars
<1>1. CASE \E stale \in SUBSET MayFlag : AssessReserves(p, stale)
  BY <1>0, <1>1 DEF AssessReserves
<1>2. CASE BeginVault(p) \/ SkipMissingVault(p) \/ ReadVault(p)
  BY <1>0, <1>2 DEF BeginVault, SkipMissingVault, ReadVault, Advance
<1>3. CASE \E flags \in SUBSET MayFlag : Decide(p, flags) \/ DecisionFails(p, flags)
  BY <1>0, <1>3 DEF Decide, DecideDanger, DecideEvacuation, DecideEnforcement, DecideClear,
                    DecideTooLate, DecisionFails, Flaggable, Respond, Advance, Fails
<1>4. CASE SendTx(p) \/ LoseTx(p)
  BY <1>0, <1>4 DEF SendTx, LoseTx
<1>5. CASE LandTx(p)
  BY <1>0, <1>5 DEF LandTx
<1>6. CASE CompleteResponse(p)
  BY <1>0, <1>6 DEF CompleteResponse, Advance
<1>7. CASE AbortResponse(p) \/ ResponseFails(p) \/ ClearEvacuated(p) \/ ClearingFails(p)
  BY <1>0, <1>7 DEF AbortResponse, ResponseFails, ClearEvacuated, ClearingFails, Advance
<1>8. CASE Abandon(p) \/ Commit(p) \/ PassFails(p)
  BY <1>0, <1>8 DEF Abandon, Commit, PassFails, Fails
<1> QED BY <1>1, <1>2, <1>3, <1>4, <1>5, <1>6, <1>7, <1>8 DEF PassStep, PassFault

\* A pass that is not current writes no file and only takes its own response off.
LEMMA Bystander ==
  ASSUME IInv, NEW p \in Passes, PassStep(p) \/ PassFault(p), current # p
  PROVE  /\ UNCHANGED <<blacklisted, pending, regained>> /\ ~Commit(p)
         /\ \A v \in Vaults : active'[v] \in {active[v], NoPass}
<1> USE DEF fileVars, chainVars, IInv, TypeOK
<1>1. CASE (\E stale \in SUBSET MayFlag : AssessReserves(p, stale))
           \/ BeginVault(p) \/ SkipMissingVault(p) \/ ReadVault(p)
           \/ SendTx(p) \/ LandTx(p) \/ LoseTx(p)
  BY <1>1 DEF AssessReserves, BeginVault, SkipMissingVault, ReadVault, SendTx, LandTx, LoseTx,
              Commit
<1>2. CASE \E flags \in SUBSET MayFlag : Decide(p, flags) \/ DecisionFails(p, flags)
  BY <1>2 DEF Decide, DecideDanger, DecideEvacuation, DecideEnforcement, DecideClear,
              DecideTooLate, DecisionFails, Commit
<1>3. CASE CompleteResponse(p) \/ AbortResponse(p) \/ ResponseFails(p)
  BY <1>3 DEF CompleteResponse, AbortResponse, ResponseFails, Unregister, Commit
<1>4. CASE ClearEvacuated(p) \/ ClearingFails(p) \/ Abandon(p) \/ Commit(p) \/ PassFails(p)
  BY <1>4 DEF ClearEvacuated, ClearingFails, Abandon, Commit, PassFails
<1> QED BY <1>1, <1>2, <1>3, <1>4 DEF PassStep, PassFault

LEMMA QuietEffects ==
  ASSUME IInv, NEW p \in Passes, Quiet(p)
  PROVE  /\ \A v \in Vaults :
              pending'[v] \subseteq pending[v] /\ active'[v] \in {active[v], NoPass}
         /\ phase'[p] = "deciding" =>
              at'[p] \in Vaults /\ pending'[at'[p]] \subseteq view'[p].evacuate
<1>0. /\ view \in [Passes -> View] /\ phase \in [Passes -> Phases]
      /\ active \in [Vaults -> Passes \cup {NoPass}] /\ pending \in [Vaults -> SUBSET Reserves]
  BY DEF IInv, TypeOK
<1> USE DEF fileVars
<1>1. CASE BeginVault(p) \/ SkipMissingVault(p) \/ SendTx(p) \/ LandTx(p) \/ LoseTx(p)
  BY <1>0, <1>1 DEF BeginVault, SkipMissingVault, SendTx, LandTx, LoseTx, Advance
<1>2. CASE ReadVault(p)
  <2>1. at[p] \in Vaults /\ view' = [view EXCEPT ![p].evacuate = pending[at[p]]]
        /\ UNCHANGED <<at, active, pending>>
    BY <1>2 DEF ReadVault, IInv, AtVault
  <2>2. view'[p].evacuate = pending[at[p]]
    BY <1>0, <2>1 DEF View
  <2> QED BY <2>1, <2>2
<1>3. CASE CompleteResponse(p)
  BY <1>0, <1>3 DEF CompleteResponse, Unregister, Advance
<1>4. CASE AbortResponse(p) \/ ResponseFails(p)
  BY <1>0, <1>4 DEF AbortResponse, ResponseFails, Unregister, Advance
<1>5. CASE ClearEvacuated(p)
  BY <1>0, <1>5 DEF ClearEvacuated, Advance
<1>6. CASE ClearingFails(p) \/ Abandon(p) \/ Commit(p) \/ PassFails(p)
  BY <1>0, <1>6 DEF ClearingFails, Abandon, Commit, PassFails, Fails, Advance
<1> QED BY <1>1, <1>2, <1>3, <1>4, <1>5, <1>6 DEF Quiet

-----------------------------------------------------------------------------
(* What the current pass knows when it clears an evacuation and when the   *)
(* loop rebalances after it                                                *)

\* The loop rebalances only after its pass has returned.
Resting == loop = "rebalancing" => current \in Passes /\ phase[current] = "idle"

\* The vault of a pass that confirms evacuations has no exposure the pass has
\* not loaded, but for what updates sent earlier have given it since.
Confirmed ==
  \A p \in Passes :
    current = p /\ phase[p] = "confirming" =>
      exposure[at[p]] \subseteq view[p].loaded[at[p]] \cup regained[at[p]]

\* The loop still follows this pass.
Engaged(p) == current = p /\ (phase[p] # "idle" \/ loop = "rebalancing")

\* What the pass has read is not behind the file, and a vault it has cleared has
\* nothing against it but reserves that are cooling down.
Knows(p) ==
  /\ blacklisted \subseteq view[p].blacklist
  /\ phase[p] = "deciding" => pending[at[p]] \subseteq view[p].evacuate
  /\ \A v \in Live : view[p].directive[v] = "clear" =>
       /\ active[v] \in {NoPass, p}
       /\ pending[v] = {}
       /\ view[p].flagged[v] \subseteq view[p].cooldown

Informed == \A p \in Passes : Engaged(p) => Knows(p)

LEMMA ConfirmingStep ==
  ASSUME IInv, NEW p \in Passes, PassStep(p) \/ PassFault(p), phase'[p] = "confirming"
  PROVE  at'[p] = at[p] /\ view'[p].loaded[at[p]] = exposure[at[p]]
<1>0. /\ view \in [Passes -> View] /\ phase \in [Passes -> Phases] /\ at[p] \in Nat
  BY DEF IInv, TypeOK, Vaults
<1>1. CASE CompleteResponse(p)
  <2>1. /\ UNCHANGED at /\ at[p] \in Vaults
        /\ view' = [view EXCEPT ![p].loaded[at[p]] = exposure[at[p]]]
    BY <1>0, <1>1 DEF CompleteResponse, Advance, IInv, AtVault
  <2>2. view'[p].loaded = [view[p].loaded EXCEPT ![at[p]] = exposure[at[p]]]
    BY <1>0, <2>1 DEF View
  <2> QED BY <1>0, <2>1, <2>2 DEF View
<1>2. CASE (\E stale \in SUBSET MayFlag : AssessReserves(p, stale))
           \/ BeginVault(p) \/ SkipMissingVault(p) \/ ReadVault(p)
  BY <1>0, <1>2 DEF AssessReserves, BeginVault, SkipMissingVault, ReadVault, Advance
<1>3. CASE \E flags \in SUBSET MayFlag : Decide(p, flags) \/ DecisionFails(p, flags)
  BY <1>0, <1>3 DEF Decide, DecideDanger, DecideEvacuation, DecideEnforcement, DecideClear,
                    DecideTooLate, DecisionFails, Flaggable, Respond, Advance, Fails
<1>4. CASE SendTx(p) \/ LandTx(p) \/ LoseTx(p)
  BY <1>0, <1>4 DEF SendTx, LandTx, LoseTx
<1>5. CASE AbortResponse(p) \/ ResponseFails(p) \/ ClearEvacuated(p) \/ ClearingFails(p)
  BY <1>0, <1>5 DEF AbortResponse, ResponseFails, ClearEvacuated, ClearingFails, Advance
<1>6. CASE Abandon(p) \/ Commit(p) \/ PassFails(p)
  BY <1>0, <1>6 DEF Abandon, Commit, PassFails, Fails
<1> QED BY <1>1, <1>2, <1>3, <1>4, <1>5, <1>6 DEF PassStep, PassFault

LEMMA RestingStep == ASSUME IInv, Resting, [Next]_vars PROVE Resting'
<1>0. phase \in [Passes -> Phases]
  BY DEF IInv, TypeOK
<1>1. ASSUME NEW p \in Passes, PassStep(p) \/ PassFault(p) PROVE Resting'
  <2>1. CASE Commit(p)
    BY <1>0, <2>1 DEF Commit, Resting
  <2>2. CASE ~Commit(p)
    BY <1>1, <2>2, PassFrame DEF Resting
  <2> QED BY <2>1, <2>2
<1>2. CASE \/ Updating
           \/ \E r \in Reserves : OperatorClears(r) \/ Breach(r)
           \/ UNCHANGED vars
  BY <1>2, UpdatingSteps DEF Resting, OperatorClears, Breach, vars, passVars
<1>3. CASE (\E p \in Passes : StartPass(p)) \/ Sleep \/ Timeout \/ Restart
  BY <1>3 DEF Resting, StartPass, Sleep, Timeout, Restart
<1> QED BY <1>1, <1>2, <1>3 DEF Next, Updating

LEMMA ConfirmedStep == ASSUME IInv, Resting, Confirmed, [Next]_vars PROVE Confirmed'
<1>0. phase \in [Passes -> Phases]
  BY DEF IInv, TypeOK
<1>1. ASSUME NEW p \in Passes, PassStep(p) \/ PassFault(p) PROVE Confirmed'
  <2>1. /\ current' = current /\ \A v \in Vaults : exposure'[v] \subseteq exposure[v]
        /\ \A q \in Passes : q # p => phase'[q] = phase[q] /\ at'[q] = at[q] /\ view'[q] = view[q]
    BY <1>1, PassFrame
  <2>2. \A q \in Passes : phase[q] = "confirming" => at[q] \in Vaults
    BY DEF IInv, AtVault
  <2>3. ASSUME NEW q \in Passes, q # p, current' = q, phase'[q] = "confirming"
        PROVE  exposure'[at'[q]] \subseteq view'[q].loaded[at'[q]] \cup regained'[at'[q]]
    <3>1. UNCHANGED regained
      BY <1>1, <2>1, <2>3, Bystander
    <3> QED BY <2>1, <2>2, <2>3, <3>1 DEF Confirmed
  <2>4. ASSUME phase'[p] = "confirming"
        PROVE  exposure'[at'[p]] \subseteq view'[p].loaded[at'[p]] \cup regained'[at'[p]]
    <3>1. at'[p] = at[p] /\ view'[p].loaded[at[p]] = exposure[at[p]]
      BY <1>1, <2>4, ConfirmingStep
    <3>2. AtVault'
      BY AtVaultStep, ConstantsAssumption
    <3>3. at[p] \in Vaults
      BY <2>4, <3>1, <3>2 DEF AtVault, Vaults
    <3> QED BY <2>1, <3>1, <3>3
  <2> QED BY <2>3, <2>4 DEF Confirmed
<1>2. ASSUME NEW p \in Passes, StartPass(p) PROVE Confirmed'
  BY <1>0, <1>2 DEF StartPass, Confirmed
<1>3. CASE \E v \in Vaults : Rebalance(v) \/ RebalanceUnresolved(v)
  <2>1. /\ loop = "rebalancing" /\ UNCHANGED <<current, phase>>
    BY <1>3 DEF Rebalance, RebalanceUnresolved, Sends, passVars
  <2> QED BY <2>1 DEF Resting, Confirmed
<1>6. ASSUME NEW u \in late, LandLate(u) PROVE Confirmed'
  <2>1. /\ UNCHANGED <<current, phase, at, view>>
        /\ exposure' = [exposure EXCEPT ![u.vault] = @ \cup u.gains]
        /\ regained' = [regained EXCEPT ![u.vault] = @ \cup u.gains]
    BY <1>6 DEF LandLate, passVars
  <2>2. /\ exposure \in [Vaults -> SUBSET Reserves] /\ regained \in [Vaults -> SUBSET Reserves]
        /\ \A p \in Passes : phase[p] = "confirming" => at[p] \in Vaults
    BY DEF IInv, TypeOK, AtVault
  <2> QED BY <2>1, <2>2 DEF Confirmed
<1>4. CASE (\E r \in Reserves : OperatorClears(r) \/ Breach(r))
           \/ Sleep \/ Timeout \/ UNCHANGED vars
  BY <1>4 DEF OperatorClears, Breach, Sleep, Timeout, vars, passVars, chainVars, Confirmed
<1>5. CASE Restart
  BY <1>5 DEF Restart, Confirmed
<1> QED BY <1>1, <1>2, <1>3, <1>4, <1>5, <1>6 DEF Next

\* The current pass keeps what it knows up to date through its own steps.
LEMMA OwnKnowledge ==
  ASSUME IInv, Resting, Informed, NEW p \in Passes, current = p,
         PassStep(p) \/ PassFault(p), Engaged(p)'
  PROVE  Knows(p)'
<1> USE ConstantsAssumption DEF IInv
<1>0. /\ view \in [Passes -> View] /\ phase \in [Passes -> Phases]
      /\ active \in [Vaults -> Passes \cup {NoPass}] /\ pending \in [Vaults -> SUBSET Reserves]
      /\ Live \subseteq Vaults
  BY DEF TypeOK, ConstantsAssumption
<1>1. Knows(p)
  BY PassFrame DEF Informed, Engaged
<1>2. CASE \E stale \in SUBSET MayFlag : AssessReserves(p, stale)
  <2>1. PICK stale \in SUBSET MayFlag : AssessReserves(p, stale)
    BY <1>2
  <2> DEFINE w == [view[p] EXCEPT !.cooldown = @ \cup stale,
                     !.catastrophic = {r \in Reserves : Catastrophic(r)}, !.commit = Reserves]
  <2>2. /\ w.blacklist = view[p].blacklist /\ w.directive = view[p].directive
        /\ w.flagged = view[p].flagged /\ view[p].cooldown \subseteq w.cooldown
    BY <1>0 DEF View
  <2>3. view' = [view EXCEPT ![p] = w] /\ phase' = [phase EXCEPT ![p] = "next"]
        /\ UNCHANGED <<active, blacklisted, pending>>
    BY <2>1 DEF AssessReserves, fileVars
  <2> HIDE DEF w
  <2>4. view'[p] = w /\ phase'[p] = "next"
    BY <1>0, <2>3
  <2> QED BY <1>1, <2>2, <2>3, <2>4 DEF Knows
<1>3. ASSUME NEW flags \in SUBSET MayFlag, DecideDanger(p, flags) PROVE Knows(p)'
  <2>1. /\ DecidedView(p, flags)
        /\ view'[p].blacklist = view[p].blacklist \cup (CatastrophicFor(p) \ blacklisted)
        /\ view'[p].directive = [view[p].directive EXCEPT ![at[p]] = "skip"]
        /\ active' = [active EXCEPT ![at[p]] = p]
    BY <1>3, DangerView
  <2>2. /\ blacklisted' = blacklisted \cup CatastrophicFor(p)
        /\ \E new : pending' = [pending EXCEPT ![at[p]] = new]
    BY <1>3 DEF DecideDanger
  <2>3. \A v \in Live : view'[p].directive[v] = "clear" =>
          v # at[p] /\ view[p].directive[v] = "clear"
    <3>1. view[p].directive \in [Vaults -> Directive] /\ at[p] \in Vaults
      BY <1>0, <2>1 DEF View, DecidedView
    <3> QED BY <1>0, <2>1, <3>1
  <2>4. \A v \in Live : v # at[p] =>
          /\ active'[v] = active[v] /\ pending'[v] = pending[v]
          /\ view'[p].flagged[v] = view[p].flagged[v]
    <3>1. view[p].flagged \in [Vaults -> SUBSET Reserves]
      BY <1>0 DEF View
    <3> QED BY <1>0, <2>1, <2>2, <3>1 DEF DecidedView
  <2> QED BY <1>1, <2>1, <2>2, <2>3, <2>4 DEF Knows, DecidedView
<1>4. ASSUME NEW flags \in SUBSET MayFlag,
             DecideEvacuation(p, flags) \/ DecideEnforcement(p, flags) \/ DecideClear(p, flags)
      PROVE  Knows(p)'
  <2>1. /\ DecidedView(p, flags) /\ view'[p].blacklist = view[p].blacklist
        /\ \A v \in Vaults : view'[p].directive[v] = "clear" =>
             \/ v # at[p] /\ view[p].directive[v] = "clear"
             \/ v = at[p] /\ ~DecideEvacuation(p, flags)
        /\ active' = [active EXCEPT ![at[p]] = p] \/ active' = active
    BY <1>4, OtherView
  <2>2. UNCHANGED <<blacklisted, pending>>
    BY <1>4 DEF DecideEvacuation, DecideEnforcement, DecideClear, fileVars
  <2>3. ASSUME NEW v \in Live, v # at[p]
        PROVE  /\ active'[v] = active[v] /\ view'[p].flagged[v] = view[p].flagged[v]
    <3>1. view[p].flagged \in [Vaults -> SUBSET Reserves]
      BY <1>0 DEF View
    <3> QED BY <1>0, <2>1, <2>3, <3>1 DEF DecidedView
  <2>4. ASSUME at[p] \in Live, ~DecideEvacuation(p, flags)
        PROVE  /\ active'[at[p]] \in {NoPass, p} /\ pending[at[p]] = {}
               /\ view'[p].flagged[at[p]] \subseteq view'[p].cooldown
    <3>1. Dangerous(p, flags) = {} /\ view[p].evacuate = {}
      BY <1>4, <2>4 DEF DecideEnforcement, NeedsEnforcement, DecideClear, NeedsResponse
    <3>2. CatastrophicFor(p) = {} /\ flags \subseteq Unexposed(p, flags)
      BY <3>1 DEF Dangerous, Exposed, Unexposed
    <3>3. view[p].flagged \in [Vaults -> SUBSET Reserves]
      BY <1>0 DEF View
    <3>4. view'[p].flagged[at[p]] = flags
      BY <1>0, <2>1, <2>4, <3>2, <3>3 DEF DecidedView
    <3>5. pending[at[p]] = {}
      BY <1>1, <2>1, <3>1 DEF Knows, DecidedView
    <3>6. active[at[p]] = NoPass
      BY <2>1 DEF Undisturbed, DecidedView
    <3> QED BY <1>0, <2>1, <2>4, <3>2, <3>4, <3>5, <3>6 DEF DecidedView
  <2> QED BY <1>0, <1>1, <2>1, <2>2, <2>3, <2>4 DEF Knows, DecidedView
<1>5. ASSUME NEW flags, DecideTooLate(p, flags) \/ DecisionFails(p, flags) PROVE FALSE
  BY <1>0, <1>5 DEF DecideTooLate, DecisionFails, Fails, Flaggable, Engaged, Resting
<1>6. CASE Quiet(p)
  <2>1. Unfound /\ UNCHANGED blacklisted
    BY <1>6, QuietSteps, QuietFrame
  <2>2. /\ \A v \in Vaults :
             pending'[v] \subseteq pending[v] /\ active'[v] \in {active[v], NoPass}
        /\ phase'[p] = "deciding" => pending'[at'[p]] \subseteq view'[p].evacuate
    BY <1>6, QuietEffects
  <2> QED BY <1>0, <1>1, <2>1, <2>2 DEF Knows, Unfound, SameFindings
<1> QED BY <1>2, <1>3, <1>4, <1>5, <1>6 DEF PassStep, PassFault, Decide, Quiet

LEMMA InformedStep == ASSUME IInv, Resting, Informed, [Next]_vars PROVE Informed'
<1>0. /\ view \in [Passes -> View] /\ phase \in [Passes -> Phases]
      /\ at \in [Passes -> 1..(NumVaults + 1)] /\ Live \subseteq Vaults
  BY ConstantsAssumption DEF IInv, TypeOK
<1>1. ASSUME NEW p \in Passes, PassStep(p) \/ PassFault(p) PROVE Informed'
  <2>1. ASSUME NEW q \in Passes, Engaged(q)', q # p PROVE Knows(q)'
    <3>1. /\ current' = current /\ phase'[q] = phase[q] /\ at'[q] = at[q] /\ view'[q] = view[q]
          /\ loop' \in {loop, "asleep"} \/ Commit(p)
      BY <1>1, <2>1, PassFrame
    <3>2. current = q
      BY <2>1, <3>1 DEF Engaged
    <3>3. /\ UNCHANGED <<blacklisted, pending>> /\ ~Commit(p)
          /\ \A v \in Vaults : active'[v] \in {active[v], NoPass}
      BY <1>1, <2>1, <3>2, Bystander
    <3>4. Knows(q)
      BY <2>1, <3>1, <3>3 DEF Engaged, Informed
    <3> QED BY <1>0, <3>1, <3>3, <3>4 DEF Knows
  <2>2. ASSUME Engaged(p)' PROVE Knows(p)'
    BY <1>1, <2>2, PassFrame, OwnKnowledge DEF Engaged
  <2> QED BY <2>1, <2>2 DEF Informed
<1>2. ASSUME NEW p \in Passes, StartPass(p) PROVE Informed'
  <2>1. PICK kept \in SUBSET cooldown :
          view' = [view EXCEPT ![p] = [EmptyView EXCEPT
                     !.blacklist = blacklisted, !.cooldown = kept, !.loaded = exposure]]
    BY <1>2 DEF StartPass
  <2> DEFINE w == [EmptyView EXCEPT
                     !.blacklist = blacklisted, !.cooldown = kept, !.loaded = exposure]
  <2>2. w.blacklist = blacklisted /\ w.directive = [v \in Vaults |-> "none"]
    BY DEF EmptyView
  <2> HIDE DEF w
  <2>3. view'[p] = w
    BY <1>0, <2>1 DEF w
  <2>4. current' = p /\ blacklisted' = blacklisted /\ phase'[p] = "starting"
    BY <1>0, <1>2 DEF StartPass, fileVars
  <2> QED BY <1>0, <2>2, <2>3, <2>4 DEF Informed, Engaged, Knows
<1>3. CASE \/ Updating
           \/ \E r \in Reserves : OperatorClears(r) \/ Breach(r)
           \/ Sleep \/ Timeout \/ UNCHANGED vars
  <2>1. /\ UNCHANGED <<current, phase, at, view, active, pending>>
        /\ blacklisted' \subseteq blacklisted /\ loop' \in {loop, "asleep"}
    BY <1>3, UpdatingSteps DEF OperatorClears, Breach, Sleep, Timeout, vars, passVars, fileVars
  <2> QED BY <2>1 DEF Informed, Engaged, Knows
<1>4. CASE Restart
  BY <1>4, ConstantsAssumption DEF Restart, Informed, Engaged
<1> QED BY <1>1, <1>2, <1>3, <1>4 DEF Next, Updating

LEMMA KnowledgeInit == Init => Resting /\ Confirmed /\ Informed
BY ConstantsAssumption DEF Init, Resting, Confirmed, Informed, Engaged

THEOREM Knowledge == Spec => [](Resting /\ Confirmed /\ Informed)
BY KnowledgeInit, RestingStep, ConfirmedStep, InformedStep, Invariance, PTL DEF Spec

-----------------------------------------------------------------------------
(* Evacuations                                                             *)

\* A pending evacuation leaves the file only when the vault has left the
\* reserve (clearCompletedPendingEvacuations), or an update sent earlier has
\* taken the vault back into it since the state was read.
THEOREM EvacuationsConfirmed == Spec => EvacuationConfirmed
<1>1. IInv /\ Confirmed /\ [Next]_vars =>
        [\A v \in Vaults :
           (pending[v] \ pending'[v]) \cap exposure[v] \subseteq regained[v]]_vars
  <2> SUFFICES ASSUME IInv, Confirmed, [Next]_vars, NEW v \in Vaults
               PROVE  (pending[v] \ pending'[v]) \cap exposure[v] \subseteq regained[v]
    OBVIOUS
  <2>0. pending \in [Vaults -> SUBSET Reserves]
    BY DEF IInv, TypeOK
  <2>1. ASSUME NEW p \in Passes, ClearEvacuated(p)
        PROVE  (pending[v] \ pending'[v]) \cap exposure[v] \subseteq regained[v]
    <3>1. exposure[at[p]] \subseteq view[p].loaded[at[p]] \cup regained[at[p]]
      BY <2>1 DEF ClearEvacuated, Confirmed
    <3> QED BY <2>0, <2>1, <3>1 DEF ClearEvacuated
  <2>2. ASSUME NEW p \in Passes, PassStep(p) \/ PassFault(p), ~ClearEvacuated(p)
        PROVE  pending[v] \subseteq pending'[v]
    <3> USE DEF fileVars
    <3>1. CASE (\E stale \in SUBSET MayFlag : AssessReserves(p, stale))
               \/ BeginVault(p) \/ SkipMissingVault(p) \/ ReadVault(p)
               \/ SendTx(p) \/ LandTx(p) \/ LoseTx(p)
      BY <3>1 DEF AssessReserves, BeginVault, SkipMissingVault, ReadVault, SendTx, LandTx, LoseTx
    <3>2. CASE \E flags \in SUBSET MayFlag : DecideDanger(p, flags)
      <4>1. PICK flags \in SUBSET MayFlag : DecideDanger(p, flags)
        BY <3>2
      <4>2. pending' = [pending EXCEPT ![at[p]] = pending[at[p]] \cup Exposed(p, flags)]
        BY <4>1 DEF DecideDanger
      <4> QED BY <2>0, <4>2
    <3>3. CASE \E flags \in SUBSET MayFlag :
                 \/ DecideEvacuation(p, flags) \/ DecideEnforcement(p, flags)
                 \/ DecideClear(p, flags) \/ DecideTooLate(p, flags) \/ DecisionFails(p, flags)
      BY <3>3 DEF DecideEvacuation, DecideEnforcement, DecideClear, DecideTooLate, DecisionFails
    <3>4. CASE CompleteResponse(p) \/ AbortResponse(p) \/ ResponseFails(p) \/ ClearingFails(p)
               \/ Abandon(p) \/ Commit(p) \/ PassFails(p)
      BY <3>4 DEF CompleteResponse, AbortResponse, ResponseFails, ClearingFails, Abandon, Commit,
                  PassFails
    <3> QED BY <2>2, <3>1, <3>2, <3>3, <3>4 DEF PassStep, PassFault, Decide
  <2>3. CASE \/ \E p \in Passes : StartPass(p)
             \/ Updating
             \/ \E r \in Reserves : OperatorClears(r) \/ Breach(r)
             \/ Sleep \/ Timeout \/ Restart \/ UNCHANGED vars
    BY <2>3, UpdatingSteps DEF StartPass, OperatorClears, Breach, Sleep, Timeout, Restart, vars,
                fileVars
  <2> QED BY <2>0, <2>1, <2>2, <2>3 DEF Next, Updating
<1> QED BY <1>1, Knowledge, Invariance, PTL DEF Spec, EvacuationConfirmed

\* The loop gives or sends an allocation only to vaults without a response in
\* flight and without pending evacuations, and into no blacklisted or flagged
\* reserve (the rebalance gets the blacklist and the cooldowns of the pass),
\* but for a weight of the loaded state that goes along with a freeze.
THEOREM NeverReexposed == Spec => NoReexposure
<1>1. IInv /\ Resting /\ Informed /\ [Next]_vars =>
        [\A v \in Vaults : Given(v) # {} =>
           /\ active[v] = NoPass
           /\ pending[v] = {}
           /\ Given(v) \cap (blacklisted \cup view[current].flagged[v])
                \subseteq view[current].loaded[v]]_vars
  <2> SUFFICES ASSUME IInv, Resting, Informed, [Next]_vars, NEW v \in Vaults,
                      Given(v) # {}
               PROVE  /\ active[v] = NoPass
                      /\ pending[v] = {}
                      /\ Given(v) \cap (blacklisted \cup view[current].flagged[v])
                           \subseteq view[current].loaded[v]
    OBVIOUS
  <2>0. exposure \in [Vaults -> SUBSET Reserves] /\ late \subseteq Update
    BY DEF IInv, TypeOK
  <2>1. CASE Rebalance(v) \/ RebalanceUnresolved(v)
    <3>1. /\ Sends(v) /\ current \in Passes /\ phase[current] = "idle" /\ Knows(current)
      BY <2>1 DEF Rebalance, RebalanceUnresolved, Sends, Resting, Informed, Engaged
    <3>2. /\ active[v] \in {NoPass, current} /\ pending[v] = {}
          /\ view[current].flagged[v] \subseteq view[current].cooldown
          /\ blacklisted \subseteq view[current].blacklist
      BY <3>1 DEF Sends, Knows
    <3>3. active[v] = NoPass
      BY <3>1, <3>2 DEF IInv, Registered
    <3>4. Given(v) \subseteq Grantable(v)
      <4>1. CASE Rebalance(v)
        <5>1. PICK gained \in SUBSET Grantable(v) :
                exposure' = [exposure EXCEPT ![v] = exposure[v] \cup gained]
          BY <4>1 DEF Rebalance
        <5>2. late' = late
          BY <4>1 DEF Rebalance
        <5> QED BY <2>0, <5>1, <5>2 DEF Given, LandedNow, SentNow
      <4>2. CASE RebalanceUnresolved(v)
        <5>1. PICK gains \in SUBSET Grantable(v) \ {{}} :
                late' = late \cup {[vault |-> v, gains |-> gains, nr |-> faults]}
          BY <4>2 DEF RebalanceUnresolved
        <5>2. exposure' = exposure
          BY <4>2 DEF RebalanceUnresolved
        <5>3. \A u \in late' \ late : u.gains = gains
          BY <5>1
        <5> QED BY <5>2, <5>3 DEF Given, LandedNow, SentNow
      <4> QED BY <2>1, <4>1, <4>2
    <3> QED BY <3>2, <3>3, <3>4 DEF Grantable
  <2>2. CASE ~(Rebalance(v) \/ RebalanceUnresolved(v))
    <3>1. /\ exposure'[v] \ exposure[v] \subseteq LandedNow(v)
          /\ \A u \in late' \ late : u.vault # v
      <4>1. CASE \E p \in Passes : PassStep(p) \/ PassFault(p)
        BY <4>1, PassFrame
      <4>2. CASE \E w \in Vaults : Rebalance(w)
        BY <2>0, <2>2, <4>2 DEF Rebalance
      <4>3. CASE \E w \in Vaults : RebalanceUnresolved(w)
        BY <2>2, <4>3 DEF RebalanceUnresolved
      <4>4. ASSUME NEW u \in late, LandLate(u)
            PROVE  /\ exposure'[v] \ exposure[v] \subseteq LandedNow(v)
                   /\ \A w \in late' \ late : w.vault # v
        <5>1. /\ late' = late \ {u} /\ u.vault \in Vaults
              /\ exposure' = [exposure EXCEPT ![u.vault] = exposure[u.vault] \cup u.gains]
          BY <2>0, <4>4 DEF LandLate, Update
        <5>2. u.vault = v => u.gains \subseteq LandedNow(v)
          BY <5>1 DEF LandedNow
        <5> QED BY <2>0, <5>1, <5>2
      <4>5. CASE \/ \E p \in Passes : StartPass(p)
                 \/ \E r \in Reserves : OperatorClears(r) \/ Breach(r)
                 \/ Sleep \/ Timeout \/ Restart \/ UNCHANGED vars
        BY <4>5 DEF StartPass, OperatorClears, Breach, Sleep, Timeout, Restart, vars, chainVars
      <4> QED BY <4>1, <4>2, <4>3, <4>4, <4>5 DEF Next
    <3>2. Given(v) = {}
      BY <3>1 DEF Given, SentNow
    <3> QED BY <3>2
  <2> QED BY <2>1, <2>2
<1> QED BY <1>1, Knowledge, Invariance, PTL DEF Spec, NoReexposure

=============================================================================
