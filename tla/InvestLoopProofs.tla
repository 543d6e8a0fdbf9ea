---------------------------- MODULE InvestLoopProofs ----------------------------
(***************************************************************************)
(* What the invest loop knows when it sends is still true then, for every  *)
(* vault, plan and number of events: the exclusions that held since before *)
(* the plan was built, and the evacuations written down before the gate.   *)
(* And a cooldown hits the reserve that is to blame for it.                *)
(***************************************************************************)
EXTENDS InvestLoop, FiniteSetTheorems, TLAPS

\* Nothing of a plan is sent before the exclusions have been read again, and then
\* no deposit into a reserve that has been excluded all the time.
Honoured ==
  /\ pc = "checking" => closed \subseteq excluded
  /\ pc # "sending" => rest = {} /\ solo = {} /\ sent = {}
  /\ ExclusionsHonoured

\* A reserve whose evacuation has been written down is pending until it has no
\* weight, and the loop only knows of such.
Weightless ==
  /\ target \in Amounts /\ held \in Amounts
  /\ blacklist \subseteq Reserves
  /\ fresh \subseteq blacklist
  /\ fresh = {} \/ pending = {}
  /\ \A r \in (blacklist \ (fresh \cup pending)) \cap Reserves : target[r] = 0
  /\ known \subseteq blacklist \ (fresh \cup pending)

\* An instruction that did not land is still to be sent or was left out, and the
\* plan is sent in its order.
Accounted ==
  /\ out \subseteq Reserves /\ in \subseteq Reserves \ out
  /\ rest \subseteq out \cup in /\ solo \subseteq out \cup in
  /\ pc = "sending" => out \cup in \subseteq sent \cup missing \cup rest \cup solo
  /\ pc # "sending" => rest = {} /\ solo = {}
  /\ \A a \in solo, b \in rest : Before(a, b)

LEMMA HonouredStep == Honoured /\ [Next]_vars => Honoured'
<1> SUFFICES ASSUME Honoured, [Next]_vars PROVE Honoured'
  OBVIOUS
<1> USE DEF Honoured, ExclusionsHonoured
<1>1. ASSUME Leave PROVE Honoured'
  BY <1>1 DEF Leave
<1>2. ASSUME UNCHANGED <<pc, excluded, closed, in, rest, solo, sent>> PROVE Honoured'
  BY <1>2
<1>3. CASE StartPass \/ TakeUp
  BY <1>3 DEF StartPass, TakeUp, batches
<1>4. CASE Gate \/ Weigh
  BY <1>1, <1>4 DEF Gate, Weigh, batches, decision
<1>5. CASE Build
  BY <1>5 DEF Build, worker
<1>6. CASE ReadExclusions
  <2>1. /\ pc = "checking" /\ pc' = "sending"
        /\ rest' = (out \cup in) \ ((in \cap excluded) \cup (cooling \cap (out \cup in)))
        /\ UNCHANGED <<in, solo, sent, closed>>
    BY <1>6 DEF ReadExclusions, Plan
  <2> QED BY <2>1
<1>7. CASE SendBatch
  <2>1. PICK batch : /\ batch \subseteq rest /\ rest' = rest \ batch
                     /\ \/ sent' = sent \cup batch /\ solo' = solo
                        \/ sent' = sent /\ solo' = batch
    BY <1>7 DEF SendBatch, Lands, First
  <2>2. pc' = pc /\ pc = "sending" /\ UNCHANGED <<in, closed, excluded>>
    BY <1>7 DEF SendBatch, worker
  <2> QED BY <2>1, <2>2
<1>8. CASE SendOne
  <2>1. PICK r \in rest \cup solo : /\ rest' = rest \ {r} /\ solo' = solo \ {r}
                                    /\ sent' = sent \/ sent' = sent \cup {r}
    BY <1>8 DEF SendOne, Lands, First
  <2>2. pc' = pc /\ pc = "sending" /\ UNCHANGED <<in, closed, excluded>>
    BY <1>8 DEF SendOne, worker
  <2> QED BY <2>1, <2>2
<1>9. CASE Finish \/ LoseOne \/ SkipVault \/ RestartLoop
  BY <1>1, <1>9 DEF Finish, LoseOne, Lost, SkipVault, RestartLoop
<1>10. CASE \E r \in Reserves : Elapse(r)
  BY <1>2, <1>10 DEF Elapse, worker, batches
<1>11. CASE Response
  BY <1>2, <1>11 DEF Response, RegisterEvacuation, ZeroWeight, Evacuate, ClearEvacuation, worker,
                     batches
<1>12. CASE Blacklist \/ Rebalance \/ InvestedElsewhere \/ Break
  BY <1>2, <1>12 DEF Blacklist, Rebalance, InvestedElsewhere, Break, worker, batches
<1>13. CASE TellExclusions
  BY <1>13 DEF TellExclusions, batches
<1>14. CASE UNCHANGED vars
  BY <1>2, <1>14 DEF vars, worker, batches
<1> QED BY <1>3, <1>4, <1>5, <1>6, <1>7, <1>8, <1>9, <1>10, <1>11, <1>12, <1>13, <1>14
        DEF Next, InvestStep

\* The order of the plan is total.
LEMMA PlanOrder ==
  ASSUME out \subseteq Reserves, in \subseteq Reserves \ out
  PROVE  /\ \A r \in out \cup in : ~Before(r, r)
         /\ \A a, b \in out \cup in : a = b \/ Before(a, b) \/ Before(b, a)
         /\ \A a, b, c \in out \cup in : Before(a, b) /\ Before(b, c) => Before(a, c)
<1>1. \A r \in Reserves : r \in Int
  BY InvestAssumption
<1> QED BY <1>1 DEF Before

\* A batch is the start of what is left of the plan.
LEMMA FirstIsPrefix ==
  ASSUME Accounted, NEW S \in SUBSET (out \cup in), NEW n \in Nat,
         NEW a \in First(n, S), NEW b \in S \ First(n, S)
  PROVE  Before(a, b)
<1>1. SUFFICES ASSUME ~Before(a, b) PROVE FALSE
  OBVIOUS
<1> DEFINE Ahead(r) == {q \in S : Before(q, r)}
<1>2. Before(b, a)
  BY <1>1, PlanOrder DEF Accounted, First
<1>3. IsFiniteSet(Ahead(a))
  BY InvestAssumption, FS_Subset DEF Accounted
<1>4. Ahead(b) \subseteq Ahead(a)
  BY <1>2, PlanOrder DEF Accounted, First
<1>5. Cardinality(Ahead(b)) <= Cardinality(Ahead(a))
  BY <1>3, <1>4, FS_Subset
<1>6. Cardinality(Ahead(a)) \in Nat /\ Cardinality(Ahead(b)) \in Nat
  BY <1>3, <1>4, FS_Subset, FS_CardinalityType
<1>7. Cardinality(Ahead(a)) < n /\ ~(Cardinality(Ahead(b)) < n)
  BY DEF First
<1> QED BY <1>5, <1>6, <1>7

\* Nothing is left of the plan before the reserve whose turn it is.
LEMMA FirstOneIsLeast ==
  ASSUME Accounted, NEW S \in SUBSET (out \cup in), NEW r \in First(1, S)
  PROVE  \A q \in S : ~Before(q, r)
<1> DEFINE Ahead == {q \in S : Before(q, r)}
<1>1. IsFiniteSet(Ahead)
  BY InvestAssumption, FS_Subset DEF Accounted
<1>2. Cardinality(Ahead) < 1
  BY DEF First
<1>3. Cardinality(Ahead) = 0
  <2> HIDE DEF Ahead
  <2> QED BY <1>1, <1>2, FS_CardinalityType
<1> QED BY <1>1, <1>3, FS_EmptySet

LEMMA AccountedStep == Accounted /\ Weightless /\ [Next]_vars => Accounted'
<1> SUFFICES ASSUME Accounted, Weightless, [Next]_vars PROVE Accounted'
  OBVIOUS
<1> USE DEF Accounted
<1>1. ASSUME Leave PROVE Accounted'
  BY <1>1 DEF Leave
<1>2. ASSUME UNCHANGED batches, UNCHANGED pc PROVE Accounted'
  BY <1>2 DEF batches, Before
<1>3. CASE StartPass \/ TakeUp
  BY <1>3 DEF StartPass, TakeUp, batches, Before
<1>4. CASE Gate \/ Weigh
  BY <1>1, <1>4 DEF Gate, Weigh, batches, Before
<1>5. CASE Build
  <2>1. \A r \in Reserves : target[r] \in Int /\ held[r] \in Int
    BY InvestAssumption DEF Weightless, Amounts
  <2> QED BY <1>5, <2>1 DEF Build, Before
<1>6. CASE ReadExclusions
  BY <1>6 DEF ReadExclusions, Plan, Before
<1>7. CASE SendBatch
  <2> DEFINE batch == First(BatchSize, rest)
  <2>1. /\ pc = "sending" /\ pc' = pc /\ solo = {} /\ UNCHANGED <<out, in, missing>>
        /\ rest' = rest \ batch /\ batch \subseteq rest
        /\ \/ sent' = sent \cup batch /\ solo' = {}
           \/ sent' = sent /\ solo' = batch
    BY <1>7 DEF SendBatch, Lands, First
  <2>2. \A a \in batch, b \in rest \ batch : Before(a, b)
    BY FirstIsPrefix, InvestAssumption
  <2>3. \A a, b : Before(a, b)' <=> Before(a, b)
    BY <2>1 DEF Before
  <2> HIDE DEF batch
  <2> QED BY <2>1, <2>2, <2>3
<1>8. CASE SendOne
  <2>1. PICK r : /\ rest' = rest \ {r} /\ solo' = solo \ {r}
                 /\ \/ sent' = sent \cup {r} /\ missing' = missing
                    \/ sent' = sent /\ missing' = missing \cup {r}
    BY <1>8 DEF SendOne, Lands, RecordFailure
  <2>2. pc = "sending" /\ UNCHANGED <<pc, out, in>>
    BY <1>8 DEF SendOne
  <2>3. \A a, b : Before(a, b)' <=> Before(a, b)
    BY <2>2 DEF Before
  <2> QED BY <2>1, <2>2, <2>3
<1>9. CASE Finish \/ LoseOne \/ SkipVault \/ RestartLoop
  BY <1>1, <1>9 DEF Finish, LoseOne, Lost, SkipVault, RestartLoop
<1>10. CASE \E r \in Reserves : Elapse(r)
  BY <1>2, <1>10 DEF Elapse
<1>11. CASE Response
  BY <1>2, <1>11 DEF Response, RegisterEvacuation, ZeroWeight, Evacuate, ClearEvacuation
<1>12. CASE Blacklist \/ Rebalance \/ InvestedElsewhere \/ Break \/ TellExclusions
  BY <1>2, <1>12 DEF Blacklist, Rebalance, InvestedElsewhere, Break, TellExclusions
<1>13. CASE UNCHANGED vars
  BY <1>2, <1>13 DEF vars
<1> QED BY <1>3, <1>4, <1>5, <1>6, <1>7, <1>8, <1>9, <1>10, <1>11, <1>12, <1>13
        DEF Next, InvestStep

\* What a transaction leaves behind is an amount of tokens in each reserve.
LEMMA MovedType ==
  ASSUME Weightless, NEW S
  PROVE  Moved(S) \in Amounts
BY DEF Moved, Weightless, Amounts

LEMMA WeightlessStep == Weightless /\ [Next]_vars => Weightless'
<1> SUFFICES ASSUME Weightless, [Next]_vars PROVE Weightless'
  OBVIOUS
<1> USE DEF Weightless
<1>1. ASSUME UNCHANGED <<target, blacklist, fresh, pending>>, held' \in Amounts,
             known' \in {known, {}}
      PROVE  Weightless'
  BY <1>1
<1>2. CASE StartPass \/ TakeUp \/ Weigh \/ Build \/ ReadExclusions \/ SendBatch \/ SendOne
           \/ Finish \/ LoseOne \/ SkipVault \/ RestartLoop
  <2>1. UNCHANGED <<target, blacklist, fresh, pending>>
    BY <1>2 DEF StartPass, TakeUp, Weigh, Build, ReadExclusions, SendBatch, SendOne, Finish,
                LoseOne, Lost, SkipVault, RestartLoop, chain, worker
  <2>2. known' \in {known, {}}
    BY <1>2 DEF StartPass, TakeUp, Weigh, Build, ReadExclusions, SendBatch, SendOne, Finish,
                LoseOne, Lost, SkipVault, RestartLoop, Leave, decision
  <2>3. held' \in Amounts
    BY <1>2, MovedType DEF StartPass, TakeUp, Weigh, Build, ReadExclusions, SendBatch, SendOne, Finish,
                LoseOne, Lost, Lands, SkipVault, RestartLoop, chain
  <2> QED BY <1>1, <2>1, <2>2, <2>3
<1>3. CASE Gate
  <2>1. UNCHANGED <<target, held, blacklist, fresh, pending>>
    BY <1>3 DEF Gate, chain, worker
  <2>2. known' = {} \/ (known' = blacklist \ fresh /\ pending = {})
    BY <1>3 DEF Gate, Blocked, Leave
  <2> QED BY <2>1, <2>2
<1>4. CASE (\E r \in Reserves : Elapse(r)) \/ TellExclusions \/ Break \/ InvestedElsewhere
           \/ Evacuate
  <2>1. held' \in Amounts
    BY <1>4, MovedType, InvestAssumption DEF Elapse, TellExclusions, Break, InvestedElsewhere, Evacuate,
                                  chain, Amounts
  <2> QED
  BY <1>1, <1>4, <2>1 DEF Elapse, TellExclusions, Break, InvestedElsewhere, Evacuate, chain, worker,
                    decision
<1>5. CASE RegisterEvacuation
  <2>1. /\ UNCHANGED <<target, held, blacklist, known>> /\ fresh # {} /\ fresh' = {}
        /\ pending' = {r \in fresh : target[r] > 0 \/ held[r] > 0}
    BY <1>5 DEF RegisterEvacuation, chain, decision
  <2>2. \A r \in fresh \cap Reserves : r \notin pending' => target[r] = 0
    <3> SUFFICES ASSUME NEW r \in fresh \cap Reserves, r \notin pending' PROVE target[r] = 0
      OBVIOUS
    <3>1. target[r] \in 0..Assets /\ Assets \in Nat
      BY InvestAssumption DEF Amounts
    <3>2. ~(target[r] > 0)
      BY <2>1
    <3> QED BY <3>1, <3>2
  <2>3. pending' \subseteq blacklist
    BY <2>1
  <2> QED BY <2>1, <2>2, <2>3
<1>6. CASE ZeroWeight
  <2>1. PICK r \in pending : target' = [target EXCEPT ![r] = 0]
    BY <1>6 DEF ZeroWeight
  <2>2. UNCHANGED <<held, blacklist, fresh, pending, known>>
    BY <1>6 DEF ZeroWeight, worker, decision
  <2>3. target' \in Amounts
    <3>1. 0 \in 0..Assets
      BY InvestAssumption
    <3> QED BY <2>1, <3>1 DEF Amounts
  <2>4. \A q \in Reserves : target[q] = 0 => target'[q] = 0
    BY <2>1 DEF Amounts
  <2> QED BY <2>2, <2>3, <2>4
<1>7. CASE ClearEvacuation
  BY <1>7 DEF ClearEvacuation, chain, decision
<1>8. CASE Blacklist
  BY <1>8, InvestAssumption DEF Blacklist, chain, decision
<1>9. CASE Rebalance
  <2>1. PICK wanted \in Holdings : (\A r \in blacklist : wanted[r] = 0) /\ target' = wanted
    BY <1>9 DEF Rebalance
  <2>2. UNCHANGED <<held, blacklist, fresh, pending, known>>
    BY <1>9 DEF Rebalance, worker, decision
  <2> QED BY <2>1, <2>2 DEF Holdings
<1>10. CASE UNCHANGED vars
  BY <1>10 DEF vars, chain, worker, decision
<1> QED BY <1>2, <1>3, <1>4, <1>5, <1>6, <1>7, <1>8, <1>9, <1>10 DEF Next, InvestStep, Response

-----------------------------------------------------------------------------
\* A reserve that has been excluded since before the plan was built gets no
\* instruction to deposit (investing_loop.ts:189).
THEOREM ExclusionsAreHonoured == Spec => []ExclusionsHonoured
<1>1. Init => Honoured
  BY DEF Init, Honoured, ExclusionsHonoured
<1>2. Honoured => ExclusionsHonoured
  BY DEF Honoured
<1> QED BY <1>1, <1>2, HonouredStep, PTL DEF Spec

\* A reserve whose evacuation was written down when the gate was passed has no
\* weight from then on: whatever was loaded before, an instruction for it
\* withdraws (investDecision.ts:122).
THEOREM KnownIsWeightless == Spec => [](\A r \in known \cap Reserves : target[r] = 0)
<1>1. Init => Weightless
  BY InvestAssumption DEF Init, Weightless, Holdings, Amounts, Empty
<1>2. Weightless => \A r \in known \cap Reserves : target[r] = 0
  BY DEF Weightless
<1> QED BY <1>1, <1>2, WeightlessStep, PTL DEF Spec

\* What the loop sends never puts tokens into a reserve whose evacuation was
\* written down when the gate was passed (sendInvestIxsPerReserve).
THEOREM KnownGetsNoDeposit == Spec => NoDepositOnceKnown
<1>1. ASSUME Weightless, Weightless', [Next]_vars, pc = "sending",
             <<InvestStep \/ LoseOne>>_vars, NEW r \in known
      PROVE  held'[r] <= held[r]
  <2>1. r \in Reserves /\ target[r] = 0
    BY <1>1 DEF Weightless
  <2>2. held' = held \/ \E batch : held' = Moved(batch)
    BY <1>1 DEF InvestStep, StartPass, TakeUp, Gate, Weigh, Build, ReadExclusions, SendBatch,
                SendOne, Finish, LoseOne, Lost, Lands, chain
  <2>3. held[r] \in Nat
    BY <1>1, <2>1, InvestAssumption DEF Weightless, Amounts
  <2>4. ASSUME NEW batch, held' = Moved(batch) PROVE held'[r] \in {0, held[r]}
    BY <2>1, <2>4 DEF Moved
  <2> QED BY <2>2, <2>3, <2>4
<1>2. Init => Weightless
  BY InvestAssumption DEF Init, Weightless, Holdings, Amounts, Empty
<1>3. Weightless /\ Weightless' /\ [Next]_vars =>
        [pc = "sending" /\ <<InvestStep \/ LoseOne>>_vars
           => \A r \in known : held'[r] <= held[r]]_vars
  BY <1>1
<1> QED BY <1>2, <1>3, WeightlessStep, PTL DEF Spec, NoDepositOnceKnown

\* No tokens are owed by nobody.
LEMMA TotalOfNone == \A tokens : Total(tokens, {}) = 0
<1> SUFFICES ASSUME NEW tokens PROVE Total(tokens, {}) = 0
  OBVIOUS
<1> DEFINE Least(s) == CHOOSE x \in s : TRUE
           Unfolds(g) == g = [s \in SUBSET {} |->
                                IF s = {} THEN 0 ELSE tokens[Least(s)] + g[s \ {Least(s)}]]
           g == CHOOSE g : Unfolds(g)
<1>1. Total(tokens, {}) = g[{}]
  BY DEF Total, MapThenSumSet, MapThenFoldSet
<1>2. Unfolds([s \in SUBSET {} |-> 0])
  OBVIOUS
<1>3. Unfolds(g)
  <2> HIDE DEF Unfolds
  <2> QED BY <1>2
<1> HIDE DEF g
<1> QED BY <1>1, <1>3

\* A cooldown starts only for a fault of the reserve's own (recordProgramFailure).
LEMMA CoolingIsOwn ==
  ASSUME Accounted, Weightless, [Next]_vars, NEW r \in cooling' \ cooling
  PROVE  \/ r \in broken
         \/ target[r] - held[r] - Total([m \in Reserves |-> held[m] - target[m]], Owing(r)) >
              Assets - Total(held, Reserves)
<1>1. SendOne
  BY DEF Next, vars, InvestStep, Response, StartPass, TakeUp, Gate, Weigh, Build,
         ReadExclusions, SendBatch, Finish, LoseOne, Lost, SkipVault, RestartLoop, Elapse,
         RegisterEvacuation, ZeroWeight, Evacuate, ClearEvacuation, Blacklist, Rebalance,
         InvestedElsewhere, TellExclusions, Break
<1>2. /\ pc = "sending"
      /\ r \in First(1, IF solo # {} THEN solo ELSE rest)
      /\ ~Executes({r})
      /\ RecordFailure(r, Answer(held, r))
  BY <1>1 DEF SendOne, RecordFailure
<1>3. r \in out \cup in /\ \A q \in rest \cup solo : ~Before(q, r)
  <2>1. CASE solo # {}
    <3>1. r \in solo /\ \A q \in solo : ~Before(q, r)
      BY <1>2, <2>1, FirstOneIsLeast DEF Accounted, First
    <3>2. \A q \in rest : Before(r, q)
      BY <3>1 DEF Accounted
    <3>3. \A q \in rest : ~Before(q, r)
      BY <3>1, <3>2, PlanOrder DEF Accounted
    <3> QED BY <3>1, <3>3 DEF Accounted
  <2>2. CASE solo = {}
    BY <1>2, <2>2, FirstOneIsLeast DEF Accounted, First
  <2> QED BY <2>1, <2>2
<1>4. Answer(held, r) # "done"
  <2>1. {q \in {r} : Before(q, r)} = {}
    BY <1>3, PlanOrder DEF Accounted
  <2>2. Moved({}) = held
    BY DEF Moved, Weightless, Amounts
  <2> QED BY <1>2, <2>1, <2>2 DEF Executes
<1>5. /\ Answer(held, r) # "minimum"
      /\ Answer(held, r) = "funds" => \A m \in missing : ~Before(m, r)
  BY <1>2 DEF RecordFailure
<1>6. CASE r \in broken
  BY <1>6
<1>7. CASE r \notin broken
  <2>1. /\ target[r] - held[r] > Assets - Total(held, Reserves)
        /\ \A m \in missing : ~Before(m, r)
    BY <1>4, <1>5, <1>7 DEF Answer
  <2>2. Owing(r) = {}
    BY <1>2, <1>3, <2>1 DEF Owing, Accounted
  <2>3. target[r] \in Int /\ held[r] \in Int
    BY <1>3, InvestAssumption DEF Accounted, Weightless, Amounts
  <2> QED BY <2>1, <2>2, <2>3, TotalOfNone
<1> QED BY <1>6, <1>7

\* For every plan, order of failures and change from outside, no reserve cools down
\* for the funds that another instruction of its plan owed it.
THEOREM NobodyBlamedForAnother == Spec => NoReserveBlamedForAnother
<1>1. Init => Accounted /\ Weightless
  BY InvestAssumption DEF Init, Accounted, Weightless, Holdings, Amounts, Empty
<1>2. Accounted /\ Weightless /\ [Next]_vars =>
        [\A r \in cooling' \ cooling :
           \/ r \in broken
           \/ target[r] - held[r] - Total([m \in Reserves |-> held[m] - target[m]], Owing(r)) >
                Assets - Total(held, Reserves)]_vars
  BY CoolingIsOwn
<1> QED BY <1>1, <1>2, AccountedStep, WeightlessStep, PTL DEF Spec, NoReserveBlamedForAnother
=============================================================================
