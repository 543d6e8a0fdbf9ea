-------------------------- MODULE VaultRebalanceProofs --------------------------
(***************************************************************************)
(* The retry delay, the guarded invest, the honest schedule and the types  *)
(* of VaultRebalance, for every number of vaults and reserves, every       *)
(* configuration and any number of faults and of updates that land late.   *)
(***************************************************************************)
EXTENDS VaultRebalance, FiniteSetTheorems, WellFoundedInduction, TLAPS

-----------------------------------------------------------------------------
(* The retry delay                                                         *)
(*                                                                         *)
(* A recursive function on the naturals is defined because each of its     *)
(* segments is; the inductions take the smallest number for which a claim  *)
(* fails.                                                                  *)

LEMMA LeastNatural ==
  ASSUME NEW N \in SUBSET Nat, N # {}
  PROVE  \E n \in N : \A k \in N : n <= k
<1>1. PICK n \in N : TRUE
  OBVIOUS
<1> DEFINE S == 0..n
           Segments == {0..m : m \in {i \in N : i <= n}}
<1>2. Segments \subseteq SUBSET S /\ Segments # {}
  OBVIOUS
<1>3. PICK T \in Segments : \A U \in Segments : <<U, T>> \notin StrictSubsetOrdering(S)
  <2>1. IsFiniteSet(S)
    BY FS_Interval
  <2>2. IsWellFoundedOn(StrictSubsetOrdering(S), SUBSET S)
    <3> HIDE DEF S
    <3> QED BY <2>1, FS_StrictSubsetOrderingWellFounded, FS_FiniteSubsetsOfFinite
  <2> HIDE DEF Segments, S
  <2> QED BY <1>2, <2>2, WFMin
<1>4. PICK m \in N : m <= n /\ T = 0..m
  OBVIOUS
<1>5. ASSUME NEW i \in N, i < m PROVE FALSE
  <2>1. 0..i \in Segments
    BY <1>4, <1>5
  <2>2. <<0..i, 0..m>> \in StrictSubsetOrdering(S)
    <3>1. 0..i \subseteq 0..m /\ m \in 0..m /\ m \notin 0..i /\ 0..m \subseteq S
      BY <1>4, <1>5
    <3> QED BY <3>1 DEF StrictSubsetOrdering
  <2> HIDE DEF Segments
  <2> QED BY <1>3, <1>4, <2>1, <2>2
<1> QED BY <1>4, <1>5

Powers(f, n) == f = [k \in 0..n |-> IF k = 0 THEN 1 ELSE 2 * f[k - 1]]

LEMMA PowersAgree ==
  ASSUME NEW f, NEW g, NEW n \in Nat, NEW m \in Nat, Powers(f, n), Powers(g, m),
         NEW i \in 0..n, i <= m
  PROVE  f[i] = g[i]
<1> DEFINE Bad == {k \in 0..n : k <= m /\ f[k] # g[k]}
<1>1. SUFFICES ASSUME Bad # {} PROVE FALSE
  OBVIOUS
<1>2. PICK k \in Bad : \A j \in Bad : k <= j
  <2>1. Bad \in SUBSET Nat
    OBVIOUS
  <2> HIDE DEF Bad
  <2> QED BY <1>1, <2>1, LeastNatural
<1>3. /\ f[k] = IF k = 0 THEN 1 ELSE 2 * f[k - 1]
      /\ g[k] = IF k = 0 THEN 1 ELSE 2 * g[k - 1]
  BY <1>2 DEF Powers
<1>4. k # 0 => f[k - 1] = g[k - 1]
  BY <1>2
<1> QED BY <1>2, <1>3, <1>4

LEMMA PowersExist ==
  ASSUME NEW n \in Nat
  PROVE  \E f : Powers(f, n)
<1> DEFINE Bad == {k \in Nat : ~ \E f : Powers(f, k)}
<1>1. SUFFICES ASSUME Bad # {} PROVE FALSE
  OBVIOUS
<1>2. PICK k \in Bad : \A j \in Bad : k <= j
  <2>1. Bad \in SUBSET Nat
    OBVIOUS
  <2> HIDE DEF Bad
  <2> QED BY <1>1, <2>1, LeastNatural
<1>3. CASE k = 0
  <2> DEFINE f == [j \in 0..0 |-> 1]
  <2>1. f = [j \in 0..0 |-> IF j = 0 THEN 1 ELSE 2 * f[j - 1]]
    OBVIOUS
  <2> QED BY <1>2, <1>3, <2>1 DEF Powers
<1>4. CASE k # 0
  <2>1. k - 1 \in Nat /\ k - 1 \notin Bad
    BY <1>2, <1>4
  <2>2. PICK g : Powers(g, k - 1)
    BY <2>1
  <2> DEFINE f == [j \in 0..k |-> IF j = 0 THEN 1 ELSE 2 * g[j - 1]]
  <2>3. \A j \in 0..(k - 1) : f[j] = g[j]
    <3>1. \A j \in 0..(k - 1) : g[j] = IF j = 0 THEN 1 ELSE 2 * g[j - 1]
      BY <2>2 DEF Powers
    <3> QED BY <2>1, <3>1
  <2>4. \A j \in 0..k : f[j] = IF j = 0 THEN 1 ELSE 2 * f[j - 1]
    <3> SUFFICES ASSUME NEW j \in 0..k PROVE f[j] = IF j = 0 THEN 1 ELSE 2 * f[j - 1]
      OBVIOUS
    <3>1. f[j] = IF j = 0 THEN 1 ELSE 2 * g[j - 1]
      OBVIOUS
    <3>2. j # 0 => j - 1 \in 0..(k - 1)
      BY <2>1
    <3> HIDE DEF f
    <3> QED BY <2>3, <3>1, <3>2
  <2>5. f = [j \in 0..k |-> f[j]]
    OBVIOUS
  <2> HIDE DEF f
  <2>6. Powers(f, k)
    BY <2>4, <2>5 DEF Powers
  <2> QED BY <1>2, <2>6
<1> QED BY <1>3, <1>4

LEMMA PowersUnfold ==
  \A n \in Nat : PowerOfTwo[n] = IF n = 0 THEN 1 ELSE 2 * PowerOfTwo[n - 1]
<1> DEFINE All(f) == f = [n \in Nat |-> IF n = 0 THEN 1 ELSE 2 * f[n - 1]]
           Of(n) == CHOOSE f : Powers(f, n)
           f == [n \in Nat |-> Of(n)[n]]
<1>1. \A n \in Nat : Powers(Of(n), n)
  BY PowersExist
<1> HIDE DEF Of
<1>2. ASSUME NEW n \in Nat PROVE f[n] = IF n = 0 THEN 1 ELSE 2 * f[n - 1]
  <2>1. Of(n)[n] = IF n = 0 THEN 1 ELSE 2 * Of(n)[n - 1]
    <3>1. n \in 0..n
      OBVIOUS
    <3> QED BY <1>1, <3>1 DEF Powers
  <2>2. n # 0 => Of(n)[n - 1] = Of(n - 1)[n - 1]
    <3> SUFFICES ASSUME n # 0 PROVE Of(n)[n - 1] = Of(n - 1)[n - 1]
      OBVIOUS
    <3> DEFINE i == n - 1
    <3>1. i \in Nat /\ i \in 0..n /\ i <= i
      OBVIOUS
    <3>2. Powers(Of(n), n) /\ Powers(Of(i), i)
      BY <1>1, <3>1
    <3> HIDE DEF i
    <3>3. Of(n)[i] = Of(i)[i]
      BY <3>1, <3>2, PowersAgree
    <3> QED BY <3>3 DEF i
  <2> QED BY <2>1, <2>2
<1>3. f = [n \in Nat |-> f[n]]
  OBVIOUS
<1>4. \E g : All(g)
  <2> HIDE DEF f
  <2>1. All(f)
    BY <1>2, <1>3
  <2> QED BY <2>1
<1>5. PowerOfTwo = CHOOSE g : All(g)
  BY DEF PowerOfTwo
<1>6. All(PowerOfTwo)
  BY <1>4, <1>5
<1> HIDE DEF f
<1> QED BY <1>6

LEMMA PowersGrow ==
  ASSUME NEW n \in Nat
  PROVE  PowerOfTwo[n] \in Nat \ {0}
<1> DEFINE Bad == {k \in Nat : PowerOfTwo[k] \notin Nat \ {0}}
<1>1. SUFFICES ASSUME Bad # {} PROVE FALSE
  OBVIOUS
<1>2. PICK k \in Bad : \A j \in Bad : k <= j
  <2>1. Bad \in SUBSET Nat
    OBVIOUS
  <2> HIDE DEF Bad
  <2> QED BY <1>1, <2>1, LeastNatural
<1>3. PowerOfTwo[k] = IF k = 0 THEN 1 ELSE 2 * PowerOfTwo[k - 1]
  BY <1>2, PowersUnfold
<1>4. k # 0 => k - 1 \in Nat /\ PowerOfTwo[k - 1] \in Nat \ {0}
  BY <1>2
<1> QED BY <1>2, <1>3, <1>4

\* The pass interval is no longer than the frequency of any vault.
LEMMA IntervalShortest ==
  ASSUME config \in Configs, NEW v \in Vaults
  PROVE  /\ PassInterval \in Nat \ {0}
         /\ config[v].frequency \in Nat \ {0}
         /\ PassInterval <= config[v].frequency
<1> DEFINE F == {config[w].frequency : w \in Vaults}
<1>1. F \in SUBSET Nat /\ F # {} /\ \A w \in Vaults : config[w].frequency \in Nat \ {0}
  BY RebalanceAssumption DEF Config
<1>2. \E f \in F : \A g \in F : f <= g
  <2> HIDE DEF F
  <2> QED BY <1>1, LeastNatural
<1>3. \E f \in F : \A w \in Vaults : f <= config[w].frequency
  BY <1>2
<1>4. /\ MinFrequency \in F
      /\ \A w \in Vaults : MinFrequency <= config[w].frequency
  BY <1>3 DEF MinFrequency
<1>5. MinFrequency \in Nat \ {0} /\ MinFrequency <= config[v].frequency
  BY <1>1, <1>4
<1> QED BY <1>1, <1>5, RebalanceAssumption DEF PassInterval, Smaller

\* A failed rebalance is tried again after one pass interval, a further one later
\* and later, and each as soon as the frequency of the vault has passed
\* (VaultRebalanceSchedule.recordFailure).
THEOREM RetriesBackOff ==
  ASSUME config \in Configs, NEW v \in Vaults, NEW count \in Nat \ {0}
  PROVE  /\ Delay(v, 1) = PassInterval
         /\ Delay(v, count) \in PassInterval..config[v].frequency
         /\ \/ Delay(v, count + 1) = 2 * Delay(v, count)
            \/ Delay(v, count + 1) = config[v].frequency
<1> DEFINE p == PassInterval  q == config[v].frequency  n == count - 1
           x == PowerOfTwo[n]  y == PowerOfTwo[n + 1]
<1>1. p \in Nat \ {0} /\ q \in Nat \ {0} /\ p <= q
  BY IntervalShortest
<1>2. n \in Nat /\ n + 1 \in Nat /\ count + 1 - 1 = n + 1
  OBVIOUS
<1>3. x \in Nat \ {0} /\ y = 2 * x
  <2>1. y = IF n + 1 = 0 THEN 1 ELSE 2 * PowerOfTwo[n + 1 - 1]
    BY <1>2, PowersUnfold
  <2> QED BY <1>2, <2>1, PowersGrow
<1>4. PowerOfTwo[1 - 1] = 1
  BY PowersUnfold
<1>5. /\ Delay(v, 1) = Smaller(p * 1, q)
      /\ Delay(v, count) = Smaller(p * x, q)
      /\ Delay(v, count + 1) = Smaller(p * y, q)
  BY <1>2, <1>4 DEF Delay
<1> HIDE DEF p, q, n, x, y
<1>6. p * y = 2 * (p * x) /\ p * x \in Nat /\ p <= p * x
  BY <1>1, <1>3
<1>7. /\ Smaller(p * 1, q) = p
      /\ Smaller(p * x, q) \in p..q
      /\ Smaller(p * y, q) = 2 * Smaller(p * x, q) \/ Smaller(p * y, q) = q
  BY <1>1, <1>6 DEF Smaller
<1> QED BY <1>5, <1>7 DEF p, q

-----------------------------------------------------------------------------
(* The invariant                                                           *)

Investing == {"reload", "invest", "invested"}

\* What the loop knows between its steps: an invest finds the weights that the
\* strategy chose, and those leave the blacklist of the pass out, unless an update
\* has landed late; after its check it finds no blacklisted reserve, but those
\* that have risen since.
IInv ==
  /\ config \in Configs
  /\ weighted \in [Vaults -> SUBSET Reserves] /\ update \subseteq Reserves
  /\ late \subseteq LateUpdate
  /\ age \in [Vaults -> Nat]
  /\ due \subseteq Vaults
  /\ pc \in {"sleep", "compute", "send"} \cup Investing
  /\ pc \in Investing =>
       \A v \in Vaults : IsNext(v) => weighted[v] = update \/ overtaken
  /\ pc = "invest" => \A v \in Vaults : IsNext(v) => weighted[v] \cap seen \subseteq risen
  /\ pc \in {"send"} \cup Investing /\ ~failed => update \cap seen = {}
  /\ pc # "invested" => funded = {}
  /\ InvestGuarded

\* The pass works on one vault at a time.
LEMMA OneNext ==
  ASSUME due \subseteq Vaults, NEW v, NEW w, IsNext(v), IsNext(w)
  PROVE  v = w
BY RebalanceAssumption DEF IsNext

\* The frequency of a vault is positive, so that never is later than now.
LEMMA NeverPositive ==
  ASSUME config \in Configs, NEW v \in Vaults
  PROVE  Never(v) \in Nat \ {0}
BY RebalanceAssumption DEF Config, Never

\* The outcome of a vault moves its schedule alone, and leaves the send behind.
LEMMA FinishMoves ==
  ASSUME IInv, NEW v \in Vaults, NEW outcome, Finish(v, outcome)
  PROVE  /\ age' \in [Vaults -> Nat] /\ due' \subseteq Vaults
         /\ pc' \in {"sleep", "compute"} /\ update' = {} /\ funded' = {}
         /\ \A w \in Vaults : w # v => age'[w] = age[w]
         /\ age[v] > 0 /\ age'[v] = 0 => IsRebalanceDone(outcome, failed)
         /\ UNCHANGED <<config, black>>
<1>1. due' \subseteq Vaults /\ pc' \in {"sleep", "compute"}
  BY DEF Finish, Leave, LeaveWith, IInv
<1>2. UNCHANGED <<config, black>> /\ update' = {} /\ funded' = {}
  BY DEF Finish, Reset
<1>3. CASE IsRebalanceDone(outcome, failed)
  BY <1>1, <1>2, <1>3 DEF Finish, RecordDone, IInv
<1>4. CASE ~IsRebalanceDone(outcome, failed)
  BY <1>1, <1>2, <1>4 DEF Finish, RecordFailure, IInv
<1> QED BY <1>3, <1>4

\* Only late updates of vaults and reserves are left behind.
LEMMA GivenUpTyped ==
  ASSUME late \subseteq LateUpdate, weighted \in [Vaults -> SUBSET Reserves],
         update \subseteq Reserves, NEW v \in Vaults, GiveUp(v)
  PROVE  late' \subseteq LateUpdate
<1>1. CASE UNCHANGED late
  BY <1>1
<1>2. ASSUME NEW nr \in 1..MaxLate, NEW resized \in SUBSET (update \cap weighted[v]),
             late' = late \cup
               {[nr |-> nr, vault |-> v, on |-> (update \ weighted[v]) \cup resized,
                 off |-> weighted[v] \ update]}
      PROVE  late' \subseteq LateUpdate
  BY <1>2 DEF LateUpdate
<1> QED BY <1>1, <1>2 DEF GiveUp

\* A late landing changes one vault's weights, which the invest under way is told.
LEMMA LateLanding ==
  ASSUME IInv, NEW u \in late, LandLate(u)
  PROVE  IInv'
<1>1. /\ u \in LateUpdate /\ u.vault \in Vaults /\ u.on \subseteq Reserves
      /\ late' \subseteq LateUpdate
  BY DEF IInv, LateUpdate, LandLate
<1>2. weighted' \in [Vaults -> SUBSET Reserves]
  BY <1>1 DEF IInv, LandLate
<1>3. /\ UNCHANGED <<config, black, funded, age, pc, due, seen, update, failed>>
      /\ \A w \in Vaults \ {u.vault} : weighted'[w] = weighted[w]
      /\ weighted'[u.vault] \subseteq weighted[u.vault] \cup u.on
      /\ risen \subseteq risen'
      /\ pc = "invest" /\ IsNext(u.vault) => risen' = risen \cup u.on
      /\ overtaken => overtaken'
      /\ pc \in Investing /\ IsNext(u.vault) => overtaken'
  BY <1>1 DEF IInv, LandLate, schedule, rebalance, Investing
<1>4. \A w \in Vaults : IsNext(w)' <=> IsNext(w)
  BY <1>3 DEF IsNext
<1>5. pc \in Investing =>
        \A w \in Vaults : IsNext(w)' => weighted'[w] = update \/ overtaken'
  BY <1>3, <1>4 DEF IInv
<1>6. pc = "invest" =>
        \A w \in Vaults : IsNext(w)' => weighted'[w] \cap seen \subseteq risen'
  <2> SUFFICES ASSUME pc = "invest", NEW w \in Vaults, IsNext(w)
               PROVE  weighted'[w] \cap seen \subseteq risen'
    BY <1>4
  <2>1. weighted[w] \cap seen \subseteq risen
    BY DEF IInv
  <2>2. CASE w = u.vault
    BY <1>3, <2>1, <2>2
  <2>3. CASE w # u.vault
    BY <1>3, <2>1, <2>3
  <2> QED BY <2>2, <2>3
<1> QED BY <1>1, <1>2, <1>3, <1>5, <1>6 DEF IInv, InvestGuarded

\* Every step keeps the invariant.
LEMMA StepKeepsInvariant == IInv /\ [Next]_vars => IInv'
<1> SUFFICES ASSUME IInv, [Next]_vars PROVE IInv'
  OBVIOUS
<1> USE DEF IInv, InvestGuarded, Investing, rebalance, schedule, history
<1>1. CASE StartPass
  <2>1. weighted' \in [Vaults -> SUBSET Reserves] /\ due' \subseteq Vaults
        /\ pc' \in {"sleep", "compute"}
    BY <1>1 DEF StartPass, LeaveWith
  <2> QED BY <1>1, <2>1 DEF StartPass
<1>2. ASSUME NEW v \in Vaults, NotComputed(v) PROVE IInv'
  BY <1>2 DEF NotComputed, Leave, LeaveWith
<1>3. ASSUME NEW v \in Vaults, Rebalance(v) PROVE IInv'
  BY <1>3 DEF Rebalance, Computed
<1>4. ASSUME NEW v \in Vaults, StrategyFails(v) PROVE IInv'
  <2>1. PICK weights \in SUBSET Reserves, investAllowed \in BOOLEAN :
          Computed(v, weights, TRUE, investAllowed)
    BY <1>4 DEF StrategyFails
  <2> QED BY <2>1 DEF Computed
<1>5. ASSUME NEW v \in Vaults, NEW outcome, Finish(v, outcome),
             weighted' \in [Vaults -> SUBSET Reserves], late' \subseteq LateUpdate
      PROVE  IInv'
  BY <1>5, FinishMoves
<1>6. ASSUME NEW v \in Vaults,
             \/ DryRun(v) \/ TooLarge(v) \/ SendFails(v) \/ Invested(v) \/ InvestFails(v)
      PROVE  IInv'
  <2>1. UNCHANGED weighted /\ late' \subseteq LateUpdate
    BY <1>6, GivenUpTyped DEF DryRun, TooLarge, SendFails, Invested, InvestFails
  <2>2. \E outcome : Finish(v, outcome)
    BY <1>6 DEF DryRun, TooLarge, SendFails, Invested, InvestFails
  <2> QED BY <1>5, <2>1, <2>2
<1>7. ASSUME NEW v \in Vaults, Send(v) PROVE IInv'
  <2>1. weighted' = [weighted EXCEPT ![v] = update] /\ UNCHANGED late /\ IsNext(v)
    BY <1>7 DEF Send
  <2>2. CASE allowed
    <3>1. UNCHANGED <<config, age, due, update, failed, seen, funded>> /\ pc = "send"
          /\ pc' = "reload" /\ UNCHANGED history
      BY <1>7, <2>2 DEF Send
    <3>2. \A w \in Vaults : IsNext(w)' => w = v
      BY <2>1, <3>1, OneNext DEF IsNext
    <3> QED BY <2>1, <3>1, <3>2
  <2>3. CASE ~allowed
    <3>1. \E outcome : Finish(v, outcome)
      BY <1>7, <2>3 DEF Send
    <3> QED BY <1>5, <2>1, <3>1
  <2> QED BY <2>2, <2>3
<1>8. ASSUME NEW v \in Vaults, Reload(v) PROVE IInv'
  <2>1. \A w \in Vaults : IsNext(w)' => w = v
    BY <1>8, OneNext DEF Reload, InvestStep, IsNext
  <2> QED BY <1>8, <2>1 DEF Reload, InvestStep, MayInvest, IsNext
<1>9. ASSUME NEW v \in Vaults, Invest(v) PROVE IInv'
  BY <1>9 DEF Invest, InvestStep, IsNext
<1>10. CASE Tick
  <2>1. age' \in [Vaults -> Nat]
    BY <1>10, NeverPositive DEF Tick, Smaller
  <2> QED BY <1>10, <2>1 DEF Tick, IsNext
<1>11. CASE BlacklistChanges
  BY <1>11 DEF BlacklistChanges, IsNext
<1>12. CASE Restart
  <2>1. age' \in [Vaults -> Nat]
    BY <1>12, NeverPositive DEF Restart
  <2>2. late' \subseteq LateUpdate
    BY <1>12, GivenUpTyped DEF Restart
  <2> QED BY <1>12, <2>1, <2>2 DEF Restart, Reset
<1>13. CASE UNCHANGED vars
  BY <1>13 DEF vars, IsNext
<1>14. ASSUME NEW u \in late, LandLate(u) PROVE IInv'
  BY <1>14, LateLanding
<1> QED
  BY <1>1, <1>2, <1>3, <1>4, <1>6, <1>7, <1>8, <1>9, <1>10, <1>11, <1>12, <1>13, <1>14
  DEF Next, Step

\* The invariant holds in every state.
THEOREM Invariance == Spec => []IInv
<1>1. Init => IInv
  BY NeverPositive DEF Init, IInv, InvestGuarded, Investing
<1> QED BY <1>1, StepKeepsInvariant, PTL DEF Spec

\* For any number of vaults, faults and late updates, an invest puts tokens into a
\* reserve that its pass knows to be blacklisted only if an update has landed
\* since the check of the invest and has given it weight (sendVaultRebalance).
THEOREM InvestsGuarded == Spec => []InvestGuarded
BY Invariance, PTL DEF IInv

\* A rebalance that counts has left the weights of its strategy on chain, unless
\* an update has landed after its own.
LEMMA StepIsHonest ==
  ASSUME IInv, [Next]_vars, NEW v \in Vaults,
         age[v] > 0, age'[v] = 0, ~config[v].dryRun
  PROVE  /\ ~failed /\ update \cap seen = {}
         /\ weighted'[v] = update \/ overtaken
<1> USE DEF IInv
<1>1. CASE StartPass
  BY <1>1 DEF StartPass, schedule
<1>2. ASSUME NEW w \in Vaults, NotComputed(w) PROVE FALSE
  BY <1>2 DEF NotComputed, schedule
<1>3. ASSUME NEW w \in Vaults, Rebalance(w) \/ StrategyFails(w) PROVE FALSE
  BY <1>3 DEF Rebalance, StrategyFails, Computed, schedule
<1>4. ASSUME NEW w \in Vaults, DryRun(w) PROVE FALSE
  BY <1>4, FinishMoves DEF DryRun
<1>5. ASSUME NEW w \in Vaults, Send(w)
      PROVE  ~failed /\ weighted'[v] = update /\ update \cap seen = {}
  <2>1. ~allowed
    BY <1>5 DEF Send, schedule
  <2>2. PICK outcome : Finish(w, outcome)
    BY <1>5, <2>1 DEF Send
  <2>3. v = w /\ ~failed
    BY <2>2, FinishMoves DEF IsRebalanceDone
  <2> QED BY <1>5, <2>3 DEF Send
<1>6. ASSUME NEW w \in Vaults, TooLarge(w) \/ SendFails(w) \/ InvestFails(w) PROVE FALSE
  BY <1>6, FinishMoves DEF TooLarge, SendFails, InvestFails, IsRebalanceDone
<1>7. ASSUME NEW w \in Vaults, Invested(w)
      PROVE  ~failed /\ update \cap seen = {} /\ (weighted'[v] = update \/ overtaken)
  <2>1. v = w /\ ~failed
    BY <1>7, FinishMoves DEF Invested, IsRebalanceDone
  <2> QED BY <1>7, <2>1 DEF Invested, Investing
<1>8. ASSUME NEW w \in Vaults, Reload(w) \/ Invest(w) PROVE FALSE
  BY <1>8 DEF Reload, Invest, InvestStep, schedule
<1>9. CASE Tick
  BY <1>9, NeverPositive DEF Tick, Smaller
<1>10. CASE BlacklistChanges
  BY <1>10 DEF BlacklistChanges, schedule
<1>11. CASE Restart
  BY <1>11, NeverPositive DEF Restart
<1>12. CASE UNCHANGED vars
  BY <1>12 DEF vars, schedule
<1>13. ASSUME NEW u \in late, LandLate(u) PROVE FALSE
  BY <1>13 DEF LandLate, schedule
<1> QED
  BY <1>1, <1>2, <1>3, <1>4, <1>5, <1>6, <1>7, <1>8, <1>9, <1>10, <1>11, <1>12, <1>13
  DEF Next, Step

\* For any number of vaults, faults and late updates, only a rebalance whose
\* strategy succeeded and whose weights are on chain counts towards the frequency;
\* an update that lands after its own alone may have changed them
\* (isRebalanceDone).
THEOREM RebalancesDone == Spec => DoneIsDone
<1>1. IInv /\ [Next]_vars =>
        [\A v \in Vaults :
           age[v] > 0 /\ age'[v] = 0 /\ ~config[v].dryRun =>
             /\ ~failed /\ update \cap seen = {}
             /\ weighted'[v] = update \/ overtaken]_vars
  BY StepIsHonest
<1> QED BY <1>1, Invariance, PTL DEF Spec, DoneIsDone
-----------------------------------------------------------------------------
(* The type invariant                                                      *)

ScheduleOK ==
  /\ age \in [Vaults -> Nat] /\ wait \in [Vaults -> Nat]
  /\ \A v \in Vaults : wait[v] <= config[v].frequency
  /\ failures \in [Vaults -> 0..MaxFailures]

\* Where the loop is, and the sleep that is left to it.
LoopOK ==
  /\ sleep \in 0..PassInterval
  /\ pc \in {"sleep", "compute", "send", "reload", "invest", "invested"}
  /\ due \subseteq Vaults /\ (due = {} <=> pc = "sleep")

WeightsOK ==
  /\ config \in Configs
  /\ black \subseteq Reserves /\ seen \subseteq Reserves /\ update \subseteq Reserves
  /\ weighted \in [Vaults -> SUBSET Reserves] /\ late \subseteq LateUpdate
  /\ funded \subseteq Reserves /\ risen \subseteq Reserves
  /\ farmData \in BOOLEAN /\ failed \in BOOLEAN /\ allowed \in BOOLEAN
  /\ overtaken \in BOOLEAN
  /\ faults \in 0..MaxFaults

TypeInv == ScheduleOK /\ LoopOK /\ WeightsOK

\* A vault waits no longer for its retry than for its next rebalance.
LEMMA RecordedWait ==
  ASSUME TypeInv, NEW v \in Vaults, RecordDone(v) \/ RecordFailure(v), UNCHANGED config
  PROVE  ScheduleOK'
<1> DEFINE count == Smaller(failures[v] + 1, MaxFailures)
<1>1. count \in Nat \ {0} /\ count \in 0..MaxFailures
  BY RebalanceAssumption DEF TypeInv, ScheduleOK, Smaller
<1>2. /\ PassInterval \in Nat /\ config[v].frequency \in Nat
      /\ Delay(v, count) \in PassInterval..config[v].frequency
  <2> HIDE DEF count
  <2> QED BY <1>1, IntervalShortest, RetriesBackOff DEF TypeInv, WeightsOK
<1>3. Delay(v, count) \in Nat /\ Delay(v, count) <= config[v].frequency
  <2> HIDE DEF count
  <2> QED BY <1>2
<1>4. CASE RecordDone(v)
  BY <1>2, <1>4, RebalanceAssumption DEF RecordDone, TypeInv, ScheduleOK
<1>5. CASE RecordFailure(v)
  <2>1. /\ failures' = [failures EXCEPT ![v] = count]
        /\ wait' = [wait EXCEPT ![v] = Delay(v, count)] /\ UNCHANGED age
    BY <1>5 DEF RecordFailure
  <2> HIDE DEF count
  <2> QED BY <1>1, <1>3, <2>1 DEF TypeInv, ScheduleOK
<1> QED BY <1>4, <1>5

\* The loop leaves a vault, or takes up the first ones of a pass.
LEMMA Left ==
  ASSUME TypeInv, NEW rest \in SUBSET Vaults,
         NEW blacklist \in SUBSET Reserves, NEW farmsLoaded \in BOOLEAN,
         LeaveWith(rest, blacklist, farmsLoaded), UNCHANGED config
  PROVE  LoopOK' /\ seen' \subseteq Reserves /\ farmData' \in BOOLEAN
<1>1. UNCHANGED PassInterval
  BY DEF PassInterval, MinFrequency
<1> QED BY <1>1 DEF LeaveWith, TypeInv, LoopOK

LEMMA FinishTyped ==
  ASSUME TypeInv, NEW v \in Vaults, NEW outcome, Finish(v, outcome)
  PROVE  /\ ScheduleOK' /\ LoopOK' /\ UNCHANGED <<config, black>> /\ Reset
         /\ seen' \subseteq Reserves /\ farmData' \in BOOLEAN
<1>1. UNCHANGED <<config, black>> /\ Reset /\ Leave(v) /\ (RecordDone(v) \/ RecordFailure(v))
  BY DEF Finish
<1>2. due \ {v} \in SUBSET Vaults /\ seen \in SUBSET Reserves /\ farmData \in BOOLEAN
  BY DEF TypeInv, LoopOK, WeightsOK
<1> QED BY <1>1, <1>2, RecordedWait, Left DEF Leave

LEMMA FaultCounted ==
  ASSUME TypeInv, Fault \/ UNCHANGED faults
  PROVE  faults' \in 0..MaxFaults
BY RebalanceAssumption DEF TypeInv, WeightsOK, Fault

\* The vault's computation does not move the schedule nor the loop's place in it.
LEMMA ComputedTyped ==
  ASSUME TypeInv, NEW v \in Vaults, NEW weights \in SUBSET Reserves,
         NEW strategyFailed \in BOOLEAN, NEW investAllowed \in BOOLEAN,
         Computed(v, weights, strategyFailed, investAllowed), Fault \/ UNCHANGED faults
  PROVE  TypeInv'
<1>1. UNCHANGED PassInterval
  BY DEF Computed, PassInterval, MinFrequency
<1>2. ScheduleOK'
  BY DEF Computed, schedule, TypeInv, ScheduleOK
<1>3. LoopOK'
  BY <1>1 DEF Computed, TypeInv, LoopOK
<1>4. WeightsOK'
  BY FaultCounted DEF Computed, history, TypeInv, WeightsOK
<1> QED BY <1>2, <1>3, <1>4 DEF TypeInv

LEMMA TypeStep ==
  ASSUME TypeInv, [Next]_vars
  PROVE  TypeInv'
<1>1. CASE StartPass
  <2>1. UNCHANGED <<config, black, late, funded, history, schedule, rebalance>>
    BY <1>1 DEF StartPass
  <2>2. PICK cleared \in SUBSET Vaults, zeroed \in SUBSET Vaults, farmsLoaded \in BOOLEAN :
          /\ IF cleared = Vaults THEN UNCHANGED faults ELSE Fault
          /\ weighted' = [v \in Vaults |-> IF v \in zeroed THEN weighted[v] \ black
                                                           ELSE weighted[v]]
          /\ LeaveWith({v \in cleared : CanUpdate(v) /\ IsDue(v)}, black, farmsLoaded)
    BY <1>1 DEF StartPass
  <2>3. LoopOK' /\ seen' \subseteq Reserves /\ farmData' \in BOOLEAN
    <3> DEFINE rest == {v \in cleared : CanUpdate(v) /\ IsDue(v)}
    <3>1. rest \in SUBSET Vaults /\ LeaveWith(rest, black, farmsLoaded)
      BY <2>2
    <3>2. black \in SUBSET Reserves
      BY DEF TypeInv, WeightsOK
    <3> HIDE DEF rest
    <3> QED BY <2>1, <3>1, <3>2, Left
  <2>4. ScheduleOK'
    BY <2>1 DEF schedule, TypeInv, ScheduleOK
  <2>5. faults' \in 0..MaxFaults
    BY <2>2, FaultCounted
  <2>6. weighted' \in [Vaults -> SUBSET Reserves]
    BY <2>2 DEF TypeInv, WeightsOK
  <2>7. WeightsOK'
    BY <2>1, <2>3, <2>5, <2>6 DEF rebalance, history, TypeInv, WeightsOK
  <2> QED BY <2>3, <2>4, <2>7 DEF TypeInv
<1>2. ASSUME NEW v \in Vaults, NotComputed(v) PROVE TypeInv'
  <2>1. /\ UNCHANGED <<config, black, weighted, late, funded, history, schedule, rebalance>>
        /\ (Fault \/ UNCHANGED faults) /\ LeaveWith(due \ {v}, seen, farmData)
    BY <1>2 DEF NotComputed, Leave
  <2>2. due \ {v} \in SUBSET Vaults /\ seen \in SUBSET Reserves /\ farmData \in BOOLEAN
    BY DEF TypeInv, LoopOK, WeightsOK
  <2>3. LoopOK' /\ seen' \subseteq Reserves /\ farmData' \in BOOLEAN
    BY <2>1, <2>2, Left
  <2>4. ScheduleOK'
    BY <2>1 DEF schedule, TypeInv, ScheduleOK
  <2>5. WeightsOK'
    BY <2>1, <2>3, FaultCounted DEF rebalance, history, TypeInv, WeightsOK
  <2> QED BY <2>3, <2>4, <2>5 DEF TypeInv
<1>3. ASSUME NEW v \in Vaults, Rebalance(v) PROVE TypeInv'
  <2>1. PICK target \in SUBSET (Reserves \ seen) :
          Computed(v, target, FALSE, TRUE) /\ UNCHANGED faults
    BY <1>3 DEF Rebalance
  <2>2. target \in SUBSET Reserves
    OBVIOUS
  <2> QED BY <2>1, <2>2, ComputedTyped
<1>4. ASSUME NEW v \in Vaults, StrategyFails(v) PROVE TypeInv'
  <2>1. weighted[v] \in SUBSET Reserves /\ weighted[v] \ seen \in SUBSET Reserves
    BY DEF TypeInv, WeightsOK
  <2>2. PICK weights \in SUBSET Reserves, investAllowed \in BOOLEAN :
          Computed(v, weights, TRUE, investAllowed) /\ (Fault \/ UNCHANGED faults)
    BY <1>4, <2>1 DEF StrategyFails
  <2> QED BY <2>2, ComputedTyped
<1>5. ASSUME NEW v \in Vaults, NEW outcome, Finish(v, outcome),
             weighted' \in [Vaults -> SUBSET Reserves], late' \subseteq LateUpdate,
             Fault \/ UNCHANGED faults
      PROVE  TypeInv'
  <2>1. WeightsOK'
    BY <1>5, FinishTyped, FaultCounted DEF Reset, TypeInv, WeightsOK
  <2> QED BY <1>5, <2>1, FinishTyped DEF TypeInv
<1>6. ASSUME NEW v \in Vaults,
             \/ DryRun(v) \/ TooLarge(v) \/ Send(v) \/ SendFails(v) \/ Reload(v)
             \/ Invest(v) \/ Invested(v) \/ InvestFails(v)
      PROVE  TypeInv'
  <2>1. /\ weighted' \in {weighted, [weighted EXCEPT ![v] = update]}
        /\ UNCHANGED late \/ GiveUp(v)
        /\ Fault \/ UNCHANGED faults
    BY <1>6 DEF DryRun, TooLarge, Send, SendFails, Reload, Invest, InvestStep, Invested,
                InvestFails
  <2>2. weighted' \in [Vaults -> SUBSET Reserves] /\ late' \subseteq LateUpdate
    BY <2>1, GivenUpTyped DEF TypeInv, WeightsOK
  <2>3. CASE \E outcome : Finish(v, outcome)
    BY <1>5, <2>1, <2>2, <2>3
  <2>4. CASE ~ \E outcome : Finish(v, outcome)
    <3>1. /\ pc \in {"send", "reload", "invest"} /\ pc' \in {"reload", "invest", "invested"}
          /\ funded' \in {funded, weighted[v]} /\ IsNext(v)
          /\ UNCHANGED <<config, black, history, schedule, sleep, due, seen, farmData,
                         rebalance, faults>>
      BY <1>6, <2>4 DEF DryRun, TooLarge, Send, SendFails, Reload, Invest, InvestStep,
                        Invested, InvestFails
    <3>2. UNCHANGED PassInterval
      BY <3>1 DEF PassInterval, MinFrequency
    <3>3. ScheduleOK'
      BY <3>1 DEF schedule, TypeInv, ScheduleOK
    <3>4. LoopOK'
      BY <3>1, <3>2 DEF TypeInv, LoopOK
    <3>5. WeightsOK'
      BY <2>2, <3>1 DEF rebalance, history, TypeInv, WeightsOK
    <3> QED BY <3>3, <3>4, <3>5 DEF TypeInv
  <2> QED BY <2>3, <2>4
<1>7. CASE Tick
  <2>1. UNCHANGED PassInterval
    BY <1>7 DEF Tick, PassInterval, MinFrequency
  <2>2. PassInterval \in Nat
    BY IntervalShortest, RebalanceAssumption DEF TypeInv, WeightsOK
  <2>3. \A v \in Vaults : config[v].frequency \in Nat
    BY IntervalShortest DEF TypeInv, WeightsOK
  <2>4. age' \in [Vaults -> Nat]
    BY <1>7, <2>3 DEF Tick, Smaller, Never, TypeInv, ScheduleOK
  <2>5. wait' \in [Vaults -> Nat] /\ \A v \in Vaults : wait'[v] <= config[v].frequency
    BY <1>7, <2>3 DEF Tick, TypeInv, ScheduleOK
  <2>6. ScheduleOK'
    BY <1>7, <2>4, <2>5 DEF Tick, TypeInv, ScheduleOK
  <2>7. LoopOK'
    BY <1>7, <2>1, <2>2 DEF Tick, TypeInv, LoopOK
  <2>8. WeightsOK'
    BY <1>7 DEF Tick, rebalance, history, TypeInv, WeightsOK
  <2> QED BY <2>6, <2>7, <2>8 DEF TypeInv
<1>8. CASE BlacklistChanges
  <2>1. UNCHANGED PassInterval
    BY <1>8 DEF BlacklistChanges, PassInterval, MinFrequency
  <2>2. ScheduleOK'
    BY <1>8 DEF BlacklistChanges, schedule, TypeInv, ScheduleOK
  <2>3. LoopOK'
    BY <1>8, <2>1 DEF BlacklistChanges, TypeInv, LoopOK
  <2>4. Fault /\ black' \subseteq Reserves
    BY <1>8 DEF BlacklistChanges, TypeInv, WeightsOK
  <2>5. WeightsOK'
    BY <1>8, <2>4, FaultCounted
    DEF BlacklistChanges, rebalance, history, TypeInv, WeightsOK
  <2> QED BY <2>2, <2>3, <2>5 DEF TypeInv
<1>9. CASE Restart
  <2>1. UNCHANGED PassInterval
    BY <1>9 DEF Restart, PassInterval, MinFrequency
  <2>2. PassInterval \in Nat /\ \A v \in Vaults : config[v].frequency \in Nat
    BY IntervalShortest, RebalanceAssumption DEF TypeInv, WeightsOK
  <2>3. ScheduleOK'
    BY <1>9, <2>2, RebalanceAssumption DEF Restart, Never, TypeInv, ScheduleOK
  <2>4. LoopOK'
    BY <1>9, <2>1, <2>2 DEF Restart, TypeInv, LoopOK
  <2>5. Fault /\ late' \subseteq LateUpdate
    <3>1. UNCHANGED late \/ \E v \in Vaults : GiveUp(v)
      BY <1>9 DEF Restart, TypeInv, LoopOK
    <3> QED BY <1>9, <3>1, GivenUpTyped DEF Restart, TypeInv, WeightsOK
  <2>6. WeightsOK'
    BY <1>9, <2>5, FaultCounted DEF Restart, Reset, TypeInv, WeightsOK
  <2> QED BY <2>3, <2>4, <2>6 DEF TypeInv
<1>10. CASE UNCHANGED vars
  <2>1. UNCHANGED PassInterval
    BY <1>10 DEF vars, PassInterval, MinFrequency
  <2>2. ScheduleOK' /\ WeightsOK'
    BY <1>10 DEF vars, schedule, rebalance, history, TypeInv, ScheduleOK, WeightsOK
  <2>3. LoopOK'
    BY <1>10, <2>1 DEF vars, TypeInv, LoopOK
  <2> QED BY <2>2, <2>3 DEF TypeInv
<1>11. ASSUME NEW u \in late, LandLate(u) PROVE TypeInv'
  <2>1. /\ u.vault \in Vaults /\ u.on \subseteq Reserves
        /\ UNCHANGED <<config, black, funded, schedule, sleep, pc, due, seen, farmData,
                       rebalance, faults>>
        /\ weighted' = [weighted EXCEPT ![u.vault] = (@ \ u.off) \cup u.on]
        /\ risen' \in {risen, risen \cup u.on} /\ overtaken' \in BOOLEAN
        /\ late' \subseteq late
    BY <1>11 DEF LandLate, LateUpdate, TypeInv, WeightsOK
  <2>2. UNCHANGED PassInterval
    BY <2>1 DEF PassInterval, MinFrequency
  <2>3. ScheduleOK'
    BY <2>1 DEF schedule, TypeInv, ScheduleOK
  <2>4. LoopOK'
    BY <2>1, <2>2 DEF TypeInv, LoopOK
  <2>5. weighted' \in [Vaults -> SUBSET Reserves]
    BY <2>1 DEF TypeInv, WeightsOK
  <2>6. WeightsOK'
    BY <2>1, <2>5 DEF rebalance, TypeInv, WeightsOK
  <2> QED BY <2>3, <2>4, <2>6 DEF TypeInv
<1> QED
  BY <1>1, <1>2, <1>3, <1>4, <1>6, <1>7, <1>8, <1>9, <1>10, <1>11 DEF Next, Step

\* Every variable of the model keeps its type, and no vault waits longer for its
\* retry than for its next rebalance.
THEOREM TypeCorrect == Spec => []TypeOK
<1>1. Init => TypeInv
  <2> SUFFICES ASSUME Init PROVE TypeInv
    OBVIOUS
  <2>1. config \in Configs
    BY DEF Init
  <2>2. PassInterval \in Nat /\ \A v \in Vaults : config[v].frequency \in Nat
    BY <2>1, IntervalShortest, RebalanceAssumption
  <2>3. ScheduleOK
    BY <2>2, RebalanceAssumption DEF Init, Never, ScheduleOK
  <2>4. LoopOK
    BY <2>2 DEF Init, LoopOK
  <2>5. WeightsOK
    <3>1. /\ weighted \in [Vaults -> SUBSET Reserves] /\ late \subseteq LateUpdate
          /\ funded \subseteq Reserves /\ risen \subseteq Reserves
      BY DEF Init
    <3>2. /\ farmData \in BOOLEAN /\ failed \in BOOLEAN /\ allowed \in BOOLEAN
          /\ overtaken \in BOOLEAN
      BY DEF Init
    <3>3. faults \in 0..MaxFaults
      BY RebalanceAssumption DEF Init
    <3>4. black \subseteq Reserves /\ seen \subseteq Reserves /\ update \subseteq Reserves
      BY DEF Init
    <3> QED BY <2>1, <3>1, <3>2, <3>3, <3>4 DEF WeightsOK
  <2> QED BY <2>3, <2>4, <2>5 DEF TypeInv
<1>2. TypeInv /\ [Next]_vars => TypeInv'
  BY TypeStep
<1>3. TypeInv => TypeOK
  BY DEF TypeInv, ScheduleOK, LoopOK, WeightsOK, TypeOK
<1> QED BY <1>1, <1>2, <1>3, PTL DEF Spec
=============================================================================
