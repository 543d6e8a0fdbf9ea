----------------------------- MODULE StrategyProofs -----------------------------
(***************************************************************************)
(* What a rebalance pass may never do, for any vault, reserves, plans and  *)
(* markets: invest above a cap, write weights out of reach of a reserve,   *)
(* dilute a share, return from its search with less than the coarse grid   *)
(* has, or throw away what its constraint pass has approved.  And what its *)
(* two loops, the bisection and the redistribution, come to.               *)
(*                                                                         *)
(* It starts with sums of functions over finite sets, ranks and rounding:  *)
(* the library defines sums, and an induction over sets is a smallest set  *)
(* for which the claim fails (SmallestSet).                                *)
(***************************************************************************)
EXTENDS StrategyPass, FiniteSetTheorems, TLAPS

-----------------------------------------------------------------------------
(* Sums                                                                    *)

LEMMA SmallestSet ==
  ASSUME NEW S, IsFiniteSet(S), NEW Bad \in SUBSET SUBSET S, Bad # {}
  PROVE  \E T \in Bad : \A U \in SUBSET T : U # T => U \notin Bad
<1>1. IsWellFoundedOn(StrictSubsetOrdering(S), SUBSET S)
  BY FS_StrictSubsetOrderingWellFounded, FS_FiniteSubsetsOfFinite
<1>2. PICK T \in Bad : \A U \in Bad : <<U, T>> \notin StrictSubsetOrdering(S)
  BY <1>1, WFMin
<1> QED BY <1>2 DEF StrictSubsetOrdering

First(s) == CHOOSE x \in s : TRUE

Unfolds(g, f, S) ==
  g = [s \in SUBSET S |-> IF s = {} THEN 0 ELSE f[First(s)] + g[s \ {First(s)}]]

LEMMA SumUnfolds ==
  ASSUME NEW f, NEW S
  PROVE  SumFunctionOnSet(f, S) = (CHOOSE g : Unfolds(g, f, S))[S]
BY DEF SumFunctionOnSet, FoldFunctionOnSet, MapThenFoldSet, Unfolds, First

LEMMA UnfoldsAgree ==
  ASSUME NEW f, NEW S, NEW T \in SUBSET S, IsFiniteSet(T),
         NEW g, NEW h, Unfolds(g, f, S), Unfolds(h, f, T)
  PROVE  \A U \in SUBSET T : g[U] = h[U]
<1> DEFINE Bad == {U \in SUBSET T : g[U] # h[U]}
<1>1. SUFFICES ASSUME Bad # {} PROVE FALSE
  OBVIOUS
<1>2. PICK U \in Bad : \A V \in SUBSET U : V # U => V \notin Bad
  <2>1. Bad \in SUBSET SUBSET T
    OBVIOUS
  <2> HIDE DEF Bad
  <2> QED BY <1>1, <2>1, SmallestSet
<1>3. /\ g[U] = IF U = {} THEN 0 ELSE f[First(U)] + g[U \ {First(U)}]
      /\ h[U] = IF U = {} THEN 0 ELSE f[First(U)] + h[U \ {First(U)}]
  BY <1>2 DEF Unfolds
<1>4. U # {} => First(U) \in U
  BY DEF First
<1>5. U # {} => g[U \ {First(U)}] = h[U \ {First(U)}]
  BY <1>2, <1>4
<1> QED BY <1>2, <1>3, <1>5

LEMMA UnfoldsExists ==
  ASSUME NEW f, NEW S, IsFiniteSet(S)
  PROVE  \E g : Unfolds(g, f, S)
<1> DEFINE Bad == {T \in SUBSET S : ~ \E g : Unfolds(g, f, T)}
           Of(T) == CHOOSE g : Unfolds(g, f, T)
<1>1. SUFFICES ASSUME Bad # {} PROVE FALSE
  OBVIOUS
<1>2. PICK T \in Bad : \A U \in SUBSET T : U # T => U \notin Bad
  <2>1. Bad \in SUBSET SUBSET S
    OBVIOUS
  <2> HIDE DEF Bad
  <2> QED BY <1>1, <2>1, SmallestSet
<1>3. \A U \in SUBSET T : U # T => Unfolds(Of(U), f, U)
  BY <1>2
<1>4. \A U \in SUBSET T : IsFiniteSet(U)
  BY <1>2, FS_Subset
<1> DEFINE Step(s, v) == IF s = {} THEN 0 ELSE f[First(s)] + v
           Value(s) == Of(s)[s]
           g == [s \in SUBSET T |-> Step(s, Value(s \ {First(s)}))]
<1>5. \A s \in SUBSET T : s # {} => First(s) \in s
  BY DEF First
<1>6. ASSUME NEW s \in SUBSET T, s # {}
      PROVE  g[s \ {First(s)}] = Value(s \ {First(s)})
  <2> DEFINE u == s \ {First(s)}
             w == u \ {First(u)}
  <2>1. u \in SUBSET T /\ u # T /\ w \in SUBSET u
    BY <1>5, <1>6
  <2>2. Unfolds(Of(u), f, u)
    BY <1>3, <2>1
  <2>3. Of(u)[u] = Step(u, Of(u)[w])
    <3> HIDE DEF Of
    <3> QED BY <2>2 DEF Unfolds
  <2>4. CASE u = {}
    BY <2>1, <2>3, <2>4
  <2>5. CASE u # {}
    <3>1. w # T /\ w \in SUBSET T
      BY <2>1, <1>5
    <3>2. Unfolds(Of(w), f, w)
      BY <1>3, <3>1
    <3> HIDE DEF Of, w
    <3>3. Of(u)[w] = Of(w)[w]
      <4>1. w \in SUBSET u /\ IsFiniteSet(w)
        BY <1>4, <2>1, <3>1
      <4> HIDE DEF u
      <4> QED BY <2>2, <3>2, <4>1, UnfoldsAgree
    <3>4. g[u] = Step(u, Value(w))
      BY <2>1 DEF w
    <3> QED BY <2>3, <3>3, <3>4
  <2> QED BY <2>4, <2>5
<1>7. ASSUME NEW s \in SUBSET T
      PROVE  Step(s, Value(s \ {First(s)})) = Step(s, g[s \ {First(s)}])
  <2>1. CASE s = {}
    BY <2>1
  <2>2. CASE s # {}
    <3>1. g[s \ {First(s)}] = Value(s \ {First(s)})
      BY <1>6, <2>2
    <3> HIDE DEF g, Value, Step
    <3> QED BY <3>1
  <2> QED BY <2>1, <2>2
<1>8. g = [s \in SUBSET T |-> Step(s, g[s \ {First(s)}])]
  <2> DEFINE V(s) == Step(s, Value(s \ {First(s)}))
             W(s) == Step(s, g[s \ {First(s)}])
  <2>1. g = [s \in SUBSET T |-> V(s)]
    OBVIOUS
  <2>2. \A s \in SUBSET T : V(s) = W(s)
    BY <1>7
  <2> HIDE DEF V, W, g
  <2>3. g = [s \in SUBSET T |-> W(s)]
    BY <2>1, <2>2
  <2> QED BY <2>3 DEF W
<1>9. Unfolds(g, f, T)
  <2> HIDE DEF g
  <2> QED BY <1>8 DEF Unfolds
<1> QED BY <1>2, <1>9

LEMMA SumFirst ==
  ASSUME NEW f, NEW S, IsFiniteSet(S), S # {}
  PROVE  SumFunctionOnSet(f, S) = f[First(S)] + SumFunctionOnSet(f, S \ {First(S)})
<1> DEFINE Of(T) == CHOOSE g : Unfolds(g, f, T)
           T == S \ {First(S)}
<1>1. Unfolds(Of(S), f, S)
  BY UnfoldsExists
<1>2. IsFiniteSet(T)
  BY FS_Subset
<1>3. Unfolds(Of(T), f, T)
  BY <1>2, UnfoldsExists
<1>5. /\ SumFunctionOnSet(f, S) = Of(S)[S]
      /\ SumFunctionOnSet(f, T) = Of(T)[T]
  BY SumUnfolds
<1> HIDE DEF Of
<1>6. Of(S)[S] = f[First(S)] + Of(S)[T]
  BY <1>1 DEF Unfolds
<1>7. Of(S)[T] = Of(T)[T]
  <2>1. T \in SUBSET S OBVIOUS
  <2> HIDE DEF T
  <2> QED BY <1>1, <1>2, <1>3, <2>1, UnfoldsAgree
<1> QED BY <1>5, <1>6, <1>7

LEMMA SumEmpty == \A f : SumFunctionOnSet(f, {}) = 0
<1> SUFFICES ASSUME NEW f PROVE SumFunctionOnSet(f, {}) = 0
  OBVIOUS
<1> DEFINE g == CHOOSE g : Unfolds(g, f, {})
<1>1. Unfolds(g, f, {})
  BY UnfoldsExists, FS_EmptySet
<1>2. SumFunctionOnSet(f, {}) = g[{}]
  BY SumUnfolds
<1> HIDE DEF g
<1> QED BY <1>1, <1>2 DEF Unfolds

\* The step of an induction over the subsets of a finite set.
LEMMA SmallestStep ==
  ASSUME NEW S, IsFiniteSet(S), NEW Bad \in SUBSET SUBSET S, Bad # {}, {} \notin Bad
  PROVE  \E T \in Bad : /\ T # {} /\ IsFiniteSet(T) /\ First(T) \in T
                        /\ IsFiniteSet(T \ {First(T)}) /\ T \ {First(T)} \subseteq S
                        /\ T \ {First(T)} \notin Bad
<1>1. PICK T \in Bad : \A U \in SUBSET T : U # T => U \notin Bad
  BY SmallestSet
<1>2. T # {} /\ First(T) \in T
  BY DEF First
<1>3. IsFiniteSet(T) /\ IsFiniteSet(T \ {First(T)})
  BY FS_Subset
<1> QED
  BY <1>1, <1>2, <1>3

Sum(f, S) == SumFunctionOnSet(f, S)

\* A sum of integers is an integer,
LEMMA SumType ==
  ASSUME NEW S, IsFiniteSet(S), NEW f, \A x \in S : f[x] \in Int
  PROVE  Sum(f, S) \in Int
<1> DEFINE Bad == {T \in SUBSET S : Sum(f, T) \notin Int}
<1>1. Bad \in SUBSET SUBSET S /\ {} \notin Bad
  BY SumEmpty DEF Sum
<1>2. SUFFICES ASSUME Bad # {} PROVE FALSE
  OBVIOUS
<1>3. PICK T \in Bad : /\ T # {} /\ IsFiniteSet(T) /\ First(T) \in T
                      /\ T \ {First(T)} \subseteq S /\ T \ {First(T)} \notin Bad
  <2> HIDE DEF Bad
  <2> QED BY <1>1, <1>2, SmallestStep
<1>4. Sum(f, T) = f[First(T)] + Sum(f, T \ {First(T)})
  BY <1>3, SumFirst DEF Sum
<1> QED
  BY <1>3, <1>4

\* and one of natural numbers is a natural number.
LEMMA SumNat ==
  ASSUME NEW S, IsFiniteSet(S), NEW f, \A x \in S : f[x] \in Nat
  PROVE  Sum(f, S) \in Nat
<1> DEFINE Bad == {T \in SUBSET S : Sum(f, T) \notin Nat}
<1>1. Bad \in SUBSET SUBSET S /\ {} \notin Bad
  BY SumEmpty DEF Sum
<1>2. SUFFICES ASSUME Bad # {} PROVE FALSE
  OBVIOUS
<1>3. PICK T \in Bad : /\ T # {} /\ IsFiniteSet(T) /\ First(T) \in T
                      /\ T \ {First(T)} \subseteq S /\ T \ {First(T)} \notin Bad
  <2> HIDE DEF Bad
  <2> QED BY <1>1, <1>2, SmallestStep
<1>4. Sum(f, T) = f[First(T)] + Sum(f, T \ {First(T)})
  BY <1>3, SumFirst DEF Sum
<1> QED
  BY <1>3, <1>4

\* Equal terms have equal sums.
LEMMA SumEqual ==
  ASSUME NEW S, IsFiniteSet(S), NEW f, NEW g, \A x \in S : f[x] = g[x]
  PROVE  Sum(f, S) = Sum(g, S)
<1> DEFINE Bad == {T \in SUBSET S : Sum(f, T) # Sum(g, T)}
<1>1. Bad \in SUBSET SUBSET S /\ {} \notin Bad
  BY SumEmpty DEF Sum
<1>2. SUFFICES ASSUME Bad # {} PROVE FALSE
  OBVIOUS
<1>3. PICK T \in Bad : /\ T # {} /\ IsFiniteSet(T) /\ First(T) \in T
                      /\ T \ {First(T)} \subseteq S /\ T \ {First(T)} \notin Bad
  <2> HIDE DEF Bad
  <2> QED BY <1>1, <1>2, SmallestStep
<1>4. /\ Sum(f, T) = f[First(T)] + Sum(f, T \ {First(T)})
      /\ Sum(g, T) = g[First(T)] + Sum(g, T \ {First(T)})
  BY <1>3, SumFirst DEF Sum
<1> QED
  BY <1>3, <1>4

\* A factor of all the terms is one of the sum.
LEMMA SumScaled ==
  ASSUME NEW S, IsFiniteSet(S), NEW f, NEW g, NEW k \in Int,
         \A x \in S : f[x] \in Int /\ g[x] = k * f[x]
  PROVE  Sum(g, S) = k * Sum(f, S)
<1> DEFINE Bad == {T \in SUBSET S : Sum(g, T) # k * Sum(f, T)}
<1>1. Bad \in SUBSET SUBSET S /\ {} \notin Bad
  BY SumEmpty DEF Sum
<1>2. SUFFICES ASSUME Bad # {} PROVE FALSE
  OBVIOUS
<1>3. PICK T \in Bad : /\ T # {} /\ IsFiniteSet(T) /\ First(T) \in T
                      /\ IsFiniteSet(T \ {First(T)})
                      /\ T \ {First(T)} \subseteq S /\ T \ {First(T)} \notin Bad
  <2> HIDE DEF Bad
  <2> QED BY <1>1, <1>2, SmallestStep
<1> DEFINE x == First(T)  U == T \ {x}
<1>4. Sum(f, T) = f[x] + Sum(f, U) /\ Sum(g, T) = g[x] + Sum(g, U)
  BY <1>3, SumFirst DEF Sum
<1>5. Sum(f, U) \in Int
  BY <1>3, SumType
<1>6. Sum(g, U) = k * Sum(f, U)
  BY <1>3
<1>7. f[x] \in Int /\ g[x] = k * f[x]
  BY <1>3
<1>8. Sum(g, T) = k * Sum(f, T)
  <2> HIDE DEF x, U
  <2> QED BY <1>4, <1>5, <1>6, <1>7
<1> QED
  BY <1>3, <1>8

\* The sum of the sums.
LEMMA SumAdded ==
  ASSUME NEW S, IsFiniteSet(S), NEW f, NEW g, NEW h,
         \A x \in S : f[x] \in Int /\ g[x] \in Int /\ h[x] = f[x] + g[x]
  PROVE  Sum(h, S) = Sum(f, S) + Sum(g, S)
<1> DEFINE Bad == {T \in SUBSET S : Sum(h, T) # Sum(f, T) + Sum(g, T)}
<1>1. Bad \in SUBSET SUBSET S /\ {} \notin Bad
  BY SumEmpty DEF Sum
<1>2. SUFFICES ASSUME Bad # {} PROVE FALSE
  OBVIOUS
<1>3. PICK T \in Bad : /\ T # {} /\ IsFiniteSet(T) /\ First(T) \in T
                      /\ IsFiniteSet(T \ {First(T)})
                      /\ T \ {First(T)} \subseteq S /\ T \ {First(T)} \notin Bad
  <2> HIDE DEF Bad
  <2> QED BY <1>1, <1>2, SmallestStep
<1> DEFINE x == First(T)  U == T \ {x}
<1>4. /\ Sum(f, T) = f[x] + Sum(f, U) /\ Sum(g, T) = g[x] + Sum(g, U)
      /\ Sum(h, T) = h[x] + Sum(h, U)
  BY <1>3, SumFirst DEF Sum
<1>5. Sum(f, U) \in Int /\ Sum(g, U) \in Int
  BY <1>3, SumType
<1>6. Sum(h, U) = Sum(f, U) + Sum(g, U)
  BY <1>3
<1>7. f[x] \in Int /\ g[x] \in Int /\ h[x] = f[x] + g[x]
  BY <1>3
<1>8. Sum(h, T) = Sum(f, T) + Sum(g, T)
  <2> HIDE DEF x, U
  <2> QED BY <1>4, <1>5, <1>6, <1>7
<1> QED
  BY <1>3, <1>8

\* Any term can be taken out of a sum,
LEMMA SumWithout ==
  ASSUME NEW S, IsFiniteSet(S), NEW f, \A x \in S : f[x] \in Int, NEW x \in S
  PROVE  Sum(f, S) = f[x] + Sum(f, S \ {x})
<1> DEFINE Bad == {T \in SUBSET S : \E y \in T : Sum(f, T) # f[y] + Sum(f, T \ {y})}
<1>1. Bad \in SUBSET SUBSET S
  OBVIOUS
<1>2. SUFFICES ASSUME Bad # {} PROVE FALSE
  OBVIOUS
<1>3. PICK T \in Bad : \A U \in SUBSET T : U # T => U \notin Bad
  <2> HIDE DEF Bad
  <2> QED BY <1>1, <1>2, SmallestSet
<1>4. PICK y \in T : Sum(f, T) # f[y] + Sum(f, T \ {y})
  OBVIOUS
<1> DEFINE z == First(T)  Rest == (T \ {y}) \ {z}
<1>5. z \in T
  BY DEF First
<1>6. Sum(f, T) = f[z] + Sum(f, T \ {z})
  BY <1>5, FS_Subset, SumFirst DEF Sum
<1>7. y # z
  BY <1>4, <1>6
<1>8. T \ {z} \notin Bad /\ T \ {y} \notin Bad
  BY <1>3, <1>5
<1>9. (T \ {z}) \ {y} = Rest
  OBVIOUS
<1>10. Sum(f, T \ {z}) = f[y] + Sum(f, Rest)
  <2>1. y \in T \ {z} /\ T \ {z} \in SUBSET S
    BY <1>4, <1>7
  <2> QED BY <1>8, <1>9, <2>1
<1>11. Sum(f, T \ {y}) = f[z] + Sum(f, Rest)
  <2>1. z \in T \ {y} /\ T \ {y} \in SUBSET S
    BY <1>5, <1>7
  <2> QED BY <1>8, <2>1
<1>12. IsFiniteSet(Rest) /\ \A u \in Rest : f[u] \in Int
  BY FS_Subset
<1>13. Sum(f, Rest) \in Int /\ f[y] \in Int /\ f[z] \in Int
  <2> HIDE DEF Rest
  <2>1. Sum(f, Rest) \in Int
    BY <1>12, SumType
  <2> QED BY <1>4, <1>5, <2>1
<1> QED
  <2> HIDE DEF z, Rest, Bad
  <2> QED BY <1>4, <1>6, <1>10, <1>11, <1>13

\* and so can any part.
LEMMA SumSplit ==
  ASSUME NEW S, IsFiniteSet(S), NEW f, \A x \in S : f[x] \in Int, NEW T \in SUBSET S
  PROVE  Sum(f, S) = Sum(f, T) + Sum(f, S \ T)
<1> DEFINE Bad == {U \in SUBSET S : Sum(f, S) # Sum(f, U) + Sum(f, S \ U)}
<1>1. Bad \in SUBSET SUBSET S
  OBVIOUS
<1>2. {} \notin Bad
  <2>1. Sum(f, S) \in Int
    BY SumType
  <2>2. S \ {} = S
    OBVIOUS
  <2> QED BY <2>1, <2>2, SumEmpty DEF Sum
<1>3. SUFFICES ASSUME Bad # {} PROVE FALSE
  OBVIOUS
<1>4. PICK U \in Bad : /\ U # {} /\ IsFiniteSet(U) /\ First(U) \in U
                      /\ IsFiniteSet(U \ {First(U)})
                      /\ U \ {First(U)} \subseteq S /\ U \ {First(U)} \notin Bad
  <2> HIDE DEF Bad
  <2> QED BY <1>1, <1>2, <1>3, SmallestStep
<1> DEFINE x == First(U)  V == U \ {x}  W == S \ V
<1>5. Sum(f, S) = Sum(f, V) + Sum(f, W)
  BY <1>4
<1>6. Sum(f, U) = f[x] + Sum(f, V)
  BY <1>4, SumFirst DEF Sum
<1>7. x \in W /\ W \ {x} = S \ U /\ f[x] \in Int
  BY <1>4
<1>8. IsFiniteSet(W) /\ IsFiniteSet(S \ U) /\ \A u \in W : f[u] \in Int
  BY FS_Subset
<1>9. Sum(f, W) = f[x] + Sum(f, S \ U)
  <2> HIDE DEF W, x
  <2> QED BY <1>7, <1>8, SumWithout
<1>10. Sum(f, V) \in Int /\ Sum(f, S \ U) \in Int
  BY <1>4, <1>8, SumType
<1>11. Sum(f, S) = Sum(f, U) + Sum(f, S \ U)
  <2> HIDE DEF V, W, x
  <2> QED BY <1>5, <1>6, <1>7, <1>9, <1>10
<1> QED
  BY <1>4, <1>11

\* No term of natural numbers exceeds their sum.
LEMMA SumBounds ==
  ASSUME NEW S, IsFiniteSet(S), NEW f, \A x \in S : f[x] \in Nat, NEW x \in S
  PROVE  f[x] <= Sum(f, S)
<1>1. Sum(f, S) = f[x] + Sum(f, S \ {x})
  BY SumWithout
<1>2. Sum(f, S \ {x}) \in Nat
  BY FS_Subset, SumNat
<1> QED
  BY <1>1, <1>2

LEMMA SumOfNothing ==
  ASSUME NEW S, IsFiniteSet(S), NEW f, \A x \in S : f[x] = 0
  PROVE  Sum(f, S) = 0
<1> DEFINE Bad == {T \in SUBSET S : Sum(f, T) # 0}
<1>1. Bad \in SUBSET SUBSET S /\ {} \notin Bad
  BY SumEmpty DEF Sum
<1>2. SUFFICES ASSUME Bad # {} PROVE FALSE
  OBVIOUS
<1>3. PICK T \in Bad : /\ T # {} /\ IsFiniteSet(T) /\ First(T) \in T
                      /\ T \ {First(T)} \subseteq S /\ T \ {First(T)} \notin Bad
  <2> HIDE DEF Bad
  <2> QED BY <1>1, <1>2, SmallestStep
<1>4. Sum(f, T) = f[First(T)] + Sum(f, T \ {First(T)})
  BY <1>3, SumFirst DEF Sum
<1> QED
  BY <1>3, <1>4

\* A sum of ones counts.
LEMMA SumCounts ==
  ASSUME NEW S, IsFiniteSet(S), NEW f, NEW A \in SUBSET S,
         \A x \in S : f[x] = IF x \in A THEN 1 ELSE 0
  PROVE  Sum(f, S) = Cardinality(A)
<1> DEFINE Bad == {T \in SUBSET S : Sum(f, T) # Cardinality(T \cap A)}
<1>1. {} \notin Bad
  <2>1. {} \cap A = {}
    OBVIOUS
  <2> QED BY <2>1, SumEmpty, FS_EmptySet DEF Sum
<1>0. Bad \in SUBSET SUBSET S
  OBVIOUS
<1>2. SUFFICES ASSUME Bad # {} PROVE FALSE
  <2>1. S \cap A = A
    OBVIOUS
  <2> QED BY <2>1
<1>3. PICK T \in Bad : /\ T # {} /\ IsFiniteSet(T) /\ First(T) \in T
                      /\ T \ {First(T)} \subseteq S /\ T \ {First(T)} \notin Bad
  <2> HIDE DEF Bad
  <2> QED BY <1>0, <1>1, <1>2, SmallestStep
<1> DEFINE x == First(T)  U == T \ {x}
<1>4. Sum(f, T) = f[x] + Sum(f, U)
  BY <1>3, SumFirst DEF Sum
<1>5. Sum(f, U) = Cardinality(U \cap A)
  BY <1>3
<1>6. IsFiniteSet(T \cap A) /\ Cardinality(T \cap A) \in Nat
  BY <1>3, FS_Intersection, FS_CardinalityType
<1> DEFINE B == T \cap A
<1>7. Cardinality(B \ {x}) = IF x \in A THEN Cardinality(B) - 1 ELSE Cardinality(B)
  <2>1. x \in B <=> x \in A
    BY <1>3
  <2>2. IsFiniteSet(B)
    BY <1>6
  <2> HIDE DEF x, B
  <2>3. Cardinality(B \ {x}) = IF x \in B THEN Cardinality(B) - 1 ELSE Cardinality(B)
    BY <2>2, FS_RemoveElement
  <2> QED BY <2>1, <2>3
<1>8. U \cap A = B \ {x}
  OBVIOUS
<1>9. f[x] = IF x \in A THEN 1 ELSE 0
  BY <1>3
<1>10. Sum(f, T) = Cardinality(B)
  <2>1. Cardinality(B) \in Nat
    BY <1>6
  <2>2. Cardinality(U \cap A) = Cardinality(B \ {x})
    BY <1>8
  <2> HIDE DEF x, U, B
  <2>3. CASE x \in A
    <3>1. Sum(f, T) = 1 + (Cardinality(B) - 1)
      BY <1>4, <1>5, <1>7, <1>9, <2>2, <2>3
    <3> QED BY <2>1, <3>1
  <2>4. CASE x \notin A
    <3>1. Sum(f, T) = 0 + Cardinality(B)
      BY <1>4, <1>5, <1>7, <1>9, <2>2, <2>4
    <3> QED BY <2>1, <3>1
  <2> QED BY <2>3, <2>4
<1> QED
  BY <1>3, <1>10

\* Terms of at most k.
LEMMA SumAtMost ==
  ASSUME NEW S, IsFiniteSet(S), NEW f, NEW k \in Int,
         \A x \in S : f[x] \in Int /\ f[x] <= k
  PROVE  Sum(f, S) <= k * Cardinality(S)
<1> DEFINE Bad == {T \in SUBSET S : ~(Sum(f, T) <= k * Cardinality(T))}
<1>1. Bad \in SUBSET SUBSET S /\ {} \notin Bad
  <2>1. Sum(f, {}) = 0 /\ Cardinality({}) = 0
    BY SumEmpty, FS_EmptySet DEF Sum
  <2>2. Sum(f, {}) <= k * Cardinality({})
    BY <2>1
  <2> QED BY <2>2
<1>2. SUFFICES ASSUME Bad # {} PROVE FALSE
  OBVIOUS
<1>3. PICK T \in Bad : /\ T # {} /\ IsFiniteSet(T) /\ First(T) \in T
                      /\ IsFiniteSet(T \ {First(T)})
                      /\ T \ {First(T)} \subseteq S /\ T \ {First(T)} \notin Bad
  <2> HIDE DEF Bad
  <2> QED BY <1>1, <1>2, SmallestStep
<1> DEFINE x == First(T)  U == T \ {x}
<1>4. Sum(f, T) = f[x] + Sum(f, U)
  BY <1>3, SumFirst DEF Sum
<1>5. Cardinality(U) = Cardinality(T) - 1
  BY <1>3, FS_RemoveElement
<1>6. Cardinality(T) \in Nat /\ Sum(f, U) \in Int
  BY <1>3, FS_CardinalityType, SumType
<1>7. Sum(f, U) <= k * Cardinality(U)
  BY <1>3
<1>8. f[x] \in Int /\ f[x] <= k
  BY <1>3
<1>9. Sum(f, T) <= k * Cardinality(T)
  <2> DEFINE n == Cardinality(T)  s == Sum(f, U)
  <2>1. n \in Int /\ s \in Int /\ s <= k * (n - 1)
    BY <1>5, <1>6, <1>7
  <2> HIDE DEF n, s, x, U
  <2>2. k * (n - 1) = k * n - k
    BY <2>1
  <2>3. k * n \in Int
    BY <2>1
  <2>4. f[x] + s <= k * n
    BY <1>8, <2>1, <2>2, <2>3
  <2> QED BY <1>4, <2>4 DEF n, s, U
<1> QED
  BY <1>3, <1>9

-----------------------------------------------------------------------------
(* Ranks                                                                   *)

LEMMA LeastNatural ==
  ASSUME NEW N \in SUBSET Nat, N # {}
  PROVE  \E n \in N : \A m \in N : n <= m
<1>1. PICK n \in N : TRUE
  OBVIOUS
<1> DEFINE Bad == {0..m : m \in {i \in N : i <= n}}
<1>2. Bad \in SUBSET SUBSET (0..n) /\ Bad # {}
  OBVIOUS
<1>3. PICK T \in Bad : \A U \in SUBSET T : U # T => U \notin Bad
  <2>1. IsFiniteSet(0..n)
    BY FS_Interval
  <2> HIDE DEF Bad
  <2> QED BY <1>2, <2>1, SmallestSet
<1>4. PICK m \in N : m <= n /\ T = 0..m
  OBVIOUS
<1>5. ASSUME NEW i \in N, i < m PROVE FALSE
  <2>1. 0..i \in Bad
    BY <1>4, <1>5
  <2>2. 0..i \in SUBSET T /\ m \in T /\ m \notin 0..i
    BY <1>4, <1>5
  <2> QED BY <1>3, <2>1, <2>2
<1> QED
  BY <1>4, <1>5

\* R is a strict total order of D.
Orders(R, D) ==
  /\ \A p \in D : <<p, p>> \notin R
  /\ \A p, q \in D : p = q \/ <<p, q>> \in R \/ <<q, p>> \in R
  /\ \A p, q, r \in D : <<p, q>> \in R /\ <<q, r>> \in R => <<p, r>> \in R

\* How many come before r.
Rank(R, D, r) == Cardinality({p \in D : <<p, r>> \in R})

LEMMA RankGrows ==
  ASSUME NEW D, IsFiniteSet(D), NEW R, Orders(R, D), NEW p \in D, NEW q \in D, <<p, q>> \in R
  PROVE  /\ Rank(R, D, p) \in Nat /\ Rank(R, D, q) \in Nat
         /\ Rank(R, D, p) < Rank(R, D, q)
<1> DEFINE P == {x \in D : <<x, p>> \in R}  Q == {x \in D : <<x, q>> \in R}
<1>1. P \in SUBSET Q /\ p \in Q /\ p \notin P
  BY DEF Orders
<1>2. IsFiniteSet(Q)
  BY FS_Subset
<1>3. IsFiniteSet(P) /\ Cardinality(P) <= Cardinality(Q) /\ Cardinality(P) # Cardinality(Q)
  <2> HIDE DEF P, Q
  <2> QED BY <1>1, <1>2, FS_Subset
<1>4. Cardinality(P) \in Nat /\ Cardinality(Q) \in Nat
  BY <1>2, <1>3, FS_CardinalityType
<1> QED
  BY <1>3, <1>4 DEF Rank

\* The least of a finite set in a total order.
LEMMA LeastInOrder ==
  ASSUME NEW D, IsFiniteSet(D), NEW R, Orders(R, D), NEW E \in SUBSET D, E # {}
  PROVE  \E r \in E : \A p \in E : p = r \/ <<r, p>> \in R
<1> DEFINE ranks == {Rank(R, D, r) : r \in E}
<1>1. ranks \in SUBSET Nat /\ ranks # {}
  <2>1. ASSUME NEW r \in E PROVE Rank(R, D, r) \in Nat
    <3> DEFINE P == {p \in D : <<p, r>> \in R}
    <3>1. P \in SUBSET D
      OBVIOUS
    <3> HIDE DEF P
    <3>2. IsFiniteSet(P)
      BY <3>1, FS_Subset
    <3>3. Cardinality(P) \in Nat
      BY <3>2, FS_CardinalityType
    <3> QED BY <3>3 DEF Rank, P
  <2> QED BY <2>1
<1>2. PICK n \in ranks : \A m \in ranks : n <= m
  <2> HIDE DEF ranks
  <2> QED BY <1>1, LeastNatural
<1>3. PICK r \in E : n = Rank(R, D, r)
  OBVIOUS
<1>4. ASSUME NEW p \in E, p # r PROVE <<r, p>> \in R
  <2>1. Rank(R, D, r) <= Rank(R, D, p)
    BY <1>2, <1>3
  <2>2. <<p, r>> \in R => Rank(R, D, p) \in Nat /\ Rank(R, D, r) \in Nat
                         /\ Rank(R, D, p) < Rank(R, D, r)
    BY RankGrows
  <2>3. <<p, r>> \notin R
    BY <2>1, <2>2
  <2> QED BY <1>4, <2>3 DEF Orders
<1> QED
  BY <1>4

\* Exactly k are among the first k.
LEMMA FirstByRank ==
  ASSUME NEW D, IsFiniteSet(D), NEW R, Orders(R, D), NEW k \in 0..Cardinality(D)
  PROVE  Cardinality({r \in D : Rank(R, D, r) < k}) = k
<1> DEFINE A(n) == {r \in D : Rank(R, D, r) < n}
           Wrong == {n \in 0..Cardinality(D) : Cardinality(A(n)) # n}
<1>0. Cardinality(D) \in Nat
  BY FS_CardinalityType
<1>1. \A r \in D : Rank(R, D, r) \in Nat
  BY FS_Subset, FS_CardinalityType DEF Rank
<1>2. SUFFICES ASSUME Wrong # {} PROVE FALSE
  OBVIOUS
<1>3. PICK n \in Wrong : \A m \in Wrong : n <= m
  <2>1. Wrong \in SUBSET Nat
    BY <1>0
  <2> HIDE DEF Wrong
  <2> QED BY <1>2, <2>1, LeastNatural
<1>4. n # 0
  <2>1. A(0) = {}
    BY <1>1
  <2>2. Cardinality(A(0)) = 0
    BY <2>1, FS_EmptySet
  <2> QED BY <2>2
<1> DEFINE j == n - 1  B == A(j)
<1>5. j \in 0..Cardinality(D) /\ j < n /\ j \notin Wrong /\ j < Cardinality(D)
  BY <1>0, <1>3, <1>4
<1>6. Cardinality(B) = j
  BY <1>5
<1>7. IsFiniteSet(B) /\ B \in SUBSET D
  BY FS_Subset
<1>8. D \ B # {}
  <2>1. B # D
    BY <1>5, <1>6
  <2> QED BY <1>7, <2>1
<1>9. PICK r \in D \ B : \A p \in D \ B : p = r \/ <<r, p>> \in R
  <2> DEFINE E == D \ B
  <2>1. E \in SUBSET D /\ E # {}
    BY <1>8
  <2> HIDE DEF E
  <2>2. \E r \in E : \A p \in E : p = r \/ <<r, p>> \in R
    BY <2>1, LeastInOrder
  <2> QED BY <2>2 DEF E
<1>10. {p \in D : <<p, r>> \in R} = B
  <2>1. ASSUME NEW p \in D, <<p, r>> \in R PROVE p \in B
    BY <1>9, <2>1 DEF Orders
  <2>2. ASSUME NEW p \in B PROVE <<p, r>> \in R
    <3>1. p \in D /\ Rank(R, D, p) < j /\ ~(Rank(R, D, r) < j) /\ p # r
      BY <1>9
    <3>2. <<r, p>> \in R => Rank(R, D, r) < Rank(R, D, p)
      BY <1>9, <3>1, RankGrows
    <3>3. <<r, p>> \notin R
      BY <1>1, <1>5, <1>9, <3>1, <3>2
    <3> QED BY <1>9, <3>1, <3>3 DEF Orders
  <2> QED BY <1>7, <2>1, <2>2
<1>11. Rank(R, D, r) = j
  BY <1>6, <1>10 DEF Rank
<1>12. A(n) = B \cup {r}
  <2>1. ASSUME NEW p \in D, Rank(R, D, p) < n PROVE p \in B \/ p = r
    <3>1. p \notin B => Rank(R, D, p) = j
      BY <1>1, <1>5, <2>1
    <3>2. <<r, p>> \in R => Rank(R, D, r) < Rank(R, D, p)
      BY <1>9, RankGrows
    <3>3. p \notin B => <<r, p>> \notin R
      BY <1>1, <1>11, <3>1, <3>2
    <3> QED BY <1>9, <3>3
  <2>2. ASSUME NEW p \in B PROVE Rank(R, D, p) < n
    BY <1>1, <1>5, <1>7, <2>2
  <2> QED BY <1>5, <1>9, <1>11, <2>1, <2>2
<1>13. Cardinality(A(n)) = n
  <2>1. r \notin B
    BY <1>9
  <2> HIDE DEF B, A
  <2>2. Cardinality(B \cup {r}) = Cardinality(B) + 1
    BY <1>7, <2>1, FS_AddElement
  <2> QED BY <1>0, <1>5, <1>6, <1>12, <2>2
<1> QED
  BY <1>3, <1>13

-----------------------------------------------------------------------------
(* Rounding                                                                *)

LEMMA TotalIsSum ==
  ASSUME NEW D, NEW w, DOMAIN w = D
  PROVE  TotalWeight(w) = Sum(w, D)
BY DEF TotalWeight, SumFunction, Sum

\* A quotient and its rest.
LEMMA Divided ==
  ASSUME NEW x \in Nat, NEW by \in Nat \ {0}
  PROVE  /\ x \div by \in Nat /\ x % by \in 0..(by - 1)
         /\ x = by * (x \div by) + (x % by)
OBVIOUS

\* No more units are left than there are fractions.
LEMMA FewLeft ==
  ASSUME NEW by \in Nat \ {0}, NEW n \in Nat, NEW left \in Int,
         0 <= by * left, by * left <= (by - 1) * n
  PROVE  left \in 0..n
<1>1. left >= 0
  <2> SUFFICES ASSUME left <= -1 PROVE FALSE
    OBVIOUS
  <2>1. by * left <= by * (-1)
    OBVIOUS
  <2> QED BY <2>1
<1>2. left <= n
  <2> SUFFICES ASSUME left >= n + 1 PROVE FALSE
    OBVIOUS
  <2>1. by * left >= by * (n + 1)
    OBVIOUS
  <2>2. by * (n + 1) = by * n + by /\ (by - 1) * n = by * n - n /\ by * n \in Int
    OBVIOUS
  <2> QED BY <2>1, <2>2
<1> QED
  BY <1>1, <1>2

Floors(w, by) == [r \in DOMAIN w |-> w[r] \div by]

\* The first `left` fractions in the order R are rounded up, the others down.
Rounded(w, by, left, R) ==
  [r \in DOMAIN w |-> (w[r] \div by) + IF Rank(R, DOMAIN w, r) < left THEN 1 ELSE 0]

\* Fractions with a whole sum keep it when as many are rounded up as are missing,
\* whatever the order.
LEMMA RoundedMeetsTotal ==
  ASSUME NEW D, IsFiniteSet(D), NEW R, Orders(R, D), NEW w \in [D -> Nat],
         NEW by \in Nat \ {0}, NEW total \in Nat, Sum(w, D) = by * total,
         NEW left, left = total - Sum(Floors(w, by), D)
  PROVE  Rounded(w, by, left, R) \in [D -> Nat] /\ Sum(Rounded(w, by, left, R), D) = total
<1> DEFINE whole == [r \in D |-> w[r] \div by]
           rest == [r \in D |-> w[r] % by]
           scaled == [r \in D |-> by * whole[r]]
           extra == [r \in D |-> IF Rank(R, D, r) < left THEN 1 ELSE 0]
           n == Cardinality(D)
<1>0. whole = Floors(w, by)
  BY DEF Floors
<1>1. /\ whole \in [D -> Nat] /\ rest \in [D -> 0..(by - 1)]
      /\ \A r \in D : w[r] = scaled[r] + rest[r]
  BY Divided
<1>2. Sum(whole, D) \in Nat /\ Sum(rest, D) \in Nat /\ n \in Nat
  <2>1. \A r \in D : whole[r] \in Nat /\ rest[r] \in Nat
    BY <1>1
  <2> HIDE DEF whole, rest
  <2> QED BY <2>1, SumNat, FS_CardinalityType
<1>3. Sum(w, D) = by * Sum(whole, D) + Sum(rest, D)
  <2>1. \A r \in D : whole[r] \in Int /\ scaled[r] = by * whole[r]
    BY <1>1
  <2>2. \A r \in D : scaled[r] \in Int /\ rest[r] \in Int
    BY <1>1
  <2> HIDE DEF whole, rest, scaled
  <2>3. Sum(scaled, D) = by * Sum(whole, D)
    BY <2>1, SumScaled
  <2>4. Sum(w, D) = Sum(scaled, D) + Sum(rest, D)
    BY <1>1, <2>2, SumAdded
  <2> QED BY <2>3, <2>4
<1>4. Sum(rest, D) <= (by - 1) * n
  <2>1. \A r \in D : rest[r] \in Int /\ rest[r] <= by - 1
    BY <1>1
  <2>2. by - 1 \in Int
    OBVIOUS
  <2> HIDE DEF rest
  <2> QED BY <2>1, <2>2, SumAtMost
<1>5. left \in 0..n
  <2>1. by * left = Sum(rest, D)
    <3>1. by * left = by * total - by * Sum(whole, D)
      BY <1>0, <1>2
    <3> QED BY <1>2, <1>3, <3>1
  <2>2. left \in Int
    BY <1>0, <1>2
  <2> HIDE DEF rest, n
  <2> QED BY <1>2, <1>4, <2>1, <2>2, FewLeft
<1>6. Sum(extra, D) = left
  <2> DEFINE A == {r \in D : Rank(R, D, r) < left}
  <2>1. Cardinality(A) = left
    <3> HIDE DEF n
    <3> QED BY <1>5, FirstByRank DEF n
  <2>2. A \in SUBSET D /\ \A r \in D : extra[r] = IF r \in A THEN 1 ELSE 0
    OBVIOUS
  <2> HIDE DEF A, extra
  <2> QED BY <2>1, <2>2, SumCounts
<1> DEFINE rounded == Rounded(w, by, left, R)
<1>7. rounded \in [D -> Nat] /\ \A r \in D : rounded[r] = whole[r] + extra[r]
  BY <1>1 DEF Rounded
<1>8. Sum(rounded, D) = total
  <2>1. \A r \in D : whole[r] \in Int /\ extra[r] \in Int /\ rounded[r] = whole[r] + extra[r]
    BY <1>1, <1>7
  <2> HIDE DEF whole, extra, rounded
  <2>2. Sum(rounded, D) = Sum(whole, D) + Sum(extra, D)
    BY <2>1, SumAdded
  <2> QED BY <1>0, <1>2, <1>6, <2>2
<1> QED
  BY <1>7, <1>8

\* Reserves are their positions in the vault.
Positions(D) == D \in SUBSET Nat

\* The order of roundToTotal is such an order.
LEMMA RoundingIsRounded ==
  ASSUME NEW D, Positions(D), NEW w \in [D -> Nat],
         NEW by \in Nat \ {0}, NEW total
  PROVE  \E R : /\ Orders(R, D)
               /\ RoundToTotal(w, by, total)
                    = Rounded(w, by, total - Sum(Floors(w, by), D), R)
<1> DEFINE whole == [r \in D |-> w[r] \div by]
           rest == [r \in D |-> w[r] % by]
           Precedes(p, r) == rest[p] > rest[r] \/ (rest[p] = rest[r] /\ p < r)
           R == {q \in D \X D : Precedes(q[1], q[2])}
<1> USE DEF Positions
<1>1. Orders(R, D)
  <2>1. ASSUME NEW p \in D, NEW q \in D
        PROVE  <<p, q>> \in R <=> rest[p] > rest[q] \/ (rest[p] = rest[q] /\ p < q)
    OBVIOUS
  <2>2. \A r \in D : rest[r] \in Int /\ r \in Int
    BY Divided
  <2> HIDE DEF R, rest
  <2> QED BY <2>1, <2>2 DEF Orders
<1>2. \A r \in D : {p \in D : <<p, r>> \in R}
                 = {p \in D : rest[p] > rest[r] \/ (rest[p] = rest[r] /\ p < r)}
  OBVIOUS
<1>3. DOMAIN w = D /\ whole = Floors(w, by) /\ TotalWeight(whole) = Sum(whole, D)
  BY TotalIsSum DEF Floors
<1>4. RoundToTotal(w, by, total) = Rounded(w, by, total - Sum(whole, D), R)
  BY <1>2, <1>3 DEF RoundToTotal, Rounded, Rank
<1> HIDE DEF R, whole
<1> QED
  BY <1>1, <1>3, <1>4

\* In the proportions of w, or equally, the fractions have the total as their sum.
LEMMA ProportionsMeetTotal ==
  ASSUME NEW D, IsFiniteSet(D), D # {}, NEW w \in [D -> Nat], NEW total \in Nat,
         NEW sum, sum = Sum(w, D),
         NEW by, by = IF sum = 0 THEN Cardinality(D) ELSE sum,
         NEW scaled, scaled = [r \in D |-> IF sum = 0 THEN total ELSE w[r] * total]
  PROVE  by \in Nat \ {0} /\ scaled \in [D -> Nat] /\ Sum(scaled, D) = by * total
<1>1. sum \in Nat
  BY SumNat
<1>2. by \in Nat \ {0}
  <2>1. Cardinality(D) \in Nat \ {0}
    BY FS_CardinalityType, FS_EmptySet
  <2> QED BY <1>1, <2>1
<1>3. scaled \in [D -> Nat]
  BY <1>1
<1>4. Sum(scaled, D) = by * total
  <2>1. CASE sum = 0
    <3> DEFINE one == [r \in D |-> 1]
    <3>1. Sum(one, D) = Cardinality(D)
      <4>1. D \in SUBSET D /\ \A r \in D : one[r] = IF r \in D THEN 1 ELSE 0
        OBVIOUS
      <4> HIDE DEF one
      <4> QED BY <4>1, SumCounts
    <3>2. \A r \in D : one[r] \in Int /\ scaled[r] = total * one[r]
      BY <2>1
    <3>3. Sum(scaled, D) = total * Sum(one, D)
      <4> HIDE DEF one
      <4> QED BY <3>2, SumScaled
    <3> QED BY <1>2, <2>1, <3>1, <3>3
  <2>2. CASE sum # 0
    <3>1. \A r \in D : w[r] \in Int /\ scaled[r] = total * w[r]
      BY <2>2
    <3>2. Sum(scaled, D) = total * Sum(w, D)
      BY <3>1, SumScaled
    <3> QED BY <1>1, <2>2, <3>2
  <2> QED BY <2>1, <2>2
<1> QED
  BY <1>2, <1>3, <1>4

\* Weights are brought to any total.
LEMMA NormalizedMeetsTotal ==
  ASSUME NEW D, Positions(D), IsFiniteSet(D), D # {}, NEW w \in [D -> Nat],
         NEW total \in Nat
  PROVE  /\ NormalizeWeightsToTotal(w, total) \in [D -> Nat]
         /\ TotalWeight(NormalizeWeightsToTotal(w, total)) = total
<1> DEFINE sum == Sum(w, D)
           scaled == [r \in D |-> IF sum = 0 THEN total ELSE w[r] * total]
           by == IF sum = 0 THEN Cardinality(D) ELSE sum
           left == total - Sum(Floors(scaled, by), D)
           normal == NormalizeWeightsToTotal(w, total)
<1>1. by \in Nat \ {0} /\ scaled \in [D -> Nat] /\ Sum(scaled, D) = by * total
  <2>1. /\ sum = Sum(w, D) /\ by = IF sum = 0 THEN Cardinality(D) ELSE sum
        /\ scaled = [r \in D |-> IF sum = 0 THEN total ELSE w[r] * total]
    OBVIOUS
  <2> HIDE DEF sum, by, scaled
  <2> QED BY <2>1, ProportionsMeetTotal
<1>2. normal = RoundToTotal(scaled, by, total)
  <2>1. TotalWeight(w) = sum
    BY TotalIsSum
  <2> QED BY <2>1 DEF NormalizeWeightsToTotal
<1>0. left = total - Sum(Floors(scaled, by), D)
  OBVIOUS
<1> HIDE DEF scaled, by, sum, left
<1>3. PICK R : Orders(R, D) /\ RoundToTotal(scaled, by, total) = Rounded(scaled, by, left, R)
  BY <1>0, <1>1, RoundingIsRounded
<1>4. Rounded(scaled, by, left, R) \in [D -> Nat] /\ Sum(Rounded(scaled, by, left, R), D) = total
  BY <1>0, <1>1, <1>3, RoundedMeetsTotal
<1> QED
  BY <1>2, <1>3, <1>4, TotalIsSum

-----------------------------------------------------------------------------
(* The filter of the strategy and the invest                               *)

\* A strategy has run only where its pass is under way.
Resting == pc = "wait" => ~ran

\* The filter lets through what is on its way, and the reserves in cooldown are
\* not part of it.
Filtered ==
  pc = "send" /\ ran => /\ FilterAllows(update, 1)
                       /\ \A r \in Preserved : update[r] = weight[r]

CapInv == cool \subseteq Reserves /\ Resting /\ Filtered /\ InvestWithinCap

\* The filter looks at the healthy reserves only,
LEMMA FilterSeesHealthy ==
  ASSUME NEW v, NEW w, \A r \in Healthy : v[r] = w[r], FilterAllows(v, 1)
  PROVE  FilterAllows(w, 1)
<1>1. \A r \in Reserves : Written(v, 1, r) = Written(w, 1, r)
  BY DEF Written
<1>2. [r \in Reserves |-> Written(v, 1, r)] = [r \in Reserves |-> Written(w, 1, r)]
  BY <1>1
<1>3. Scale(v, 1) = Scale(w, 1)
  BY <1>2 DEF Scale, Allocated
<1>4. \A r \in Healthy : TargetTokens(v, 1, r) = TargetTokens(w, 1, r)
  BY <1>1 DEF TargetTokens, Healthy
<1> QED
  BY <1>3, <1>4 DEF FilterAllows

\* and lets the weights that have landed through if it did before.
LEMMA FilterAfterUpdate ==
  ASSUME UNCHANGED <<plan, unallocated, held, market, black, cool>>,
         weight' = update, \A r \in Preserved : update[r] = weight[r],
         FilterAllows(update, 1)
  PROVE  FilterAllows(OnChain, 1)'
<1>1. Healthy' = Healthy /\ Capped' = Capped
  BY DEF Healthy, Capped
<1>2. \A r \in Reserves : Written(OnChain, 1, r)' = Written(update, 1, r)
  BY <1>1 DEF Written, OnChain, Healthy, Preserved
<1>3. [r \in Reserves |-> Written(OnChain, 1, r)'] = [r \in Reserves |-> Written(update, 1, r)]
  BY <1>2
<1>4. Scale(OnChain, 1)' = Scale(update, 1)
  BY <1>3 DEF Scale, Allocated
<1>5. \A r \in Healthy : TargetTokens(OnChain, 1, r)' = TargetTokens(update, 1, r)
  BY <1>2 DEF TargetTokens, Healthy
<1>6. \A r \in Healthy : Capacity(r, 1)' = Capacity(r, 1)
  BY DEF Capacity
<1>7. \A r \in Healthy : ChangeAllowed(r, TargetTokens(OnChain, 1, r), Scale(OnChain, 1))'
                         = ChangeAllowed(r, TargetTokens(update, 1, r), Scale(update, 1))
  BY <1>4, <1>5 DEF ChangeAllowed
<1> QED
  BY <1>1, <1>4, <1>5, <1>6, <1>7 DEF FilterAllows

\* What Checked writes has passed the filter, and so has what it keeps.
LEMMA CheckedPasses ==
  ASSUME NEW built, Checked(built).allowed
  PROVE  IF Checked(built).written = {}
           THEN FilterAllows(OnChain, 1)
           ELSE \A b \in Checked(built).written : FilterAllows(b, 1)
BY DEF Checked, Keep

LEMMA DecisionPasses ==
  ASSUME NEW target, Decision(target).allowed
  PROVE  IF Decision(target).written = {}
           THEN FilterAllows(OnChain, 1)
           ELSE \A b \in Decision(target).written : FilterAllows(b, 1)
<1> DEFINE steps == UNION {Steps(t) : t \in target}
<1>1. CASE steps = {}
  BY <1>1 DEF Decision, WriteSteps, Keep
<1>2. CASE steps # {}
  <2>1. PICK built : Decision(target) = Checked(built)
    BY <1>2 DEF Decision, WriteSteps, Write
  <2> QED BY <2>1, CheckedPasses
<1> QED BY <1>1, <1>2

LEMMA EmitFilters ==
  ASSUME cool \subseteq Reserves, NEW written, Emit(written),
         IF written = {} THEN FilterAllows(OnChain, 1)
                         ELSE \A b \in written : FilterAllows(b, 1)
  PROVE  FilterAllows(update', 1) /\ \A r \in Preserved : update'[r] = weight[r]
<1> DEFINE w == IF written = {} THEN OnChain ELSE CHOOSE w \in written : TRUE
<1>1. FilterAllows(w, 1)
  BY DEF OnChain
<1>2. \A r \in Healthy : w[r] = update'[r]
  BY DEF Emit, Healthy, OnChain
<1>3. \A r \in Preserved : update'[r] = weight[r]
  BY DEF Emit, Preserved, Healthy
<1> QED
  <2> HIDE DEF w
  <2> QED BY <1>1, <1>2, <1>3, FilterSeesHealthy

LEMMA CapInit == Init => CapInv
BY DEF Init, CapInv, Resting, Filtered, InvestWithinCap

LEMMA CapStep ==
  ASSUME CapInv, [Next]_vars
  PROVE  CapInv'
<1> USE DEF CapInv, Resting
<1>1. ASSUME PassFails PROVE CapInv'
  BY <1>1 DEF PassFails, Leave, Filtered, InvestWithinCap
<1>2. ASSUME Pass PROVE CapInv'
  <2>1. PICK target : /\ Emit(Decision(target).written)
                      /\ Leave("send", Decision(target).allowed, Decision(target).allowed)
    BY <1>2 DEF Pass
  <2>2. ASSUME ran' PROVE FilterAllows(update', 1) /\ \A r \in Preserved : update'[r] = weight[r]
    <3>1. Decision(target).allowed
      BY <2>1, <2>2 DEF Leave
    <3> QED BY <2>1, <3>1, DecisionPasses, EmitFilters
  <2>3. UNCHANGED <<plan, unallocated, weight, held, market, black, cool>> /\ pc' = "send"
    BY <1>2, <2>1 DEF Pass, Leave
  <2>4. FilterAllows(update, 1)' <=> FilterAllows(update', 1)
    BY <2>3 DEF FilterAllows, Scale, Allocated, Written, TargetTokens, Capacity,
                ChangeAllowed, Capped, Healthy
  <2>5. Preserved' = Preserved
    BY <2>3 DEF Preserved
  <2> QED BY <2>2, <2>3, <2>4, <2>5 DEF Filtered, InvestWithinCap
<1>3. ASSUME UpdateLands PROVE CapInv'
  <2>1. ASSUME allowed PROVE CapInv'
    <3>1. /\ UNCHANGED <<plan, unallocated, held, market, black, cool, ran>>
          /\ weight' = update /\ pc = "send" /\ pc' = "invest"
      BY <1>3, <2>1 DEF UpdateLands, Leave
    <3>2. ran' => FilterAllows(OnChain, 1)'
      BY <3>1, FilterAfterUpdate DEF Filtered
    <3> QED BY <3>1, <3>2 DEF Filtered, InvestWithinCap
  <2>2. ASSUME ~allowed PROVE CapInv'
    BY <1>3, <2>2 DEF UpdateLands, Leave, Filtered, InvestWithinCap
  <2> QED BY <2>1, <2>2
<1>4. ASSUME UpdateFails \/ Invest PROVE CapInv'
  BY <1>4 DEF UpdateFails, Invest, Leave, Filtered, InvestWithinCap
<1>5. ASSUME Outside PROVE CapInv'
  <2>1. pc = "wait" /\ UNCHANGED <<pc, ran>>
    BY <1>5 DEF Outside, MarketMoves, Blacklist, Readmit, Cool, CoolEnds, Event
  <2>2. cool' \subseteq Reserves
    BY <1>5 DEF Outside, MarketMoves, Blacklist, Readmit, Cool, CoolEnds
  <2> QED BY <2>1, <2>2 DEF Filtered, InvestWithinCap
<1>6. CASE UNCHANGED vars
  BY <1>6 DEF vars, Filtered, InvestWithinCap, FilterAllows, Scale, Allocated, Written,
              TargetTokens, Capacity, ChangeAllowed, Capped, Healthy, OnChain, Preserved
<1> QED
  BY <1>1, <1>2, <1>3, <1>4, <1>5, <1>6 DEF Next, Loop

\* A vault invests after a strategy only on weights that keep every healthy
\* reserve within its utilization cap and its capacity.
THEOREM InvestsWithinCap == Spec => []InvestWithinCap
<1> QED
  BY CapInit, CapStep, PTL DEF Spec, CapInv

-----------------------------------------------------------------------------
(* Types                                                                   *)

\* What has landed is what is on chain.
Landed == pc = "invest" => update = weight

TypeInv == TypeOK /\ Landed /\ Resting

\* The reserves a pass sees.
LEMMA Universe ==
  ASSUME {black, cool} \subseteq SUBSET Reserves
  PROVE  /\ IsFiniteSet(Reserves)
         /\ IsFiniteSet(Healthy) /\ Positions(Healthy) /\ Healthy \subseteq Reserves
         /\ IsFiniteSet(Preserved) /\ Preserved \subseteq Reserves
         /\ Preserved = (Reserves \ Healthy) \ black
BY GridAssumption, FS_Subset DEF Healthy, Preserved, Positions

\* The weight total is raised by a whole factor, and only of a vault without a
\* share that this would dilute.
LEMMA RaiseSound ==
  ASSUME TypeOK
  PROVE  /\ Raise \in Nat \ {0}
         /\ Raise # 1 =>
              unallocated = 0 /\ Sum(weight, Reserves \ Preserved) = Sum(weight, Reserves)
<1> DEFINE all == TotalWeight(weight)
<1>1. DOMAIN weight = Reserves /\ \A r \in Reserves : weight[r] \in Nat
  BY DEF TypeOK
<1>2. all = Sum(weight, Reserves) /\ all \in Nat
  BY <1>1, TotalIsSum, SumNat, GridAssumption
<1>3. MinTotal \in Nat \ {0}
  BY StrategyAssumption
<1>4. all > 0 /\ all < MinTotal => CeilDiv(MinTotal, all) \in Nat \ {0}
  <2> HIDE DEF all
  <2> QED BY <1>2, <1>3 DEF CeilDiv
<1>5. Raise = IF unallocated = 0 /\ Sum(weight, Reserves \ Preserved) = all /\ all > 0
                   /\ all < MinTotal
                THEN CeilDiv(MinTotal, all) ELSE 1
  BY <1>1 DEF Raise, WeightRaise, Sum
<1> HIDE DEF all
<1> QED
  BY <1>2, <1>4, <1>5

LEMMA TotalSound ==
  ASSUME TypeOK
  PROVE  /\ Sum(weight, Reserves \ Preserved) \in Nat
         /\ Total = Raise * Sum(weight, Reserves \ Preserved)
         /\ Total \in Nat
<1>1. \A r \in Reserves \ Preserved : weight[r] \in Nat
  BY DEF TypeOK
<1>2. IsFiniteSet(Reserves \ Preserved)
  BY GridAssumption, FS_Subset
<1>3. Sum(weight, Reserves \ Preserved) \in Nat
  BY <1>1, <1>2, SumNat
<1>4. Total = Raise * Sum(weight, Reserves \ Preserved)
  BY DEF Total, Sum
<1> QED
  BY <1>3, <1>4, RaiseSound

\* What the constraint pass builds are whole weights on the vault's total.
LEMMA BuiltMeetsTotal ==
  ASSUME NEW w, NEW den, NEW b \in Built(w, den)
  PROVE  /\ b \in [Healthy -> Nat]
         /\ IF Total = 0 THEN \A r \in Healthy : b[r] = 0
                         ELSE TotalWeight(b) = Total /\ FitsVault(b)
<1>1. CASE Total = 0
  BY <1>1 DEF Built
<1>2. CASE Total # 0
  <2>1. b \in Constrained(w, den) /\ FitsVault(b)
    BY <1>2 DEF Built
  <2>2. PICK adjusted, bounds : /\ b \in Redistribute(adjusted, den, Total, bounds)
                                /\ DOMAIN bounds.least = Healthy
    BY <2>1 DEF Constrained, Adjusted
  <2>3. MeetsTotal(b, Total, bounds)
    BY <2>2 DEF Redistribute
  <2> QED BY <1>2, <2>1, <2>2, <2>3 DEF MeetsTotal
<1> QED BY <1>1, <1>2

\* So are the weights of a strategy that is not constrained, unless they are zero.
LEMMA AbsoluteMeetsTotal ==
  ASSUME TypeOK, NEW w \in [Healthy -> Nat]
  PROVE  /\ AbsoluteWeights(w) \in [Healthy -> Nat]
         /\ Total > 0 /\ TotalWeight(w) > 0 => TotalWeight(AbsoluteWeights(w)) = Total
         /\ ~(Total > 0 /\ TotalWeight(w) > 0) => AbsoluteWeights(w) = w
<1>1. CASE Total > 0 /\ TotalWeight(w) > 0
  <2>1. Healthy # {}
    <3> SUFFICES ASSUME Healthy = {} PROVE FALSE
      OBVIOUS
    <3>1. TotalWeight(w) = 0
      BY TotalIsSum, SumEmpty DEF Sum
    <3> QED BY <1>1, <3>1
  <2>2. IsFiniteSet(Healthy) /\ Positions(Healthy)
    BY Universe DEF TypeOK
  <2>3. /\ NormalizeWeightsToTotal(w, Total) \in [Healthy -> Nat]
        /\ TotalWeight(NormalizeWeightsToTotal(w, Total)) = Total
    BY <2>1, <2>2, TotalSound, NormalizedMeetsTotal
  <2> QED BY <1>1, <2>3 DEF AbsoluteWeights
<1>2. CASE ~(Total > 0 /\ TotalWeight(w) > 0)
  BY <1>2 DEF AbsoluteWeights
<1> QED BY <1>1, <1>2

\* A step of the drift are whole weights.
LEMMA DriftedIsWhole ==
  ASSUME NEW D, Positions(D), IsFiniteSet(D), NEW current \in [D -> Nat],
         NEW target \in [D -> Nat], NEW rate \in 0..100, NEW fine,
         NEW d \in Drifted(current, target, rate, fine)
  PROVE  d \in [D -> Nat]
<1> DEFINE whole == TotalWeight(current)
           goal == TotalWeight(target)
           ahead == [r \in D |-> 100 * goal * current[r]
                                  + rate * (target[r] * whole - current[r] * goal)]
<1>1. whole \in Nat /\ goal \in Nat
  BY TotalIsSum, SumNat
<1>2. D # {}
  <2> SUFFICES ASSUME D = {} PROVE FALSE
    OBVIOUS
  <2>1. whole = 0
    BY TotalIsSum, SumEmpty DEF Sum
  <2> QED BY <2>1 DEF Drifted
<1>3. ahead \in [D -> Nat]
  <2> SUFFICES ASSUME NEW r \in D PROVE ahead[r] \in Nat
    OBVIOUS
  <2> DEFINE c == current[r]  t == target[r]
  <2>1. c \in Nat /\ t \in Nat
    OBVIOUS
  <2>2. ahead[r] = 100 * goal * c + rate * (t * whole - c * goal)
    OBVIOUS
  <2> HIDE DEF c, t, whole, goal, ahead
  <2>3. goal * c \in Nat /\ t * whole \in Nat /\ c * goal = goal * c
    BY <1>1, <2>1
  <2> DEFINE x == goal * c  y == t * whole
  <2>4. 100 * goal * c = 100 * x
    BY <1>1, <2>1
  <2>5. ahead[r] = 100 * x + rate * (y - x)
    BY <2>2, <2>3, <2>4
  <2>6. x \in Nat /\ y \in Nat
    BY <2>3
  <2> HIDE DEF x, y
  <2>7. rate * (y - x) = rate * y - rate * x /\ rate * y \in Nat /\ rate * x \in Nat
    BY <2>6
  <2>8. rate * x <= 100 * x
    BY <2>6
  <2> QED BY <2>5, <2>6, <2>7, <2>8
<1>4. d = NormalizeWeightsToTotal(ahead, whole)
  BY DEF Drifted, DrippedWeights
<1> HIDE DEF ahead, whole
<1> QED
  BY <1>1, <1>2, <1>3, <1>4, NormalizedMeetsTotal

LEMMA RateSound ==
  ASSUME plan \in Plans
  PROVE  DriftRate \in 0..100
<1>1. plan.rate \in 0..100 /\ DefaultRate \in 0..100
  BY StrategyAssumption
<1> QED
  BY <1>1 DEF DriftRate

\* The targets of a strategy that is not constrained are whole weights,
LEMMA PlainTargets ==
  ASSUME TypeOK, ~PreservedAccounting, NEW target \in Targets, NEW t \in target
  PROVE  t.weights \in [Healthy -> Nat]
<1>1. plan.strategy \notin Searching
  BY DEF PreservedAccounting
<1>2. EqualWeight \in Nat /\ RandomWeights \subseteq Nat
  BY StrategyAssumption
<1>3. \A r \in DOMAIN plan.fixed : plan.fixed[r] \in Nat
  BY StrategyAssumption DEF TypeOK
<1>4. CASE plan.strategy = "EQUAL"
  BY <1>1, <1>2, <1>4 DEF Targets, Target
<1>5. CASE plan.strategy = "RANDOM"
  BY <1>1, <1>2, <1>5 DEF Targets, Target
<1>6. CASE plan.strategy = "FIXED_WEIGHTS" /\ Healthy \subseteq DOMAIN plan.fixed
  BY <1>1, <1>3, <1>6 DEF Targets, Target
<1>7. CASE ~ \/ plan.strategy \in {"EQUAL", "RANDOM"}
             \/ plan.strategy = "FIXED_WEIGHTS" /\ Healthy \subseteq DOMAIN plan.fixed
  BY <1>1, <1>7 DEF Targets
<1> QED BY <1>4, <1>5, <1>6, <1>7

\* and so are the steps towards them.
LEMMA PlainSteps ==
  ASSUME TypeOK, ~PreservedAccounting, NEW target \in Targets, NEW t \in target,
         NEW s \in Steps(t)
  PROVE  s.weights \in [Healthy -> Nat]
<1>1. t.weights \in [Healthy -> Nat]
  BY PlainTargets
<1>2. CASE DriftRate = 0
  BY <1>1, <1>2 DEF Steps
<1>3. CASE DriftRate # 0
  <2>1. ~Capped
    BY DEF PreservedAccounting, Capped, Searching
  <2>2. PICK w, fine : /\ w \in Drifted(Current, t.weights, DriftRate, fine)
                       /\ s = Target(w, 1)
    BY <1>3, <2>1 DEF Steps
  <2>3. Current \in [Healthy -> Nat]
    BY Universe, RaiseSound DEF Current, TypeOK
  <2>4. w \in [Healthy -> Nat]
    BY <1>1, <2>2, <2>3, Universe, RateSound, DriftedIsWhole DEF TypeOK
  <2> QED BY <2>2, <2>4 DEF Target
<1> QED BY <1>2, <1>3

\* The weights of a pass: none, those of the constraint pass, or those of a
\* strategy that is not constrained.
LEMMA DecisionWrites ==
  ASSUME TypeOK, NEW target \in Targets, Decision(target).written # {}
  PROVE  IF PreservedAccounting
           THEN \E w, den : Decision(target).written \subseteq Built(w, den)
           ELSE \E w \in [Healthy -> Nat] : Decision(target).written = {AbsoluteWeights(w)}
<1> DEFINE steps == UNION {Steps(t) : t \in target}
           s == CHOOSE t \in steps : TRUE
<1>1. Decision(target) = WriteSteps(steps)
  BY DEF Decision
<1>2. steps # {}
  BY <1>1 DEF WriteSteps, Keep
<1>3. s \in steps /\ Decision(target) = Write(s.weights, s.den)
  BY <1>1, <1>2 DEF WriteSteps
<1>4. PICK t \in target : s \in Steps(t)
  BY <1>3
<1> HIDE DEF s
<1>5. CASE PreservedAccounting
  <2>1. Decision(target).written \subseteq Built(s.weights, s.den)
    BY <1>3, <1>5 DEF Write, Checked, Keep
  <2> QED BY <1>5, <2>1
<1>6. CASE ~PreservedAccounting
  <2>1. s.weights \in [Healthy -> Nat]
    BY <1>4, <1>6, PlainSteps
  <2>2. Decision(target).written = {AbsoluteWeights(s.weights)}
    BY <1>3, <1>6 DEF Write, Checked, Keep
  <2> QED BY <1>6, <2>1, <2>2
<1> QED BY <1>5, <1>6

\* What Emit leaves to the healthy reserves.
LEMMA EmitWrites ==
  ASSUME NEW written, written # {}, Emit(written)
  PROVE  \E b \in written :
           update' = [r \in Reserves |-> IF r \in Healthy THEN b[r]
                                        ELSE IF r \in black THEN 0 ELSE weight[r]]
<1> DEFINE b == CHOOSE w \in written : TRUE
<1>1. b \in written
  OBVIOUS
<1>2. update' = [r \in Reserves |-> IF r \in Healthy THEN b[r]
                                   ELSE IF r \in black THEN 0 ELSE weight[r]]
  BY DEF Emit, Healthy
<1> QED BY <1>1, <1>2

\* The canonical target of some weights.
LEMMA ScaleSound ==
  ASSUME TypeOK, NEW den \in Nat \ {0}, NEW w, \A r \in Healthy : w[r] \in Nat
  PROVE  /\ \A r \in Reserves : Written(w, den, r) \in Nat
         /\ Allocated(w, den) \in Nat
         /\ Allocated(w, den) = Sum([r \in Reserves |-> Written(w, den, r)], Reserves)
         /\ \A r \in Reserves : Written(w, den, r) <= Allocated(w, den)
         /\ Scale(w, den) \in Nat \ {0}
<1> DEFINE v == [r \in Reserves |-> Written(w, den, r)]
<1>1. \A r \in Reserves : v[r] = Written(w, den, r) /\ v[r] \in Nat
  BY DEF Written, TypeOK
<1>2. Allocated(w, den) = Sum(v, Reserves)
  BY TotalIsSum DEF Allocated
<1>0. IsFiniteSet(Reserves) /\ Allocated(w, den) = TotalWeight(v)
  BY GridAssumption DEF Allocated
<1>3. Sum(v, Reserves) \in Nat /\ \A r \in Reserves : v[r] <= Sum(v, Reserves)
  <2> HIDE DEF v
  <2> QED BY <1>0, <1>1, SumNat, SumBounds
<1>4. unallocated \in Nat
  BY DEF TypeOK
<1>5. Scale(w, den) \in Nat \ {0}
  <2> HIDE DEF v
  <2>1. Allocated(w, den) \in Nat /\ den * unallocated \in Nat
    BY <1>2, <1>3, <1>4
  <2> QED BY <2>1 DEF Scale
<1> QED
  BY <1>1, <1>2, <1>3, <1>5

\* The invest brings no reserve below zero.
LEMMA ReachedIsWhole ==
  ASSUME TypeOK, NEW r \in Reserves
  PROVE  Reached(r) \in Nat
<1> DEFINE goal == TargetTokens(OnChain, 1, r) \div Scale(OnChain, 1)
           c == Capacity(r, 1)
<1>1. goal \in Nat
  <2>1. \A q \in Healthy : OnChain[q] \in Nat
    BY DEF OnChain, Healthy, TypeOK
  <2>2. Written(OnChain, 1, r) \in Nat /\ Scale(OnChain, 1) \in Nat \ {0}
    <3>1. 1 \in Nat \ {0}
      OBVIOUS
    <3> QED BY <2>1, <3>1, ScaleSound
  <2>3. TargetTokens(OnChain, 1, r) \in Nat
    BY <2>2, StrategyAssumption DEF TargetTokens
  <2> QED BY <2>2, <2>3
<1>2. /\ held[r] \in Nat /\ market.lent[r] \in Nat /\ market.limit[r] \in Nat
      /\ market.capLeft[r] \in Nat
  BY StrategyAssumption DEF TypeOK
<1>3. Withdrawable(c) \in 0..held[r]
  BY <1>2 DEF Withdrawable, Capacity, AtLeastZero, Smaller
<1>4. Depositable(c) \in Nat
  BY <1>2 DEF Depositable, Capacity, AtLeastZero
<1>5. Reached(r) = Clamp(held[r] - Withdrawable(c), held[r] + Depositable(c), goal)
  BY DEF Reached
<1> HIDE DEF goal, c
<1> QED
  BY <1>1, <1>2, <1>3, <1>4, <1>5 DEF Clamp, Smaller

LEMMA PassType ==
  ASSUME TypeOK, NEW target \in Targets, Emit(Decision(target).written)
  PROVE  update' \in [Reserves -> Nat]
<1> DEFINE written == Decision(target).written
<1>1. weight \in [Reserves -> Nat]
  BY DEF TypeOK
<1>2. CASE written = {}
  BY <1>1, <1>2 DEF Emit
<1>3. CASE written # {}
  <2>1. PICK b \in written :
          update' = [r \in Reserves |-> IF r \in Healthy THEN b[r]
                                       ELSE IF r \in black THEN 0 ELSE weight[r]]
    BY <1>3, EmitWrites
  <2>2. b \in [Healthy -> Nat]
    BY <1>3, DecisionWrites, BuiltMeetsTotal, AbsoluteMeetsTotal
  <2> QED BY <1>1, <2>1, <2>2
<1> QED BY <1>2, <1>3

LEMMA TypeInit == Init => TypeInv
<1> SUFFICES ASSUME Init PROVE TypeInv
  OBVIOUS
<1>1. PICK s \in Starts :
        weight = s.weight /\ held = s.held /\ unallocated = s.unallocated
  BY DEF Init
<1>2. {weight, held, update} \subseteq [Reserves -> Nat] /\ unallocated \in Nat
  BY <1>1, StrategyAssumption DEF Init
<1>3. events \in 0..MaxEvents
  BY StrategyAssumption DEF Init
<1> QED
  BY <1>2, <1>3 DEF Init, TypeInv, TypeOK, Landed, Resting

LEMMA TypeStep ==
  ASSUME TypeInv, [Next]_vars
  PROVE  TypeInv'
<1> USE DEF TypeInv, Landed, Resting
<1>1. ASSUME PassFails PROVE TypeInv'
  <2>1. update' \in [Reserves -> Nat]
    BY <1>1 DEF PassFails, Emit, TypeOK
  <2>2. FilterAllows(OnChain, 1) \in BOOLEAN
    BY DEF FilterAllows
  <2> QED BY <1>1, <2>1, <2>2 DEF PassFails, Leave, TypeOK
<1>2. ASSUME Pass PROVE TypeInv'
  <2>1. PICK target \in Targets :
          /\ Emit(Decision(target).written)
          /\ Leave("send", Decision(target).allowed, Decision(target).allowed)
    BY <1>2 DEF Pass
  <2>2. update' \in [Reserves -> Nat]
    BY <2>1, PassType
  <2>3. Decision(target).allowed \in BOOLEAN
    BY DEF Decision, WriteSteps, Write, Checked, Keep, FilterAllows
  <2> QED BY <1>2, <2>1, <2>2, <2>3 DEF Pass, Leave, TypeOK
<1>3. ASSUME UpdateLands PROVE TypeInv'
  BY <1>3 DEF UpdateLands, Leave, TypeOK
<1>4. ASSUME UpdateFails PROVE TypeInv'
  <2>1. MaxEvents \in Nat
    BY StrategyAssumption
  <2>2. events' \in 0..MaxEvents
    BY <1>4, <2>1 DEF UpdateFails, TypeOK
  <2> QED BY <1>4, <2>2 DEF UpdateFails, Leave, TypeOK
<1>5. ASSUME Invest PROVE TypeInv'
  <2>1. PICK moved \in SUBSET Movable :
          held' = [r \in Reserves |-> IF r \in moved THEN Reached(r) ELSE held[r]]
    BY <1>5 DEF Invest
  <2>2. held' \in [Reserves -> Nat]
    BY <2>1, ReachedIsWhole DEF TypeOK
  <2> QED BY <1>5, <2>2 DEF Invest, Leave, TypeOK
<1>6. ASSUME Outside PROVE TypeInv'
  <2>1. Event
    BY <1>6 DEF Outside, MarketMoves, Blacklist, Readmit, Cool, CoolEnds
  <2>2. events' \in 0..MaxEvents
    BY <2>1, StrategyAssumption DEF Event, TypeOK
  <2>3. CASE MarketMoves
    BY <2>2, <2>3 DEF MarketMoves, Event, TypeOK
  <2>4. CASE \E r \in Reserves : Blacklist(r)
    BY <2>2, <2>4 DEF Blacklist, Event, TypeOK
  <2>5. CASE \E r \in Reserves : Readmit(r) \/ Cool(r) \/ CoolEnds(r)
    BY <2>2, <2>5 DEF Readmit, Cool, CoolEnds, Event, TypeOK
  <2> QED BY <1>6, <2>3, <2>4, <2>5 DEF Outside
<1>7. CASE UNCHANGED vars
  BY <1>7 DEF vars, TypeOK
<1> QED
  BY <1>1, <1>2, <1>3, <1>4, <1>5, <1>6, <1>7 DEF Next, Loop

LEMMA TypeInvariance == Spec => []TypeInv
BY TypeInit, TypeStep, PTL DEF Spec

\* Weights and holdings stay whole and never negative, whatever the constraint
\* pass, the drift and the rounding make of them, and no update is pending
\* between passes.
THEOREM TypeCorrect == Spec => []TypeOK
BY TypeInvariance, PTL DEF TypeInv

-----------------------------------------------------------------------------
(* What a strategy writes                                                  *)

\* New weights come from a pass of the strategy.
LEMMA StrategyStep ==
  ASSUME TypeInv, [Next]_vars, StrategyWrites
  PROVE  \E target \in Targets :
           /\ Decision(target).written # {}
           /\ Emit(Decision(target).written)
<1>1. pc = "wait" /\ ran' /\ ~ran
  BY DEF StrategyWrites, TypeInv, Resting
<1>2. ~PassFails /\ ~Outside /\ ~UpdateLands /\ ~UpdateFails /\ ~Invest /\ ~UNCHANGED vars
  BY <1>1 DEF PassFails, Outside, MarketMoves, Blacklist, Readmit, Cool, CoolEnds, Event,
              UpdateLands, UpdateFails, Invest, Leave, vars
<1>3. Pass
  BY <1>2 DEF Next, Loop
<1>4. PICK target \in Targets : Emit(Decision(target).written)
  BY <1>3 DEF Pass
<1>5. Decision(target).written # {}
  <2> SUFFICES ASSUME Decision(target).written = {} PROVE FALSE
    OBVIOUS
  <2>1. \A r \in Healthy : update'[r] = weight[r]
    BY <1>4 DEF Emit, Healthy
  <2> QED BY <2>1 DEF StrategyWrites
<1> QED BY <1>4, <1>5

\* Without a weight total the healthy reserves have no weight.
LEMMA NoTotal ==
  ASSUME TypeOK, Total = 0
  PROVE  \A r \in Healthy : weight[r] = 0
<1> SUFFICES ASSUME NEW r \in Healthy PROVE weight[r] = 0
  OBVIOUS
<1> DEFINE active == Reserves \ Preserved
<1>1. IsFiniteSet(active) /\ r \in active /\ \A q \in active : weight[q] \in Nat
  BY GridAssumption, FS_Subset DEF TypeOK, Healthy, Preserved
<1>2. Sum(weight, active) = 0
  BY TotalSound, RaiseSound
<1> HIDE DEF active
<1>3. weight[r] <= Sum(weight, active)
  BY <1>1, SumBounds
<1> QED BY <1>1, <1>2, <1>3

\* The written weights are those of their canonical target.
LEMMA WrittenIsUpdate ==
  ASSUME TypeOK, NEW b \in [Healthy -> Nat],
         update' = [r \in Reserves |-> IF r \in Healthy THEN b[r]
                                      ELSE IF r \in black THEN 0 ELSE weight[r]]
  PROVE  /\ [r \in Reserves |-> Written(b, 1, r)] = update'
         /\ Allocated(b, 1) = TotalWeight(update')
         /\ TotalWeight(update') = Sum(update', Reserves)
         /\ update' \in [Reserves -> Nat]
<1>1. \A r \in Reserves : Written(b, 1, r) = update'[r] /\ update'[r] \in Nat
  BY DEF Written, TypeOK
<1>2. [r \in Reserves |-> Written(b, 1, r)] = update'
  BY <1>1
<1>3. update' \in [Reserves -> Nat]
  BY <1>1
<1> QED
  BY <1>2, <1>3, TotalIsSum DEF Allocated

LEMMA CapacityStep ==
  ASSUME TypeInv, [Next]_vars, StrategyWrites, PreservedAccounting
  PROVE  \A r \in Healthy :
           FitsCapacity(Capacity(r, 1), Assets * update'[r],
                        TotalWeight(update') + unallocated)
<1> USE DEF TypeInv
<1>1. PICK target \in Targets :
        Decision(target).written # {} /\ Emit(Decision(target).written)
  BY StrategyStep
<1>2. PICK b \in Decision(target).written :
        update' = [r \in Reserves |-> IF r \in Healthy THEN b[r]
                                     ELSE IF r \in black THEN 0 ELSE weight[r]]
  BY <1>1, EmitWrites
<1>3. PICK w, den : b \in Built(w, den)
  BY <1>1, DecisionWrites
<1>4. b \in [Healthy -> Nat]
  BY <1>3, BuiltMeetsTotal
<1>5. Total # 0
  <2> SUFFICES ASSUME Total = 0 PROVE FALSE
    OBVIOUS
  <2>1. \A r \in Healthy : b[r] = 0 /\ weight[r] = 0
    BY <1>3, BuiltMeetsTotal, NoTotal
  <2>2. \A r \in Healthy : update'[r] = weight[r]
    BY <1>2, <2>1 DEF Healthy
  <2> QED BY <2>2 DEF StrategyWrites
<1>6. TotalWeight(b) = Total /\ FitsVault(b)
  BY <1>3, <1>5, BuiltMeetsTotal
<1>7. Allocated(b, 1) = TotalWeight(update') /\ Allocated(b, 1) \in Nat
  <2>1. 1 \in Nat \ {0} /\ \A r \in Healthy : b[r] \in Nat
    BY <1>4
  <2> QED BY <1>2, <1>4, <2>1, WrittenIsUpdate, ScaleSound
<1>8. Allocated(b, 1) # 0
  <2> SUFFICES ASSUME Allocated(b, 1) = 0 PROVE FALSE
    OBVIOUS
  <2>1. 1 \in Nat \ {0} /\ \A r \in Healthy : b[r] \in Nat
    BY <1>4
  <2>2. \A r \in Reserves : Written(b, 1, r) <= 0 /\ Written(b, 1, r) \in Nat
    BY <2>1, ScaleSound
  <2>3. \A r \in Healthy : b[r] = 0
    BY <1>4, <2>2 DEF Written, Healthy
  <2>4. TotalWeight(b) = 0
    BY <1>4, <2>3, TotalIsSum, SumOfNothing, Universe DEF TypeOK
  <2> QED BY <1>5, <1>6, <2>4
<1>9. Scale(b, 1) = TotalWeight(update') + unallocated
  <2>1. unallocated \in Nat
    BY DEF TypeOK
  <2> QED BY <1>7, <1>8, <2>1 DEF Scale
<1>10. \A r \in Healthy : TargetTokens(b, 1, r) = Assets * update'[r]
  BY <1>2 DEF TargetTokens, Written, Healthy
<1> QED
  BY <1>6, <1>9, <1>10 DEF FitsVault

\* The weights that an aggressive strategy writes ask of no reserve more tokens
\* than it takes in or gives back: the last check is on the canonical target, and
\* that is the one that lands.
THEOREM WritesWithinCapacity == Spec => WithinCapacity
<1>1. TypeInv /\ [Next]_vars =>
        [StrategyWrites /\ PreservedAccounting =>
          \A r \in Healthy :
            FitsCapacity(Capacity(r, 1), Assets * update'[r],
                         TotalWeight(update') + unallocated)]_vars
  BY CapacityStep
<1> QED
  BY <1>1, TypeInvariance, PTL DEF Spec, WithinCapacity

\* The weights written for the healthy reserves have the vault's total, unless
\* they are all zero.
LEMMA WritesMeetTotal ==
  ASSUME TypeInv, [Next]_vars, StrategyWrites, Total > 0, \E r \in Healthy : update'[r] > 0
  PROVE  \E b \in [Healthy -> Nat] :
           /\ Sum(b, Healthy) = Total
           /\ update' = [r \in Reserves |-> IF r \in Healthy THEN b[r]
                                           ELSE IF r \in black THEN 0 ELSE weight[r]]
<1> USE DEF TypeInv
<1>1. PICK target \in Targets :
        Decision(target).written # {} /\ Emit(Decision(target).written)
  BY StrategyStep
<1>2. PICK b \in Decision(target).written :
        update' = [r \in Reserves |-> IF r \in Healthy THEN b[r]
                                     ELSE IF r \in black THEN 0 ELSE weight[r]]
  BY <1>1, EmitWrites
<1>3. CASE PreservedAccounting
  <2>1. PICK w, den : b \in Built(w, den)
    BY <1>1, <1>3, DecisionWrites
  <2>2. b \in [Healthy -> Nat] /\ TotalWeight(b) = Total
    BY <2>1, BuiltMeetsTotal
  <2> QED BY <1>2, <2>2, TotalIsSum
<1>4. CASE ~PreservedAccounting
  <2>1. PICK w \in [Healthy -> Nat] : b = AbsoluteWeights(w)
    BY <1>1, <1>4, DecisionWrites
  <2>2. b \in [Healthy -> Nat]
    BY <2>1, AbsoluteMeetsTotal
  <2>3. TotalWeight(w) > 0
    <3> SUFFICES ASSUME ~(TotalWeight(w) > 0) PROVE FALSE
      OBVIOUS
    <3>1. b = w
      BY <2>1, AbsoluteMeetsTotal
    <3>2. PICK r \in Healthy : b[r] > 0
      BY <1>2 DEF Healthy
    <3>3. b[r] <= Sum(b, Healthy) /\ Sum(b, Healthy) \in Nat
      BY <2>2, SumBounds, SumNat, Universe DEF TypeOK
    <3>4. TotalWeight(w) = Sum(b, Healthy)
      BY <3>1, TotalIsSum
    <3> QED BY <2>2, <3>2, <3>3, <3>4
  <2>4. TotalWeight(b) = Total
    BY <2>1, <2>3, AbsoluteMeetsTotal
  <2> QED BY <1>2, <2>2, <2>4, TotalIsSum
<1> QED BY <1>3, <1>4

LEMMA SharesStep ==
  ASSUME TypeInv, [Next]_vars, StrategyWrites, Total > 0, \E r \in Healthy : update'[r] > 0,
         NEW before, before = TotalWeight(weight) + unallocated,
         NEW after, after = TotalWeight(update') + unallocated
  PROVE  /\ unallocated * before = unallocated * after
         /\ \A r \in Preserved : update'[r] * before = weight[r] * after
<1> USE DEF TypeInv
<1>1. PICK b \in [Healthy -> Nat] :
        /\ Sum(b, Healthy) = Total
        /\ update' = [r \in Reserves |-> IF r \in Healthy THEN b[r]
                                        ELSE IF r \in black THEN 0 ELSE weight[r]]
  BY WritesMeetTotal
<1> DEFINE active == Reserves \ Preserved
           kept == Sum(weight, Preserved)
           rebalanced == Sum(weight, active)
<1>2. /\ IsFiniteSet(Reserves) /\ IsFiniteSet(active) /\ IsFiniteSet(Preserved)
      /\ IsFiniteSet(active \ Healthy) /\ IsFiniteSet(Healthy)
      /\ Preserved \in SUBSET Reserves /\ Healthy \in SUBSET active
      /\ active = Reserves \ Preserved
  BY Universe, FS_Subset DEF TypeOK, Healthy, Preserved
<1>3. /\ \A r \in Reserves : weight[r] \in Int /\ update'[r] \in Int
      /\ \A r \in Reserves : weight[r] \in Nat
      /\ \A r \in active : update'[r] \in Int
  BY <1>1 DEF TypeOK
<1>4. /\ \A r \in Preserved : update'[r] = weight[r]
      /\ \A r \in active \ Healthy : update'[r] = 0
      /\ \A r \in Healthy : update'[r] = b[r]
  BY <1>1, <1>2 DEF Healthy, Preserved
<1>5. TotalWeight(weight) = Sum(weight, Reserves) /\ TotalWeight(update') = Sum(update', Reserves)
  BY <1>1, TotalIsSum DEF TypeOK
<1>6. Total = Raise * rebalanced /\ rebalanced \in Nat /\ Raise \in Nat \ {0}
  BY TotalSound, RaiseSound
<1>7. kept \in Nat /\ unallocated \in Nat
  BY <1>2, <1>3, SumNat DEF TypeOK
<1> HIDE DEF active
<1>8. Sum(weight, Reserves) = kept + rebalanced
  BY <1>2, <1>3, SumSplit
<1>9. Sum(update', Reserves) = kept + Raise * rebalanced
  <2>1. Sum(update', Reserves) = Sum(update', Preserved) + Sum(update', active)
    BY <1>2, <1>3, SumSplit
  <2>2. Sum(update', Preserved) = kept
    BY <1>2, <1>4, SumEqual
  <2>3. Sum(update', active) = Sum(update', Healthy) + Sum(update', active \ Healthy)
    BY <1>2, <1>3, SumSplit
  <2>4. Sum(update', active \ Healthy) = 0
    BY <1>2, <1>4, SumOfNothing
  <2>5. Sum(update', Healthy) = Sum(b, Healthy)
    BY <1>2, <1>4, SumEqual
  <2> HIDE DEF kept, rebalanced
  <2>6. Raise * rebalanced \in Nat
    BY <1>6
  <2> QED BY <1>1, <1>6, <2>1, <2>2, <2>3, <2>4, <2>5, <2>6
<1>10. CASE Raise = 1
  <2>1. before = after
    <3> HIDE DEF kept, rebalanced
    <3> QED BY <1>5, <1>6, <1>7, <1>8, <1>9, <1>10
  <2> QED BY <1>4, <2>1
<1>11. CASE Raise # 1
  <2>1. unallocated = 0 /\ kept = 0
    <3>1. unallocated = 0 /\ rebalanced = Sum(weight, Reserves)
      BY <1>11, RaiseSound DEF active
    <3> HIDE DEF kept, rebalanced
    <3> QED BY <1>6, <1>7, <1>8, <3>1
  <2>2. \A r \in Preserved : weight[r] = 0
    <3> SUFFICES ASSUME NEW r \in Preserved PROVE weight[r] = 0
      OBVIOUS
    <3>1. weight[r] <= kept /\ weight[r] \in Nat
      BY <1>2, <1>3, SumBounds
    <3> QED BY <2>1, <3>1
  <2>3. before \in Int /\ after \in Int
    <3> HIDE DEF kept, rebalanced
    <3>1. Raise * rebalanced \in Nat
      BY <1>6
    <3> QED BY <1>5, <1>6, <1>7, <1>8, <1>9, <3>1
  <2>4. unallocated * before = unallocated * after
    BY <2>1, <2>3
  <2>5. \A r \in Preserved : update'[r] * before = weight[r] * after
    BY <1>4, <2>2, <2>3
  <2> QED BY <2>4, <2>5
<1> QED BY <1>10, <1>11

\* New weights leave the unallocated share of the vault and that of every reserve
\* in cooldown as they were: the total is kept, and raised only without them.
THEOREM WritesKeepShares == Spec => SharesKept
<1>1. TypeInv /\ [Next]_vars =>
        [StrategyWrites /\ Total > 0 /\ (\E r \in Healthy : update'[r] > 0) =>
           LET before == TotalWeight(weight) + unallocated
               after == TotalWeight(update') + unallocated
           IN  /\ unallocated * before = unallocated * after
               /\ \A r \in Preserved : update'[r] * before = weight[r] * after]_vars
  BY SharesStep
<1> QED
  BY <1>1, TypeInvariance, PTL DEF Spec, SharesKept

-----------------------------------------------------------------------------
(* The search                                                              *)

LEMMA FunctionsAreFinite ==
  ASSUME NEW S, IsFiniteSet(S), NEW T, IsFiniteSet(T)
  PROVE  IsFiniteSet([S -> T])
<1> DEFINE graph == [f \in [S -> T] |-> {<<x, f[x]>> : x \in S}]
           graphs == SUBSET (S \X T)
<1>1. IsFiniteSet(graphs)
  BY FS_Product, FS_SUBSET
<1>2. graph \in [[S -> T] -> graphs]
  OBVIOUS
<1>3. ASSUME NEW f \in [S -> T], NEW g \in [S -> T], graph[f] = graph[g]
      PROVE  f = g
  <2>1. ASSUME NEW x \in S PROVE f[x] = g[x]
    <3>1. <<x, f[x]>> \in graph[g]
      BY <1>3
    <3> QED BY <3>1
  <2> QED BY <2>1
<1> HIDE DEF graph, graphs
<1>4. graph \in Injection([S -> T], graphs)
  BY <1>2, <1>3 DEF Injection, IsInjective
<1> QED
  BY <1>1, <1>4, FS_Injection

LEMMA ImageIsFinite ==
  ASSUME NEW S, IsFiniteSet(S), NEW f, DOMAIN f = S, f = [x \in S |-> f[x]]
  PROVE  IsFiniteSet({f[x] : x \in S})
<1> DEFINE T == {f[x] : x \in S}
<1>1. f \in Surjection(S, T)
  BY DEF Surjection
<1> HIDE DEF T
<1>2. IsFiniteSet(T)
  BY <1>1, FS_Surjection
<1> QED BY <1>2 DEF T

\* The order of the points is total: it looks at the first place that differs.
LEMMA BeforeIsTotal ==
  ASSUME NEW S, Positions(S), NEW p \in [S -> Nat], NEW q \in [S -> Nat]
  PROVE  /\ ~Before(p, p)
         /\ p = q \/ Before(p, q) \/ Before(q, p)
<1>0. p # q => \E r \in S : p[r] # q[r]
  OBVIOUS
<1> USE DEF Positions
<1>1. ~Before(p, p)
  BY DEF Before
<1>2. ASSUME p # q PROVE Before(p, q) \/ Before(q, p)
  <2> DEFINE N == {r \in S : p[r] # q[r]}
  <2>1. N \in SUBSET Nat /\ N # {}
    BY <1>0, <1>2
  <2>2. PICK r \in N : \A s \in N : r <= s
    <3> HIDE DEF N
    <3> QED BY <2>1, LeastNatural
  <2>3. \A s \in S : s < r => p[s] = q[s]
    BY <2>2
  <2>4. p[r] < q[r] \/ q[r] < p[r]
    BY <2>2
  <2> QED BY <2>2, <2>3, <2>4 DEF Before
<1> QED BY <1>1, <1>2

LEMMA BeforeIsTransitive ==
  ASSUME NEW S, Positions(S), NEW p \in [S -> Nat], NEW q \in [S -> Nat],
         NEW o \in [S -> Nat], Before(p, q), Before(q, o)
  PROVE  Before(p, o)
<1> USE DEF Positions
<1>1. PICK r \in S : p[r] < q[r] /\ \A s \in S : s < r => p[s] = q[s]
  BY DEF Before
<1>2. PICK t \in S : q[t] < o[t] /\ \A s \in S : s < t => q[s] = o[s]
  BY DEF Before
<1>3. CASE r < t
  <2>1. p[r] < o[r] /\ \A s \in S : s < r => p[s] = o[s]
    BY <1>1, <1>2, <1>3
  <2> QED BY <2>1 DEF Before
<1>4. CASE t < r
  <2>1. p[t] < o[t] /\ \A s \in S : s < t => p[s] = o[s]
    BY <1>1, <1>2, <1>4
  <2> QED BY <2>1 DEF Before
<1>5. CASE r = t
  <2>1. p[r] < o[r] /\ \A s \in S : s < r => p[s] = o[s]
    BY <1>1, <1>2, <1>5
  <2> QED BY <2>1 DEF Before
<1>6. r \in Nat /\ t \in Nat
  OBVIOUS
<1> QED BY <1>3, <1>4, <1>5, <1>6

\* Candidates of a search over the places S: each point has one score.
Candidates(C, S) ==
  /\ IsFiniteSet(C)
  /\ \A c \in C : c.score \in Int /\ c.point \in [S -> Nat]
  /\ \A c, d \in C : c.point = d.point => c = d

\* The better of two candidates, the one that comes first among equals.
Better(c, d) == d.score < c.score \/ (d.score = c.score /\ Before(c.point, d.point))

\* The best of some candidates exists, and it is the best of them.
LEMMA BestIsBest ==
  ASSUME NEW S, Positions(S), NEW C, Candidates(C, S), NEW E \in SUBSET C, E # {}
  PROVE  /\ BestOf(E) \in E
         /\ \A d \in E : d.score <= BestOf(E).score
<1> DEFINE R == {q \in C \X C : Better(q[1], q[2])}
<1>1. \A c, d \in C : <<c, d>> \in R <=> Better(c, d)
  OBVIOUS
<1>2. \A c, d \in C : c = d \/ Better(c, d) \/ Better(d, c)
  <2> SUFFICES ASSUME NEW c \in C, NEW d \in C, c # d PROVE Better(c, d) \/ Better(d, c)
    OBVIOUS
  <2>1. /\ c.score \in Int /\ d.score \in Int
        /\ c.point \in [S -> Nat] /\ d.point \in [S -> Nat] /\ c.point # d.point
    BY DEF Candidates
  <2>2. Before(c.point, d.point) \/ Before(d.point, c.point)
    BY <2>1, BeforeIsTotal
  <2> QED BY <2>1, <2>2 DEF Better
<1>3. \A c \in C : ~Better(c, c)
  <2> SUFFICES ASSUME NEW c \in C PROVE ~Better(c, c)
    OBVIOUS
  <2>1. c.score \in Int /\ c.point \in [S -> Nat]
    BY DEF Candidates
  <2>2. ~Before(c.point, c.point)
    BY <2>1, BeforeIsTotal
  <2> QED BY <2>1, <2>2 DEF Better
<1>4. \A c, d, e \in C : Better(c, d) /\ Better(d, e) => Better(c, e)
  <2> SUFFICES ASSUME NEW c \in C, NEW d \in C, NEW e \in C, Better(c, d), Better(d, e)
               PROVE  Better(c, e)
    OBVIOUS
  <2>1. /\ c.score \in Int /\ d.score \in Int /\ e.score \in Int
        /\ c.point \in [S -> Nat] /\ d.point \in [S -> Nat] /\ e.point \in [S -> Nat]
    BY DEF Candidates
  <2>2. Before(c.point, d.point) /\ Before(d.point, e.point) => Before(c.point, e.point)
    BY <2>1, BeforeIsTransitive
  <2> QED BY <2>1, <2>2 DEF Better
<1>5. Orders(R, C)
  <2> HIDE DEF R
  <2> QED BY <1>1, <1>2, <1>3, <1>4 DEF Orders
<1>6. \E c \in E : \A d \in E : d = c \/ <<c, d>> \in R
  <2>1. IsFiniteSet(C)
    BY DEF Candidates
  <2> HIDE DEF R
  <2> QED BY <1>5, <2>1, LeastInOrder
<1>7. \E c \in E : \A d \in E \ {c} : Better(c, d)
  BY <1>1, <1>6
<1>8. BestOf(E) \in E /\ \A d \in E \ {BestOf(E)} : Better(BestOf(E), d)
  <2> DEFINE P(c) == \A d \in E \ {c} : Better(c, d)
             b == CHOOSE c \in E : P(c)
  <2>1. \E c \in E : P(c)
    BY <1>7
  <2>2. b \in E /\ P(b)
    <3> HIDE DEF P
    <3> QED BY <2>1
  <2>3. b = BestOf(E)
    BY DEF BestOf, Better
  <2> QED BY <2>2, <2>3
<1> DEFINE b == BestOf(E)
<1>9. ASSUME NEW d \in E PROVE d.score <= b.score
  <2>1. b \in C /\ d \in C
    BY <1>8
  <2>2. b.score \in Int /\ d.score \in Int
    BY <2>1 DEF Candidates
  <2>3. d = b \/ Better(b, d)
    BY <1>8
  <2> HIDE DEF b
  <2> QED BY <2>2, <2>3 DEF Better
<1> QED BY <1>8, <1>9

\* A later phase never gives up a better point.
LEMMA ImproveKeeps ==
  ASSUME NEW S, Positions(S), NEW C, Candidates(C, S), NEW best \in C, NEW E \in SUBSET C
  PROVE  /\ Improve(best, E) \in C
         /\ best.score <= Improve(best, E).score
<1>0. best.score \in Int /\ \A c \in E : c.score \in Int
  BY DEF Candidates
<1>1. CASE \E c \in E : c.score > best.score
  <2>1. PICK c \in E : c.score > best.score
    BY <1>1
  <2>2. Improve(best, E) = BestOf(E) /\ E # {}
    BY <1>1 DEF Improve
  <2>3. BestOf(E) \in E /\ c.score <= BestOf(E).score
    BY <2>1, <2>2, BestIsBest
  <2>4. BestOf(E).score \in Int /\ c.score \in Int
    BY <1>0, <2>3
  <2> QED BY <1>0, <2>1, <2>2, <2>3, <2>4
<1>2. CASE ~ \E c \in E : c.score > best.score
  BY <1>0, <1>2 DEF Improve
<1> QED BY <1>1, <1>2

\* What the search finds is a candidate, at least as good as those of the coarse
\* grid, whatever the later phases skip.
LEMMA SearchBeatsCoarse ==
  ASSUME NEW S, Positions(S), NEW C, Candidates(C, S), NEW p \in Search(S, C)
  PROVE  \E x \in C : /\ x.point = p
                      /\ \A c \in C : c.point \in AllocationPoints(S, CoarseStep) =>
                           c.score <= x.score
<1> DEFINE rated == Among(C, AllocationPoints(S, CoarseStep))
           best == BestOf(rated)
<1>1. p \in CoarseToFine(S, C).found
  BY DEF Search
<1>2. rated # {}
  BY <1>1 DEF CoarseToFine
<1>3. rated \in SUBSET C
  BY DEF Among
<1>4. PICK centers, counted : p \in MediumPhase(C, best, centers, counted).found
  BY <1>1, <1>2 DEF CoarseToFine
<1>5. PICK near, medium, region :
        p = Improve(Improve(Improve(best, Among(C, region)), Among(C, medium)),
                    Among(C, near)).point
  BY <1>4 DEF MediumPhase, FinePhase
<1> HIDE DEF rated
<1>6. best \in C /\ \A c \in rated : c.score <= best.score
  BY <1>2, <1>3, BestIsBest
<1> HIDE DEF best
<1> DEFINE first == Improve(best, Among(C, region))
           second == Improve(first, Among(C, medium))
           third == Improve(second, Among(C, near))
<1>7. \A points : Among(C, points) \in SUBSET C
  BY DEF Among
<1>8. first \in C /\ best.score <= first.score
  BY <1>6, <1>7, ImproveKeeps
<1>9. second \in C /\ first.score <= second.score
  <2> HIDE DEF first
  <2> QED BY <1>7, <1>8, ImproveKeeps
<1>10. third \in C /\ second.score <= third.score
  <2> HIDE DEF first, second
  <2> QED BY <1>7, <1>9, ImproveKeeps
<1>11. p = third.point
  BY <1>5
<1> HIDE DEF first, second, third
<1>12. ASSUME NEW c \in C, c.point \in AllocationPoints(S, CoarseStep)
       PROVE  c.score <= third.score
  <2>1. c \in rated
    BY <1>12 DEF rated, Among
  <2>2. /\ c.score \in Int /\ best.score \in Int /\ first.score \in Int
        /\ second.score \in Int /\ third.score \in Int
    BY <1>6, <1>8, <1>9, <1>10 DEF Candidates
  <2> QED BY <1>6, <1>8, <1>9, <1>10, <2>1, <2>2
<1> QED BY <1>10, <1>11, <1>12

LEMMA CandidateIsWhole ==
  ASSUME TypeOK, NEW p \in Points[Healthy]
  PROVE  /\ p \in [Healthy -> 0..Grid] /\ SumFunction(p) = Grid
         /\ Candidate(p) \in [Healthy -> Nat]
<1>1. Healthy \in SUBSET Reserves
  BY DEF Healthy
<1>2. p \in [Healthy -> 0..Grid] /\ SumFunction(p) = Grid
  BY <1>1 DEF Points
<1>3. Total \in Nat /\ Grid \in Nat
  BY TotalSound, GridAssumption
<1>4. \A r \in Healthy : p[r] * Total \in Nat
  <2> SUFFICES ASSUME NEW r \in Healthy PROVE p[r] * Total \in Nat
    OBVIOUS
  <2>1. p[r] \in Nat
    BY <1>2, <1>3
  <2> QED BY <1>3, <2>1
<1> QED
  BY <1>2, <1>4 DEF Candidate

\* The objective of the strategies is a whole number of yield units.
LEMMA ObjectiveIsWhole ==
  ASSUME TypeOK, NEW w \in [Healthy -> Nat]
  PROVE  Objective(w) \in Int
<1> DEFINE scale == Scale(w, Grid)
           tokens(r) == TargetTokens(w, Grid, r)
           yield(r) == market.rate[r] * scale - tokens(r)
           gap(p, q) == yield(p) - yield(q)
           pairs == {q \in Healthy \X Healthy : q[1] < q[2]}
           gaps == [q \in pairs |-> gap(q[1], q[2]) * gap(q[1], q[2])]
           yields == [r \in Healthy |-> tokens(r) * yield(r)]
<1>1. Grid \in Nat \ {0} /\ Assets \in Nat
  BY GridAssumption, StrategyAssumption
<1>2. scale \in Nat /\ \A r \in Reserves : Written(w, Grid, r) \in Nat
  <2>1. \A r \in Healthy : w[r] \in Nat
    OBVIOUS
  <2> QED BY <1>1, <2>1, ScaleSound
<1>3. Healthy \subseteq Reserves /\ IsFiniteSet(Healthy)
  BY Universe DEF TypeOK
<1>4. ASSUME NEW r \in Healthy PROVE tokens(r) \in Int /\ yield(r) \in Int
  <2>1. market.rate[r] \in Nat
    BY <1>3, StrategyAssumption DEF TypeOK
  <2>2. tokens(r) \in Nat
    BY <1>1, <1>2, <1>3 DEF TargetTokens
  <2>3. market.rate[r] * scale \in Nat
    <3> HIDE DEF scale
    <3> QED BY <1>2, <2>1
  <2> HIDE DEF scale, tokens
  <2> QED BY <2>2, <2>3
<1>5. Sum(yields, Healthy) \in Int
  <2>1. \A r \in Healthy : yields[r] \in Int
    <3> HIDE DEF tokens, yield
    <3>1. \A r \in Healthy : yields[r] = tokens(r) * yield(r)
      OBVIOUS
    <3> QED BY <1>4, <3>1
  <2> HIDE DEF yields
  <2> QED BY <1>3, <2>1, SumType
<1>6. Sum(gaps, pairs) \in Int
  <2>1. IsFiniteSet(pairs)
    <3>1. IsFiniteSet(Healthy \X Healthy) /\ pairs \in SUBSET (Healthy \X Healthy)
      BY <1>3, FS_Product
    <3> HIDE DEF pairs
    <3> QED BY <3>1, FS_Subset
  <2>2. \A q \in pairs : gaps[q] \in Int
    <3> SUFFICES ASSUME NEW q \in pairs PROVE gaps[q] \in Int
      OBVIOUS
    <3>1. q[1] \in Healthy /\ q[2] \in Healthy
      OBVIOUS
    <3>2. yield(q[1]) \in Int /\ yield(q[2]) \in Int
      BY <1>4, <3>1
    <3>3. gap(q[1], q[2]) \in Int
      <4> HIDE DEF yield
      <4> QED BY <3>2
    <3>4. gaps[q] = gap(q[1], q[2]) * gap(q[1], q[2])
      OBVIOUS
    <3> HIDE DEF gap, gaps
    <3> QED BY <3>3, <3>4
  <2> HIDE DEF pairs, gaps
  <2> QED BY <2>1, <2>2, SumType
<1>7. Sum(gaps, pairs) = SumFunction(gaps) /\ Sum(yields, Healthy) = SumFunction(yields)
  BY DEF Sum, SumFunction
<1>8. Objective(w) = IF plan.strategy = "MAX_YIELD_STABLE" THEN -SumFunction(gaps)
                                                          ELSE SumFunction(yields)
  BY DEF Objective
<1> HIDE DEF gaps, yields, pairs
<1> QED
  BY <1>5, <1>6, <1>7, <1>8

LEMMA ScoredAreCandidates ==
  ASSUME TypeOK
  PROVE  Candidates(Scored, Healthy)
<1> DEFINE allowing == {p \in Points[Healthy] : Evaluates(p)}
           scored == [p \in allowing |-> [point |-> p, score |-> Objective(Candidate(p))]]
<1>1. IsFiniteSet(allowing)
  <2>1. Healthy \in SUBSET Reserves /\ IsFiniteSet(Healthy) /\ Grid \in Nat
    BY Universe, GridAssumption DEF TypeOK
  <2>2. IsFiniteSet([Healthy -> 0..Grid])
    <3>1. IsFiniteSet(0..Grid)
      BY <2>1, FS_Interval
    <3> QED BY <2>1, <3>1, FunctionsAreFinite
  <2>3. allowing \in SUBSET [Healthy -> 0..Grid]
    BY <2>1 DEF Points
  <2> HIDE DEF allowing
  <2> QED BY <2>2, <2>3, FS_Subset
<1>2. Scored = {scored[p] : p \in allowing}
  BY DEF Scored
<1>3. IsFiniteSet(Scored)
  <2>1. DOMAIN scored = allowing /\ scored = [p \in allowing |-> scored[p]]
    OBVIOUS
  <2> HIDE DEF scored, allowing
  <2> QED BY <1>1, <1>2, <2>1, ImageIsFinite
<1>4. ASSUME NEW c \in Scored PROVE c.score \in Int /\ c.point \in [Healthy -> Nat]
  <2>1. PICK p \in Points[Healthy] : c = [point |-> p, score |-> Objective(Candidate(p))]
    BY DEF Scored
  <2>2. p \in [Healthy -> 0..Grid] /\ Candidate(p) \in [Healthy -> Nat]
    BY CandidateIsWhole
  <2>3. Objective(Candidate(p)) \in Int
    BY <2>2, ObjectiveIsWhole
  <2>4. p \in [Healthy -> Nat]
    BY <2>2, GridAssumption
  <2> QED BY <2>1, <2>3, <2>4
<1>5. \A c, d \in Scored : c.point = d.point => c = d
  BY DEF Scored
<1> QED
  BY <1>3, <1>4, <1>5 DEF Candidates

LEMMA FoundIsScored ==
  ASSUME TypeOK, NEW p \in Search(Healthy, Scored)
  PROVE  /\ p \in Points[Healthy]
         /\ \A c \in Scored : c.point \in AllocationPoints(Healthy, CoarseStep) =>
              c.score <= Objective(Candidate(p))
<1>1. Positions(Healthy)
  BY Universe DEF TypeOK
<1>2. PICK x \in Scored :
        /\ x.point = p
        /\ \A c \in Scored : c.point \in AllocationPoints(Healthy, CoarseStep) =>
             c.score <= x.score
  BY <1>1, ScoredAreCandidates, SearchBeatsCoarse
<1>3. p \in Points[Healthy] /\ x.score = Objective(Candidate(p))
  BY <1>2 DEF Scored
<1> QED BY <1>2, <1>3

\* The three phases of the search skip most points, yet never return one that is
\* worse than a point of the coarse grid that can be evaluated.
THEOREM SearchIsSound == Spec => []SearchSound
<1>1. TypeInv => SearchSound
  <2> SUFFICES ASSUME TypeOK, NEW p \in Search(Healthy, Scored), NEW c \in Scored,
                      c.point \in AllocationPoints(Healthy, CoarseStep)
               PROVE  Objective(Candidate(p)) >= c.score
    BY DEF TypeInv, SearchSound
  <2>1. c.score <= Objective(Candidate(p)) /\ c.score \in Int
    BY FoundIsScored, ScoredAreCandidates DEF Candidates
  <2>2. Objective(Candidate(p)) \in Int
    BY FoundIsScored, CandidateIsWhole, ObjectiveIsWhole
  <2> QED BY <2>1, <2>2
<1> QED
  BY <1>1, TypeInvariance, PTL

-----------------------------------------------------------------------------
(* The two projections of the builder                                      *)

LEMMA Cancel ==
  ASSUME NEW k \in Nat \ {0}, NEW x \in Int, NEW y \in Int, x * k <= y * k
  PROVE  x <= y
<1> SUFFICES ASSUME x >= y + 1 PROVE FALSE
  OBVIOUS
<1>1. x * k >= (y + 1) * k
  OBVIOUS
<1>2. (y + 1) * k = y * k + k /\ y * k \in Int /\ x * k \in Int
  OBVIOUS
<1> QED BY <1>1, <1>2

LEMMA BelowQuotient ==
  ASSUME NEW n \in Nat, NEW by \in Nat \ {0}, NEW x \in Int, x <= n \div by
  PROVE  x * by <= n
<1>1. n \div by \in Nat /\ n % by \in Nat /\ n = by * (n \div by) + (n % by)
  BY Divided
<1> DEFINE q == n \div by
<1> HIDE DEF q
<1>2. x * by <= q * by
  BY <1>1 DEF q
<1>3. q * by = by * q /\ x * by \in Int /\ q * by \in Int
  BY <1>1 DEF q
<1> QED BY <1>1, <1>2, <1>3 DEF q

LEMMA AboveQuotient ==
  ASSUME NEW n \in Nat, NEW by \in Nat \ {0}, NEW x \in Int, x >= CeilDiv(n, by)
  PROVE  x * by >= n
<1> DEFINE q == CeilDiv(n, by)
<1>1. q \in Int /\ q * by >= n
  <2> DEFINE m == (-n) \div by
  <2>1. m \in Int /\ by * m <= -n
    OBVIOUS
  <2>2. q = -m
    BY DEF CeilDiv
  <2> HIDE DEF m, q
  <2>3. q * by = -(by * m) /\ by * m \in Int
    BY <2>1, <2>2
  <2> QED BY <2>1, <2>2, <2>3
<1> HIDE DEF q
<1>2. x * by >= q * by /\ x * by \in Int /\ q * by \in Int
  BY <1>1 DEF q
<1> QED BY <1>1, <1>2

\* A weight below the ceiling asks for no more than the reserve takes in,
LEMMA CeilingFits ==
  ASSUME NEW c, c.held \in Nat, Depositable(c) \in Nat,
         NEW assets \in Nat \ {0}, NEW total \in Nat \ {0}, NEW x \in Nat,
         x <= DepositCeiling(c, assets * total, total)
  PROVE  assets * x <= c.held + Depositable(c)
<1> DEFINE h == c.held  d == Depositable(c)
           n == 100 * h + 98 * d  by == 100 * (assets * total)
<1>1. h \in Nat /\ d \in Nat /\ n \in Nat
  OBVIOUS
<1>2. assets * total \in Nat \ {0} /\ by \in Nat \ {0}
  OBVIOUS
<1>3. x <= (n * total) \div by
  BY DEF DepositCeiling
<1> HIDE DEF n
<1>4. n * total \in Nat
  BY <1>1
<1> HIDE DEF by
<1>5. x * by <= n * total
  BY <1>2, <1>3, <1>4, BelowQuotient
<1>6. x * by = (100 * (assets * x)) * total
  BY DEF by
<1>7. assets * x \in Nat
  OBVIOUS
<1>8. 100 * (assets * x) <= n
  BY <1>1, <1>5, <1>6, <1>7, Cancel
<1> DEFINE y == assets * x
<1> HIDE DEF y
<1>9. y \in Nat /\ 100 * y <= n
  BY <1>7, <1>8 DEF y
<1>10. y <= h + d
  <2> HIDE DEF h, d
  <2> QED BY <1>1, <1>9 DEF n
<1> QED BY <1>10 DEF y

\* and one above the floor takes out no more than it gives.
LEMMA FloorFits ==
  ASSUME NEW c, c.held \in Nat, Withdrawable(c) \in 0..c.held,
         NEW assets \in Nat \ {0}, NEW total \in Nat \ {0}, NEW x \in Nat,
         x >= WithdrawalFloor(c, assets * total, total)
  PROVE  assets * x >= c.held - Withdrawable(c)
<1> DEFINE h == c.held  d == Withdrawable(c)
           n == 100 * h - 98 * d  by == 100 * (assets * total)
<1>1. h \in Nat /\ d \in Nat /\ n \in Nat
  OBVIOUS
<1>2. assets * total \in Nat \ {0} /\ by \in Nat \ {0}
  OBVIOUS
<1>3. x >= CeilDiv(n * total, by)
  BY DEF WithdrawalFloor
<1> HIDE DEF n
<1>4. n * total \in Nat
  BY <1>1
<1> HIDE DEF by
<1>5. x * by >= n * total
  BY <1>2, <1>3, <1>4, AboveQuotient
<1>6. x * by = (100 * (assets * x)) * total
  BY DEF by
<1>7. assets * x \in Nat
  OBVIOUS
<1>8. n <= 100 * (assets * x)
  BY <1>1, <1>5, <1>6, <1>7, Cancel
<1> DEFINE y == assets * x
<1> HIDE DEF y
<1>9. y \in Nat /\ n <= 100 * y
  BY <1>7, <1>8 DEF y
<1>10. y >= h - d
  <2> HIDE DEF h, d
  <2> QED BY <1>1, <1>9 DEF n
<1> QED BY <1>10 DEF y

\* A weight within the safe interval of a reserve fits its capacity, when the
\* tokens to allocate are the vault's assets per unit of the weight total.
LEMMA BoundsFit ==
  ASSUME NEW c, c.held \in Nat, Depositable(c) \in Nat, Withdrawable(c) \in 0..c.held,
         NEW assets \in Nat \ {0}, NEW total \in Nat \ {0}, NEW current, NEW x \in Nat,
         x <= MostWeight(current, c, assets * total, total),
         x >= LeastWeight(current, c, assets * total, total)
  PROVE  FitsCapacity(c, assets * x, 1)
<1> DEFINE aum == assets * total  h == c.held  d == Depositable(c)  g == Withdrawable(c)
<1>1. aum \in Nat \ {0} /\ h \in Nat /\ d \in Nat /\ g \in 0..h /\ assets * x \in Nat
  OBVIOUS
<1>2. assets * x <= h + d
  <2>1. CASE DepositHit(total, 1, c, aum, total)
    <3>1. x <= Smaller(DepositCeiling(c, aum, total), total)
      BY <1>1, <2>1 DEF MostWeight
    <3>2. DepositCeiling(c, aum, total) \in Int
      <4> DEFINE n == (100 * h + 98 * d) * total  by == 100 * aum
      <4>1. n \in Int /\ by \in Nat \ {0}
        BY <1>1
      <4>2. DepositCeiling(c, aum, total) = n \div by
        BY DEF DepositCeiling
      <4> HIDE DEF n, by
      <4> QED BY <4>1, <4>2
    <3>3. x <= DepositCeiling(c, aum, total)
      BY <3>1, <3>2 DEF Smaller
    <3> QED BY <3>3, CeilingFits
  <2>2. CASE ~DepositHit(total, 1, c, aum, total)
    <3>1. x <= total
      BY <1>1, <2>2 DEF MostWeight
    <3>2. ~(total * aum > (h + d) * total * 1)
      BY <2>2 DEF DepositHit
    <3> HIDE DEF h, d
    <3>3. total * aum = (assets * total) * total /\ (h + d) * total * 1 = (h + d) * total
      BY <1>1
    <3>4. assets * total \in Nat /\ h + d \in Nat /\ assets * x \in Nat
      BY <1>1
    <3>5. (assets * total) * total \in Int /\ (h + d) * total \in Int
      BY <3>4
    <3>6. (assets * total) * total <= (h + d) * total
      BY <3>2, <3>3, <3>5
    <3>7. assets * total <= h + d
      BY <3>4, <3>6, Cancel
    <3>8. assets * x <= assets * total
      BY <3>1
    <3> QED BY <3>4, <3>7, <3>8
  <2> QED BY <2>1, <2>2
<1>3. assets * x >= h - g
  <2>0. ~DepositHit(0, 1, c, aum, total)
    <3> HIDE DEF h, d
    <3>1. (h + d) * total * 1 \in Nat /\ 0 * aum = 0
      BY <1>1
    <3> QED BY <3>1 DEF DepositHit, h, d
  <2>1. CASE WithdrawalHit(0, 1, c, aum, total)
    <3>1. x >= AtLeastZero(1 * WithdrawalFloor(c, aum, total))
      BY <1>1, <2>0, <2>1 DEF LeastWeight, ApplyReserveConstraints
    <3>2. WithdrawalFloor(c, aum, total) \in Int
      <4> DEFINE n == (100 * h - 98 * g) * total  by == 100 * aum
      <4>1. n \in Int /\ by \in Nat \ {0}
        BY <1>1
      <4>2. WithdrawalFloor(c, aum, total) = -((-n) \div by)
        BY DEF WithdrawalFloor, CeilDiv
      <4> HIDE DEF n, by
      <4> QED BY <4>1, <4>2
    <3>3. x >= WithdrawalFloor(c, aum, total)
      BY <3>1, <3>2 DEF AtLeastZero
    <3> QED BY <3>3, FloorFits
  <2>2. CASE ~WithdrawalHit(0, 1, c, aum, total)
    <3>1. ~(0 * aum < (h - g) * total * 1)
      BY <2>2 DEF WithdrawalHit
    <3> HIDE DEF h, g
    <3>2. 0 * aum = 0 /\ (h - g) * total * 1 = (h - g) * total /\ (h - g) * total \in Nat
      BY <1>1
    <3>3. (h - g) * total <= 0 * total
      BY <3>1, <3>2
    <3>4. h - g <= 0
      BY <1>1, <3>3, Cancel
    <3> QED BY <1>1, <3>4
  <2> QED BY <2>1, <2>2
<1>4. /\ 1 * (c.held + Depositable(c)) = h + d
      /\ 1 * (c.held - Withdrawable(c)) = h - g
  BY <1>1
<1> HIDE DEF h, d, g
<1> QED BY <1>2, <1>3, <1>4 DEF FitsCapacity, h, d, g

LEMMA ScaledPart ==
  ASSUME NEW unit \in Nat \ {0}, NEW x \in Int, NEW y \in Int
  PROVE  /\ unit * x \in Int
         /\ AtLeastZero(unit * x) = unit * AtLeastZero(x)
         /\ Smaller(unit * x, unit * y) = unit * Smaller(x, y)
<1>1. unit * x \in Int /\ unit * y \in Int
  OBVIOUS
<1>2. x > 0 => unit * x > 0
  OBVIOUS
<1>3. x <= 0 => unit * x <= 0
  OBVIOUS
<1>4. x < y => unit * x < unit * y
  <2> SUFFICES ASSUME x < y PROVE unit * x < unit * y
    OBVIOUS
  <2>1. unit * y = unit * x + unit * (y - x) /\ unit * (y - x) > 0
    OBVIOUS
  <2> QED BY <1>1, <2>1
<1>5. y < x => unit * y < unit * x
  <2> SUFFICES ASSUME y < x PROVE unit * y < unit * x
    OBVIOUS
  <2>1. unit * x = unit * y + unit * (x - y) /\ unit * (x - y) > 0
    OBVIOUS
  <2> QED BY <1>1, <2>1
<1>6. AtLeastZero(unit * x) = unit * AtLeastZero(x)
  <2>1. CASE x > 0
    BY <1>2, <2>1 DEF AtLeastZero
  <2>2. CASE ~(x > 0)
    <3>1. unit * x <= 0 /\ unit * 0 = 0
      BY <1>3, <2>2
    <3>2. AtLeastZero(unit * x) = 0 /\ AtLeastZero(x) = 0
      BY <1>1, <2>2, <3>1 DEF AtLeastZero
    <3> QED BY <3>1, <3>2
  <2> QED BY <2>1, <2>2
<1>7. Smaller(unit * x, unit * y) = unit * Smaller(x, y)
  <2>1. CASE x < y
    BY <1>4, <2>1 DEF Smaller
  <2>2. CASE y < x
    BY <1>1, <1>5, <2>2 DEF Smaller
  <2>3. CASE x = y
    BY <1>1, <2>3 DEF Smaller
  <2> QED BY <2>1, <2>2, <2>3
<1> QED BY <1>1, <1>6, <1>7

\* The capacity of a reserve, in any unit.
LEMMA ScaledCapacity ==
  ASSUME TypeOK, NEW r \in Reserves, NEW unit \in Nat \ {0}
  PROVE  LET c == Capacity(r, unit)
             one == Capacity(r, 1)
         IN  /\ one.held \in Nat /\ Depositable(one) \in Nat
             /\ Withdrawable(one) \in 0..one.held
             /\ c.held = unit * one.held
             /\ Depositable(c) = unit * Depositable(one)
             /\ Withdrawable(c) = unit * Withdrawable(one)
<1> DEFINE c == Capacity(r, unit)  one == Capacity(r, 1)
           h == held[r]  room == market.limit[r] - held[r]
           liquidity == AtLeastZero(held[r] - market.lent[r])  left == market.capLeft[r]
<1>1. /\ held[r] \in Nat /\ market.lent[r] \in Nat /\ market.limit[r] \in Nat
      /\ market.capLeft[r] \in Nat
  BY StrategyAssumption DEF TypeOK
<1>2. h \in Nat /\ room \in Int /\ liquidity \in 0..h /\ left \in Nat
  BY <1>1 DEF AtLeastZero
<1>3. /\ c.held = unit * h /\ c.room = unit * room
      /\ c.liquidity = unit * liquidity /\ c.capLeft = unit * left
  BY DEF Capacity
<1>4. /\ one.held = 1 * h /\ one.room = 1 * room
      /\ one.liquidity = 1 * liquidity /\ one.capLeft = 1 * left
  BY DEF Capacity
<1> HIDE DEF h, room, liquidity, left, c, one
<1>5. one.held = h /\ one.room = room /\ one.liquidity = liquidity /\ one.capLeft = left
  BY <1>2, <1>4
<1>6. Depositable(c) = unit * Depositable(one)
  <2>1. AtLeastZero(unit * room) = unit * AtLeastZero(room)
    BY <1>2, ScaledPart
  <2> QED BY <1>3, <1>5, <2>1 DEF Depositable
<1>7. Withdrawable(c) = unit * Withdrawable(one)
  <2>1. AtLeastZero(unit * left) = unit * AtLeastZero(left) /\ AtLeastZero(left) \in Int
    BY <1>2, ScaledPart DEF AtLeastZero
  <2>2. Smaller(unit * liquidity, unit * AtLeastZero(left))
          = unit * Smaller(liquidity, AtLeastZero(left))
    BY <1>2, <2>1, ScaledPart
  <2> QED BY <1>3, <1>5, <2>1, <2>2 DEF Withdrawable
<1>8. one.held \in Nat /\ Depositable(one) \in Nat /\ Withdrawable(one) \in 0..one.held
  BY <1>2, <1>5 DEF Depositable, Withdrawable, AtLeastZero, Smaller
<1> QED
  BY <1>2, <1>3, <1>5, <1>6, <1>7, <1>8 DEF c, one

\* A target that fits the capacity in one unit fits it in any other.
LEMMA FitsInUnit ==
  ASSUME TypeOK, NEW r \in Reserves, NEW unit \in Nat \ {0}, NEW x \in Int,
         FitsCapacity(Capacity(r, unit), x, 1)
  PROVE  FitsCapacity(Capacity(r, 1), x, unit)
<1> DEFINE c == Capacity(r, unit)  one == Capacity(r, 1)
           h == one.held  d == Depositable(one)  g == Withdrawable(one)
<1>1. /\ h \in Nat /\ d \in Nat /\ g \in 0..h
      /\ c.held = unit * h /\ Depositable(c) = unit * d /\ Withdrawable(c) = unit * g
  BY ScaledCapacity
<1>2. x <= 1 * (c.held + Depositable(c)) /\ x >= 1 * (c.held - Withdrawable(c))
  BY DEF FitsCapacity
<1> HIDE DEF h, d, g, c
<1>3. /\ 1 * (unit * h + unit * d) = unit * (h + d)
      /\ 1 * (unit * h - unit * g) = unit * (h - g)
  BY <1>1
<1>4. x <= unit * (h + d) /\ x >= unit * (h - g)
  BY <1>1, <1>2, <1>3
<1> QED
  BY <1>4 DEF FitsCapacity, h, d, g

\* With nothing in cooldown, the canonical target of weights on the vault's total
\* is in units of that total and the unallocated weight.
LEMMA ScaleOfTotal ==
  ASSUME TypeOK, Preserved = {}, Total > 0, NEW b \in [Healthy -> Nat],
         TotalWeight(b) = Total
  PROVE  /\ Allocated(b, 1) = Total
         /\ Scale(b, 1) = Total + unallocated
         /\ Scale(b, 1) \in Nat \ {0}
<1> DEFINE v == [r \in Reserves |-> Written(b, 1, r)]
<1>1. 1 \in Nat \ {0} /\ \A r \in Healthy : b[r] \in Nat
  OBVIOUS
<1>2. Allocated(b, 1) = Sum(v, Reserves) /\ \A r \in Reserves : Written(b, 1, r) \in Nat
  BY <1>1, ScaleSound
<1>3. /\ \A r \in Reserves : v[r] \in Int
      /\ \A r \in Healthy : v[r] = b[r]
      /\ \A r \in Reserves \ Healthy : v[r] = 0
  BY <1>2 DEF Written, Healthy, Preserved
<1>4. /\ IsFiniteSet(Reserves) /\ IsFiniteSet(Healthy) /\ IsFiniteSet(Reserves \ Healthy)
      /\ Healthy \in SUBSET Reserves
  BY Universe, FS_Subset DEF TypeOK
<1> HIDE DEF v
<1>5. Sum(v, Reserves) = Sum(v, Healthy) + Sum(v, Reserves \ Healthy)
  BY <1>3, <1>4, SumSplit
<1>6. Sum(v, Reserves \ Healthy) = 0
  BY <1>3, <1>4, SumOfNothing
<1>7. Sum(v, Healthy) = Sum(b, Healthy)
  BY <1>3, <1>4, SumEqual
<1>8. Sum(b, Healthy) = Total /\ Total \in Nat
  BY TotalIsSum, TotalSound
<1>9. Allocated(b, 1) = Total
  BY <1>2, <1>5, <1>6, <1>7, <1>8
<1>10. unallocated \in Nat
  BY DEF TypeOK
<1> QED
  BY <1>8, <1>9, <1>10 DEF Scale

\* The weights of the constraint pass survive the canonical check.
LEMMA BoundedFits ==
  ASSUME TypeOK, Preserved = {}, Total > 0, NEW w \in [Healthy -> Nat], Healthy # {},
         NEW den, NEW b \in Constrained(w, den)
  PROVE  FitsVault(b)
<1> DEFINE reference == NormalizeWeightsToTotal(w, Total)
           unit == Scale(reference, 1)
           active == AtLeastZero(Assets - SumFunctionOnSet(held, Preserved))
           aum == AtLeastZero(unit * active - TargetIdle(reference, 1))
           least == [r \in Healthy |->
                       LeastWeight(Current[r], Capacity(r, unit), aum, Total)]
           most == [r \in Healthy |->
                      MostWeight(Current[r], Capacity(r, unit), aum, Total)]
<1>1. Total \in Nat \ {0} /\ Assets \in Nat \ {0}
  BY TotalSound, StrategyAssumption
<1>2. IsFiniteSet(Healthy) /\ Positions(Healthy) /\ Healthy \subseteq Reserves
  BY Universe DEF TypeOK
<1>3. reference \in [Healthy -> Nat] /\ TotalWeight(reference) = Total
  BY <1>1, <1>2, NormalizedMeetsTotal
<1>4. /\ Allocated(reference, 1) = Total
      /\ unit = Total + unallocated /\ unit \in Nat \ {0}
  <2> HIDE DEF reference
  <2> QED BY <1>3, ScaleOfTotal
<1>5. active = Assets
  BY <1>1, SumEmpty DEF AtLeastZero
<1>6. aum = Assets * Total
  <2>1. TargetIdle(reference, 1) = Assets * (unit - Total)
    BY <1>4 DEF TargetIdle
  <2> HIDE DEF unit, reference, active
  <2>2. unit * Assets - Assets * (unit - Total) = Assets * Total /\ Assets * Total \in Nat
    BY <1>1, <1>4
  <2> QED BY <1>5, <2>1, <2>2 DEF AtLeastZero
<1>7. b \in Adjusted(w, den, Total, unit, aum)
  BY DEF Constrained
<1> HIDE DEF unit, aum, reference, active
<1>8. PICK adjusted : b \in Redistribute(adjusted, den, Total, [least |-> least, most |-> most])
  BY <1>7 DEF Adjusted
<1>9. MeetsTotal(b, Total, [least |-> least, most |-> most])
  BY <1>8 DEF Redistribute
<1>10. /\ b \in [Healthy -> Nat] /\ TotalWeight(b) = Total
       /\ \A r \in Healthy : b[r] \in least[r]..most[r]
  BY <1>9 DEF MeetsTotal
<1>11. Scale(b, 1) = unit
  BY <1>4, <1>10, ScaleOfTotal
<1>12. ASSUME NEW r \in Healthy
       PROVE  FitsCapacity(Capacity(r, 1), TargetTokens(b, 1, r), unit)
  <2> DEFINE c == Capacity(r, unit)
  <2>1. r \in Reserves /\ b[r] \in Nat
    BY <1>2, <1>10
  <2>2. /\ c.held \in Nat /\ Depositable(c) \in Nat /\ Withdrawable(c) \in 0..c.held
    <3> DEFINE h == Capacity(r, 1).held  d == Depositable(Capacity(r, 1))
               g == Withdrawable(Capacity(r, 1))
    <3>1. /\ h \in Nat /\ d \in Nat /\ g \in 0..h
          /\ c.held = unit * h /\ Depositable(c) = unit * d /\ Withdrawable(c) = unit * g
      BY <1>4, <2>1, ScaledCapacity
    <3> HIDE DEF h, d, g, c
    <3>2. unit * h \in Nat /\ unit * d \in Nat /\ unit * g \in Nat
      BY <1>4, <3>1
    <3>3. unit * g <= unit * h
      BY <1>4, <3>1
    <3> QED BY <3>1, <3>2, <3>3
  <2>3. /\ b[r] <= MostWeight(Current[r], c, Assets * Total, Total)
        /\ b[r] >= LeastWeight(Current[r], c, Assets * Total, Total)
    BY <1>6, <1>10
  <2> HIDE DEF c
  <2>4. FitsCapacity(c, Assets * b[r], 1)
    BY <1>1, <2>1, <2>2, <2>3, BoundsFit
  <2>5. Assets * b[r] \in Int
    BY <1>1, <2>1
  <2>6. FitsCapacity(Capacity(r, 1), Assets * b[r], unit)
    BY <1>4, <2>1, <2>4, <2>5, FitsInUnit DEF c
  <2> QED BY <2>6 DEF TargetTokens, Written
<1> QED
  BY <1>11, <1>12 DEF FitsVault

\* The two token projections of the builder agree: what the constraint pass pulls
\* within the bounds of every reserve is never thrown away by the canonical check
\* (with nothing in cooldown).
THEOREM ProjectionsAgree == Spec => []BoundsAgree
<1>1. TypeInv => BoundsAgree
  <2> SUFFICES ASSUME TypeOK, PreservedAccounting, Preserved = {}, Total > 0,
                      NEW target \in Targets, NEW t \in target,
                      NEW b \in Constrained(t.weights, t.den)
               PROVE  FitsVault(b)
    BY DEF TypeInv, BoundsAgree
  <2>1. PICK p \in Search(Healthy, Scored) : t = Target(Candidate(p), Grid)
    <3>1. plan.strategy \in Searching
      BY DEF PreservedAccounting, Targets, Searching
    <3>2. plan.strategy \notin {"EQUAL", "RANDOM", "FIXED_WEIGHTS"}
      BY <3>1 DEF Searching
    <3> QED BY <3>1, <3>2 DEF Targets
  <2>2. p \in Points[Healthy]
    BY FoundIsScored
  <2>3. t.weights = Candidate(p) /\ Candidate(p) \in [Healthy -> Nat]
    BY <2>1, <2>2, CandidateIsWhole DEF Target
  <2>4. Healthy # {}
    <3> SUFFICES ASSUME Healthy = {} PROVE FALSE
      OBVIOUS
    <3>1. DOMAIN p = {} /\ SumFunction(p) = Grid
      BY <2>2, CandidateIsWhole
    <3>2. SumFunction(p) = 0
      BY <3>1, SumEmpty DEF SumFunction
    <3> QED BY <3>1, <3>2, GridAssumption
  <2> QED BY <2>3, <2>4, BoundedFits
<1> QED
  BY <1>1, TypeInvariance, PTL

-----------------------------------------------------------------------------
(* Loops                                                                   *)
(*                                                                         *)
(* A loop is a recursive function: `next` is its body, `stop` its end and  *)
(* `out` its result; `m` falls with every round.                           *)

Falls(W, m, stop, next) ==
  /\ m \in [W -> Nat] /\ next \in [W -> W]
  /\ \A w \in W \ stop : m[next[w]] < m[w]

Loops(f, W, stop, next, out) ==
  f = [w \in W |-> IF w \in stop THEN out[w] ELSE f[next[w]]]

\* A loop that falls has the result of a state in which it ends, and that state
\* still has what its rounds preserve.
LEMMA LoopEnds ==
  ASSUME NEW W, NEW m, NEW stop, NEW next, NEW out, Falls(W, m, stop, next),
         NEW f, Loops(f, W, stop, next, out),
         NEW Inv \in SUBSET W, \A w \in Inv \ stop : next[w] \in Inv, NEW w \in Inv
  PROVE  \E v \in Inv \cap stop : f[w] = out[v]
<1> DEFINE Bad == {u \in Inv : ~ \E v \in Inv \cap stop : f[u] = out[v]}
           N == {m[u] : u \in Bad}
<1>1. SUFFICES ASSUME Bad # {} PROVE FALSE
  OBVIOUS
<1>2. N \in SUBSET Nat /\ N # {}
  BY <1>1 DEF Falls
<1>3. PICK n \in N : \A k \in N : n <= k
  <2> HIDE DEF N
  <2> QED BY <1>2, LeastNatural
<1>4. PICK u \in Bad : n = m[u]
  OBVIOUS
<1>5. f[u] = IF u \in stop THEN out[u] ELSE f[next[u]]
  BY DEF Loops
<1>6. u \notin stop
  BY <1>4, <1>5
<1>7. next[u] \in Inv /\ m[next[u]] < m[u] /\ f[u] = f[next[u]]
  BY <1>5, <1>6 DEF Falls
<1>8. next[u] \in Bad
  BY <1>4, <1>7
<1>9. m[u] <= m[next[u]] /\ m[u] \in Nat /\ m[next[u]] \in Nat
  BY <1>3, <1>4, <1>8 DEF Falls
<1> QED BY <1>7, <1>9

LEMMA LoopsAgree ==
  ASSUME NEW W, NEW m, NEW stop, NEW next, NEW out, Falls(W, m, stop, next),
         NEW U \in SUBSET W, \A u \in U \ stop : next[u] \in U,
         NEW V \in SUBSET W, \A v \in V \ stop : next[v] \in V,
         NEW f, Loops(f, U, stop, next, out), NEW g, Loops(g, V, stop, next, out),
         NEW w \in U \cap V
  PROVE  f[w] = g[w]
<1> DEFINE Bad == {u \in U \cap V : f[u] # g[u]}
           N == {m[u] : u \in Bad}
<1>1. SUFFICES ASSUME Bad # {} PROVE FALSE
  OBVIOUS
<1>2. N \in SUBSET Nat /\ N # {}
  BY <1>1 DEF Falls
<1>3. PICK n \in N : \A k \in N : n <= k
  <2> HIDE DEF N
  <2> QED BY <1>2, LeastNatural
<1>4. PICK u \in Bad : n = m[u]
  OBVIOUS
<1>5. /\ f[u] = IF u \in stop THEN out[u] ELSE f[next[u]]
      /\ g[u] = IF u \in stop THEN out[u] ELSE g[next[u]]
  BY DEF Loops
<1>6. u \notin stop
  BY <1>4, <1>5
<1>7. /\ next[u] \in U \cap V /\ m[next[u]] < m[u]
      /\ f[u] = f[next[u]] /\ g[u] = g[next[u]]
  BY <1>5, <1>6 DEF Falls
<1>8. next[u] \in Bad
  BY <1>4, <1>7
<1>9. m[u] <= m[next[u]] /\ m[u] \in Nat /\ m[next[u]] \in Nat
  BY <1>3, <1>4, <1>8 DEF Falls
<1> QED BY <1>7, <1>9

\* The states from which fewer than n rounds are needed.
Near(W, m, n) == {w \in W : m[w] < n}

LEMMA NearLoopExists ==
  ASSUME NEW W, NEW m, NEW stop, NEW next, NEW out, Falls(W, m, stop, next),
         NEW n \in Nat
  PROVE  \E f : Loops(f, Near(W, m, n), stop, next, out)
<1> DEFINE Bad == {k \in Nat : ~ \E f : Loops(f, Near(W, m, k), stop, next, out)}
<1>1. SUFFICES ASSUME Bad # {} PROVE FALSE
  OBVIOUS
<1>2. PICK k \in Bad : \A i \in Bad : k <= i
  <2>1. Bad \in SUBSET Nat
    OBVIOUS
  <2> HIDE DEF Bad
  <2> QED BY <1>1, <2>1, LeastNatural
<1>3. k # 0
  <2>1. Near(W, m, 0) = {}
    BY DEF Near, Falls
  <2> DEFINE f == [w \in {} |-> 0]
  <2>2. Loops(f, Near(W, m, 0), stop, next, out)
    BY <2>1 DEF Loops
  <2> QED BY <2>2
<1>4. k - 1 \in Nat /\ k - 1 \notin Bad
  BY <1>2, <1>3
<1>5. PICK h : Loops(h, Near(W, m, k - 1), stop, next, out)
  BY <1>4
<1> DEFINE f == [w \in Near(W, m, k) |-> IF w \in stop THEN out[w] ELSE h[next[w]]]
<1>6. ASSUME NEW w \in Near(W, m, k), w \notin stop
      PROVE  f[next[w]] = h[next[w]]
  <2> DEFINE u == next[w]
  <2>1. u \in W /\ m[u] < m[w] /\ m[w] < k /\ m[u] \in Nat /\ m[w] \in Nat
    BY <1>6 DEF Near, Falls
  <2>2. u \in Near(W, m, k - 1) /\ u \in Near(W, m, k)
    BY <1>4, <2>1 DEF Near
  <2>3. h[u] = IF u \in stop THEN out[u] ELSE h[next[u]]
    <3> HIDE DEF u
    <3> QED BY <1>5, <2>2 DEF Loops
  <2> QED BY <2>2, <2>3
<1>7. \A w \in Near(W, m, k) : f[w] = IF w \in stop THEN out[w] ELSE f[next[w]]
  <2> SUFFICES ASSUME NEW w \in Near(W, m, k)
               PROVE  f[w] = IF w \in stop THEN out[w] ELSE f[next[w]]
    OBVIOUS
  <2>1. f[w] = IF w \in stop THEN out[w] ELSE h[next[w]]
    OBVIOUS
  <2> HIDE DEF f
  <2> QED BY <1>6, <2>1
<1>8. f = [w \in Near(W, m, k) |-> f[w]]
  OBVIOUS
<1>9. Loops(f, Near(W, m, k), stop, next, out)
  <2> HIDE DEF f
  <2>1. [w \in Near(W, m, k) |-> f[w]]
          = [w \in Near(W, m, k) |-> IF w \in stop THEN out[w] ELSE f[next[w]]]
    BY <1>7
  <2> QED BY <1>8, <2>1 DEF Loops
<1> QED BY <1>2, <1>9

\* The loop is defined.
LEMMA LoopExists ==
  ASSUME NEW W, NEW m, NEW stop, NEW next, NEW out, Falls(W, m, stop, next)
  PROVE  \E f : Loops(f, W, stop, next, out)
<1> DEFINE Of(n) == CHOOSE f : Loops(f, Near(W, m, n), stop, next, out)
           f == [w \in W |-> Of(m[w] + 1)[w]]
<1>1. \A n \in Nat : Loops(Of(n), Near(W, m, n), stop, next, out)
  BY NearLoopExists
<1>2. \A n \in Nat : /\ Near(W, m, n) \in SUBSET W
                     /\ \A w \in Near(W, m, n) \ stop : next[w] \in Near(W, m, n)
  <2> SUFFICES ASSUME NEW n \in Nat, NEW w \in Near(W, m, n) \ stop
               PROVE  next[w] \in Near(W, m, n)
    BY DEF Near
  <2>1. w \in W /\ m[w] < n /\ next[w] \in W /\ m[next[w]] < m[w]
        /\ m[w] \in Nat /\ m[next[w]] \in Nat
    BY DEF Near, Falls
  <2> QED BY <2>1 DEF Near
<1> HIDE DEF Of
<1>3. ASSUME NEW w \in W
      PROVE  f[w] = IF w \in stop THEN out[w] ELSE f[next[w]]
  <2> DEFINE n == m[w] + 1
  <2>1. n \in Nat /\ w \in Near(W, m, n) /\ f[w] = Of(n)[w]
    BY DEF Falls, Near
  <2>2. Of(n)[w] = IF w \in stop THEN out[w] ELSE Of(n)[next[w]]
    <3> HIDE DEF n
    <3> QED BY <1>1, <2>1 DEF Loops
  <2>3. ASSUME w \notin stop PROVE f[next[w]] = Of(n)[next[w]]
    <3> DEFINE u == next[w]  k == m[u] + 1
    <3>1. u \in W /\ k \in Nat /\ u \in Near(W, m, k) /\ f[u] = Of(k)[u]
      BY DEF Falls, Near
    <3>2. u \in Near(W, m, n)
      <4> HIDE DEF n
      <4> QED BY <1>2, <2>1, <2>3
    <3>3. Of(n)[u] = Of(k)[u]
      <4> DEFINE U == Near(W, m, n)  V == Near(W, m, k)
      <4>1. /\ U \in SUBSET W /\ \A x \in U \ stop : next[x] \in U
            /\ V \in SUBSET W /\ \A x \in V \ stop : next[x] \in V
            /\ Loops(Of(n), U, stop, next, out) /\ Loops(Of(k), V, stop, next, out)
            /\ u \in U \cap V
        BY <1>1, <1>2, <2>1, <3>1, <3>2
      <4> HIDE DEF U, V, u, n, k
      <4> QED BY <4>1, LoopsAgree
    <3> QED BY <3>1, <3>3
  <2> HIDE DEF f, n
  <2> QED BY <2>1, <2>2, <2>3
<1>4. Loops(f, W, stop, next, out)
  <2>1. f = [w \in W |-> f[w]]
    OBVIOUS
  <2> HIDE DEF f
  <2>2. [w \in W |-> f[w]] = [w \in W |-> IF w \in stop THEN out[w] ELSE f[next[w]]]
    BY <1>3
  <2> QED BY <2>1, <2>2 DEF Loops
<1> QED BY <1>4

-----------------------------------------------------------------------------
(* Bisection                                                               *)

Halve(range, safe) ==
  LET middle == (range[1] + range[2]) \div 2
  IN  IF middle \in safe THEN <<middle, range[2]>> ELSE <<range[1], middle>>

Bisects(f, high, safe) ==
  f = [range \in (0..high) \X (0..high) |->
        LET low == range[1]
            above == range[2]
            middle == (low + above) \div 2
        IN  IF above - low <= 1 THEN low
            ELSE IF middle \in safe THEN f[<<middle, above>>]
            ELSE f[<<low, middle>>]]

LEMMA BisectionIsChosen ==
  ASSUME NEW high, NEW safe
  PROVE  LargestSafe(high, safe) = (CHOOSE f : Bisects(f, high, safe))[<<0, high>>]
BY DEF LargestSafe, Bisects

\* The bisection of a step ends at its edge: it finds a safe fraction, or nothing
\* of the step, whose successor is not safe, or the whole step.
THEOREM BisectionFindsEdge ==
  ASSUME NEW high \in Nat \ {0}, NEW safe
  PROVE  LET part == LargestSafe(high, safe)
         IN  /\ part \in 0..(high - 1)
             /\ part = 0 \/ part \in safe
             /\ part + 1 = high \/ part + 1 \notin safe
<1> DEFINE W == (0..high) \X (0..high)
           m == [w \in W |-> AtLeastZero(w[2] - w[1])]
           stop == {w \in W : w[2] - w[1] <= 1}
           next == [w \in W |-> Halve(w, safe)]
           out == [w \in W |-> w[1]]
           Inv == {w \in W : /\ w[1] < w[2]
                             /\ w[1] = 0 \/ w[1] \in safe
                             /\ w[2] = high \/ w[2] \notin safe}
<1>1. ASSUME NEW low \in 0..high, NEW above \in 0..high
      PROVE  LET middle == (low + above) \div 2
             IN  /\ middle \in 0..high
                 /\ above - low > 1 =>
                      /\ low < middle /\ middle < above
                      /\ above - middle < above - low /\ middle - low < above - low
  OBVIOUS
<1>2. \A w \in W : /\ w[1] \in 0..high /\ w[2] \in 0..high /\ w = <<w[1], w[2]>>
                   /\ Halve(w, safe) \in W
  BY <1>1 DEF Halve
<1>3. Falls(W, m, stop, next)
  <2>1. m \in [W -> Nat]
    BY <1>2 DEF AtLeastZero
  <2>2. next \in [W -> W]
    BY <1>2
  <2>3. ASSUME NEW w \in W \ stop PROVE m[next[w]] < m[w]
    <3> DEFINE low == w[1]  above == w[2]  middle == (low + above) \div 2
    <3>1. /\ low \in 0..high /\ above \in 0..high /\ above - low > 1
          /\ middle \in 0..high /\ low < middle /\ middle < above
          /\ above - middle < above - low /\ middle - low < above - low
      BY <1>1, <1>2, <2>3
    <3>2. m[w] = above - low
      BY <3>1 DEF AtLeastZero
    <3>3. next[w] = IF middle \in safe THEN <<middle, above>> ELSE <<low, middle>>
      BY DEF Halve
    <3>4. /\ <<middle, above>> \in W /\ <<low, middle>> \in W
      BY <3>1
    <3>5. m[<<middle, above>>] = above - middle /\ m[<<low, middle>>] = middle - low
      <4> HIDE DEF low, above, middle
      <4> QED BY <3>1, <3>4 DEF AtLeastZero
    <3> HIDE DEF low, above, middle, m, next
    <3> QED BY <3>1, <3>2, <3>3, <3>5
  <2> QED BY <2>1, <2>2, <2>3 DEF Falls
<1>4. \A f : Bisects(f, high, safe) <=> Loops(f, W, stop, next, out)
  <2> SUFFICES ASSUME NEW f PROVE Bisects(f, high, safe) <=> Loops(f, W, stop, next, out)
    OBVIOUS
  <2> DEFINE A(w) == LET middle == (w[1] + w[2]) \div 2
                     IN  IF w[2] - w[1] <= 1 THEN w[1]
                         ELSE IF middle \in safe THEN f[<<middle, w[2]>>]
                         ELSE f[<<w[1], middle>>]
             B(w) == IF w \in stop THEN out[w] ELSE f[next[w]]
  <2>1. \A w \in W : A(w) = B(w)
    BY <1>2 DEF Halve
  <2>2. [w \in W |-> A(w)] = [w \in W |-> B(w)]
    <3> HIDE DEF A, B, W
    <3> QED BY <2>1
  <2> QED BY <2>2 DEF Bisects, Loops
<1>5. \E f : Bisects(f, high, safe)
  <2> HIDE DEF W, m, stop, next, out
  <2> QED BY <1>3, <1>4, LoopExists
<1>6. PICK f : Bisects(f, high, safe) /\ LargestSafe(high, safe) = f[<<0, high>>]
  BY <1>5, BisectionIsChosen
<1>7. Inv \in SUBSET W /\ <<0, high>> \in Inv
  OBVIOUS
<1>8. ASSUME NEW w \in Inv \ stop PROVE next[w] \in Inv
  <2> DEFINE low == w[1]  above == w[2]  middle == (low + above) \div 2
  <2>1. /\ w \in W /\ low \in 0..high /\ above \in 0..high /\ above - low > 1
        /\ middle \in 0..high /\ low < middle /\ middle < above
    BY <1>1, <1>2, <1>8
  <2>2. next[w] = IF middle \in safe THEN <<middle, above>> ELSE <<low, middle>>
    BY <2>1 DEF Halve
  <2>3. /\ low = 0 \/ low \in safe
        /\ above = high \/ above \notin safe
    BY <1>8
  <2> HIDE DEF low, above, middle, next
  <2> QED BY <2>1, <2>2, <2>3
<1>9. \E v \in Inv \cap stop : f[<<0, high>>] = out[v]
  <2>1. Loops(f, W, stop, next, out)
    BY <1>4, <1>6
  <2> HIDE DEF W, m, stop, next, out, Inv
  <2> QED BY <1>3, <1>7, <1>8, <2>1, LoopEnds
<1>10. PICK v \in Inv \cap stop : f[<<0, high>>] = out[v]
  BY <1>9
<1>11. /\ v[1] \in 0..high /\ v[2] \in 0..high /\ v[1] < v[2] /\ v[2] - v[1] <= 1
       /\ v[1] = 0 \/ v[1] \in safe
       /\ v[2] = high \/ v[2] \notin safe
       /\ out[v] = v[1]
  BY <1>2, <1>10
<1>12. v[2] = v[1] + 1
  BY <1>11
<1> QED BY <1>6, <1>10, <1>11, <1>12

-----------------------------------------------------------------------------
(* Redistribution                                                          *)

LEMMA SumMonotone ==
  ASSUME NEW S, IsFiniteSet(S), NEW f, NEW g,
         \A x \in S : f[x] \in Int /\ g[x] \in Int /\ f[x] <= g[x]
  PROVE  Sum(f, S) <= Sum(g, S)
<1> DEFINE h == [x \in S |-> g[x] - f[x]]
<1>1. \A x \in S : h[x] \in Nat
  OBVIOUS
<1>2. \A x \in S : f[x] \in Int /\ h[x] \in Int /\ g[x] = f[x] + h[x]
  OBVIOUS
<1> HIDE DEF h
<1>3. Sum(g, S) = Sum(f, S) + Sum(h, S)
  BY <1>2, SumAdded
<1>4. Sum(f, S) \in Int /\ Sum(h, S) \in Nat
  BY <1>1, <1>2, SumType, SumNat
<1> QED BY <1>3, <1>4

\* One round shares out no more than is asked, and something if a place is open.
LEMMA SharedSound ==
  ASSUME NEW D, Positions(D), IsFiniteSet(D), NEW w \in [D -> Nat],
         NEW amount \in Nat \ {0}, NEW left \in [D -> Int]
  PROVE  LET step == Shared(w, amount, left)
         IN  /\ step \in [D -> Nat]
             /\ \A r \in D : step[r] = 0 \/ step[r] <= left[r]
             /\ TotalWeight(step) = Sum(step, D)
             /\ TotalWeight(step) \in 0..amount
             /\ (\E r \in D : left[r] > 0) => TotalWeight(step) > 0
<1> DEFINE open == {r \in D : left[r] > 0}
           shares == [r \in open |-> IF \A o \in open : w[o] = 0 THEN 1 ELSE w[r]]
           asked == NormalizeWeightsToTotal(shares, amount)
           step == Shared(w, amount, left)
<1>1. step = [r \in D |-> IF r \in open THEN Smaller(asked[r], left[r]) ELSE 0]
  BY DEF Shared
<1>2. open \in SUBSET D /\ IsFiniteSet(open) /\ Positions(open)
  <2>1. open \in SUBSET D
    OBVIOUS
  <2> HIDE DEF open
  <2> QED BY <2>1, FS_Subset DEF Positions
<1>3. shares \in [open -> Nat]
  OBVIOUS
<1>4. \A r \in open : left[r] \in Int /\ left[r] > 0
  OBVIOUS
<1> HIDE DEF shares, open, step
<1>5. CASE open = {}
  <2>1. \A r \in D : step[r] = 0
    BY <1>1, <1>5
  <2>2. Sum(step, D) = 0
    BY <2>1, SumOfNothing
  <2>3. TotalWeight(step) = Sum(step, D)
    BY <1>1, TotalIsSum
  <2>4. step \in [D -> Nat]
    BY <1>1, <1>5
  <2>5. ~ \E r \in D : left[r] > 0
    BY <1>5 DEF open
  <2> QED BY <2>1, <2>2, <2>3, <2>4, <2>5 DEF step
<1>6. CASE open # {}
  <2>1. asked \in [open -> Nat] /\ TotalWeight(asked) = amount
    BY <1>2, <1>3, <1>6, NormalizedMeetsTotal
  <2>2. Sum(asked, open) = amount
    BY <2>1, TotalIsSum
  <2> HIDE DEF asked
  <2>3. \A r \in open : step[r] \in Nat /\ step[r] <= asked[r] /\ step[r] <= left[r]
    BY <1>1, <1>2, <1>4, <2>1 DEF Smaller
  <2>4. \A r \in D \ open : step[r] = 0
    BY <1>1
  <2>5. step \in [D -> Nat] /\ \A r \in D : step[r] \in Int
    BY <1>1, <2>3, <2>4
  <2>6. TotalWeight(step) = Sum(step, D) /\ Sum(step, D) \in Nat
    BY <2>5, TotalIsSum, SumNat
  <2>7. Sum(step, D) = Sum(step, open)
    <3>1. Sum(step, D) = Sum(step, open) + Sum(step, D \ open)
      BY <1>2, <2>5, SumSplit
    <3>2. Sum(step, D \ open) = 0
      BY <2>4, FS_Subset, SumOfNothing
    <3>3. Sum(step, open) \in Nat
      BY <1>2, <2>3, SumNat
    <3> QED BY <3>1, <3>2, <3>3
  <2>8. Sum(step, open) <= amount
    <3>1. \A r \in open : step[r] \in Int /\ asked[r] \in Int /\ step[r] <= asked[r]
      BY <2>1, <2>3
    <3>2. Sum(step, open) <= Sum(asked, open)
      BY <1>2, <3>1, SumMonotone
    <3> QED BY <2>2, <3>2
  <2>9. Sum(step, D) > 0
    <3>1. PICK r \in open : asked[r] # 0
      <4> SUFFICES ASSUME \A r \in open : asked[r] = 0 PROVE FALSE
        OBVIOUS
      <4>1. Sum(asked, open) = 0
        BY <1>2, SumOfNothing
      <4> QED BY <2>2, <4>1
    <3>2. step[r] > 0
      BY <1>1, <1>2, <1>4, <2>1, <3>1 DEF Smaller
    <3>3. step[r] <= Sum(step, D)
      BY <1>2, <2>5, SumBounds
    <3> QED BY <1>2, <2>5, <2>6, <3>2, <3>3
  <2>10. \A r \in D : step[r] = 0 \/ step[r] <= left[r]
    BY <2>3, <2>4
  <2> QED BY <2>5, <2>6, <2>7, <2>8, <2>9, <2>10 DEF step
<1> QED BY <1>5, <1>6

\* What one round of the loop works with.
Missing(w, total) == total - TotalWeight(w)
Sign(w, total) == IF Missing(w, total) > 0 THEN 1 ELSE -1
Room(w, total, bounds) ==
  [r \in DOMAIN w |-> IF Missing(w, total) > 0 THEN bounds.most[r] - w[r]
                                               ELSE w[r] - bounds.least[r]]
Taken(w, total, bounds) ==
  Shared(w, Sign(w, total) * Missing(w, total), Room(w, total, bounds))
Moved(w, total, bounds) ==
  [r \in DOMAIN w |-> w[r] + Sign(w, total) * Taken(w, total, bounds)[r]]

Redistributes(f, D, total, bounds) ==
  f = [w \in [D -> Nat] |->
        LET missing == total - TotalWeight(w)
            sign == IF missing > 0 THEN 1 ELSE -1
            left == [r \in DOMAIN w |-> IF missing > 0 THEN bounds.most[r] - w[r]
                                                       ELSE w[r] - bounds.least[r]]
            step == Shared(w, sign * missing, left)
        IN  IF missing = 0 \/ TotalWeight(step) = 0 THEN w
            ELSE f[[r \in DOMAIN w |-> w[r] + sign * step[r]]]]

LEMMA RedistributionIsChosen ==
  ASSUME NEW start, NEW total, NEW bounds
  PROVE  ApplyIntegerWeightDifference(start, total, bounds)
           = (CHOOSE f : Redistributes(f, DOMAIN start, total, bounds))[start]
BY DEF ApplyIntegerWeightDifference, Redistributes

Bounds(bounds, D) ==
  /\ bounds.least \in [D -> Nat] /\ bounds.most \in [D -> Nat]
  /\ \A r \in D : bounds.least[r] <= bounds.most[r]

Within(w, bounds, D) == \A r \in D : w[r] \in bounds.least[r]..bounds.most[r]

\* A round comes closer to the total unless it takes nothing, and keeps to the
\* bounds.
LEMMA RoundSound ==
  ASSUME NEW D, Positions(D), IsFiniteSet(D), NEW total \in Nat, NEW bounds, Bounds(bounds, D),
         NEW w \in [D -> Nat], Missing(w, total) # 0
  PROVE  LET distance == Sign(w, total) * Missing(w, total)
             taken == TotalWeight(Taken(w, total, bounds))
         IN  /\ distance \in Nat \ {0} /\ taken \in 0..distance
             /\ Moved(w, total, bounds) \in [D -> Nat]
             /\ Missing(Moved(w, total, bounds), total)
                  = Missing(w, total) - Sign(w, total) * taken
             /\ Within(w, bounds, D) => Within(Moved(w, total, bounds), bounds, D)
             /\ (\E r \in D : Room(w, total, bounds)[r] > 0) => taken > 0
<1> DEFINE missing == Missing(w, total)  sign == Sign(w, total)
           distance == sign * missing  left == Room(w, total, bounds)
           step == Taken(w, total, bounds)  moved == Moved(w, total, bounds)
           signed == [r \in D |-> sign * step[r]]
<1>1. TotalWeight(w) = Sum(w, D) /\ Sum(w, D) \in Nat
  BY TotalIsSum, SumNat
<1>2. missing = total - Sum(w, D) /\ missing \in Int /\ missing # 0
  BY <1>1 DEF Missing
<1>3. sign = (IF missing > 0 THEN 1 ELSE -1) /\ sign \in Int
  BY DEF Sign
<1>4. distance \in Nat \ {0} /\ distance = (IF missing > 0 THEN missing ELSE -missing)
  <2> HIDE DEF missing, sign
  <2> QED BY <1>2, <1>3
<1>5. \A r \in D : left[r] = IF missing > 0 THEN bounds.most[r] - w[r]
                                            ELSE w[r] - bounds.least[r]
  BY DEF Room
<1>6. left \in [D -> Int]
  <2>1. left = [r \in D |-> left[r]]
    BY DEF Room
  <2>2. \A r \in D : left[r] \in Int
    BY <1>5 DEF Bounds
  <2> HIDE DEF left
  <2> QED BY <2>1, <2>2
<1>7. step = Shared(w, distance, left)
  BY DEF Taken
<1> HIDE DEF missing, sign, distance, left, step
<1>8. /\ step \in [D -> Nat]
      /\ \A r \in D : step[r] = 0 \/ step[r] <= left[r]
      /\ TotalWeight(step) = Sum(step, D)
      /\ TotalWeight(step) \in 0..distance
      /\ (\E r \in D : left[r] > 0) => TotalWeight(step) > 0
  BY <1>4, <1>6, <1>7, SharedSound
<1>9. moved = [r \in D |-> w[r] + sign * step[r]]
  BY DEF Moved, sign, step
<1> HIDE DEF moved
<1>10. \A r \in D : /\ moved[r] = w[r] + signed[r] /\ w[r] \in Int /\ signed[r] \in Int
                    /\ moved[r] = IF missing > 0 THEN w[r] + step[r] ELSE w[r] - step[r]
  BY <1>3, <1>8, <1>9
<1>11. ASSUME NEW r \in D
       PROVE  /\ moved[r] \in Nat
              /\ w[r] \in bounds.least[r]..bounds.most[r] =>
                   moved[r] \in bounds.least[r]..bounds.most[r]
  <2>1. /\ w[r] \in Nat /\ step[r] \in Nat /\ bounds.least[r] \in Nat /\ bounds.most[r] \in Nat
        /\ step[r] = 0 \/ step[r] <= left[r]
        /\ left[r] = IF missing > 0 THEN bounds.most[r] - w[r] ELSE w[r] - bounds.least[r]
        /\ moved[r] = IF missing > 0 THEN w[r] + step[r] ELSE w[r] - step[r]
    BY <1>5, <1>8, <1>10 DEF Bounds
  <2> QED BY <2>1
<1>12. moved \in [D -> Nat]
  BY <1>9, <1>11
<1>13. Missing(moved, total) = missing - sign * Sum(step, D)
  <2>1. \A r \in D : step[r] \in Int /\ signed[r] = sign * step[r]
    BY <1>8
  <2> HIDE DEF signed
  <2>2. Sum(signed, D) = sign * Sum(step, D)
    BY <1>3, <2>1, SumScaled
  <2>3. Sum(moved, D) = Sum(w, D) + Sum(signed, D)
    BY <1>10, SumAdded
  <2>4. Missing(moved, total) = total - Sum(moved, D)
    BY <1>12, TotalIsSum DEF Missing
  <2>5. Sum(step, D) \in Int /\ sign * Sum(step, D) \in Int
    BY <1>3, <1>8, <1>4
  <2> QED BY <1>1, <1>2, <2>2, <2>3, <2>4, <2>5
<1> QED
  BY <1>4, <1>8, <1>11, <1>12, <1>13 DEF missing, sign, distance, left, step, moved, Within

\* While the total is not met there is room, if the bounds allow for the total.
LEMMA RoomLeft ==
  ASSUME NEW D, Positions(D), IsFiniteSet(D), NEW total \in Nat, NEW bounds, Bounds(bounds, D),
         Sum(bounds.least, D) <= total, total <= Sum(bounds.most, D),
         NEW w \in [D -> Nat], Within(w, bounds, D), Missing(w, total) # 0
  PROVE  \E r \in D : Room(w, total, bounds)[r] > 0
<1> SUFFICES ASSUME \A r \in D : ~(Room(w, total, bounds)[r] > 0) PROVE FALSE
  OBVIOUS
<1>1. TotalWeight(w) = Sum(w, D) /\ Sum(w, D) \in Nat
  BY TotalIsSum, SumNat
<1>2. Missing(w, total) = total - Sum(w, D)
  BY <1>1 DEF Missing
<1>3. \A r \in D : Room(w, total, bounds)[r] =
        IF Missing(w, total) > 0 THEN bounds.most[r] - w[r] ELSE w[r] - bounds.least[r]
  BY DEF Room
<1>4. Sum(bounds.most, D) \in Nat /\ Sum(bounds.least, D) \in Nat
  BY SumNat DEF Bounds
<1>5. CASE Missing(w, total) > 0
  <2>1. \A r \in D : bounds.most[r] \in Int /\ w[r] \in Int /\ bounds.most[r] <= w[r]
    BY <1>3, <1>5 DEF Bounds
  <2>2. Sum(bounds.most, D) <= Sum(w, D)
    BY <2>1, SumMonotone
  <2> QED BY <1>1, <1>2, <1>4, <1>5, <2>2
<1>6. CASE ~(Missing(w, total) > 0)
  <2>1. \A r \in D : bounds.least[r] \in Int /\ w[r] \in Int /\ w[r] <= bounds.least[r]
    BY <1>3, <1>6 DEF Bounds
  <2>2. Sum(w, D) <= Sum(bounds.least, D)
    BY <2>1, SumMonotone
  <2> QED BY <1>1, <1>2, <1>4, <1>6, <2>2
<1> QED BY <1>5, <1>6

LEMMA DifferenceApplied ==
  ASSUME NEW D, Positions(D), IsFiniteSet(D), NEW total \in Nat, NEW bounds, Bounds(bounds, D),
         Sum(bounds.least, D) <= total, total <= Sum(bounds.most, D),
         NEW start \in [D -> Nat], Within(start, bounds, D)
  PROVE  MeetsTotal(ApplyIntegerWeightDifference(start, total, bounds), total, bounds)
<1> DEFINE W == [D -> Nat]
           taken(w) == TotalWeight(Taken(w, total, bounds))
           m == [w \in W |-> Sign(w, total) * Missing(w, total)]
           stop == {w \in W : Missing(w, total) = 0 \/ taken(w) = 0}
           next == [w \in W |-> IF Missing(w, total) = 0 THEN w ELSE Moved(w, total, bounds)]
           out == [w \in W |-> w]
           Inv == {w \in W : Within(w, bounds, D)}
<1>1. \A w \in W : Missing(w, total) \in Int
  <2> SUFFICES ASSUME NEW w \in W PROVE Missing(w, total) \in Int
    OBVIOUS
  <2>1. TotalWeight(w) = Sum(w, D) /\ Sum(w, D) \in Nat
    BY TotalIsSum, SumNat
  <2> QED BY <2>1 DEF Missing
<1>2. \A w \in W : m[w] \in Nat
  BY <1>1 DEF Sign
<1>3. ASSUME NEW w \in W, Missing(w, total) # 0
      PROVE  /\ Moved(w, total, bounds) \in W
             /\ taken(w) \in 0..m[w]
             /\ Missing(Moved(w, total, bounds), total)
                  = Missing(w, total) - Sign(w, total) * taken(w)
             /\ w \in Inv => Moved(w, total, bounds) \in Inv
             /\ w \in Inv => taken(w) > 0
  <2>1. m[w] = Sign(w, total) * Missing(w, total)
    OBVIOUS
  <2>2. w \in Inv => \E r \in D : Room(w, total, bounds)[r] > 0
    BY <1>3, RoomLeft
  <2> HIDE DEF m
  <2> QED BY <1>3, <2>1, <2>2, RoundSound
<1>4. next \in [W -> W]
  BY <1>3
<1>5. ASSUME NEW w \in W \ stop PROVE m[next[w]] < m[w]
  <2> DEFINE v == Moved(w, total, bounds)  a == Missing(w, total)  b == Missing(v, total)
             t == taken(w)
  <2>1. a # 0 /\ t # 0 /\ next[w] = v
    BY <1>5
  <2>2. v \in W /\ t \in 0..m[w] /\ b = a - Sign(w, total) * t
    BY <1>3, <2>1
  <2>3. m[w] = Sign(w, total) * a /\ m[v] = Sign(v, total) * b
    BY <2>2
  <2>4. a \in Int /\ b \in Int /\ m[w] \in Nat
    BY <1>1, <1>2, <2>2
  <2>5. /\ Sign(w, total) = IF a > 0 THEN 1 ELSE -1
        /\ Sign(v, total) = IF b > 0 THEN 1 ELSE -1
    BY DEF Sign
  <2> HIDE DEF v, a, b, t, m, next
  <2>6. CASE a > 0
    BY <2>1, <2>2, <2>3, <2>4, <2>5, <2>6
  <2>7. CASE ~(a > 0)
    BY <2>1, <2>2, <2>3, <2>4, <2>5, <2>7
  <2> QED BY <2>6, <2>7
<1>6. Falls(W, m, stop, next)
  <2>1. m \in [W -> Nat]
    BY <1>2
  <2> HIDE DEF m, stop, next
  <2> QED BY <1>4, <1>5, <2>1 DEF Falls
<1>7. \A f : Redistributes(f, D, total, bounds) <=> Loops(f, W, stop, next, out)
  <2> SUFFICES ASSUME NEW f
               PROVE  Redistributes(f, D, total, bounds) <=> Loops(f, W, stop, next, out)
    OBVIOUS
  <2> DEFINE A(w) == LET missing == total - TotalWeight(w)
                         sign == IF missing > 0 THEN 1 ELSE -1
                         left == [r \in DOMAIN w |-> IF missing > 0 THEN bounds.most[r] - w[r]
                                                                    ELSE w[r] - bounds.least[r]]
                         step == Shared(w, sign * missing, left)
                     IN  IF missing = 0 \/ TotalWeight(step) = 0 THEN w
                         ELSE f[[r \in DOMAIN w |-> w[r] + sign * step[r]]]
             B(w) == IF w \in stop THEN out[w] ELSE f[next[w]]
  <2>1. ASSUME NEW w \in W PROVE A(w) = B(w)
    <3>1. A(w) = IF Missing(w, total) = 0 \/ taken(w) = 0 THEN w
                 ELSE f[Moved(w, total, bounds)]
      BY DEF Missing, Sign, Room, Taken, Moved
    <3> HIDE DEF A
    <3>2. B(w) = IF Missing(w, total) = 0 \/ taken(w) = 0 THEN w
                 ELSE f[Moved(w, total, bounds)]
      OBVIOUS
    <3> QED BY <3>1, <3>2
  <2>2. [w \in W |-> A(w)] = [w \in W |-> B(w)]
    <3> HIDE DEF A, B, W
    <3> QED BY <2>1
  <2> QED BY <2>2 DEF Redistributes, Loops
<1>8. \E f : Redistributes(f, D, total, bounds)
  <2> HIDE DEF W, m, stop, next, out
  <2> QED BY <1>6, <1>7, LoopExists
<1>9. PICK f : /\ Redistributes(f, D, total, bounds)
               /\ ApplyIntegerWeightDifference(start, total, bounds) = f[start]
  <2>1. DOMAIN start = D
    OBVIOUS
  <2> QED BY <1>8, <2>1, RedistributionIsChosen
<1>10. Inv \in SUBSET W /\ start \in Inv
  OBVIOUS
<1>11. ASSUME NEW w \in Inv \ stop PROVE next[w] \in Inv
  BY <1>3
<1>12. \E v \in Inv \cap stop : f[start] = out[v]
  <2>1. Loops(f, W, stop, next, out)
    BY <1>7, <1>9
  <2> HIDE DEF W, m, stop, next, out, Inv
  <2> QED BY <1>6, <1>10, <1>11, <2>1, LoopEnds
<1>13. PICK v \in Inv \cap stop : f[start] = v
  BY <1>12
<1>14. Missing(v, total) = 0
  <2>1. v \in W /\ v \in Inv
    BY <1>10, <1>13
  <2>2. Missing(v, total) = 0 \/ taken(v) = 0
    BY <1>13
  <2>3. Missing(v, total) # 0 => taken(v) > 0
    BY <1>3, <2>1
  <2> HIDE DEF taken
  <2> QED BY <2>2, <2>3
<1>15. TotalWeight(v) = total
  <2>1. TotalWeight(v) = Sum(v, D) /\ Sum(v, D) \in Nat
    BY TotalIsSum, SumNat
  <2> QED BY <1>14, <2>1 DEF Missing
<1>16. v \in [DOMAIN bounds.least -> Nat] /\ \A r \in DOMAIN v : v[r] \in bounds.least[r]..bounds.most[r]
  BY DEF Bounds, Within
<1> QED BY <1>9, <1>13, <1>15, <1>16 DEF MeetsTotal

\* The redistribution ends, and it meets the total whenever the bounds of the
\* reserves allow for it: neither the loop of applyIntegerWeightDifference nor its
\* last check fails.
THEOREM RedistributionSucceeds ==
  ASSUME NEW D, Positions(D), IsFiniteSet(D), NEW w \in [D -> Int], NEW den \in Nat \ {0},
         NEW total \in Nat, NEW bounds, Bounds(bounds, D),
         TotalWeight(bounds.least) <= total, total <= TotalWeight(bounds.most)
  PROVE  \E b \in [D -> Nat] : /\ Redistribute(w, den, total, bounds) = {b}
                               /\ MeetsTotal(b, total, bounds)
<1> DEFINE bounded == [r \in D |-> Clamp(den * bounds.least[r], den * bounds.most[r], w[r])]
           normal == NormalizeWeightsToTotal(bounded, total)
           start == [r \in D |-> Clamp(bounds.least[r], bounds.most[r], normal[r])]
           b == ApplyIntegerWeightDifference(start, total, bounds)
<1>1. \A r \in D : bounds.least[r] \in Nat /\ bounds.most[r] \in Nat
                  /\ bounds.least[r] <= bounds.most[r]
  BY DEF Bounds
<1>2. bounded \in [D -> Nat]
  <2> SUFFICES ASSUME NEW r \in D PROVE bounded[r] \in Nat
    OBVIOUS
  <2> DEFINE x == den * bounds.least[r]  y == den * bounds.most[r]
  <2>1. x \in Nat /\ y \in Nat /\ w[r] \in Int
    BY <1>1
  <2>2. bounded[r] = Clamp(x, y, w[r])
    OBVIOUS
  <2> HIDE DEF x, y, bounded
  <2> QED BY <2>1, <2>2 DEF Clamp, Smaller
<1>3. D # {} => normal \in [D -> Nat]
  <2> HIDE DEF bounded
  <2> QED BY <1>2, NormalizedMeetsTotal
<1> HIDE DEF normal
<1>4. start \in [D -> Nat] /\ Within(start, bounds, D)
  <2> SUFFICES ASSUME NEW r \in D
               PROVE  start[r] \in Nat /\ start[r] \in bounds.least[r]..bounds.most[r]
    BY DEF Within
  <2>1. normal[r] \in Nat
    BY <1>3
  <2> QED BY <1>1, <2>1 DEF Clamp, Smaller
<1>5. /\ Sum(bounds.least, D) = TotalWeight(bounds.least)
      /\ Sum(bounds.most, D) = TotalWeight(bounds.most)
  BY TotalIsSum DEF Bounds
<1> HIDE DEF start
<1>6. MeetsTotal(b, total, bounds)
  BY <1>4, <1>5, DifferenceApplied
<1>7. Redistribute(w, den, total, bounds) = {final \in {b} : MeetsTotal(final, total, bounds)}
  <2>1. DOMAIN w = D /\ \A r \in D : bounds.least[r] \in 0..bounds.most[r]
    BY <1>1
  <2> QED BY <2>1 DEF Redistribute, normal, start
<1> HIDE DEF b
<1>8. b \in [D -> Nat]
  BY <1>6 DEF MeetsTotal, Bounds
<1> QED BY <1>6, <1>7, <1>8

=============================================================================
