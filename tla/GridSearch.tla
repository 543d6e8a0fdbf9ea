------------------------------- MODULE GridSearch -------------------------------
(***************************************************************************)
(* The coarse-to-fine search for the best allocation                       *)
(* (utils/maxYieldOptimizers.ts).  A point gives each reserve its share of *)
(* the vault in units of the fine resolution, 1/Grid.                      *)
(*                                                                         *)
(* The search takes the points in lexicographic order and replaces its     *)
(* best point only by a better one, so the first of equals stays.  A       *)
(* candidate is a point whose evaluation returns a score: the objective,   *)
(* with its sign turned so that more is better.                            *)
(***************************************************************************)
EXTENDS Integers, FiniteSets, FiniteSetsExt, Functions

CONSTANTS
  Reserves,       \* of the vault: 1..n, in vault order
  Grid,           \* fine steps in a whole
  CoarseStep,     \* the coarse resolution, in fine steps
  MediumStep,     \* the medium resolution
  MediumRadius,   \* how far the medium search looks around its centers
  FineRadius,     \* how far the fine search looks
  MaxCandidates   \* points generated plus points evaluated in one search

ASSUME GridAssumption ==
  /\ Reserves \subseteq Nat \ {0} /\ IsFiniteSet(Reserves) /\ Reserves # {}
  /\ {Grid, CoarseStep, MediumStep} \subseteq Nat \ {0}
  /\ {MediumRadius, FineRadius, MaxCandidates} \subseteq Nat
  /\ CoarseStep <= Grid
  /\ Grid % (Grid \div CoarseStep) = 0   \* a coarse point is a fine point

Points == [S \in SUBSET Reserves |-> {p \in [S -> 0..Grid] : SumFunction(p) = Grid}]

\* generateAllocationPoints: every way to share out Grid \div step parts.
AllocationPoints(S, step) ==
  LET part == Grid \div (Grid \div step)
  IN  {p \in Points[S] : \A r \in S : p[r] % part = 0}

\* generateRefinementRegionPoints: all but the last reserve stay on the grid
\* of the step, the last one takes what is left, each within the radius.
RefinementPoints(center, radius, step) ==
  LET S == DOMAIN center
  IN  {p \in Points[S] :
         \A r \in S : /\ r # Max(S) => p[r] % step = 0
                      /\ p[r] - center[r] \in -radius..radius}

\* The order in which the points are generated.
Before(p, q) ==
  \E r \in DOMAIN p : p[r] < q[r] /\ \A s \in DOMAIN p : s < r => p[s] = q[s]

\* The best of some candidates, the first of equals.
BestOf(candidates) ==
  CHOOSE c \in candidates :
    \A d \in candidates \ {c} :
      \/ d.score < c.score
      \/ d.score = c.score /\ Before(c.point, d.point)

\* Faulty variant of Improve: the comparison of the other objective is used.
ImproveInverted(best, candidates) ==
  IF \E c \in candidates : c.score < best.score
    THEN CHOOSE c \in candidates : \A d \in candidates : c.score <= d.score
    ELSE best

\* A phase after the first: its best point, if it beats the best so far.
Improve(best, candidates) ==
  IF \E c \in candidates : c.score > best.score THEN BestOf(candidates) ELSE best

Among(candidates, points) == {c \in candidates : c.point \in points}

\* The fine phase around the best of the medium phase: the point found, and the
\* candidates counted so far.
FinePhase(candidates, best, counted) ==
  LET near == RefinementPoints(best.point, FineRadius, 1)
  IN  [found |-> {Improve(best, Among(candidates, near)).point},
       counted |-> counted + 2 * Cardinality(near)]

\* The medium phase around the centers, the best one first.
MediumPhase(candidates, best, centers, counted) ==
  LET Region(c) == RefinementPoints(c.point, MediumRadius, MediumStep)
      medium == UNION {Region(c) : c \in centers}
      first == Improve(best, Among(candidates, Region(best)))
  IN  FinePhase(candidates, Improve(first, Among(candidates, medium)),
        counted + MapThenSumSet(LAMBDA c : Cardinality(Region(c)), centers)
                + Cardinality(medium))

\* runCoarseToFineSearch.  Only the coarse phase looks for a second center.
CoarseToFine(S, candidates) ==
  LET coarse == AllocationPoints(S, CoarseStep)
      rated == Among(candidates, coarse)
      best == BestOf(rated)
      others == rated \ {best}
      centers == {best} \cup (IF others = {} THEN {} ELSE {BestOf(others)})
  IN  IF rated = {} THEN [found |-> {}, counted |-> 2 * Cardinality(coarse)]
      ELSE MediumPhase(candidates, best, centers, 2 * Cardinality(coarse))

\* gridSearch: a search that would count a candidate past its budget throws,
\* and so does one without a point that can be evaluated; neither has a result.
Search(S, candidates) ==
  LET search == CoarseToFine(S, candidates)
  IN  IF search.counted > MaxCandidates THEN {} ELSE search.found
=============================================================================
