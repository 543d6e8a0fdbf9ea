CONSTANTS
  Reserves = {1, 2, 3}
  Assets = 6
  MinTotal = 6
  EqualWeight = 5
  RandomWeights = {3}
  DefaultRate = 50
  Parts = 4
  Plans <- MCPlans
  Starts <- MCStarts
  Markets <- MCMarkets
  MaxEvents = 2
  Grid = 6
  CoarseStep = 3
  MediumStep = 2
  MediumRadius = 4
  FineRadius = 2
  MaxCandidates = 200
SPECIFICATION Spec
INVARIANTS InvestWithinCap BoundsAgree SearchSound
PROPERTIES WithinCapacity SharesKept Settles
