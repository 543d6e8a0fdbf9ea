\* Three reserves in batches of two; the second is never rejected.
SPECIFICATION Spec
CONSTANTS
  Reserves <- ThreeReserves
  MayReject <- FirstAndLast
  Outside = Outside
  Nobody = Nobody
  NoVerdict = NoVerdict
  MaxAttempts = 3
  BatchSize = 2
  Limit = 3
  MaxPreamble = 3
INVARIANTS ExecutedAtMostOnce ForceLimited OthersNotStopped OutcomeTruthful
