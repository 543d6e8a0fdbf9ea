\* A live and a dry-run vault share the reserve that may breach.
SPECIFICATION Spec
CONSTANTS
  p1 = p1
  p2 = p2
  p3 = p3
  r1 = r1
  r2 = r2
  Passes = {p1, p2}
  NoPass = NoPass
  NumVaults = 2
  Reserves = {r1, r2}
  VaultReserves <- TwoVaultReserves
  Live <- FirstLive
  MayBreach = {r1}
  MayFlag = {r2}
  MaxFaults = 2
  MaxClears = 1
SYMMETRY PassSymmetry
INVARIANTS TypeOK ResponseExclusive
PROPERTIES SupersededPassIsInert CatastropheRemembered NoReexposure EvacuationConfirmed
