\* Two live vaults share a reserve; liveness once the faults are used up.
SPECIFICATION FairSpec
CONSTANTS
  p1 = p1
  p2 = p2
  p3 = p3
  r1 = r1
  r2 = r2
  Passes = {p1, p2}
  NoPass = NoPass
  NumVaults = 2
  Reserves = {r1}
  VaultReserves <- SharedReserve
  Live <- BothLive
  MayBreach = {r1}
  MayFlag = {r1}
  MaxFaults = 1
  MaxClears = 0
PROPERTIES CatastropheActedOn Evacuated
