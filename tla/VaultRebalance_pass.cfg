CONSTANTS
  Vaults = {1, 2}
  Reserves = {r1, r2}
  Configs <- MCConfigs
  DangerPassInterval = 2
  MaxFailures = 3
  MaxFaults = 2
  MaxLate = 1
SPECIFICATION Spec
INVARIANT InvestGuarded
PROPERTIES DoneIsDone Served Enforced
