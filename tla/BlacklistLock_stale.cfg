\* The comment on updateBlacklistFile, for a lock
\* file that a killed process left behind and two others find stale.
SPECIFICATION LockSpec
CONSTANTS
  Actors = {bot, cli1, cli2}
  NoLock = NoLock
  MaxUpdates = 1
  MaxMishaps = 1
  Prompt = TRUE
  MaxStale = 1
CHECK_DEADLOCK FALSE
PROPERTY NoLostUpdate
