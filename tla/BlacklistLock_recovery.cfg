\* Three processes; any of them may be killed or stopped for longer than the
\* stale window, and stale lock files are taken over.
\* Calls come to an end, so the system may stop.
SPECIFICATION FairLockSpec
CONSTANTS
  Actors = {bot, cli1, cli2}
  NoLock = NoLock
  MaxUpdates = 1
  MaxMishaps = 2
  Prompt = FALSE
  MaxStale = 2
CHECK_DEADLOCK FALSE
PROPERTIES UpdatesAreAtomic LockRecovered
