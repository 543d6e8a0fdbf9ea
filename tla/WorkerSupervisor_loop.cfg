\* Workers fail, hang and die; a signal comes at any time, during start-up too.
\* The process ends in a shutdown, so the system may stop.
CONSTANTS
  MaxRestarts = 3
  EscalationPasses = 3
  MaxInbox = 3
SPECIFICATION FairSpec
INVARIANTS NotReadyUnlessWorking WorkerStopsFirst
PROPERTIES OneWorker RestartsBounded AlarmClears ShutdownEnds
CHECK_DEADLOCK FALSE
