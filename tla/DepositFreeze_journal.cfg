\* Calls fail, updates of every kind land late, the operator changes caps and the
\* bot restarts.
SPECIFICATION FairSpec
CONSTANTS
  NoFreeze = NoFreeze
  MaxCap = 3
  MaxFaults = 2
  MaxChanges = 1
INVARIANT Journaled
PROPERTIES CapRestored DepositsClosed
