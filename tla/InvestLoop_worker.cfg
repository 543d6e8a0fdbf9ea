\* One reserve may break, another be excluded, the third be blacklisted.
SPECIFICATION FairSpec
CONSTANTS
  Reserves <- MCReserves
  Assets = 2
  MinInvest = 0
  BatchSize = 2
  MayBreak <- MCBreak
  MayExclude <- MCExclude
  MayBlacklist <- MCBlacklist
  MaxEvents = 3
INVARIANT ExclusionsHonoured
PROPERTIES  NoReserveBlamedForAnother NothingLiesIdle
