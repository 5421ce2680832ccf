SPECIFICATION FairSpec
CONSTANTS
  Definitions <- MCDefinitions
  Days <- MCDays
  Dispatchers <- MCDispatchers
  Nobody = Nobody
  DayLength = 3
  TimeOfDay = 1
  CatchUp = 1
  ClaimLease = 1
  MaxClaims = 2
  ValidUntil = 3
  DailyLimit = 1
  PendingLimit = 1
  MaxEpoch = 3
  MaxTime = 4
  d1 = d1
  x = x
  y = y
CHECK_DEADLOCK FALSE
INVARIANT TypeOK
INVARIANT RunAndFireAgree
INVARIANT LastClaimRuns
INVARIANT NoCatchUpAcrossPause
INVARIANT SpentFireIsDead
PROPERTY LiveClaimIsKept
PROPERTY FireEnds
