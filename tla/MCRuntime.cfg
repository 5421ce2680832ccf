SPECIFICATION FairSpec
CONSTANTS
  AttemptLimit = 2
  LeaseTTL = 2
  MaxReports = 2
  Policies <- MCPolicies
  Processes <- MCSessions
  Sessions <- MCSessions
  Approvers = {a1}
  Nobody = Nobody
  s1 = s1
  s2 = s2
  a1 = a1
CHECK_DEADLOCK FALSE
INVARIANTS InputGoesToOneClaim AcknowledgedResultStands EffectIsNotDenied
PROPERTIES EndedSessionIsCutOff ImplementsContract StartedAttemptEnds
