SPECIFICATION FairSpec
CONSTANTS
  AttemptLimit = 2
  LeaseTTL = 2
  Policies <- LivePolicies
  Processes <- MCJobWorkers
  JobWorkers <- MCJobWorkers
  Callers = {}
  Approvers = {a1}
  Nobody = Nobody
  w1 = w1
  c1 = c1
  a1 = a1
CHECK_DEADLOCK FALSE
PROPERTIES StartedCallSettles ClaimSettles WaitingEnds
