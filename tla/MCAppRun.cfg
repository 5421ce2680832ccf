SPECIFICATION Spec
CONSTANTS
  AttemptLimit = 2
  LeaseTTL = 1
  Policies <- MCPolicies
  Processes <- MCProcesses
  JobWorkers <- MCJobWorkers
  Callers <- MCCallers
  Approvers = {a1}
  Nobody = Nobody
  w1 = w1
  c1 = c1
  a1 = a1
CHECK_DEADLOCK FALSE
INVARIANT TypeOK
INVARIANTS CallsAreFenced CallsAreAuthorized CancelledNeverCalls OneActiveAttempt KnownResultDecides ReceiptsAreTrue RetainedResultIsReadable ApprovalAgrees
PROPERTIES EndedAttemptIsFrozen ImplementsContract
