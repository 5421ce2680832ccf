CONSTANTS
  Processes = {p1, p2}
  Submissions <- MCSubmissions
  Documents <- MCDocumented
  Retention <- MCRetention
  Horizon <- MCHorizon
  MaxDepth = 0
  DailyLimit = 0
  MaxRuns = 2
  MaxTime = 3
  MaxDays = 1
SPECIFICATION Spec
SYMMETRY MCSymmetry
INVARIANT OneRunPerKey
