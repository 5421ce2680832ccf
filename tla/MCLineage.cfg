CONSTANTS
  Processes = {p1}
  Submissions <- MCSubmissions
  Documents <- MCDocuments
  Retention <- MCRetention
  Horizon <- MCHorizon
  MaxDepth = 2
  DailyLimit = 2
  MaxRuns = 3
  MaxTime = 1
  MaxDays = 2
SPECIFICATION Spec
INVARIANT LineageNarrows
INVARIANT FamiliesPayOnce
