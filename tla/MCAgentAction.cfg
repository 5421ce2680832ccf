SPECIFICATION Spec
CONSTANTS
  Reviewers <- MCReviewers
  Agents <- MCAgents
  MaxRows = 2
  r1 = r1
  r2 = r2
  g1 = g1
  g2 = g2
SYMMETRY MCSymmetry
INVARIANTS RowsTellTheTruth OneDecisionIsSigned
