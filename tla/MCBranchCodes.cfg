SPECIFICATION Spec
CONSTANTS
  Pages = {p1}
  Branches = {b1, b2}
  Codes = {1, 2, 3}
  CodePart <- MCColliding
  Months = {0}
  NoMonth = NoMonth
  Null = Null
  MaxEdits = 2
  MaxRequests = 2
  MaxUpsets = 0
SYMMETRY MCSymmetry
INVARIANT EveryActiveBranchRuns
CHECK_DEADLOCK FALSE
