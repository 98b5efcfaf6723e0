SPECIFICATION Spec
CONSTANTS
  Pages = {p1}
  Branches = {b1, b2}
  Codes = {1, 2}
  CodePart <- MCDistinct
  Months = {0}
  NoMonth = NoMonth
  Null = Null
  MaxEdits = 1
  MaxRequests = 2
  MaxUpsets = 1
SYMMETRY MCSymmetry
INVARIANT SelectionStaysRunnable
INVARIANT EveryActiveBranchRuns
INVARIANT SettledPageIsCurrent
CHECK_DEADLOCK FALSE
