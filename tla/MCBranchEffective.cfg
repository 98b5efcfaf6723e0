SPECIFICATION Spec
CONSTANTS
  Pages = {p1}
  Branches = {b1}
  Codes = {1}
  CodePart <- MCDistinct
  Months = {0}
  NoMonth = NoMonth
  Null = Null
  MaxEdits = 1
  MaxRequests = 2
  MaxUpsets = 0
SYMMETRY MCSymmetry
INVARIANT EffectiveSequenceIsShown
CHECK_DEADLOCK FALSE
