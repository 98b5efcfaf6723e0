SPECIFICATION Spec
CONSTANTS
  Pages = {p1}
  Branches = {b1, b2}
  Codes = {1, 2}
  CodePart <- MCDistinct
  Months = {0}
  NoMonth = NoMonth
  Null = Null
  MaxEdits = 2
  MaxRequests = 2
  MaxUpsets = 0
SYMMETRY MCSymmetry
PROPERTY MonthClicksCount
CHECK_DEADLOCK FALSE
