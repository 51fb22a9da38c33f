SPECIFICATION Spec
CONSTANTS
  d1 = d1
  d2 = d2
  j1 = j1
  j2 = j2
  Docs = {d1, d2}
  Jobs = {j1, j2}
  Width = 6
  Height = 4
  Shapes <- MCShapes
  Balances = {"cold"}
  Limits <- MCLimits
  MaxEdits = 2
  MaxMade = 2
  MaxJobs = 2
  None = None
SYMMETRY MCSym
CHECK_DEADLOCK FALSE
INVARIANTS
  PictureIsItsStack
  ProjectIsWhole
PROPERTIES
  RastersStay
