SPECIFICATION Spec
CONSTANTS
  Docs = {d1, d2}
  Paths = {p1}
  Slot = Slot
  Calls = {c1, c2}
  None = None
  Torn = Torn
  EditReply = EditReply
  Patient = FALSE
  MaxVersion = 2
  MaxReplies = 2
  MaxAutosaves = 1
  MaxCrashes = 1
SYMMETRY Symmetry
CHECK_DEADLOCK FALSE
INVARIANTS
  CleanMeansSaved
