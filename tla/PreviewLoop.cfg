SPECIFICATION Spec
CONSTANTS
  MaxEdits = 2
  MaxExtras = 1
  Source = 12
  Widths = {12, 6}
  Budget = 10
  Unit = 2
  Scales = {4}
  Inner = 6
CHECK_DEADLOCK FALSE
INVARIANTS
  PictureIsOfTheDocument
  SettledIsTheSizeAsked
  BusyFollowsTheNewest
PROPERTIES
  PictureNeverGoesBack
