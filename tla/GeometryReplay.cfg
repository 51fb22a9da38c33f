CONSTANTS
  Width = 12
  Height = 8
  Angles <- MCAngles
  Sizes <- MCSizes
  Spans <- MCSpans
  MaxOperations = 4
SPECIFICATION Spec
CHECK_DEADLOCK FALSE
INVARIANTS
  FrameInsideKept
PROPERTIES
  EditsDoWhatTheySay
