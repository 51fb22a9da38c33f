SPECIFICATION Spec
CONSTANTS
  Width = 12
  Height = 8
  low = low
  high = high
  Unset = Unset
  NoControl = NoControl
  Requests <- MCRequests
  Controls <- MCControls
  MaxEntries = 3
  MaxId = 5
CHECK_DEADLOCK FALSE
INVARIANTS
  EveryPointRenders
  EveryPointHasItsLayers
PROPERTIES
  IdsNeverComeBack
  IsATimeline
