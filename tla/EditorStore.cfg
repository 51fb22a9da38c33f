SPECIFICATION StoreSpec
CONSTANTS
  MaxOpens = 2
  MaxGestures = 2
  Sliders = {"exposure"}
  LayerKnobs = {"setLayerVisible"}
  ToolOrder <- MCTools
  ProjectOps <- MCProjectOps
  Unset = Unset
CHECK_DEADLOCK FALSE
INVARIANTS
  StoreInOrder
  StackShownIsTheDocuments
  SavedIsShown
  PanelShowsTheEngine
