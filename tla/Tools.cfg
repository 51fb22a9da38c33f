SPECIFICATION ToolsSpec
CONSTANTS
  Side = 6
  Spacing = 2
  MaxPoints = 6
  Reach = 1
  Heights = {5}
  MaxPresses = 2
  MaxReturning = 2
  PhotoWidth = 6
  PhotoHeight = 4
  MinSize = 2
  MaxShapes = 1
  MaxGrips = 2
  Places = {1, 2}
  MaxStrokes = 2
  MaxDabs = 2
  MaxTurns = 2
  Points <- MCPoints
  Ratios <- MCRatios
  Turns <- MCMirrors
  Originals <- MCSizes
  MAX_SIDE = 4
  FACTORS = {2, 4}
  NotANumber = NotANumber
  Typed = {NotANumber, 0, 5}
  MaxResizes = 2
  Values = {1, 2, 3}
  AsShot = 1
  NoCopy = NoCopy
  MaxBalances = 2
  Full = 3
  Segmented <- MCSegmented
  Colours = {"white", "red"}
  DefaultColour = "white"
  Blurs = {40}
  DefaultBlur = 40
  Shapes = {1, 2}
  MaxCalls = 1
  Amounts = {0, 1}
  AnyJunk = AnyJunk
  AnyText = AnyText
  AnyCategory = AnyCategory
  Junk = AnyJunk
  Garbled = AnyText
  Unknown = AnyCategory
  Categories = {"colour", "portrait"}
  Made <- MCMade
  Found <- MCFound
  MaxSaves = 1
  MaxAsked = 2
  Marks = {0, 20, 120, 220, 240, 255}
  Pictures <- MCPictures
  Others <- MCOthers
  Even <- MCEven
  NoOffer = NoOffer
  Doubted = {"light", "shadows"}
  MaxMeasured = 2
  Depths = {8, 14}
  NoRequest = NoRequest
  MaxExports = 2
  Knob = {"light"}
  Stops = {0, 1}
  PresetLooks <- MCPresetLooks
  MaxRows = 4
  MaxClicks = 1
  Unset = Unset
CHECK_DEADLOCK FALSE
INVARIANTS
  ToolsInOrder
  PaintIsKept
  ControlsKeepTheirWord
  ListsAreTrue
PROPERTIES
  GesturesAddUp
  FrameObeysTheHand
