SPECIFICATION WindowSpec
CONSTANTS
  a1 = a1
  a2 = a2
  b1 = b1
  A = A
  B = B
  NoFolder = NoFolder
  Files = {a1, a2, b1}
  FolderOf <- MCFolderOf
  Undecodable = {b1}
  Limit = 1
  Budget = 1
  Interval = 1
  MaxOpens = 2
  MaxChanges = 1
  MaxStars = 1
  MaxRestarts = 1
  Listing <- MCListing
  Filters <- MCFilters
  Nowhere = Nowhere
  MaxRuns = 2
  MaxReloads = 1
  MaxStops = 1
  Photos = {"r1"}
  Projects = {"v", "w"}
  Slot = "slot"
  FolderPaths = {"d"}
  Removable = {"w"}
  RECENT_LIMIT = 2
  Null = Null
  MaxMoves = 1
  Shots = {"s1", "s2"}
  NoShot = NoShot
  MaxHanded = 2
  MaxLoads = 2
CHECK_DEADLOCK FALSE
INVARIANTS
  WindowInOrder
  TilesAreFresh
PROPERTIES
  StopIsForItsRun
  AskedIsAnswered
  TablesAreKept
