SPECIFICATION FairSpec
CONSTANTS
  None = None
  Broken = Broken
  Camera = Camera
  Readable = {"nef", "tif", "jpg", "JPG"}
  MaxDocs = 3
  MaxTimeouts = 1
  MaxHand = 1
  Paths <- MCPaths
  FileOf <- MCFileOf
  Originals <- MCOriginals
  Requests <- MCRequests
CHECK_DEADLOCK FALSE
INVARIANTS
  BatchInOrder
PROPERTIES
  ExportedMeansExported
  BatchReports
