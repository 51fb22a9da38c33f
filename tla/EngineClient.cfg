SPECIFICATION FairSpec
CONSTANTS
  Calls = {c1, c2}
  Event = Event
  Sizes <- MCSizes
  MaxHeader = 2
  MaxPayload = 3
  MaxWritten = 0
  MaxStops = 2
INVARIANTS
  NobodyWaitsOnTheDead
  ParserKeepsUp
PROPERTIES
  CallsSettle
