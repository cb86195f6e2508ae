SPECIFICATION FairSpec
CONSTANTS
  p1 = p1
  p2 = p2
  Provider = {p1, p2}
  RootExists = FALSE
  MaxNodes = 2
  MaxFaults = 1
INVARIANTS TypeOK Listening
PROPERTIES CopyCurrent CacheFollows
CHECK_DEADLOCK FALSE
