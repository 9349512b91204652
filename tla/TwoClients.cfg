CONSTANTS
  None = None
  Foreign = Foreign
  Garbage = Garbage
  Exchanges = {e1, e2}
  Concurrent = 2
  Posters = {}
  PostedKeys <- AnyKey
  MaxCrashes = 0
SPECIFICATION RaceSpec
INVARIANT SameSecret
CHECK_DEADLOCK FALSE
