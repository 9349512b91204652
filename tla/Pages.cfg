CONSTANTS
  Results <- SomeResults
  MaxResults = 3
  Groups = {"g1", "g2"}
  NavHeight = 2
  Heights = {1, 2, 3}
  MaxClicks = 3
  MaxHolds = 2
  MaxReleases = 2
  Requests = {r1, r2}
  Options <- SomeOptions
  MaxItems = 3
  MaxStops = 2
SPECIFICATION Spec
INVARIANTS
  RequestsCounted
PROPERTIES
  ResultsInOrder
  SearchFinishes
  PageConsistent
  ReadyInTime
  EventuallyReady
  TimeoutSettles
  QueueMoves
  PromiseKept
CHECK_DEADLOCK FALSE
