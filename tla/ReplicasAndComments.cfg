CONSTANTS
  None = None
  s1 = s1
  s2 = s2
  t1 = t1
  t2 = t2
  h1 = h1
  l1 = l1
  p1 = p1
  BadIp = BadIp
  RestaurantIds = {r1}
  RestaurantData = {d1}
  Servers = {s1, s2}
  Threads = {t1, t2}
  ServerOf <- ThreadPerServer
  Hosts = {h1}
  Local = h1
  Ports = {p1}
  NativePort = p1
  Logins = {l1}
  Accounts <- Open
  Args <- CommandLines
  ConfigFile <- Files
  Handlers = {"testarguments", "localarguments", "setupRestaurantDatabaseTables"}
  Requests <- Bodies12
  MaxFaults = 1
  c1 = c1
  c2 = c2
  Comments = {c1, c2}
  Stored = {}
  Keys <- SortKeys
  NoComments = NoComments
  MaxShows = 2
  MaxWire = 2
  SortOptions = {"rating"}
  Rating = 3
  MaxVotes = 2
  MaxReplies = 2
SPECIFICATION PartSpec
INVARIANTS KeyspaceGate ScratchTableExclusive ClusterBeforeConnect ThreadConsistent CommentConsistent
