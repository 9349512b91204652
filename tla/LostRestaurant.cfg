CONSTANTS
  None = None
  s1 = s1
  h1 = h1
  h2 = h2
  l1 = l1
  l2 = l2
  p1 = p1
  p2 = p2
  BadIp = BadIp
  RestaurantIds = {r1}
  RestaurantData = {d1}
  Servers = {s1}
  Threads = {t1}
  ServerOf <- OneServer
  Hosts = {h1}
  Local = h1
  Ports = {p1, p2}
  NativePort = p1
  Logins = {l1, l2}
  Accounts <- OwnLogins
  Args <- StartedAtH1
  ConfigFile <- NoFile
  Handlers = {"setupRestaurantDatabaseTables", "addRestaurant"}
  Requests <- ToH1
  MaxFaults = 1
SPECIFICATION Spec
INVARIANT AddedIsStored
