CONSTANTS
  None = None
  Foreign = Foreign
  Garbage = Garbage
  Exchanges = {e1, e2, e3}
  Concurrent = 3
  Posters = {b1}
  PostedKeys <- AnyKey
  MaxCrashes = 1
  shirt = shirt
  mug = mug
  old = old
  new = new
  Null = Null
  Threads = {t1, t2}
  MaxId = 3
  MaxVersion = 2
  ProductIds = {shirt, mug}
  Data = {old, new}
  AddBodies <- MCAddBodies
  Shirt <- MCShirt
  Mug <- MCMug
SPECIFICATION ServicesSpec
INVARIANTS AgreementOrDummy AloneAgrees IdsFresh VersionIdentifiesRow
PROPERTIES ExchangeEnds NoLostUpdate ImplementsTable
