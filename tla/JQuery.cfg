CONSTANTS
  Gone = Gone
  Fns = {f, g}
  MaxFires = 2
  MaxAdds = 3
  MaxRegs = 3
  MaxCalls = 3
  Promises = {p, q}
  Plain = Plain
  Missing = Missing
  Returned = Returned
  Throws = Throws
  MaxArgs = 2
  MaxNotifies = 2
  JsonpRequests = {j1, j2, j3}
  GivenName = GivenName
  NoFunction = NoFunction
  Nodes = {e1, e2}
  Values = {v}
  Texts = {"7"}
  MaxGuid = 3
  Undefined = Undefined
  Depth = 2
  HandlerFns = {f}
  ns1 = ns1
  Namespaces = {ns1}
  Bindings <- SomeBindings
  None = None
  Foreign = Foreign
  MaxBinds = 2
  MaxEvents = 2
SPECIFICATION Spec
INVARIANTS
  ToldInOrder
  OutcomesFollow
  AnswersApart
PROPERTIES
  CallbacksKept
  IsPromise
  DataOfOwner
  HandledOnce
CHECK_DEADLOCK FALSE
