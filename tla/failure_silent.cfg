CONSTANTS
  Handlers = {h1, h2}
  Clients = {c1, c2}
  Products = {p1}
  NoProduct = NoProduct
  NoMessage = NoMessage
  MaxAttempts = 2
  MaxRequests = 1
  MaxFaults = 1
  MaxCrashes = 0
  SlowHandlers = FALSE
SPECIFICATION Spec
SYMMETRY Interchangeable
CHECK_DEADLOCK FALSE
INVARIANTS
  FailureAnnounced
