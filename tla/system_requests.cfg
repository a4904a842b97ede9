CONSTANTS
  Handlers = {h1, h2}
  Clients = {c1, c2}
  Products = {p1, p2}
  NoProduct = NoProduct
  NoMessage = NoMessage
  MaxAttempts = 2
  MaxRequests = 3
  MaxFaults = 0
  MaxCrashes = 0
  SlowHandlers = FALSE
SPECIFICATION Spec
SYMMETRY Interchangeable
CHECK_DEADLOCK FALSE
INVARIANTS
  RejectionTrue
  ScopeAgrees
  FeedTells
PROPERTIES
  DecisionKept
