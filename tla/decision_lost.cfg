CONSTANTS
  Handlers = {h1, h2}
  Clients = {c1, c2}
  Products = {p1}
  NoProduct = NoProduct
  NoMessage = NoMessage
  MaxAttempts = 2
  MaxRequests = 2
  MaxFaults = 0
  MaxCrashes = 0
  SlowHandlers = FALSE
SPECIFICATION FairSpec
CHECK_DEADLOCK FALSE
PROPERTIES
  DecisionHonoured
