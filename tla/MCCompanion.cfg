\* the instance stops when its clients have sent all their requests
CONSTANTS
  c1 = c1
  c2 = c2
  Clients = {c1, c2}
  MaxRequests = 3
SPECIFICATION FairCompanionSpec
CHECK_DEADLOCK FALSE
INVARIANTS OneAtATime
PROPERTIES BusyLowered
