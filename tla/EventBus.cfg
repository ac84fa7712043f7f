CONSTANTS
  o1 = o1
  o2 = o2
  Clients = {c1, c2}
  Orgs = {o1, o2}
  OrgOf <- AllOfOne
  QueueSize = 2
  MaxOthers = 4
SPECIFICATION BusSpec
INVARIANTS
  EventsAccountedFor
PROPERTIES
  GoneIsReleased
CHECK_DEADLOCK FALSE
