CONSTANTS
  o1 = o1
  NoMessage = NoMessage
  Clients = {c1}
  Orgs <- OneOrg
  OrgOf <- ClientsOfOne
  QueueSize = 1
  Pages = {g1}
  PageOrg <- PagesOfOne
  Workers = {w1, w2}
  TicksPerDay = 2
  MaxTime = 3
  MaxFaults = 1
  MaxOthers = 0
SPECIFICATION Spec
PROPERTIES
  FiguresStayInOrder
CHECK_DEADLOCK FALSE
