CONSTANTS
  o1 = o1
  NoMessage = NoMessage
  Clients = {c1}
  Orgs <- OneOrg
  OrgOf <- ClientsOfOne
  QueueSize = 1
  Pages = {g1}
  PageOrg <- PagesOfOne
  Workers = {w1}
  TicksPerDay = 2
  MaxTime = 2
  MaxFaults = 0
  MaxOthers = 0
SPECIFICATION FairSpec
PROPERTIES
  EventsReachClients
CHECK_DEADLOCK FALSE
