\* One user with two calls at a time, two journeys, every fault: the tables and the queues between them.
SPECIFICATION SystemSpec
CONSTANTS
  u1 = u1
  c1 = c1
  c2 = c2
  j1 = j1
  j2 = j2
  Users <- OneUser
  Calls <- MCCalls
  Labels <- MCLabels
  Planned = {j1, j2}
  Favourites = {}
  ShortFavourites = {}
  LineIDs <- MCLineIDs
  LineNames <- NoNames
  NoRoute = NoRoute
  NoLabel = NoLabel
  NoUser = NoUser
  PlannerFaults <- AllFaults
  NotificationFaults <- AllFaults
  MaxEvents = 1
  MaxRequests = 1
  Alerts <- Critical
  MaxAlerts = 1
SYMMETRY CallSymmetry
INVARIANTS
  WatchFollowsPlanner
  TablesAgree
PROPERTIES
  WatchImplemented
CHECK_DEADLOCK FALSE
