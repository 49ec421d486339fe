\* One user, no fault: a recalculation request outruns the save of the journey.
SPECIFICATION SystemSpec
CONSTANTS
  u1 = u1
  c1 = c1
  c2 = c2
  j1 = j1
  j2 = j2
  Users <- OneUser
  Calls <- OneCall
  Labels <- MCLabels
  Planned = {j1, j2}
  Favourites = {}
  ShortFavourites = {}
  LineIDs <- MCLineIDs
  LineNames <- NoNames
  NoRoute = NoRoute
  NoLabel = NoLabel
  NoUser = NoUser
  PlannerFaults <- NoFaults
  NotificationFaults <- NoFaults
  MaxEvents = 1
  MaxRequests = 1
  Alerts <- Critical
  MaxAlerts = 1
INVARIANTS
  NobodyUnwatched
CHECK_DEADLOCK FALSE
