\* No fault: what the fairness of the two consumers guarantees.
SPECIFICATION FairSpec
CONSTANTS
  u1 = u1
  u2 = u2
  j1 = j1
  j2 = j2
  Users <- MCUsers
  Labels <- MCLabels
  Planned = {j1, j2}
  Favourites = {}
  ShortFavourites = {}
  LineIDs <- MCLineIDs
  LineNames <- NoNames
  NoRoute = NoRoute
  NoLabel = NoLabel
  NoUser = NoUser
  NotificationFaults <- NoFaults
  MaxEvents = 1
  MaxRequests = 1
  Alerts <- OneLineAlerts
  MaxAlerts = 1
PROPERTIES
  TerminationLands
  AlertReaches
CHECK_DEADLOCK FALSE
