\* All faults, two users: types and message ownership.
SPECIFICATION Spec
CONSTANTS
  u1 = u1
  u2 = u2
  j1 = j1
  j2 = j2
  Users <- MCUsers
  Labels <- MCLabels
  Planned = {j1, j2}
  Favourites = {}
  ShortFavourites = {}
  LineIDs <- MCLineIDs
  LineNames <- NoNames
  NoRoute = NoRoute
  NoLabel = NoLabel
  NoUser = NoUser
  NotificationFaults <- AllFaults
  MaxEvents = 2
  MaxRequests = 1
  Alerts <- TwoLineAlerts
  MaxAlerts = 1
SYMMETRY UserSymmetry
INVARIANTS
  TypeOK
  HandlersOwnHeads
CHECK_DEADLOCK FALSE
