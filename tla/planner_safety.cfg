\* All faults, both kinds of panic, two users: the planner's own consistency.
SPECIFICATION Spec
CONSTANTS
  u1 = u1
  u2 = u2
  c1 = c1
  c2 = c2
  j1 = j1
  j2 = j2
  f1 = f1
  f2 = f2
  Users <- MCUsers
  Calls <- MCCalls
  Labels <- MCLabels
  Planned = {j1, j2}
  Favourites = {f1, f2}
  ShortFavourites = {f2}
  LineIDs <- MCLineIDs
  LineNames <- MCLineNames
  NoRoute = NoRoute
  NoLabel = NoLabel
  NoUser = NoUser
  PlannerFaults <- AllFaults
  MaxEvents = 1
  MaxRequests = 2
SYMMETRY UserSymmetry
INVARIANTS
  TypeOK
  RecalcOwnsHead
  TableMatchesAnnouncement
CHECK_DEADLOCK FALSE
