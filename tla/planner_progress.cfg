\* No fault: what the fairness of the goroutines guarantees, with requests that are
\* nacked for ever in the same queue.
SPECIFICATION FairSpec
CONSTANTS
  u1 = u1
  u2 = u2
  c1 = c1
  c2 = c2
  j1 = j1
  j2 = j2
  f1 = f1
  f2 = f2
  Users <- MCUsers
  Calls <- OneCall
  Labels <- MCLabels
  Planned = {j1}
  Favourites = {f1}
  ShortFavourites = {}
  LineIDs <- OneLineIDs
  LineNames <- OneLineName
  NoRoute = NoRoute
  NoLabel = NoLabel
  NoUser = NoUser
  PlannerFaults <- NoFaults
  MaxEvents = 1
  MaxRequests = 2
PROPERTIES
  RequestAnswered
CHECK_DEADLOCK FALSE
