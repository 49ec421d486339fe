\* Two journeys, two services that post, a gateway that may die of a race.
SPECIFICATION FairSpec
CONSTANTS
  u1 = u1
  Users <- OneUser
  MaxJourneys = 2
  MaxNotices = 2
  ChanSize = 1
INVARIANTS
  TypeOK
  RegistryHoldsReaders
  ReadersReachable
PROPERTIES
  NoticeArrives
  ClosedIsForgotten
CHECK_DEADLOCK FALSE
