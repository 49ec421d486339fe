\* Three messages, one of them given back whenever it is handled; the channel closes
\* and the process is stopped, dies and restarts at any moment.
SPECIFICATION FairSpec
CONSTANTS
  MaxMessages = 3
  Poison <- MCPoison
  MaxWaited = 7
INVARIANTS
  TypeOK
  AckedWasHandled
  FirstOffersInOrder
  DeliveredOnce
  LiveChannelNeverRefused
  TripsInTime
CHECK_DEADLOCK FALSE
PROPERTIES
  MessagesHandled
  ShutdownEnds
  QueueImplemented
