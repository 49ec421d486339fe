\* Two attempts to connect, one stop of a service or of the broker.
SPECIFICATION FairSpec
CONSTANTS
  MaxConnectionRetries = 2
  MaxStops = 1
INVARIANTS
  TypeOK
  OnceUpAlwaysRouted
PROPERTIES
  EveryoneStarts
  AlertsGetThrough
CHECK_DEADLOCK FALSE
