\* The channel closes once: the breaker goes from open to half-open and back for ever.
SPECIFICATION FairSpec
CONSTANTS
  MaxMessages = 1
  Poison <- MCPoison
  MaxWaited = 7
PROPERTIES
  ConsumerRecovers
CHECK_DEADLOCK FALSE
