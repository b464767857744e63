SPECIFICATION FairSpec
CONSTANTS
  Runners = {r1, r2}
  Nobody = nobody
  FallbackGuest = TRUE
  MaxTries = 2
  MaxStalls = 1
  MaxDispatches = 1
  MaxResends = 1
  MaxFaults = 1
INVARIANTS TypeOK AcceptedOnce
PROPERTIES ImplementsMessageLife SentStays DoubtEnds
CHECK_DEADLOCK FALSE
