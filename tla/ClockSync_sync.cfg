SPECIFICATION FairSpec
CONSTANTS
  Reservations = {r1, r2}
  Runners = {w1, w2}
  Nobody = Nobody
  BatchSize = 1
  Skew = 1
  Overlap = 1
  MaxTime = 2
  MaxVersion = 2
  MaxFaults = 1
  MaxWakes = 1
INVARIANTS TypeOK WatermarkCovers
PROPERTIES WatermarkAdvances CatchesUp
CHECK_DEADLOCK FALSE
