SPECIFICATION FairSpec
CONSTANTS
  Webhooks = {r1}
  Sweeps = {r1}
  MaxJobs = 2
  MaxTries = 2
  MaxStalls = 0
  MaxRetries = 1
PROPERTIES OneReviewPerParking EventSettles
CHECK_DEADLOCK FALSE
