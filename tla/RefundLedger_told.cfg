SPECIFICATION Spec
CONSTANTS
  Staff = {s1}
  Cancellations = {c1}
  Sweeps = {w1}
  Nobody = nobody
  Reconciled = reconciled
  Charge = 2
  MaxFaults = 1
INVARIANTS
  ClockToldOnce
CHECK_DEADLOCK FALSE
