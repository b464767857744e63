SPECIFICATION FairSpec
CONSTANTS
  Staff = {s1}
  Cancellations = {c1}
  Sweeps = {w1}
  Nobody = nobody
  Reconciled = reconciled
  Charge = 3
  MaxFaults = 2
INVARIANTS
  TypeOK
  MoneyIsTraced
  BooksFollowMoney
PROPERTIES
  ImplementsExactRefunds
  StuckIsNoticed
CHECK_DEADLOCK FALSE
