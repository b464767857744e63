SPECIFICATION Spec
CONSTANTS
  Hooks = {h1, h2}
  Importers = {i1}
  Skew = 1
  MaxTime = 1
  MaxVersion = 3
INVARIANTS TypeOK OneMailPerCancellation
PROPERTY ImplementsVersionedCopy
SYMMETRY Symmetry
CHECK_DEADLOCK FALSE
