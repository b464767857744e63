SPECIFICATION Spec
CONSTANTS
  Size = 2
  MaxStock = 2
INVARIANTS
  TypeOK
  OrderMovesAsOne
PROPERTY ImplementsUnitHolds
CHECK_DEADLOCK FALSE
