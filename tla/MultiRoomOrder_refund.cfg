SPECIFICATION Spec
CONSTANTS
  Size = 2
  MaxStock = 2
PROPERTY
  OrderChargeIsRefunded
CHECK_DEADLOCK FALSE
