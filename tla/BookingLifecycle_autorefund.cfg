SPECIFICATION Spec
CONSTANTS
  Bookings = {b1}
  Rooms = {}
  NoRoom = NoRoom
  Methods = {"STRIPE_CHECKOUT"}
  ClockConnected = TRUE
  HasStock = FALSE
  MaxStock = 0
  MaxOrders = 1
  MaxReservations = 1
INVARIANT NoAutoRefundAfterFailedAttach
CHECK_DEADLOCK FALSE
