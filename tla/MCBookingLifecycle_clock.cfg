SPECIFICATION Spec
CONSTANTS
  Bookings = {b1, b2}
  Rooms = {r1}
  NoRoom = NoRoom
  Methods = {"STRIPE_CHECKOUT", "POKPAY", "PAY_AT_HOTEL"}
  ClockConnected = TRUE
  HasStock = FALSE
  MaxStock = 0
  MaxOrders = 1
  MaxReservations = 1
INVARIANTS PaidOnce UncertainIsReviewed ConfirmedIsBacked
PROPERTIES EndedStaysEnded RoomSharedOnlyByClock
SYMMETRY Symmetry
CHECK_DEADLOCK FALSE
