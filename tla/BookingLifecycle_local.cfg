SPECIFICATION FairSpec
CONSTANTS
  Bookings = {b1, b2}
  Rooms = {r1}
  NoRoom = NoRoom
  Methods = {"STRIPE_CHECKOUT", "POKPAY", "PAY_AT_HOTEL"}
  ClockConnected = FALSE
  HasStock = TRUE
  MaxStock = 1
  MaxOrders = 2
  MaxReservations = 1
INVARIANTS TypeOK PaidOnce ConfirmedIsBacked ChargeIsHonoured
PROPERTIES ImplementsUnitHolds HoldEnds LateMoneyIsHandled
CHECK_DEADLOCK FALSE
