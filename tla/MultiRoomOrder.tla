--------------------------- MODULE MultiRoomOrder ---------------------------
(***************************************************************************)
(* One order of several rooms: reserved all or nothing, paid by a single   *)
(* gateway order for the sum, confirmed or expired together, cancelled     *)
(* together by the guest and room by room by staff                         *)
(* (MultiRoomBookingService, LocalPmsProvider's order branches,            *)
(* StripeWebhookService, PokPayPaymentService, ManualPaymentService,       *)
(* BookingRequestsService).                                                *)
(*                                                                         *)
(* Each operation locks the booking it names, and the ones that change     *)
(* several rooms lock the whole order, so a transaction is one action: one *)
(* that is lost leaves nothing, unless Clock had taken rooms by then.      *)
(* Only a staff cancellation spans two: the evidence of one is acted upon  *)
(* in another.  A room costs one.  A hotel with Clock counts no units      *)
(* here; the link, the bill and the duplicates of one reservation in Clock *)
(* are BookingLifecycle's.                                                 *)
(***************************************************************************)
EXTENDS Integers, FiniteSets

CONSTANTS
  Size,       \* rooms of the order
  MaxStock    \* bound: units a hotel configures

ASSUME MultiRoomAssumption == Size \in Nat /\ Size >= 2 /\ MaxStock \in Nat

Rooms == 1 .. Size
Anchor == 1   \* bookings[0]: the gateway order of the checkout is bound to it

Online == {"STRIPE_CHECKOUT", "POKPAY"}

\* attachRealReservation's outcomes; a hotel without Clock only confirms.
Uncertain == {"PMS_CREATION_PENDING", "PMS_UNKNOWN_RESULT"}
Attached == {"CONFIRMED", "AVAILABILITY_FAILED"} \cup Uncertain
Statuses == {"NONE", "PAYMENT_PENDING", "EXPIRED", "CANCELLED"} \cup Attached

\* BOOKING_STATUS_TRANSITIONS: committed statuses with a way to CANCELLED.
Cancellable == {"PAYMENT_PENDING", "CONFIRMED"} \cup Uncertain

VARIABLES
  connected,  \* the hotel has an enabled Clock connection
  method,     \* bookings.payment_method of the order
  pooled,     \* rooms with room_id IS NULL
  status,     \* bookings.status
  due,        \* the payment hold has run out
  free,       \* rooms whose cancellation is free and refunded automatically now
  orders,     \* the gateway's order bound to each booking, for the whole sum
  ledger,     \* payments: its CHARGE row
  desk,       \* payments: what staff recorded for each booking
  refunded,   \* payments: REFUND rows of each booking's gateway charge
  review,     \* bookings with a ManualReviewItem
  inClock,    \* rooms with a reservation in Clock, which the mirror follows
  seen,       \* rooms staff may cancel on evidence already checked
  stock,      \* inventory_units.available_units
  others,     \* units other bookings hold
  booked      \* inventory_units.booked_units

hotel == <<connected, stock, others>>
money == <<orders, ledger, desk, refunded>>
vars == <<hotel, method, pooled, status, due, free, money, review, inClock, seen, booked>>

\* A hotel with Clock counts no units here, so its stock is of no account.
Init ==
  /\ connected \in BOOLEAN
  /\ stock \in IF connected THEN {0} ELSE 0 .. MaxStock
  /\ others \in 0 .. stock
  /\ booked = others
  /\ method = "NONE"
  /\ pooled = {}
  /\ status = [c \in Rooms |-> "NONE"]
  /\ due = FALSE
  /\ free \in SUBSET Rooms
  /\ orders = [c \in Rooms |-> "none"]
  /\ ledger = [c \in Rooms |-> "none"]
  /\ desk = [c \in Rooms |-> 0]
  /\ refunded = [c \in Rooms |-> 0]
  /\ review = {}
  /\ inClock = {}
  /\ seen = {}

Pending == {c \in Rooms : status[c] = "PAYMENT_PENDING"}

SetStatus(S, s) == status' = [c \in Rooms |-> IF c \in S THEN s ELSE status[c]]

-----------------------------------------------------------------------------
(***************************************************************************)
(* MultiRoomBookingService.create.                                         *)
(***************************************************************************)
\* Every room of S goes to Clock on its own: a failure is recorded for that
\* room and stops no other.  deposits: the payment of a confirmed room is
\* posted too, and a posting without an answer is recorded for review.  Clock may
\* have the reservation of a room whose outcome is uncertain.
Attach(S, deposits) ==
  \E s \in [S -> IF connected THEN Attached ELSE {"CONFIRMED"}] :
    /\ status' = [c \in Rooms |-> IF c \in S THEN s[c] ELSE status[c]]
    /\ \E unknown \in SUBSET {c \in S : s[c] \in Uncertain} :
         inClock' = inClock \cup unknown \cup {c \in S : connected /\ s[c] = "CONFIRMED"}
    /\ \E unposted \in SUBSET {c \in S : deposits /\ connected /\ s[c] = "CONFIRMED"} :
         review' = review \cup unposted \cup {c \in S : s[c] \in Uncertain}

\* reserveAll: every unit or none, in the transaction that inserts the rooms.
ReserveAll(P) ==
  /\ connected \/ booked + Cardinality(P) <= stock
  /\ booked' = IF connected THEN booked ELSE booked + Cardinality(P)

Fill(m, P) ==
  /\ method = "NONE" /\ method' = m
  /\ pooled' = P
  /\ ReserveAll(P)
  /\ UNCHANGED <<hotel, due, free, ledger, desk, refunded, seen>>

\* One checkout for the sum.  A checkout that cannot be opened is returned as a
\* failure, and the rooms stay held until they expire.
CreateOnline(m, P) ==
  /\ Fill(m, P)
  /\ SetStatus(Rooms, "PAYMENT_PENDING")
  /\ orders' \in {orders, [orders EXCEPT ![Anchor] = "open"]}
  /\ UNCHANGED <<review, inClock>>

CreatePayAtHotel(P) ==
  /\ Fill("PAY_AT_HOTEL", P)
  /\ Attach(Rooms, FALSE)
  /\ UNCHANGED orders

-----------------------------------------------------------------------------
(***************************************************************************)
(* Payment of the order.                                                   *)
(***************************************************************************)
\* The guest completes a checkout, at any time after it was opened.
PayOrder(c) ==
  /\ orders[c] = "open"
  /\ orders' = [orders EXCEPT ![c] = "paid"]
  /\ UNCHANGED <<hotel, method, pooled, status, due, free, ledger, desk, refunded,
                 review, inClock, seen, booked>>

\* resendPokPayCheckout for any pending room opens another order for the whole
\* sum; the earlier ones stay payable (one per booking: a bound).
Resend(c) ==
  /\ method = "POKPAY" /\ status[c] = "PAYMENT_PENDING"
  /\ orders[c] = "none"
  /\ orders' = [orders EXCEPT ![c] = "open"]
  /\ UNCHANGED <<hotel, method, pooled, status, due, free, ledger, desk, refunded,
                 review, inClock, seen, booked>>

\* processPaymentSucceeded and processAuthoritativeOrder on a pending booking:
\* the charge is recorded on it.  A paid order whose booking is not pending is
\* refused and leaves no trace.
RecordCharge(c) ==
  /\ orders[c] = "paid" /\ ledger[c] = "none" /\ status[c] = "PAYMENT_PENDING"
  /\ ledger' = [ledger EXCEPT ![c] = "PAID"]

MutantSettleNamedRoom(c) ==
  /\ RecordCharge(c)
  /\ Attach({c}, TRUE)
  /\ UNCHANGED <<hotel, method, pooled, due, free, orders, desk, refunded, seen, booked>>

\* With the charge, every pending room of the order goes on.
Settle(c) ==
  /\ RecordCharge(c)
  /\ Attach(Pending, TRUE)
  /\ UNCHANGED <<hotel, method, pooled, due, free, orders, desk, refunded, seen, booked>>

\* The transaction of such a payment, of a gateway or at the desk, is lost after
\* Clock took some of the rooms: the payment and the statuses go with it.
SettleLost(c) ==
  /\ connected /\ status[c] = "PAYMENT_PENDING"
  /\ \E S \in SUBSET Pending : inClock' = inClock \cup S
  /\ UNCHANGED <<hotel, method, pooled, status, due, free, money, review, seen, booked>>

\* hydrateBooking: a room takes over the status of its reservation in Clock,
\* whatever its own was.
Mirror(c) ==
  /\ connected /\ c \in inClock
  /\ SetStatus({c}, "CONFIRMED") \/ SetStatus({c}, "CANCELLED")
  /\ UNCHANGED <<hotel, method, pooled, due, free, money, review, inClock, seen, booked>>

\* Stripe's payment for an expired booking: recorded as late and refunded
\* whole.  A refund that fails rolls back; BookingLifecycle follows that case.
StripeLate(c) ==
  /\ method = "STRIPE_CHECKOUT" /\ status[c] = "EXPIRED"
  /\ orders[c] = "paid" /\ ledger[c] = "none"
  /\ orders' = [orders EXCEPT ![c] = "refunded"]
  /\ ledger' = [ledger EXCEPT ![c] = "LATE_AFTER_EXPIRY"]
  /\ refunded' = [refunded EXCEPT ![c] = Size]
  /\ UNCHANGED <<hotel, method, pooled, status, due, free, desk, review, inClock, seen,
                 booked>>

Paid(c) == ledger[c] = "PAID"

\* What ManualPaymentService.record lets staff take: the sum of the order less
\* what was paid on this booking, or what Clock's bill of the room shows.
Owed(c) ==
  IF connected /\ status[c] = "CONFIRMED" THEN {0, 1}
  ELSE {IF Paid(c) THEN 0 ELSE Size}

\* One desk payment per booking (a bound).  A pending order must be settled
\* whole, and goes on; a confirmed room takes any part of what is owed.
DeskSettle(c) ==
  /\ status[c] = "PAYMENT_PENDING" /\ desk[c] = 0
  /\ \E n \in Owed(c) \ {0} : desk' = [desk EXCEPT ![c] = n]
  /\ Attach(Pending, TRUE)
  /\ UNCHANGED <<hotel, method, pooled, due, free, orders, ledger, refunded, seen, booked>>

DeskPayment(c) ==
  /\ status[c] = "CONFIRMED" /\ desk[c] = 0
  /\ \E owed \in Owed(c) : \E n \in 1 .. owed : desk' = [desk EXCEPT ![c] = n]
  /\ review' \in IF connected THEN {review, review \cup {c}} ELSE {review}
  /\ UNCHANGED <<hotel, method, pooled, status, due, free, orders, ledger, refunded,
                 inClock, seen, booked>>

-----------------------------------------------------------------------------
(***************************************************************************)
(* Expiry and cancellation.                                                *)
(***************************************************************************)
TimePasses ==
  /\ Pending # {} /\ ~due
  /\ due' = TRUE
  /\ UNCHANGED <<hotel, method, pooled, status, free, money, review, inClock, seen,
                 booked>>

\* The free window of a room's rate plan closes.
WindowCloses(c) ==
  /\ c \in free /\ method # "NONE"
  /\ free' = free \ {c}
  /\ UNCHANGED <<hotel, method, pooled, status, due, money, review, inClock, seen,
                 booked>>

\* applyMultiRoomCancellation: the statuses from which a room of the pool gives
\* its unit back.
Held == {c \in pooled : status[c] \in {"PAYMENT_PENDING", "CONFIRMED"}}

MutantGiveBackOne(S) ==
  IF connected \/ S \cap Held = {} THEN UNCHANGED booked
  ELSE booked > 0 /\ booked' = booked - 1

\* The units of the rooms S go back; releaseBookedUnits throws when fewer are
\* booked.
GiveBack(S) ==
  LET n == Cardinality(S \cap Held)
  IN IF connected THEN UNCHANGED booked ELSE n <= booked /\ booked' = booked - n

\* expirePaymentPending, whichever room the sweep lists: the order's pending
\* rooms expire together.
Expire(c) ==
  /\ c \in Pending /\ due
  /\ GiveBack(Pending)
  /\ SetStatus(Pending, "EXPIRED")
  /\ UNCHANGED <<hotel, method, pooled, due, free, money, review, inClock, seen>>

MutantRefundTotalPerRoom(c) ==
  IF free = {} \/ ~Paid(c) THEN UNCHANGED <<refunded, review>>
  ELSE /\ refunded' = [refunded EXCEPT ![c] = Cardinality(free) * Size]
       /\ UNCHANGED review

\* refundPaidChargeForBookingAmount of the free rooms' sum, from the charge of
\* the booking the guest named: refunded, or left to a review item; without a
\* charge there, nothing.
RefundFree(c) ==
  IF free = {} \/ ~Paid(c) THEN UNCHANGED <<refunded, review>>
  ELSE \/ /\ refunded' = [refunded EXCEPT ![c] = Cardinality(free)]
          /\ UNCHANGED review
       \/ /\ review' = review \cup {c}
          /\ UNCHANGED refunded

\* cancelMultiRoomOrder by the guest, through any of the rooms: all or none.
\* Guests of a Clock hotel are refused, and staff never come here.
CancelOrder(c) ==
  /\ ~connected
  /\ \A d \in Rooms : status[d] \in Cancellable
  /\ GiveBack(Rooms)
  /\ SetStatus(Rooms, "CANCELLED")
  /\ RefundFree(c)
  /\ UNCHANGED <<hotel, method, pooled, due, free, orders, ledger, desk, inClock, seen>>

Charges(c) == (IF ledger[c] = "none" THEN 0 ELSE 1) + (IF desk[c] = 0 THEN 0 ELSE 1)

\* orderBalance: exactly one charge in the order, or a booking with more than
\* one charge or with more than its own price, is not told apart.
SplitKnown ==
  /\ \A c \in Rooms : Charges(c) <= 1 /\ ledger[c] = "none" /\ desk[c] <= 1
  /\ Cardinality({c \in Rooms : Charges(c) > 0}) # 1

\* BookingRequestsService's evidence for cancelling one room, in submit or at
\* an approval, whose intent is kept.
Look(c) ==
  /\ status[c] \in {"PAYMENT_PENDING", "CONFIRMED"} /\ SplitKnown
  /\ seen' = seen \cup {c}
  /\ UNCHANGED <<hotel, method, pooled, status, due, free, money, review, inClock,
                 booked>>

\* execute and cancelBooking with singleBooking: the command checks the version,
\* which no payment changes, and refunds nothing itself.  A refusal, of the
\* status machine or of Clock, is left to a review item.
CancelOne(c) ==
  /\ c \in seen
  /\ seen' = seen \ {c}
  /\ \/ /\ status[c] \in Cancellable
        /\ GiveBack({c})
        /\ SetStatus({c}, "CANCELLED")
        /\ UNCHANGED review
     \/ /\ status[c] \notin Cancellable \/ (connected /\ status[c] = "CONFIRMED")
        /\ review' = review \cup {c}
        /\ UNCHANGED <<status, booked>>
  /\ UNCHANGED <<hotel, method, pooled, due, free, money, inClock>>

-----------------------------------------------------------------------------
Room(c) ==
  \/ PayOrder(c) \/ Resend(c) \/ Settle(c) \/ SettleLost(c) \/ StripeLate(c)
  \/ DeskSettle(c) \/ DeskPayment(c) \/ Mirror(c)
  \/ WindowCloses(c) \/ Expire(c) \/ CancelOrder(c) \/ Look(c) \/ CancelOne(c)

Next ==
  \/ \E P \in SUBSET Rooms : CreatePayAtHotel(P) \/ \E m \in Online : CreateOnline(m, P)
  \/ TimePasses
  \/ \E c \in Rooms : Room(c)

Spec == Init /\ [][Next]_vars

-----------------------------------------------------------------------------
(***************************************************************************)
(* Properties.                                                             *)
(***************************************************************************)
\* Every variable has its type; no counter goes below zero.
TypeOK ==
  /\ connected \in BOOLEAN /\ due \in BOOLEAN
  /\ method \in {"NONE", "PAY_AT_HOTEL"} \cup Online
  /\ pooled \subseteq Rooms /\ free \subseteq Rooms
  /\ review \subseteq Rooms /\ inClock \subseteq Rooms /\ seen \subseteq Rooms
  /\ status \in [Rooms -> Statuses]
  /\ orders \in [Rooms -> {"none", "open", "paid", "refunded"}]
  /\ ledger \in [Rooms -> {"none", "PAID", "LATE_AFTER_EXPIRY"}]
  /\ desk \in [Rooms -> 0 .. Size]
  /\ refunded \in [Rooms -> 0 .. Size]
  /\ stock \in 0 .. MaxStock /\ others \in 0 .. MaxStock /\ booked \in 0 .. MaxStock

\* The order was paid whole, through a gateway or at the desk.
Settled == \E c \in Rooms : Paid(c) \/ desk[c] = Size

\* continueMultiRoomOrderAfterPayment and expirePaymentPending treat an order
\* as one: whichever room a payment, a resent link, the desk or the sweep names,
\* whatever staff cancelled meanwhile and whatever transaction was lost, a paid
\* order has no room still waiting or expired, an unpaid one has no room beyond
\* payment but by its reservation in Clock, and at most one gateway charge is
\* recorded.
OrderMovesAsOne ==
  method \in Online =>
    /\ \A c \in Rooms :
         IF Settled THEN status[c] \notin {"PAYMENT_PENDING", "EXPIRED"}
                    ELSE status[c] \in Attached => connected /\ c \in inClock
    /\ \A c, d \in Rooms : Paid(c) /\ Paid(d) => c = d

\* Without Clock the counter is what others hold plus the order's pooled rooms
\* that are held, and never above the stock.
UnitsMatchRooms ==
  ~connected =>
    /\ booked = others + Cardinality(Held)
    /\ booked <= stock

\* Reservation, payment, the sweep, the guest's cancellation and the staff's one
\* room at a time implement UnitHolds: the pooled rooms of the order take their
\* units all or none, in one step, and each unit goes back once.  The others'
\* holders are numbered after the rooms; a hotel with Clock holds nothing here.
Holders == IF connected THEN {} ELSE Held \cup (Size + 1 .. Size + others)
UnitsUsed == IF connected THEN 0 ELSE booked

Holds == INSTANCE UnitHolds WITH
  Bookings <- 1 .. Size + MaxStock, holders <- Holders, used <- UnitsUsed

ImplementsUnitHolds == Holds!Spec

\* cancelMultiRoomOrder's comment: a cancellation request for any child is an
\* order cancellation, and the one gateway charge is refunded for the sum of
\* the children whose policies permit it.
OrderChargeIsRefunded ==
  [][\A c \in Rooms :
       CancelOrder(c) /\ free # {} /\ (\E d \in Rooms : Paid(d))
       => review' # review \/ \E d \in Rooms : refunded'[d] > refunded[d]]_vars
=============================================================================
