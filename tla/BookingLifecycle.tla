-------------------------- MODULE BookingLifecycle --------------------------
(***************************************************************************)
(* Single-room bookings of one hotel from creation to confirmation, expiry *)
(* or cancellation: the status machine, the units and rooms the bookings   *)
(* hold, the payment ledger, the gateways' orders and, in a hotel          *)
(* connected to Clock, the reservation attached after payment              *)
(* (LocalPmsProvider, StripeWebhookService, PokPayPaymentService,          *)
(* PaymentExpiryService, ManualPaymentService, AvailabilityService,        *)
(* ClockBookingService.attachRealReservation).                             *)
(*                                                                         *)
(* Every operation locks its booking row and, for units, the property row  *)
(* and runs in one transaction, so one transaction is one action.  What    *)
(* Clock and the gateways did inside it is not undone by its rollback.     *)
(* All bookings want the same room type and overlapping nights.            *)
(***************************************************************************)
EXTENDS Naturals, FiniteSets

CONSTANTS
  Bookings,         \* bookings that may be created
  Rooms,            \* physical rooms sold individually
  NoRoom,           \* room_id IS NULL: the booking takes a unit of the pool
  Methods,          \* payment methods the hotel offers
  ClockConnected,   \* the hotel has an enabled Clock connection
  HasStock,         \* inventory_units has rows for the nights
  MaxStock,         \* bound: units a hotel configures
  MaxOrders,        \* bound: gateway orders of one booking
  MaxReservations   \* bound: Clock reservations carrying one reference

ASSUME BookingLifecycleAssumption ==
  /\ NoRoom \notin Rooms
  /\ Methods \subseteq {"STRIPE_CHECKOUT", "POKPAY", "PAY_AT_HOTEL"}
  /\ ClockConnected \in BOOLEAN /\ HasStock \in BOOLEAN
  /\ MaxStock \in Nat /\ MaxOrders \in Nat \ {0} /\ MaxReservations \in Nat \ {0}

Online == {"STRIPE_CHECKOUT", "POKPAY"}
Orders == 1 .. MaxOrders

\* BookingStatus as committed; DRAFT, QUOTED, INVENTORY_REVALIDATING,
\* PAYMENT_NOT_REQUIRED and PMS_CONFIRMATION_PENDING never outlive the
\* transaction that enters them.  "NONE": no row yet.
Statuses ==
  {"NONE", "AVAILABILITY_FAILED", "PAYMENT_PENDING", "PMS_CREATION_PENDING",
   "PMS_UNKNOWN_RESULT", "PMS_REJECTED", "CONFIRMED", "CANCELLED", "EXPIRED"}

\* roomIsAvailable: statuses in which a booking occupies its room.
Occupying ==
  {"PAYMENT_PENDING", "PMS_CREATION_PENDING", "PMS_UNKNOWN_RESULT",
   "PMS_REJECTED", "CONFIRMED"}

\* external_booking_id IS NULL, or names a live or a cancelled reservation.
Links == {"none", "live", "cancelled"}

MutantCancellableAfterExpiry ==
  {"PAYMENT_PENDING", "PMS_CREATION_PENDING", "PMS_UNKNOWN_RESULT",
   "PMS_REJECTED", "CONFIRMED", "EXPIRED"}

\* BOOKING_STATUS_TRANSITIONS: committed statuses with a way to CANCELLED.
Cancellable ==
  {"PAYMENT_PENDING", "PMS_CREATION_PENDING", "PMS_UNKNOWN_RESULT",
   "PMS_REJECTED", "CONFIRMED"}

VARIABLES
  status,        \* bookings.status
  method,        \* bookings.payment_method
  room,          \* bookings.room_id
  due,           \* the payment hold has run out
  link,          \* bookings.external_booking_id, and what became of it in Clock
  ledger,        \* payments: the CHARGE row of each gateway order
  manual,        \* payments: a CHARGE recorded by staff in full
  attempt,       \* integration_operations: the refund attempt of a late order
  review,        \* a ManualReviewItem was recorded for the booking
  stock,         \* inventory_units.available_units
  booked,        \* inventory_units.booked_units
  orders,        \* the gateway's view of each order
  live,          \* Clock's live reservations with the booking's reference
  billed,        \* the booking's payment is on Clock's bill
  attachFailed   \* history: an attach of the booking has failed

money == <<ledger, manual, attempt, orders>>
clock == <<link, live, billed, review, attachFailed>>
units == <<stock, booked>>
vars == <<status, method, room, due, money, clock, units>>

Init ==
  /\ status = [b \in Bookings |-> "NONE"]
  /\ method = [b \in Bookings |-> "NONE"]
  /\ room = [b \in Bookings |-> NoRoom]
  /\ due = [b \in Bookings |-> FALSE]
  /\ link = [b \in Bookings |-> "none"]
  /\ ledger = [b \in Bookings |-> [i \in Orders |-> "none"]]
  /\ manual = [b \in Bookings |-> FALSE]
  /\ attempt = [b \in Bookings |-> [i \in Orders |-> "none"]]
  /\ review = [b \in Bookings |-> FALSE]
  /\ stock \in IF HasStock THEN 0 .. MaxStock ELSE {0}
  /\ booked = 0
  /\ orders = [b \in Bookings |-> [i \in Orders |-> "none"]]
  /\ live = [b \in Bookings |-> 0]
  /\ billed = [b \in Bookings |-> FALSE]
  /\ attachFailed = [b \in Bookings |-> FALSE]

SetStatus(b, s) == status' = [status EXCEPT ![b] = s]

-----------------------------------------------------------------------------
(***************************************************************************)
(* Units and rooms: AvailabilityService.                                   *)
(***************************************************************************)
CountsUnit(r) == r = NoRoom /\ HasStock

MutantRoomFreeIfUncertain(r) ==
  IF r = NoRoom
  THEN IF HasStock THEN booked < stock ELSE ClockConnected
  ELSE \A b \in Bookings :
         room[b] = r => status[b] \notin {"PAYMENT_PENDING", "PMS_CREATION_PENDING", "CONFIRMED"}
MutantCanReserveOneTooMany(r) ==
  IF r = NoRoom
  THEN IF HasStock THEN booked <= stock ELSE ClockConnected
  ELSE \A b \in Bookings : room[b] = r => status[b] \notin Occupying

\* reserveBookedUnits and reserveRoom.  A Clock hotel without inventory rows
\* has nothing to count, and Clock answers for its availability.
CanReserve(r) ==
  IF r = NoRoom
  THEN IF HasStock THEN booked < stock ELSE ClockConnected
  ELSE \A b \in Bookings : room[b] = r => status[b] \notin Occupying

Take(r) == booked' = IF CountsUnit(r) THEN booked + 1 ELSE booked

\* releaseBookedUnits throws when nothing is booked, which undoes its caller.
GiveBack(b) ==
  /\ CountsUnit(room[b]) => booked > 0
  /\ booked' = IF CountsUnit(room[b]) THEN booked - 1 ELSE booked

MutantSetStockUnchecked(n) ==
  /\ HasStock /\ ~ClockConnected
  /\ stock' = n
  /\ UNCHANGED <<status, method, room, due, money, clock, booked>>

\* InventoryStockService.apply: never below the sold and held units, and not
\* at all while Clock manages the stock.
SetStock(n) ==
  /\ HasStock /\ ~ClockConnected
  /\ booked <= n
  /\ stock' = n
  /\ UNCHANGED <<status, method, room, due, money, clock, booked>>

-----------------------------------------------------------------------------
(***************************************************************************)
(* attachRealReservation and continueAfterPayment.                         *)
(***************************************************************************)
MutantAttachedForgetsLink(b, n) ==
  [status |-> "CONFIRMED", link |-> link[b], review |-> review[b], billed |-> billed[b],
   live |-> n, ok |-> TRUE]

Attached(b, n) ==
  [status |-> "CONFIRMED", link |-> IF link[b] = "none" THEN "live" ELSE link[b],
   review |-> review[b], billed |-> billed[b], live |-> n, ok |-> TRUE]

Failed(b, s, reviewed, n) ==
  [status |-> s, link |-> "none", review |-> reviewed, billed |-> billed[b],
   live |-> n, ok |-> FALSE]

\* Reservations there may be after a POST that may or may not have created one.
AfterPost(b) == {n \in {live[b], live[b] + 1} : n <= MaxReservations}

MutantAttachSilentWhenUnmapped(b) ==
  IF link[b] # "none" THEN {Attached(b, live[b])}
  ELSE {Failed(b, "PMS_CREATION_PENDING", review[b], live[b])}
       \cup {Attached(b, n) : n \in AfterPost(b) \ {0}}

\* A booking already linked is completed.  Otherwise a reservation carrying
\* its reference is looked up (a failed lookup counts as "none"), the catalog
\* and the guest are read (a failure leaves the status and records a review
\* item), a rate is chosen (sold out: AVAILABILITY_FAILED, no item), and the
\* reservation is posted: created, found by a second lookup, or unknown.
AttachOutcomes(b) ==
  IF link[b] # "none" THEN {Attached(b, live[b])}
  ELSE {Failed(b, "PMS_CREATION_PENDING", TRUE, live[b]),
        Failed(b, "AVAILABILITY_FAILED", review[b], live[b])}
       \cup {Failed(b, "PMS_UNKNOWN_RESULT", TRUE, n) : n \in AfterPost(b)}
       \cup {Attached(b, n) : n \in AfterPost(b) \ {0}}

ConfirmedLocally(b) ==
  [status |-> "CONFIRMED", link |-> link[b], review |-> review[b], billed |-> billed[b],
   live |-> live[b], ok |-> TRUE]

MutantDepositedUnreviewed(o) == {[o EXCEPT !.billed = d] : d \in {o.billed, TRUE}}

\* postDeposit, once the reservation is real: the payment reaches Clock's bill,
\* or it does not, or its answer is lost; without an answer a review item is
\* recorded and the booking stays confirmed.
Deposited(o) ==
  {[o EXCEPT !.billed = TRUE]} \cup {[o EXCEPT !.billed = d, !.review = TRUE] : d \in {o.billed, TRUE}}

ContinueOutcomes(b) ==
  IF status[b] \notin {"PAYMENT_PENDING", "PMS_CREATION_PENDING"} THEN {}
  ELSE IF ClockConnected
       THEN UNION {IF o.ok THEN Deposited(o) ELSE {o} : o \in AttachOutcomes(b)}
       ELSE {ConfirmedLocally(b)}

\* The outcome o of an attach is committed.
Commit(b, o) ==
  /\ SetStatus(b, o.status)
  /\ link' = [link EXCEPT ![b] = o.link]
  /\ review' = [review EXCEPT ![b] = o.review]
  /\ live' = [live EXCEPT ![b] = o.live]
  /\ billed' = [billed EXCEPT ![b] = o.billed]
  /\ attachFailed' = [attachFailed EXCEPT ![b] = @ \/ ~o.ok]

\* The transaction of outcome o is rolled back: only what Clock did remains.
Undo(b, o) ==
  /\ live' = [live EXCEPT ![b] = o.live]
  /\ attachFailed' = [attachFailed EXCEPT ![b] = @ \/ ~o.ok]
  /\ UNCHANGED <<status, link, billed, review>>

-----------------------------------------------------------------------------
(***************************************************************************)
(* createBooking.  Validation failures before the reservation, a full      *)
(* Clock, and a checkout session that cannot be created leave no booking.  *)
(***************************************************************************)
Fill(b, m, r) ==
  /\ status[b] = "NONE"
  /\ method' = [method EXCEPT ![b] = m]
  /\ room' = [room EXCEPT ![b] = r]
  /\ UNCHANGED <<due, ledger, manual, attempt, stock>>

\* The quote is not valid any more, no room of its price is left to assign, or
\* the unit or room is taken: a row remains all the same.
CreateUnavailable(b, m, r) ==
  /\ Fill(b, m, r)
  /\ SetStatus(b, "AVAILABILITY_FAILED")
  /\ UNCHANGED <<booked, orders, clock>>

CreateOnline(b, m, r) ==
  /\ m \in Online
  /\ Fill(b, m, r)
  /\ CanReserve(r) /\ Take(r)
  /\ SetStatus(b, "PAYMENT_PENDING")
  /\ orders' = [orders EXCEPT ![b][1] = "open"]
  /\ UNCHANGED clock

CreatePayAtHotel(b, r) ==
  /\ Fill(b, "PAY_AT_HOTEL", r)
  /\ CanReserve(r) /\ Take(r)
  /\ \E o \in IF ClockConnected THEN AttachOutcomes(b) ELSE {ConfirmedLocally(b)} :
       Commit(b, o)
  /\ UNCHANGED orders

-----------------------------------------------------------------------------
(***************************************************************************)
(* Payment.                                                                *)
(***************************************************************************)
\* The guest completes a checkout, at any time after it was opened.
PayOrder(b, i) ==
  /\ orders[b][i] = "open"
  /\ orders' = [orders EXCEPT ![b][i] = "paid"]
  /\ UNCHANGED <<status, method, room, due, ledger, manual, attempt, clock, units>>

\* resendPokPayCheckout: earlier orders stay payable.
Resend(b, i) ==
  /\ status[b] = "PAYMENT_PENDING" /\ method[b] = "POKPAY"
  /\ orders[b][i] = "none" /\ i > 1 /\ orders[b][i - 1] # "none"
  /\ orders' = [orders EXCEPT ![b][i] = "open"]
  /\ UNCHANGED <<status, method, room, due, ledger, manual, attempt, clock, units>>

Record(b, i, s) == ledger' = [ledger EXCEPT ![b][i] = s]

\* processPaymentSucceeded on a pending booking.  An attach that fails throws,
\* and the payment row goes with everything else.
StripeConfirm(b, i) ==
  /\ method[b] = "STRIPE_CHECKOUT" /\ orders[b][i] = "paid"
  /\ status[b] = "PAYMENT_PENDING" /\ ledger[b][i] = "none"
  /\ \E o \in ContinueOutcomes(b) :
       IF o.ok
       THEN Commit(b, o) /\ Record(b, i, "PAID")
       ELSE Undo(b, o) /\ UNCHANGED ledger
  /\ UNCHANGED <<method, room, due, manual, attempt, orders, units>>

MutantStripeLateKeepsMoney(b, i) ==
  /\ method[b] = "STRIPE_CHECKOUT" /\ orders[b][i] = "paid"
  /\ status[b] = "EXPIRED" /\ ledger[b][i] = "none"
  /\ Record(b, i, "LATE_AFTER_EXPIRY")
  /\ UNCHANGED <<status, method, room, due, manual, attempt, orders, clock, units>>

\* gatewayRefund, which saves its attempt in a transaction of its own: the
\* gateway refunds, or there is no answer to rely on and the money may or may
\* not have moved.
GatewayRefund(b, i) ==
  /\ attempt[b][i] = "none" /\ orders[b][i] = "paid"
  /\ \E s \in {"returned", "failed"} :
       /\ attempt' = [attempt EXCEPT ![b][i] = s]
       /\ \/ orders' = [orders EXCEPT ![b][i] = "refunded"]
          \/ s = "failed" /\ UNCHANGED orders

\* processPaymentSucceeded on an expired booking: the charge is recorded as
\* late and refunded.  A saved attempt is never sent again: its answer is used
\* when Stripe delivers again.  A failed one throws, at once and on every later
\* delivery, and its transaction leaves neither the charge nor a review item.
StripeLate(b, i) ==
  /\ method[b] = "STRIPE_CHECKOUT"
  /\ status[b] = "EXPIRED" /\ ledger[b][i] = "none"
  /\ \/ GatewayRefund(b, i)
     \/ attempt[b][i] = "returned" /\ UNCHANGED <<attempt, orders>>
  /\ \/ attempt'[b][i] = "returned" /\ Record(b, i, "LATE_AFTER_EXPIRY")
     \/ UNCHANGED ledger
  /\ UNCHANGED <<status, method, room, due, manual, clock, units>>

\* PaymentRefundRecoveryService runs recoverStuckRefund, which finds no charge
\* recorded for the attempt and so cannot check the gateway, and then
\* raiseStuckRefundAlert: a person is told.
RefundStuck(b, i) ==
  /\ attempt[b][i] # "none" /\ ledger[b][i] = "none"
  /\ review' = [review EXCEPT ![b] = TRUE]
  /\ UNCHANGED <<status, method, room, due, money, link, live, billed, attachFailed, units>>

MutantPokPayRecordsEveryOrder(b, i) ==
  /\ method[b] = "POKPAY" /\ orders[b][i] = "paid" /\ ledger[b][i] = "none"
  /\ Record(b, i, "PAID")
  /\ \/ \E o \in ContinueOutcomes(b) : Commit(b, o)
     \/ status[b] = "CONFIRMED" /\ UNCHANGED <<status, clock>>
  /\ UNCHANGED <<method, room, due, manual, attempt, orders, units>>

MutantPokPayTrustsReturn(b, i) ==
  /\ method[b] = "POKPAY" /\ orders[b][i] # "none"
  /\ \/ status[b] = "PAYMENT_PENDING" /\ ledger[b][i] = "none"
     \/ status[b] = "PMS_CREATION_PENDING" /\ ledger[b][i] # "none"
  /\ Record(b, i, "PAID")
  /\ \E o \in ContinueOutcomes(b) : Commit(b, o)
  /\ UNCHANGED <<method, room, due, manual, attempt, orders, units>>

\* processAuthoritativeOrder, from a webhook, the poll or a staff refresh: an
\* order recorded by an earlier call is resumed while creation is pending; a
\* failure is returned, so everything it did is committed.
PokPayOrder(b, i) ==
  /\ method[b] = "POKPAY" /\ orders[b][i] = "paid"
  /\ \/ status[b] = "PAYMENT_PENDING" /\ ledger[b][i] = "none"
     \/ status[b] = "PMS_CREATION_PENDING" /\ ledger[b][i] # "none"
  /\ Record(b, i, "PAID")
  /\ \E o \in ContinueOutcomes(b) : Commit(b, o)
  /\ UNCHANGED <<method, room, due, manual, attempt, orders, units>>

PaidOrders(b) == {i \in Orders : ledger[b][i] = "PAID"}

\* What is left to pay: by the ledger, or by Clock's bill once it has one.
BalanceDue(b) ==
  IF ClockConnected /\ link[b] # "none" THEN ~billed[b] ELSE PaidOrders(b) = {}

\* mirrorConfirmedPayment: postDeposit for a booking confirmed before.
PostDeposit(b) ==
  /\ \/ /\ link[b] = "none" \/ ~ClockConnected
        /\ UNCHANGED <<billed, review>>
     \/ /\ link[b] # "none" /\ ClockConnected
        /\ \E o \in Deposited(Attached(b, live[b])) :
             /\ billed' = [billed EXCEPT ![b] = o.billed]
             /\ review' = [review EXCEPT ![b] = o.review]
  /\ UNCHANGED <<status, link, live, attachFailed>>

\* ManualPaymentService.record of the whole remaining balance, on a pending
\* booking (which it confirms) or a confirmed one; at most once here (a bound).
ManualPayment(b) ==
  /\ ~manual[b] /\ BalanceDue(b)
  /\ manual' = [manual EXCEPT ![b] = TRUE]
  /\ \/ /\ status[b] = "PAYMENT_PENDING"
        /\ \E o \in ContinueOutcomes(b) : Commit(b, o)
     \/ status[b] = "CONFIRMED" /\ PostDeposit(b)
  /\ UNCHANGED <<method, room, due, ledger, attempt, orders, units>>

\* The transaction of a confirmation times out or its process dies after
\* Clock created the reservation, and perhaps billed the payment.  Whether
\* staff or a gateway confirmed, the payment row goes with the transaction.
AttachLost(b) ==
  /\ ClockConnected /\ link[b] = "none" /\ live[b] < MaxReservations
  /\ \/ status[b] = "PAYMENT_PENDING"
     \/ status[b] = "PMS_CREATION_PENDING" /\ \E i \in Orders : orders[b][i] = "paid"
  /\ live' = [live EXCEPT ![b] = @ + 1]
  /\ \E d \in {billed[b], TRUE} : billed' = [billed EXCEPT ![b] = d]
  /\ UNCHANGED <<status, method, room, due, money, link, review, attachFailed, units>>

-----------------------------------------------------------------------------
(***************************************************************************)
(* The end of a booking.                                                   *)
(***************************************************************************)
TimePasses(b) ==
  /\ status[b] = "PAYMENT_PENDING" /\ ~due[b]
  /\ due' = [due EXCEPT ![b] = TRUE]
  /\ UNCHANGED <<status, method, room, money, clock, units>>

MutantExpireStaleCandidate(b) ==
  /\ status[b] \in {"PAYMENT_PENDING", "CONFIRMED"} /\ due[b]
  /\ GiveBack(b)
  /\ SetStatus(b, "EXPIRED")
  /\ UNCHANGED <<method, room, due, money, clock, stock>>

MutantExpirePoolOnly(b) ==
  /\ status[b] = "PAYMENT_PENDING" /\ due[b] /\ room[b] = NoRoom
  /\ GiveBack(b)
  /\ SetStatus(b, "EXPIRED")
  /\ UNCHANGED <<method, room, due, money, clock, stock>>

\* expirePaymentPending, re-reading the row the sweep listed.
Expire(b) ==
  /\ status[b] = "PAYMENT_PENDING" /\ due[b]
  /\ GiveBack(b)
  /\ SetStatus(b, "EXPIRED")
  /\ UNCHANGED <<method, room, due, money, clock, stock>>

\* cancelBooking: the statuses from which the unit is given back.
ReleaseAtCancel(b) == status[b] \in {"PAYMENT_PENDING", "CONFIRMED"}

\* refundCharge at a cancellation: no refund is due, it succeeds (with a review
\* item if it is still pending or Clock's bill misses it), or it has no answer
\* to rely on and is left to a review item.
CancelRefund(b) ==
  \/ UNCHANGED <<orders, review>>
  \/ \E i \in PaidOrders(b) :
       /\ orders' = [orders EXCEPT ![b][i] = "refunded"]
       /\ review' \in {review, [review EXCEPT ![b] = TRUE]}
  \/ /\ PaidOrders(b) # {}
     /\ review' = [review EXCEPT ![b] = TRUE]
     /\ UNCHANGED orders

\* cancelRealReservation, for a booking linked to a live reservation.
Withdraw(b) ==
  IF link[b] = "live" /\ live[b] > 0
  THEN /\ live' = [live EXCEPT ![b] = @ - 1]
       /\ link' = [link EXCEPT ![b] = "cancelled"]
  ELSE UNCHANGED <<link, live>>

\* cancelBooking: Clock first, then the refund, the unit and the status.
Cancel(b) ==
  /\ status[b] \in Cancellable
  /\ IF ClockConnected THEN Withdraw(b) ELSE UNCHANGED <<link, live>>
  /\ CancelRefund(b)
  /\ IF ReleaseAtCancel(b) THEN GiveBack(b) ELSE UNCHANGED booked
  /\ SetStatus(b, "CANCELLED")
  /\ UNCHANGED <<method, room, due, ledger, manual, attempt, billed, attachFailed, stock>>

\* Clock cancels the reservation but its answer is lost: the call returns the
\* failure and leaves the booking.
CancelLost(b) ==
  /\ status[b] \in Cancellable
  /\ ClockConnected /\ link[b] = "live" /\ Withdraw(b)
  /\ UNCHANGED <<status, method, room, due, money, billed, review, attachFailed, units>>

\* The hotel cancels the linked reservation in Clock itself.
ClockCancels(b) ==
  /\ ClockConnected /\ link[b] = "live" /\ Withdraw(b)
  /\ UNCHANGED <<status, method, room, due, money, billed, review, attachFailed, units>>

-----------------------------------------------------------------------------
(***************************************************************************)
(* BookingReviewService.resolve of an uncertain booking: 'link' saves the  *)
(* one reservation Clock has (Mirror then settles the status),             *)
(* 'not_created' closes an unpaid booking Clock does not know.             *)
(***************************************************************************)
ReviewLink(b) ==
  /\ ClockConnected /\ status[b] = "PMS_UNKNOWN_RESULT" /\ link[b] = "none" /\ live[b] = 1
  /\ link' = [link EXCEPT ![b] = "live"]
  /\ UNCHANGED <<status, method, room, due, money, live, billed, review, attachFailed, units>>

ReviewReject(b) ==
  /\ ClockConnected /\ status[b] = "PMS_UNKNOWN_RESULT" /\ link[b] = "none" /\ live[b] = 0
  /\ ~manual[b] /\ \A i \in Orders : orders[b][i] = "none"
  /\ SetStatus(b, "PMS_REJECTED")
  /\ UNCHANGED <<method, room, due, money, clock, units>>

-----------------------------------------------------------------------------
(***************************************************************************)
(* ClockBookingHydrationService.hydrateBooking, run by webhooks, the       *)
(* background sync and a review: its compare-and-set on the local row makes*)
(* reading and writing that row one step.                                  *)
(***************************************************************************)
\* A reservation with MUST's reference and no local link is linked, only.
MirrorLink(b) ==
  /\ ClockConnected /\ status[b] # "NONE" /\ link[b] = "none" /\ live[b] > 0
  /\ link' = [link EXCEPT ![b] = "live"]
  /\ UNCHANGED <<status, method, room, due, money, live, billed, review, attachFailed, units>>

ReservationStatus(b) == IF link[b] = "live" THEN "CONFIRMED" ELSE "CANCELLED"

\* A linked booking takes over its reservation's room, and its status whatever
\* its own was, unless Clock has a word for it that MUST does not know.
Mirror(b) ==
  /\ ClockConnected /\ link[b] # "none"
  /\ \E r \in Rooms \cup {NoRoom} : room' = [room EXCEPT ![b] = r]
  /\ SetStatus(b, ReservationStatus(b)) \/ UNCHANGED status
  /\ UNCHANGED <<method, due, money, clock, units>>

-----------------------------------------------------------------------------
Create(b) ==
  \/ \E m \in Methods, r \in Rooms \cup {NoRoom} :
       CreateUnavailable(b, m, r) \/ CreateOnline(b, m, r)
  \/ \E r \in Rooms \cup {NoRoom} :
       "PAY_AT_HOTEL" \in Methods /\ CreatePayAtHotel(b, r)

Order(b, i) ==
  \/ PayOrder(b, i) \/ Resend(b, i)
  \/ StripeConfirm(b, i) \/ StripeLate(b, i) \/ PokPayOrder(b, i) \/ RefundStuck(b, i)

Booking(b) ==
  \/ Create(b)
  \/ \E i \in Orders : Order(b, i)
  \/ ManualPayment(b) \/ AttachLost(b)
  \/ TimePasses(b) \/ Expire(b) \/ Cancel(b) \/ CancelLost(b) \/ ClockCancels(b)
  \/ ReviewLink(b) \/ ReviewReject(b) \/ MirrorLink(b) \/ Mirror(b)

Next ==
  \/ \E b \in Bookings : Booking(b)
  \/ \E n \in 0 .. MaxStock : SetStock(n)

Spec == Init /\ [][Next]_vars

\* Time passes, the minute sweep expires what is due, Stripe redelivers until
\* it is answered with success, PokPay is polled, and the recovery job looks at
\* the refund attempts that are stuck.
Fairness ==
  \A b \in Bookings :
    /\ WF_vars(TimePasses(b)) /\ WF_vars(Expire(b))
    /\ \A i \in Orders :
         /\ WF_vars(StripeLate(b, i)) /\ WF_vars(PokPayOrder(b, i))
         /\ WF_vars(RefundStuck(b, i))

FairSpec == Spec /\ Fairness

-----------------------------------------------------------------------------
(***************************************************************************)
(* Properties.                                                             *)
(***************************************************************************)
\* Every variable has its type, for every value of the constants.
TypeOK ==
  /\ status \in [Bookings -> Statuses]
  /\ method \in [Bookings -> {"NONE"} \cup Methods]
  /\ room \in [Bookings -> Rooms \cup {NoRoom}]
  /\ due \in [Bookings -> BOOLEAN]
  /\ link \in [Bookings -> Links]
  /\ ledger \in [Bookings -> [Orders -> {"none", "PAID", "LATE_AFTER_EXPIRY"}]]
  /\ manual \in [Bookings -> BOOLEAN]
  /\ attempt \in [Bookings -> [Orders -> {"none", "returned", "failed"}]]
  /\ review \in [Bookings -> BOOLEAN]
  /\ stock \in 0 .. MaxStock
  /\ booked \in 0 .. MaxStock
  /\ orders \in [Bookings -> [Orders -> {"none", "open", "paid", "refunded"}]]
  /\ live \in [Bookings -> 0 .. MaxReservations]
  /\ billed \in [Bookings -> BOOLEAN]
  /\ attachFailed \in [Bookings -> BOOLEAN]

\* The pool bookings that hold a unit.
Holders ==
  {b \in Bookings :
    /\ CountsUnit(room[b])
    /\ status[b] \in {"PAYMENT_PENDING", "PMS_CREATION_PENDING",
                      "PMS_UNKNOWN_RESULT", "CONFIRMED"}}

\* The hotel's units implement UnitHolds: through every interleaving of
\* creation, payment, expiry and cancellation the counter is the number of
\* bookings that hold a unit, no unit is sold twice, none is lost, and the
\* stock never drops below the units in use.
Holds == INSTANCE UnitHolds WITH holders <- Holders, used <- booked, stock <- stock
ImplementsUnitHolds == Holds!Spec

SharedRoom(b, c) ==
  /\ room[b] = room[c] /\ room[b] # NoRoom
  /\ status[b] \in Occupying /\ status[c] \in Occupying

\* MUST puts nobody into an occupied room: not into the room of a booking whose
\* attachment is uncertain or was rejected, nor by reviving an ended booking.
\* Only the copy of a linked booking's reservation, which changes nothing else,
\* may put two bookings where the hotel has put them in Clock (roomIsAvailable
\* under the property's lock; hydrateBooking asks for no free room).
RoomSharedOnlyByClock ==
  [][\A b, c \in Bookings :
       b # c /\ SharedRoom(b, c)' /\ ~SharedRoom(b, c)
       => \E d \in {b, c} :
            /\ link[d] # "none" /\ status'[d] \in {status[d], ReservationStatus(d)}
            /\ UNCHANGED <<money, clock, units>>]_vars

\* A booking is paid once in the ledger: of several orders and deliveries one
\* is recorded.  Only where Clock's bill missed that payment can staff record
\* another at the desk, and then a failure or a review item shows it.
PaidOnce ==
  \A b \in Bookings :
    /\ Cardinality(PaidOrders(b)) <= 1
    /\ manual[b] /\ PaidOrders(b) # {} => link[b] # "none" /\ (review[b] \/ attachFailed[b])

\* A charge in the ledger is honoured: one recorded as paid keeps its booking
\* from being released as unpaid, one recorded as late has gone back to the guest.
ChargeIsHonoured ==
  \A b \in Bookings, i \in Orders :
    /\ ledger[b][i] = "PAID" => status[b] \notin {"PAYMENT_PENDING", "EXPIRED"}
    /\ ledger[b][i] = "LATE_AFTER_EXPIRY" => orders[b][i] = "refunded"

\* A confirmed booking has what it is confirmed on.  In a Clock hotel that is
\* its reservation; elsewhere, for an online booking, money that the gateway
\* captured, or a payment at the desk, in the ledger.
ConfirmedIsBacked ==
  \A b \in Bookings :
    status[b] = "CONFIRMED" =>
      IF ClockConnected THEN link[b] # "none"
      ELSE method[b] \in Online =>
             manual[b] \/ \E i \in PaidOrders(b) : orders[b][i] \in {"paid", "refunded"}

\* An ended booking is revived by no payment, retry or review: it changes only
\* to the status of the reservation Clock has for it, and so never without Clock.
EndedStaysEnded ==
  [][\A b \in Bookings :
       status[b] \in {"AVAILABILITY_FAILED", "CANCELLED", "EXPIRED"}
       => \/ status'[b] = status[b]
          \/ ClockConnected /\ link[b] # "none" /\ status'[b] = ReservationStatus(b)]_vars

\* In a Clock hotel every uncertain or unfinished booking has a review item.
UncertainIsReviewed ==
  \A b \in Bookings :
    status[b] \in {"PMS_CREATION_PENDING", "PMS_UNKNOWN_RESULT", "PMS_REJECTED"}
    => review[b]

\* A hold nobody pays ends.
HoldEnds ==
  \A b \in Bookings : status[b] = "PAYMENT_PENDING" ~> status[b] # "PAYMENT_PENDING"

\* Stripe's money that arrives after the hold expired goes back, or a person is
\* told that its refund is stuck.
LateMoneyIsHandled ==
  \A b \in Bookings, i \in Orders :
    method[b] = "STRIPE_CHECKOUT" /\ status[b] = "EXPIRED" /\ orders[b][i] = "paid"
    ~> orders[b][i] = "refunded" \/ review[b]

\* continueAfterPayment's comment: a paid booking whose attachment failed goes
\* to a human and is never refunded automatically.
NoAutoRefundAfterFailedAttach ==
  \A b \in Bookings, i \in Orders :
    attachFailed[b] /\ orders[b][i] = "refunded" => status[b] = "CANCELLED"
=============================================================================
