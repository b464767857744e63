----------------------- MODULE BookingLifecycleProofs -----------------------
(***************************************************************************)
(* Proofs about BookingLifecycle for every value of its constants: type    *)
(* correctness and that MUST puts nobody into an occupied room, in any     *)
(* hotel, and, in a hotel without Clock, that the sold/held counter is     *)
(* exact and implements UnitHolds.                                         *)
(***************************************************************************)
EXTENDS BookingLifecycle, FiniteSetTheorems, TLAPS

\* TypeOK is not inductive by itself: the counter stays in its range because
\* it never passes the configured stock.
TypeInv == TypeOK /\ booked <= stock

\* What an attach or a local confirmation returns: the type of a row's fields.
OutcomeTypes ==
  [status : Statuses, link : Links, review : BOOLEAN, billed : BOOLEAN,
   live : 0 .. MaxReservations, ok : BOOLEAN]

LEMMA OutcomeType ==
  ASSUME TypeOK, NEW b \in Bookings,
         NEW o \in AttachOutcomes(b) \cup {ConfirmedLocally(b)}
  PROVE  o \in OutcomeTypes
<1>1. /\ link[b] \in Links /\ review[b] \in BOOLEAN /\ billed[b] \in BOOLEAN
      /\ live[b] \in 0 .. MaxReservations
  BY DEF TypeOK
<1>2. \A n \in AfterPost(b) : n \in 0 .. MaxReservations
  BY <1>1, BookingLifecycleAssumption DEF AfterPost
<1>3. CASE o = ConfirmedLocally(b)
  BY <1>1, <1>3 DEF ConfirmedLocally, Statuses, OutcomeTypes
<1>4. CASE \E n \in {live[b]} \cup AfterPost(b) : o = Attached(b, n)
  <2> PICK n \in {live[b]} \cup AfterPost(b) : o = Attached(b, n)
    BY <1>4
  <2>1. n \in 0 .. MaxReservations
    BY <1>1, <1>2
  <2> QED
    BY <1>1, <2>1 DEF Attached, Statuses, Links, OutcomeTypes
<1>5. CASE o = Failed(b, "PMS_CREATION_PENDING", TRUE, live[b])
  BY <1>1, <1>5 DEF Failed, Statuses, Links, OutcomeTypes
<1>6. CASE o = Failed(b, "AVAILABILITY_FAILED", review[b], live[b])
  BY <1>1, <1>6 DEF Failed, Statuses, Links, OutcomeTypes
<1>7. CASE \E n \in AfterPost(b) : o = Failed(b, "PMS_UNKNOWN_RESULT", TRUE, n)
  <2> PICK n \in AfterPost(b) : o = Failed(b, "PMS_UNKNOWN_RESULT", TRUE, n)
    BY <1>7
  <2> QED
    BY <1>1, <1>2 DEF Failed, Statuses, Links, OutcomeTypes
<1> QED
  BY <1>3, <1>4, <1>5, <1>6, <1>7, Zenon DEF AttachOutcomes

\* Billing the payment keeps the type and settles only billed and review.
LEMMA DepositType ==
  ASSUME NEW a \in OutcomeTypes, NEW o \in Deposited(a)
  PROVE  /\ o \in OutcomeTypes
         /\ o.status = a.status /\ o.link = a.link /\ o.live = a.live /\ o.ok = a.ok
         /\ a.review => o.review
         /\ a.billed => o.billed
         /\ o.billed \/ o.review
<1>1. CASE o = [a EXCEPT !.billed = TRUE]
  BY <1>1 DEF OutcomeTypes
<1>2. CASE \E d \in {a.billed, TRUE} : o = [a EXCEPT !.billed = d, !.review = TRUE]
  BY <1>2 DEF OutcomeTypes
<1> QED
  BY <1>1, <1>2 DEF Deposited

\* An outcome of continueAfterPayment is an attach or a local confirmation,
\* with the payment billed or not.
LEMMA ContinueType ==
  ASSUME TypeOK, NEW b \in Bookings, NEW o \in ContinueOutcomes(b)
  PROVE  /\ o \in OutcomeTypes
         /\ status[b] \in {"PAYMENT_PENDING", "PMS_CREATION_PENDING"}
         /\ \E a \in AttachOutcomes(b) \cup {ConfirmedLocally(b)} :
              /\ a \in OutcomeTypes
              /\ o = a \/ (ClockConnected /\ a.ok /\ o \in Deposited(a))
              /\ ~ClockConnected => a = ConfirmedLocally(b)
              /\ ClockConnected /\ a.ok => o \in Deposited(a)
              /\ ClockConnected => a \in AttachOutcomes(b)
<1>1. status[b] \in {"PAYMENT_PENDING", "PMS_CREATION_PENDING"}
  BY DEF ContinueOutcomes
<1>2. CASE ~ClockConnected
  <2>1. o = ConfirmedLocally(b)
    BY <1>1, <1>2 DEF ContinueOutcomes
  <2> QED
    BY <1>1, <1>2, <2>1, OutcomeType
<1>3. CASE ClockConnected
  <2>1. PICK a \in AttachOutcomes(b) : o \in IF a.ok THEN Deposited(a) ELSE {a}
    BY <1>1, <1>3 DEF ContinueOutcomes
  <2>2. a \in OutcomeTypes
    BY OutcomeType
  <2> QED
    BY <1>1, <1>3, <2>1, <2>2, DepositType
<1> QED
  BY <1>2, <1>3

\* Committing or undoing an outcome keeps the types of what it writes.
LEMMA CommitType ==
  ASSUME TypeOK, NEW b \in Bookings, NEW o \in OutcomeTypes,
         Commit(b, o) \/ Undo(b, o)
  PROVE  /\ status' \in [Bookings -> Statuses]
         /\ link' \in [Bookings -> Links]
         /\ review' \in [Bookings -> BOOLEAN]
         /\ live' \in [Bookings -> 0 .. MaxReservations]
         /\ billed' \in [Bookings -> BOOLEAN]
         /\ attachFailed' \in [Bookings -> BOOLEAN]
<1>1. /\ o.status \in Statuses /\ o.link \in Links /\ o.review \in BOOLEAN
      /\ o.billed \in BOOLEAN /\ o.live \in 0 .. MaxReservations /\ o.ok \in BOOLEAN
  BY DEF OutcomeTypes
<1>2. /\ status \in [Bookings -> Statuses] /\ link \in [Bookings -> Links]
      /\ review \in [Bookings -> BOOLEAN]
      /\ live \in [Bookings -> 0 .. MaxReservations]
      /\ billed \in [Bookings -> BOOLEAN]
      /\ attachFailed \in [Bookings -> BOOLEAN]
  BY DEF TypeOK
<1>3. \A x, y \in BOOLEAN : (x \/ ~y) \in BOOLEAN
  OBVIOUS
<1>4. CASE Commit(b, o)
  BY <1>1, <1>2, <1>3, <1>4 DEF Commit, SetStatus
<1>5. CASE Undo(b, o)
  BY <1>1, <1>2, <1>3, <1>5 DEF Undo
<1> QED
  BY <1>4, <1>5

-----------------------------------------------------------------------------
(***************************************************************************)
(* Type correctness.                                                       *)
(***************************************************************************)
LEMMA TypeInit == Init => TypeInv
  BY BookingLifecycleAssumption DEF Init, TypeInv, TypeOK, Statuses, Links, Orders

LEMMA TypeCreate ==
  ASSUME TypeInv, NEW b \in Bookings, Create(b)
  PROVE  TypeInv'
<1> USE DEF TypeInv
<1>1. /\ status \in [Bookings -> Statuses] /\ room \in [Bookings -> Rooms \cup {NoRoom}]
      /\ stock \in 0 .. MaxStock /\ booked \in 0 .. MaxStock /\ MaxStock \in Nat
  BY BookingLifecycleAssumption DEF TypeOK
<1>2. ASSUME NEW r \in Rooms \cup {NoRoom}, CanReserve(r), Take(r), UNCHANGED stock
      PROVE  booked' \in 0 .. MaxStock /\ booked' <= stock'
  BY <1>1, <1>2 DEF CanReserve, Take, CountsUnit
<1>3. ASSUME NEW m \in Methods, NEW r \in Rooms \cup {NoRoom}, CreateUnavailable(b, m, r)
      PROVE  TypeInv'
  BY <1>1, <1>3 DEF TypeOK, CreateUnavailable, Fill, SetStatus, Statuses, clock
<1>4. ASSUME NEW m \in Methods, NEW r \in Rooms \cup {NoRoom}, CreateOnline(b, m, r)
      PROVE  TypeInv'
  <2>1. 1 \in Orders
    BY BookingLifecycleAssumption DEF Orders
  <2>2. booked' \in 0 .. MaxStock /\ booked' <= stock'
    BY <1>2, <1>4 DEF CreateOnline, Fill
  <2>3. orders' \in [Bookings -> [Orders -> {"none", "open", "paid", "refunded"}]]
    BY <1>4, <2>1 DEF TypeOK, CreateOnline
  <2> QED
    BY <1>1, <1>4, <2>2, <2>3 DEF TypeOK, CreateOnline, Fill, SetStatus, Statuses, clock
<1>5. ASSUME NEW r \in Rooms \cup {NoRoom}, "PAY_AT_HOTEL" \in Methods, CreatePayAtHotel(b, r)
      PROVE  TypeInv'
  <2> PICK o \in AttachOutcomes(b) \cup {ConfirmedLocally(b)} : Commit(b, o)
    BY <1>5 DEF CreatePayAtHotel
  <2>1. /\ status' \in [Bookings -> Statuses] /\ link' \in [Bookings -> Links]
        /\ review' \in [Bookings -> BOOLEAN]
        /\ live' \in [Bookings -> 0 .. MaxReservations]
        /\ billed' \in [Bookings -> BOOLEAN]
        /\ attachFailed' \in [Bookings -> BOOLEAN]
    BY OutcomeType, CommitType
  <2>2. booked' \in 0 .. MaxStock /\ booked' <= stock'
    BY <1>2, <1>5 DEF CreatePayAtHotel, Fill
  <2> QED
    BY <1>5, <2>1, <2>2 DEF TypeOK, CreatePayAtHotel, Fill
<1> QED
  BY <1>3, <1>4, <1>5 DEF Create

LEMMA TypeOrder ==
  ASSUME TypeInv, NEW b \in Bookings, NEW i \in Orders, Order(b, i)
  PROVE  TypeInv'
<1> USE DEF TypeInv
<1>1. ASSUME NEW s \in {"open", "paid", "refunded"},
             orders' = [orders EXCEPT ![b][i] = s]
      PROVE  orders' \in [Bookings -> [Orders -> {"none", "open", "paid", "refunded"}]]
  BY <1>1 DEF TypeOK
<1>2. ASSUME NEW s \in {"PAID", "LATE_AFTER_EXPIRY"}, Record(b, i, s)
      PROVE  ledger' \in [Bookings -> [Orders -> {"none", "PAID", "LATE_AFTER_EXPIRY"}]]
  BY <1>2 DEF TypeOK, Record
<1>3. ASSUME NEW o \in ContinueOutcomes(b), Commit(b, o) \/ Undo(b, o)
      PROVE  /\ status' \in [Bookings -> Statuses] /\ link' \in [Bookings -> Links]
             /\ review' \in [Bookings -> BOOLEAN]
             /\ live' \in [Bookings -> 0 .. MaxReservations]
             /\ billed' \in [Bookings -> BOOLEAN]
             /\ attachFailed' \in [Bookings -> BOOLEAN]
  BY <1>3, ContinueType, CommitType
<1>4. CASE PayOrder(b, i)
  BY <1>1, <1>4 DEF TypeOK, PayOrder, clock, units
<1>5. CASE Resend(b, i)
  BY <1>1, <1>5 DEF TypeOK, Resend, clock, units
<1>6. CASE StripeConfirm(b, i)
  <2>1. PICK o \in ContinueOutcomes(b) :
          \/ Commit(b, o) /\ Record(b, i, "PAID")
          \/ Undo(b, o) /\ UNCHANGED ledger
    BY <1>6 DEF StripeConfirm
  <2>2. ledger' \in [Bookings -> [Orders -> {"none", "PAID", "LATE_AFTER_EXPIRY"}]]
    BY <1>2, <2>1 DEF TypeOK
  <2> QED
    BY <1>3, <1>6, <2>1, <2>2 DEF TypeOK, StripeConfirm, units
<1>7. CASE StripeLate(b, i)
  <2>1. CASE GatewayRefund(b, i)
    <3>1. attempt' \in [Bookings -> [Orders -> {"none", "returned", "failed"}]]
      BY <2>1 DEF TypeOK, GatewayRefund
    <3>2. orders' \in [Bookings -> [Orders -> {"none", "open", "paid", "refunded"}]]
      BY <1>1, <2>1 DEF TypeOK, GatewayRefund
    <3> QED
      BY <1>2, <1>7, <3>1, <3>2 DEF TypeOK, StripeLate, clock, units
  <2>2. CASE UNCHANGED <<attempt, orders>>
    BY <1>2, <1>7, <2>2 DEF TypeOK, StripeLate, clock, units
  <2> QED
    BY <1>7, <2>1, <2>2 DEF StripeLate
<1>8. CASE PokPayOrder(b, i)
  <2>1. PICK o \in ContinueOutcomes(b) : Commit(b, o)
    BY <1>8 DEF PokPayOrder
  <2> QED
    BY <1>2, <1>3, <1>8, <2>1 DEF TypeOK, PokPayOrder, units
<1>9. CASE RefundStuck(b, i)
  BY <1>9 DEF TypeOK, RefundStuck, money, units
<1> QED
  BY <1>4, <1>5, <1>6, <1>7, <1>8, <1>9 DEF Order

\* What the release of a unit leaves.
LEMMA GiveBackType ==
  ASSUME TypeInv, NEW b \in Bookings, GiveBack(b), UNCHANGED stock
  PROVE  booked' \in 0 .. MaxStock /\ booked' <= stock'
  BY BookingLifecycleAssumption DEF TypeInv, TypeOK, GiveBack

LEMMA TypeRest ==
  ASSUME TypeInv, NEW b \in Bookings,
         \/ ManualPayment(b) \/ AttachLost(b) \/ TimePasses(b) \/ Expire(b)
         \/ Cancel(b) \/ CancelLost(b) \/ ClockCancels(b)
         \/ ReviewLink(b) \/ ReviewReject(b) \/ MirrorLink(b) \/ Mirror(b)
  PROVE  TypeInv'
<1> USE DEF TypeInv
<1>1. ASSUME NEW s \in Statuses, SetStatus(b, s)
      PROVE  status' \in [Bookings -> Statuses]
  BY <1>1 DEF TypeOK, SetStatus
<1>2. ASSUME Withdraw(b) \/ UNCHANGED <<link, live>>
      PROVE  /\ live' \in [Bookings -> 0 .. MaxReservations]
             /\ link' \in [Bookings -> Links]
  <2>1. CASE UNCHANGED <<link, live>>
    BY <2>1 DEF TypeOK
  <2>2. CASE /\ live[b] > 0 /\ live' = [live EXCEPT ![b] = @ - 1]
             /\ link' = [link EXCEPT ![b] = "cancelled"]
    <3>1. live' \in [Bookings -> 0 .. MaxReservations]
      BY <2>2, BookingLifecycleAssumption DEF TypeOK
    <3>2. link' \in [Bookings -> Links]
      BY <2>2 DEF TypeOK, Links
    <3> QED
      BY <3>1, <3>2
  <2> QED
    BY <1>2, <2>1, <2>2 DEF Withdraw
<1>3. CASE ManualPayment(b)
  <2>1. CASE PostDeposit(b)
    <3>1. billed' \in [Bookings -> BOOLEAN] /\ review' \in [Bookings -> BOOLEAN]
      <4>1. CASE UNCHANGED <<billed, review>>
        BY <4>1 DEF TypeOK
      <4>2. CASE /\ link[b] # "none" /\ ClockConnected
                 /\ \E o \in Deposited(Attached(b, live[b])) :
                      /\ billed' = [billed EXCEPT ![b] = o.billed]
                      /\ review' = [review EXCEPT ![b] = o.review]
        <5>1. Attached(b, live[b]) \in OutcomeTypes
          BY <4>2, OutcomeType DEF AttachOutcomes
        <5>2. PICK o \in OutcomeTypes :
                /\ billed' = [billed EXCEPT ![b] = o.billed]
                /\ review' = [review EXCEPT ![b] = o.review]
          BY <4>2, <5>1, DepositType
        <5>3. o.billed \in BOOLEAN /\ o.review \in BOOLEAN
          BY DEF OutcomeTypes
        <5> QED
          BY <5>2, <5>3 DEF TypeOK
      <4> QED
        BY <2>1, <4>1, <4>2 DEF PostDeposit
    <3> QED
      BY <1>3, <2>1, <3>1 DEF TypeOK, ManualPayment, PostDeposit, units
  <2>2. CASE \E o \in ContinueOutcomes(b) : Commit(b, o)
    <3> PICK o \in ContinueOutcomes(b) : Commit(b, o)
      BY <2>2
    <3>1. /\ status' \in [Bookings -> Statuses] /\ link' \in [Bookings -> Links]
          /\ review' \in [Bookings -> BOOLEAN]
          /\ live' \in [Bookings -> 0 .. MaxReservations]
          /\ billed' \in [Bookings -> BOOLEAN]
          /\ attachFailed' \in [Bookings -> BOOLEAN]
      BY ContinueType, CommitType
    <3> QED
      BY <1>3, <3>1 DEF TypeOK, ManualPayment, units
  <2> QED
    BY <1>3, <2>1, <2>2 DEF ManualPayment
<1>4. CASE AttachLost(b)
  <2>1. live' \in [Bookings -> 0 .. MaxReservations]
    BY <1>4, BookingLifecycleAssumption DEF TypeOK, AttachLost
  <2>2. billed' \in [Bookings -> BOOLEAN]
    <3>1. billed \in [Bookings -> BOOLEAN]
      BY DEF TypeOK
    <3>2. PICK d \in {billed[b], TRUE} : billed' = [billed EXCEPT ![b] = d]
      BY <1>4 DEF AttachLost
    <3>3. d \in BOOLEAN
      BY <3>1
    <3> QED
      BY <3>1, <3>2, <3>3
  <2> QED
    BY <1>4, <2>1, <2>2 DEF TypeOK, AttachLost, money, units
<1>5. CASE TimePasses(b)
  BY <1>5 DEF TypeOK, TimePasses, money, clock, units
<1>6. CASE Expire(b)
  BY <1>1, <1>6, GiveBackType DEF TypeOK, Expire, Statuses, money, clock
<1>7. CASE Cancel(b)
  <2>1. status' \in [Bookings -> Statuses]
    BY <1>1, <1>7 DEF Cancel, Statuses
  <2>2. live' \in [Bookings -> 0 .. MaxReservations] /\ link' \in [Bookings -> Links]
    BY <1>2, <1>7 DEF Cancel
  <2>3. /\ orders' \in [Bookings -> [Orders -> {"none", "open", "paid", "refunded"}]]
        /\ review' \in [Bookings -> BOOLEAN]
    <3>1. CASE UNCHANGED <<orders, review>>
      BY <3>1 DEF TypeOK
    <3>2. CASE \E i \in PaidOrders(b) :
                 /\ orders' = [orders EXCEPT ![b][i] = "refunded"]
                 /\ review' \in {review, [review EXCEPT ![b] = TRUE]}
      <4>1. PICK i \in Orders : orders' = [orders EXCEPT ![b][i] = "refunded"]
        BY <3>2 DEF PaidOrders
      <4>2. review' = review \/ review' = [review EXCEPT ![b] = TRUE]
        BY <3>2
      <4>3. review' \in [Bookings -> BOOLEAN]
        BY <4>2 DEF TypeOK
      <4> QED
        BY <4>1, <4>3 DEF TypeOK
    <3>3. CASE review' = [review EXCEPT ![b] = TRUE] /\ UNCHANGED orders
      BY <3>3 DEF TypeOK
    <3> QED
      BY <1>7, <3>1, <3>2, <3>3 DEF Cancel, CancelRefund
  <2>4. booked' \in 0 .. MaxStock /\ booked' <= stock'
    BY <1>7, GiveBackType DEF TypeOK, Cancel
  <2> QED
    BY <1>7, <2>1, <2>2, <2>3, <2>4 DEF TypeOK, Cancel
<1>8. CASE CancelLost(b) \/ ClockCancels(b)
  BY <1>2, <1>8 DEF TypeOK, CancelLost, ClockCancels, money, units
<1>9. CASE ReviewLink(b) \/ MirrorLink(b)
  BY <1>9 DEF TypeOK, ReviewLink, MirrorLink, Links, money, units
<1>10. CASE ReviewReject(b)
  BY <1>1, <1>10 DEF TypeOK, ReviewReject, Statuses, money, clock, units
<1>11. CASE Mirror(b)
  <2>1. room' \in [Bookings -> Rooms \cup {NoRoom}]
    BY <1>11 DEF TypeOK, Mirror
  <2>2. status' \in [Bookings -> Statuses]
    <3>1. ReservationStatus(b) \in Statuses
      BY DEF ReservationStatus, Statuses
    <3>2. CASE SetStatus(b, ReservationStatus(b))
      BY <1>1, <3>1, <3>2
    <3>3. CASE UNCHANGED status
      BY <3>3 DEF TypeOK
    <3> QED
      BY <1>11, <3>2, <3>3 DEF Mirror
  <2> QED
    BY <1>11, <2>1, <2>2 DEF TypeOK, Mirror, money, clock, units
<1> QED
  BY <1>3, <1>4, <1>5, <1>6, <1>7, <1>8, <1>9, <1>10, <1>11

LEMMA TypeStep == TypeInv /\ [Next]_vars => TypeInv'
<1> SUFFICES ASSUME TypeInv, [Next]_vars PROVE TypeInv'
  OBVIOUS
<1>1. ASSUME NEW b \in Bookings, Booking(b) PROVE TypeInv'
  BY <1>1, TypeCreate, TypeOrder, TypeRest DEF Booking
<1>2. ASSUME NEW n \in 0 .. MaxStock, SetStock(n) PROVE TypeInv'
  BY <1>2 DEF TypeInv, TypeOK, SetStock, money, clock
<1>3. CASE UNCHANGED vars
  BY <1>3 DEF TypeInv, TypeOK, vars, money, clock, units
<1> QED
  BY <1>1, <1>2, <1>3 DEF Next

\* Type correctness, with the bound on the counter that makes it inductive.
THEOREM TypeInvariant == Spec => []TypeInv
  BY TypeInit, TypeStep, PTL DEF Spec

\* Every variable keeps its type; in particular booked_units never leaves
\* 0 .. MaxStock (adjustBookedUnits, InventoryStockService.apply).
THEOREM BookingTypes == Spec => []TypeOK
<1>1. TypeInv => TypeOK
  BY DEF TypeInv
<1> QED
  BY <1>1, TypeInvariant, PTL

-----------------------------------------------------------------------------
(***************************************************************************)
(* The units of a hotel without Clock.                                     *)
(***************************************************************************)
\* Without Clock a booking is never between payment and confirmation, so each
\* status either holds a unit and gives it back at its end, or holds none.
LocalStatuses ==
  {"NONE", "AVAILABILITY_FAILED", "PAYMENT_PENDING", "CONFIRMED", "CANCELLED", "EXPIRED"}

LocalInv == TypeInv /\ \A b \in Bookings : status[b] \in LocalStatuses

\* What a step may do to the units.
Kept == /\ Holders' = Holders /\ booked' = booked
        /\ \/ stock' = stock
           \/ stock' \in 0 .. MaxStock /\ booked <= stock'
Grown(b) == /\ b \in Bookings \ Holders /\ Holders' = Holders \cup {b}
            /\ booked < stock /\ booked' = booked + 1 /\ stock' = stock
Shrunk(b) == /\ b \in Holders /\ Holders' = Holders \ {b}
             /\ booked' = booked - 1 /\ stock' = stock
UnitEffect == Kept \/ \E b \in Bookings : Grown(b) \/ Shrunk(b)

\* One booking changes: the others hold what they held.
LEMMA OneBookingHolds ==
  ASSUME TypeOK, NEW b \in Bookings, NEW s \in LocalStatuses, NEW r \in Rooms \cup {NoRoom},
         status' = [status EXCEPT ![b] = s], room' = [room EXCEPT ![b] = r]
  PROVE  Holders' = IF CountsUnit(r) /\ s \in {"PAYMENT_PENDING", "CONFIRMED"}
                    THEN Holders \cup {b} ELSE Holders \ {b}
<1>1. \A c \in Bookings : c # b => (c \in Holders' <=> c \in Holders)
  BY DEF TypeOK, Holders
<1>2. b \in Holders' <=> CountsUnit(r) /\ s \in {"PAYMENT_PENDING", "CONFIRMED"}
  BY DEF TypeOK, Holders, LocalStatuses
<1> QED
  BY <1>1, <1>2 DEF Holders

LEMMA LocalCreate ==
  ASSUME ~ClockConnected, LocalInv, NEW b \in Bookings, Create(b)
  PROVE  UnitEffect /\ \E s \in LocalStatuses : SetStatus(b, s)
<1>1. TypeOK /\ stock \in 0 .. MaxStock /\ booked \in 0 .. MaxStock
  BY DEF LocalInv, TypeInv, TypeOK
<1>2. ASSUME NEW r \in Rooms \cup {NoRoom}, NEW s \in {"PAYMENT_PENDING", "CONFIRMED"},
             status[b] = "NONE", room' = [room EXCEPT ![b] = r],
             CanReserve(r), Take(r), SetStatus(b, s), UNCHANGED stock
      PROVE  UnitEffect
  <2>1. b \notin Holders /\ s \in LocalStatuses
    BY <1>2 DEF Holders, LocalStatuses
  <2>2. CASE CountsUnit(r)
    <3>1. booked < stock /\ booked' = booked + 1
      BY <1>2, <2>2 DEF CanReserve, Take, CountsUnit
    <3> QED
      BY <1>1, <1>2, <2>1, <2>2, <3>1, OneBookingHolds DEF SetStatus, UnitEffect, Grown
  <2>3. CASE ~CountsUnit(r)
    <3>1. Holders' = Holders \ {b}
      BY <1>1, <1>2, <2>1, <2>3, OneBookingHolds DEF SetStatus
    <3>2. Holders' = Holders /\ booked' = booked
      BY <1>2, <2>1, <2>3, <3>1 DEF Take
    <3> QED
      BY <1>2, <3>2 DEF UnitEffect, Kept
  <2> QED
    BY <2>2, <2>3
<1>3. ASSUME NEW m \in Methods, NEW r \in Rooms \cup {NoRoom}, CreateUnavailable(b, m, r)
      PROVE  UnitEffect /\ \E s \in LocalStatuses : SetStatus(b, s)
  <2>1. /\ status[b] = "NONE" /\ room' = [room EXCEPT ![b] = r] /\ booked' = booked
        /\ stock' = stock /\ SetStatus(b, "AVAILABILITY_FAILED")
        /\ "AVAILABILITY_FAILED" \in LocalStatuses
    BY <1>3 DEF CreateUnavailable, Fill, LocalStatuses
  <2>2. Holders' = Holders \ {b} /\ b \notin Holders
    BY <1>1, <2>1, OneBookingHolds DEF SetStatus, Holders
  <2> QED
    BY <2>1, <2>2 DEF UnitEffect, Kept
<1>4. ASSUME NEW m \in Methods, NEW r \in Rooms \cup {NoRoom}, CreateOnline(b, m, r)
      PROVE  UnitEffect /\ \E s \in LocalStatuses : SetStatus(b, s)
  BY <1>2, <1>4 DEF CreateOnline, Fill, LocalStatuses
<1>5. ASSUME NEW r \in Rooms \cup {NoRoom}, CreatePayAtHotel(b, r)
      PROVE  UnitEffect /\ \E s \in LocalStatuses : SetStatus(b, s)
  <2>1. SetStatus(b, "CONFIRMED")
    BY <1>5 DEF CreatePayAtHotel, Commit, ConfirmedLocally
  <2> QED
    BY <1>2, <1>5, <2>1 DEF CreatePayAtHotel, Fill, LocalStatuses
<1> QED
  BY <1>3, <1>4, <1>5 DEF Create

\* A payment confirms a pending booking, which keeps its unit.
LEMMA LocalPayment ==
  ASSUME ~ClockConnected, LocalInv, NEW b \in Bookings, UNCHANGED <<room, units>>,
         \/ UNCHANGED status
         \/ \E o \in ContinueOutcomes(b) : Commit(b, o) \/ Undo(b, o)
  PROVE  /\ UnitEffect
         /\ UNCHANGED status \/ \E s \in LocalStatuses : SetStatus(b, s)
<1>1. CASE UNCHANGED status
  BY <1>1 DEF UnitEffect, Kept, Holders, units
<1>2. ASSUME NEW o \in ContinueOutcomes(b), Commit(b, o)
      PROVE  /\ UnitEffect
             /\ \E s \in LocalStatuses : SetStatus(b, s)
  <2>1. status[b] = "PAYMENT_PENDING" /\ SetStatus(b, "CONFIRMED")
    BY <1>2 DEF ContinueOutcomes, Commit, ConfirmedLocally, LocalInv, LocalStatuses
  <2>2. TypeOK /\ "CONFIRMED" \in LocalStatuses /\ room[b] \in Rooms \cup {NoRoom}
        /\ room' = [room EXCEPT ![b] = room[b]]
    BY DEF LocalInv, TypeInv, TypeOK, LocalStatuses
  <2>3. Holders' = IF CountsUnit(room[b]) THEN Holders \cup {b} ELSE Holders \ {b}
    BY <2>1, <2>2, OneBookingHolds DEF SetStatus
  <2>4. b \in Holders <=> CountsUnit(room[b])
    BY <2>1 DEF Holders
  <2> QED
    BY <2>1, <2>2, <2>3, <2>4 DEF UnitEffect, Kept, units
<1>3. ASSUME NEW o \in ContinueOutcomes(b), Undo(b, o)
      PROVE  UNCHANGED status
  BY <1>3 DEF Undo
<1> QED
  BY <1>1, <1>2, <1>3

\* An ending gives the unit back, once.
LEMMA LocalEnd ==
  ASSUME ~ClockConnected, LocalInv, NEW b \in Bookings, Expire(b) \/ Cancel(b)
  PROVE  UnitEffect /\ \E s \in LocalStatuses : SetStatus(b, s)
<1>1. TypeOK /\ room[b] \in Rooms \cup {NoRoom} /\ room' = [room EXCEPT ![b] = room[b]]
      /\ booked \in 0 .. MaxStock /\ stock' = stock
  BY DEF LocalInv, TypeInv, TypeOK, Expire, Cancel
<1>2. status[b] \in {"PAYMENT_PENDING", "CONFIRMED"} /\ GiveBack(b)
  BY DEF LocalInv, LocalStatuses, Expire, Cancel, Cancellable, ReleaseAtCancel
<1>3. PICK s \in {"EXPIRED", "CANCELLED"} : SetStatus(b, s)
  BY DEF Expire, Cancel
<1>4. s \in LocalStatuses /\ Holders' = Holders \ {b}
  BY <1>1, <1>3, OneBookingHolds DEF SetStatus, LocalStatuses
<1>5. b \in Holders <=> CountsUnit(room[b])
  BY <1>2 DEF Holders
<1>6. CASE CountsUnit(room[b])
  <2>1. b \in Holders /\ booked' = booked - 1
    BY <1>2, <1>5, <1>6 DEF GiveBack
  <2> QED
    BY <1>1, <1>3, <1>4, <2>1 DEF UnitEffect, Shrunk
<1>7. CASE ~CountsUnit(room[b])
  <2>1. Holders' = Holders /\ booked' = booked
    BY <1>2, <1>4, <1>5, <1>7 DEF GiveBack
  <2> QED
    BY <1>1, <1>3, <1>4, <2>1 DEF UnitEffect, Kept
<1> QED
  BY <1>6, <1>7

LEMMA LocalStep ==
  ASSUME ~ClockConnected, LocalInv, [Next]_vars
  PROVE  UnitEffect /\ LocalInv'
<1>1. TypeInv' /\ status \in [Bookings -> Statuses]
  BY TypeStep DEF LocalInv, TypeInv, TypeOK
<1>2. ASSUME NEW b \in Bookings, UNCHANGED status \/ \E s \in LocalStatuses : SetStatus(b, s)
      PROVE  LocalInv'
  BY <1>1, <1>2 DEF LocalInv, SetStatus
<1>3. ASSUME NEW b \in Bookings, Booking(b)
      PROVE  /\ UnitEffect
             /\ UNCHANGED status \/ \E s \in LocalStatuses : SetStatus(b, s)
  <2>1. CASE Create(b)
    BY <2>1, LocalCreate
  <2>2. CASE \E i \in Orders : Order(b, i)
    <3> PICK i \in Orders : Order(b, i)
      BY <2>2
    <3>1. /\ UNCHANGED <<room, units>>
          /\ \/ UNCHANGED status
             \/ \E o \in ContinueOutcomes(b) : Commit(b, o) \/ Undo(b, o)
      BY DEF Order, PayOrder, Resend, StripeConfirm, StripeLate, PokPayOrder, RefundStuck
    <3> QED
      BY <3>1, LocalPayment
  <2>3. CASE ManualPayment(b)
    <3>1. /\ UNCHANGED <<room, units>>
          /\ \/ UNCHANGED status
             \/ \E o \in ContinueOutcomes(b) : Commit(b, o) \/ Undo(b, o)
      BY <2>3 DEF ManualPayment, PostDeposit
    <3> QED
      BY <3>1, LocalPayment
  <2>4. CASE Expire(b) \/ Cancel(b)
    BY <2>4, LocalEnd
  <2>5. CASE TimePasses(b)
    BY <2>5, LocalPayment DEF TimePasses
  <2>6. ~AttachLost(b) /\ ~CancelLost(b) /\ ~ClockCancels(b) /\ ~ReviewLink(b) /\ ~ReviewReject(b)
        /\ ~MirrorLink(b) /\ ~Mirror(b)
    BY DEF AttachLost, CancelLost, ClockCancels, ReviewLink, ReviewReject, MirrorLink, Mirror
  <2> QED
    BY <1>3, <2>1, <2>2, <2>3, <2>4, <2>5, <2>6 DEF Booking
<1>4. CASE \E b \in Bookings : Booking(b)
  BY <1>2, <1>3, <1>4
<1>5. CASE \E n \in 0 .. MaxStock : SetStock(n)
  BY <1>1, <1>5 DEF LocalInv, SetStock, UnitEffect, Kept, Holders
<1>6. CASE UNCHANGED vars
  BY <1>1, <1>6 DEF LocalInv, vars, units, UnitEffect, Kept, Holders
<1> QED
  BY <1>4, <1>5, <1>6 DEF Next

LEMMA LocalInit == Init => LocalInv /\ Holders = {} /\ booked = 0
<1> SUFFICES ASSUME Init PROVE LocalInv /\ Holders = {} /\ booked = 0
  OBVIOUS
<1>1. TypeInv
  BY TypeInit
<1> QED
  BY <1>1 DEF Init, LocalInv, LocalStatuses, Holders

\* The counter is exactly the number of bookings that hold a unit.
UnitsMatchHolds == booked = Cardinality(Holders)

\* The counter counts the holders.  They are finitely many whatever Bookings
\* is, because a step adds at most one.
Exact == LocalInv /\ IsFiniteSet(Holders) /\ UnitsMatchHolds

LEMMA ExactInit == Init => Exact
  BY LocalInit, FS_EmptySet DEF Exact, UnitsMatchHolds

LEMMA ExactStep ==
  ASSUME ~ClockConnected, Exact, [Next]_vars
  PROVE  Exact'
<1>1. LocalInv' /\ UnitEffect /\ IsFiniteSet(Holders) /\ booked = Cardinality(Holders)
  BY LocalStep DEF Exact, UnitsMatchHolds
<1>2. CASE Kept
  BY <1>1, <1>2 DEF Kept, Exact, UnitsMatchHolds
<1>3. ASSUME NEW b \in Bookings, Grown(b) PROVE Exact'
  <2>1. /\ IsFiniteSet(Holders \cup {b})
        /\ Cardinality(Holders \cup {b}) = Cardinality(Holders) + 1
    BY <1>1, <1>3, FS_AddElement DEF Grown
  <2> QED
    BY <1>1, <1>3, <2>1 DEF Grown, Exact, UnitsMatchHolds
<1>4. ASSUME NEW b \in Bookings, Shrunk(b) PROVE Exact'
  <2>1. /\ IsFiniteSet(Holders \ {b})
        /\ Cardinality(Holders \ {b}) = Cardinality(Holders) - 1
    BY <1>1, <1>4, FS_RemoveElement DEF Shrunk
  <2> QED
    BY <1>1, <1>4, <2>1 DEF Shrunk, Exact, UnitsMatchHolds
<1> QED
  BY <1>1, <1>2, <1>3, <1>4 DEF UnitEffect

LEMMA ExactAlways ==
  ASSUME ~ClockConnected PROVE Spec => []Exact
<1>1. Exact /\ [Next]_vars => Exact'
  BY ExactStep
<1> QED
  BY <1>1, ExactInit, PTL DEF Spec

\* In a hotel without Clock booked_units is exactly the number of bookings
\* that hold a unit, however reservations, expiries and cancellations
\* interleave (reserveBookedUnits, releaseBookedUnits).
THEOREM UnitsAreExact ==
  ASSUME ~ClockConnected PROVE Spec => []UnitsMatchHolds
<1>1. Exact => UnitsMatchHolds
  BY DEF Exact
<1> QED
  BY <1>1, ExactAlways, PTL

\* In a hotel without Clock the sold/held counter implements UnitHolds: it is
\* exact, no unit is sold twice, none is lost, and the stock never drops below
\* the units in use (ADR-0013).
THEOREM UnitsRefine ==
  ASSUME ~ClockConnected PROVE Spec => ImplementsUnitHolds
<1>0. \A S : /\ Holds!Cardinality(S) = Cardinality(S)
             /\ Holds!IsFiniteSet(S) <=> IsFiniteSet(S)
  BY Zenon DEF Cardinality, Holds!Cardinality, IsFiniteSet, Holds!IsFiniteSet
<1>1. Init => Holds!Init
  <2> SUFFICES ASSUME Init PROVE Holds!Init
    OBVIOUS
  <2>1. Holders = {} /\ booked = 0 /\ stock \in 0 .. MaxStock
    BY LocalInit DEF LocalInv, TypeInv, TypeOK
  <2>2. IsFiniteSet({}) /\ Cardinality({}) = 0
    BY FS_EmptySet
  <2> QED
    BY <1>0, <2>1, <2>2 DEF Holds!Init
<1>2. Exact /\ [Next]_vars => [Holds!Next]_Holds!vars
  <2> SUFFICES ASSUME Exact, [Next]_vars PROVE [Holds!Next]_Holds!vars
    OBVIOUS
  <2>1. UnitEffect /\ booked \in Nat
    BY LocalStep, BookingLifecycleAssumption DEF Exact, LocalInv, TypeInv, TypeOK
  <2>2. \A b : IsFiniteSet({b}) /\ Cardinality({b}) = 1
    BY FS_Singleton
  <2>3. CASE Kept
    BY <2>1, <2>3 DEF Kept, Holds!Next, Holds!Resize, Holds!vars
  <2>4. ASSUME NEW b \in Bookings, Grown(b) PROVE Holds!Next
    <3>1. booked + 1 <= stock
      BY <2>1, <2>4 DEF Grown, Exact, LocalInv, TypeInv, TypeOK
    <3>2. Holds!Acquire({b})
      BY <1>0, <2>2, <2>4, <3>1 DEF Grown, Holds!Acquire
    <3> QED
      BY <3>2 DEF Holds!Next
  <2>5. ASSUME NEW b \in Bookings, Shrunk(b) PROVE Holds!Next
    <3>1. Holds!Release({b})
      BY <1>0, <2>2, <2>5 DEF Shrunk, Holds!Release
    <3> QED
      BY <3>1 DEF Holds!Next
  <2> QED
    BY <2>1, <2>3, <2>4, <2>5 DEF UnitEffect
<1> QED
  BY <1>1, <1>2, ExactAlways, PTL DEF Spec, ImplementsUnitHolds, Holds!Spec

-----------------------------------------------------------------------------
(***************************************************************************)
(* Rooms, in any hotel.                                                    *)
(***************************************************************************)
\* Nobody changes rooms or begins to occupy one.
NobodyEnters ==
  /\ room' = room
  /\ \A e \in Bookings : status'[e] \in Occupying => status[e] \in Occupying

\* Only a creation and the mirror bring a booking into a room: a payment or a
\* review finds it there, an ending takes it out.
LEMMA OthersEnterNoRoom ==
  ASSUME TypeOK, NEW d \in Bookings, Booking(d), ~Create(d), ~Mirror(d)
  PROVE  NobodyEnters
<1>1. status \in [Bookings -> Statuses]
  BY DEF TypeOK
<1>2. ASSUME NEW s, SetStatus(d, s), room' = room,
             s \in Occupying => status[d] \in Occupying
      PROVE  NobodyEnters
  BY <1>1, <1>2 DEF SetStatus, NobodyEnters
<1>3. ASSUME NEW o \in ContinueOutcomes(d), Commit(d, o), room' = room
      PROVE  NobodyEnters
  BY <1>2, <1>3, Zenon DEF ContinueOutcomes, Commit, Occupying
<1>4. ASSUME status' = status, room' = room PROVE NobodyEnters
  BY <1>4 DEF NobodyEnters
<1>5. \A o : Undo(d, o) => status' = status
  BY DEF Undo
<1>6. ASSUME NEW i \in Orders, Order(d, i) PROVE NobodyEnters
  BY <1>3, <1>4, <1>5, <1>6
     DEF Order, PayOrder, Resend, StripeConfirm, StripeLate, PokPayOrder, RefundStuck
<1>7. CASE ManualPayment(d)
  BY <1>3, <1>4, <1>7 DEF ManualPayment, PostDeposit
<1>8. CASE Expire(d) \/ Cancel(d) \/ ReviewReject(d)
  BY <1>2, <1>8 DEF Expire, Cancel, ReviewReject, Occupying
<1>9. CASE AttachLost(d) \/ TimePasses(d) \/ CancelLost(d) \/ ClockCancels(d)
           \/ ReviewLink(d) \/ MirrorLink(d)
  BY <1>4, <1>9 DEF AttachLost, TimePasses, CancelLost, ClockCancels, ReviewLink, MirrorLink
<1> QED
  BY <1>6, <1>7, <1>8, <1>9 DEF Booking

\* A creation takes the room that CanReserve found free, or occupies none.
LEMMA CreateTakesFreeRoom ==
  ASSUME NEW d \in Bookings, Create(d)
  PROVE  \E r \in Rooms \cup {NoRoom} : \E s :
           /\ room' = [room EXCEPT ![d] = r] /\ SetStatus(d, s)
           /\ s \in Occupying => CanReserve(r)
<1>1. CASE \E m \in Methods, r \in Rooms \cup {NoRoom} :
             CreateUnavailable(d, m, r) \/ CreateOnline(d, m, r)
  BY <1>1 DEF CreateUnavailable, CreateOnline, Fill, Occupying
<1>2. CASE \E r \in Rooms \cup {NoRoom} : CreatePayAtHotel(d, r)
  <2>1. PICK r \in Rooms \cup {NoRoom} : \E o :
          /\ room' = [room EXCEPT ![d] = r] /\ CanReserve(r) /\ Commit(d, o)
    BY <1>2, Zenon DEF CreatePayAtHotel, Fill
  <2>2. \E s : SetStatus(d, s)
    BY <2>1 DEF Commit
  <2> QED
    BY <2>1, <2>2
<1> QED
  BY <1>1, <1>2 DEF Create

LEMMA RoomStep ==
  ASSUME TypeOK, [Next]_vars, NEW b \in Bookings, NEW c \in Bookings,
         b # c, SharedRoom(b, c)', ~SharedRoom(b, c)
  PROVE  \E d \in {b, c} :
           /\ link[d] # "none" /\ status'[d] \in {status[d], ReservationStatus(d)}
           /\ UNCHANGED <<money, clock, units>>
<1>1. /\ status \in [Bookings -> Statuses] /\ room \in [Bookings -> Rooms \cup {NoRoom}]
  BY DEF TypeOK
<1>2. ~NobodyEnters
  BY DEF NobodyEnters, SharedRoom
<1>3. ~(UNCHANGED vars) /\ ~(\E n \in 0 .. MaxStock : SetStock(n))
  BY <1>2 DEF vars, SetStock, NobodyEnters
<1>4. PICK d \in Bookings : Create(d) \/ Mirror(d)
  BY <1>2, <1>3, OthersEnterNoRoom DEF Next
<1>5. ~Create(d)
  <2> SUFFICES ASSUME Create(d) PROVE FALSE
    OBVIOUS
  <2>1. PICK r \in Rooms \cup {NoRoom} : \E s :
          /\ room' = [room EXCEPT ![d] = r] /\ SetStatus(d, s)
          /\ s \in Occupying => CanReserve(r)
    BY CreateTakesFreeRoom
  <2>2. PICK s : SetStatus(d, s) /\ (s \in Occupying => CanReserve(r))
    BY <2>1
  <2>3. /\ room'[d] = r /\ status'[d] = s
        /\ \A e \in Bookings : e # d => room'[e] = room[e] /\ status'[e] = status[e]
    BY <1>1, <2>1, <2>2 DEF SetStatus
  <2>4. r # NoRoom /\ s \in Occupying
        => \A e \in Bookings : room[e] = r => status[e] \notin Occupying
    BY <2>2 DEF CanReserve
  <2> QED
    BY <2>3, <2>4 DEF SharedRoom
<1>6. Mirror(d)
  BY <1>4, <1>5
<1>7. /\ status'[d] \in {status[d], ReservationStatus(d)} /\ link[d] # "none"
      /\ UNCHANGED <<money, clock, units>>
      /\ \A e \in Bookings : e # d => room'[e] = room[e] /\ status'[e] = status[e]
  <2>1. PICK r \in Rooms \cup {NoRoom} : room' = [room EXCEPT ![d] = r]
    BY <1>6 DEF Mirror
  <2>2. SetStatus(d, ReservationStatus(d)) \/ UNCHANGED status
    BY <1>6 DEF Mirror
  <2>3. link[d] # "none" /\ UNCHANGED <<money, clock, units>>
    BY <1>6 DEF Mirror
  <2> QED
    BY <1>1, <2>1, <2>2, <2>3 DEF SetStatus
<1>8. d \in {b, c}
  BY <1>7 DEF SharedRoom
<1> QED
  BY <1>7, <1>8

\* In any hotel MUST puts nobody into an occupied room: bookings come to share
\* one only where the copy of a linked booking's reservation puts them, which
\* changes nothing but that booking's room and status (roomIsAvailable under
\* the property's lock).
THEOREM NobodyPutIntoOccupiedRoom == Spec => RoomSharedOnlyByClock
<1>1. TypeInv /\ [Next]_vars
      => [\A b, c \in Bookings :
            b # c /\ SharedRoom(b, c)' /\ ~SharedRoom(b, c)
            => \E d \in {b, c} :
                 /\ link[d] # "none" /\ status'[d] \in {status[d], ReservationStatus(d)}
                 /\ UNCHANGED <<money, clock, units>>]_vars
  BY RoomStep DEF TypeInv
<1>2. Spec => []TypeInv
  BY TypeInvariant
<1> QED
  BY <1>1, <1>2, PTL DEF Spec, RoomSharedOnlyByClock
=============================================================================
