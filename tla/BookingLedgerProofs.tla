------------------------ MODULE BookingLedgerProofs ------------------------
(***************************************************************************)
(* Proofs about the payments and endings of BookingLifecycle, in hotels    *)
(* with and without Clock and for every number of bookings, orders and     *)
(* reservations: a booking is paid once, what is paid is not released as   *)
(* unpaid, money recorded as late has been refunded, an uncertain booking  *)
(* has its review item, a confirmed one its reservation or its money, and  *)
(* only Clock revives an ended one.                                        *)
(***************************************************************************)
EXTENDS BookingLifecycleProofs

\* The booking has not passed payment.
Unpaid(b) == status[b] \in {"NONE", "PAYMENT_PENDING", "EXPIRED"}

\* The ledger of a booking.  That a paid booking has left the unpaid statuses
\* is what makes a second recording impossible; that a late row, and the answered
\* refund attempt it may be recorded from, belong to a Stripe booking is what
\* keeps PokPay from resuming on it; and a payment that Clock's bill missed left
\* a trace before a second one can be taken.
Ledger(b) ==
  /\ PaidOrders(b) # {} \/ manual[b] => ~Unpaid(b)
  /\ ClockConnected /\ PaidOrders(b) # {} => billed[b] \/ review[b] \/ attachFailed[b]
  /\ manual[b] /\ PaidOrders(b) # {} => link[b] # "none" /\ (review[b] \/ attachFailed[b])
  /\ \A i, j \in PaidOrders(b) : i = j
  /\ \A i \in Orders : ledger[b][i] = "LATE_AFTER_EXPIRY" \/ attempt[b][i] = "returned" =>
       method[b] = "STRIPE_CHECKOUT" /\ status[b] # "NONE" /\ orders[b][i] = "refunded"

LedgerInv == TypeOK /\ \A b \in Bookings : Ledger(b)

\* What a booking has of Clock is not forgotten: a link, a bill, a review item
\* and a failed attach stay.
Remembers(b) ==
  /\ link[b] # "none" => link'[b] # "none"
  /\ billed[b] => billed'[b]
  /\ review[b] => review'[b]
  /\ attachFailed[b] => attachFailed'[b]

\* The payments and the status of the booking are unchanged.
Same(b) ==
  /\ status'[b] = status[b] /\ method'[b] = method[b]
  /\ ledger'[b] = ledger[b] /\ manual'[b] = manual[b]
  /\ attempt'[b] = attempt[b] /\ orders'[b] = orders[b]

LEMMA SameLedger ==
  ASSUME NEW b \in Bookings, Ledger(b), Same(b), Remembers(b) PROVE Ledger(b)'
  BY DEF Ledger, Same, Remembers, PaidOrders, Unpaid

\* An attach or a local confirmation leaves a status past payment, forgets
\* nothing, and in a Clock hotel bills the payment or leaves a trace.
LEMMA OutcomeFacts ==
  ASSUME TypeOK, NEW b \in Bookings,
         NEW o \in AttachOutcomes(b) \cup {ConfirmedLocally(b)}
  PROVE  /\ o.status \notin {"NONE", "PAYMENT_PENDING", "EXPIRED"}
         /\ link[b] # "none" => o.link # "none"
         /\ billed[b] => o.billed
         /\ review[b] => o.review
  BY DEF AttachOutcomes, Attached, Failed, ConfirmedLocally

LEMMA ContinueFacts ==
  ASSUME TypeOK, NEW b \in Bookings, NEW o \in ContinueOutcomes(b)
  PROVE  /\ o.status \notin {"NONE", "PAYMENT_PENDING", "EXPIRED"}
         /\ link[b] # "none" => o.link # "none"
         /\ billed[b] => o.billed
         /\ review[b] => o.review
         /\ ClockConnected => o.billed \/ o.review \/ ~o.ok
<1>1. PICK a \in AttachOutcomes(b) \cup {ConfirmedLocally(b)} :
        /\ a \in OutcomeTypes
        /\ o = a \/ (ClockConnected /\ a.ok /\ o \in Deposited(a))
        /\ ClockConnected /\ a.ok => o \in Deposited(a)
  BY ContinueType
<1>2. /\ a.status \notin {"NONE", "PAYMENT_PENDING", "EXPIRED"}
      /\ link[b] # "none" => a.link # "none"
      /\ billed[b] => a.billed
      /\ review[b] => a.review
  BY OutcomeFacts
<1>3. CASE o \in Deposited(a)
  BY <1>1, <1>2, <1>3, DepositType
<1>4. CASE o \notin Deposited(a)
  BY <1>1, <1>2, <1>4
<1> QED
  BY <1>3, <1>4

\* No step forgets, about any booking.
LEMMA Memory ==
  ASSUME TypeOK, NEW c \in Bookings, Booking(c), NEW b \in Bookings
  PROVE  Remembers(b)
<1>1. /\ link \in [Bookings -> Links] /\ billed \in [Bookings -> BOOLEAN]
      /\ review \in [Bookings -> BOOLEAN] /\ attachFailed \in [Bookings -> BOOLEAN]
  BY DEF TypeOK
<1>2. CASE UNCHANGED <<link, billed, review, attachFailed>>
  BY <1>2 DEF Remembers
<1>3. ASSUME NEW o \in AttachOutcomes(c) \cup {ConfirmedLocally(c)} \cup ContinueOutcomes(c),
             Commit(c, o) \/ Undo(c, o)
      PROVE  Remembers(b)
  <2>1. /\ link[c] # "none" => o.link # "none"
        /\ billed[c] => o.billed
        /\ review[c] => o.review
    BY OutcomeFacts, ContinueFacts
  <2>2. CASE Commit(c, o)
    BY <1>1, <2>1, <2>2 DEF Commit, Remembers
  <2>3. CASE Undo(c, o)
    BY <1>1, <2>3 DEF Undo, Remembers
  <2> QED
    BY <1>3, <2>2, <2>3
<1>4. CASE Create(c)
  BY <1>2, <1>3, <1>4
     DEF Create, CreateUnavailable, CreateOnline, CreatePayAtHotel, clock
<1>5. ASSUME NEW i \in Orders, Order(c, i) PROVE Remembers(b)
  <2>1. CASE RefundStuck(c, i)
    BY <1>1, <2>1 DEF RefundStuck, Remembers
  <2> QED
    BY <1>2, <1>3, <1>5, <2>1
       DEF Order, PayOrder, Resend, StripeConfirm, StripeLate, PokPayOrder, clock
<1>6. CASE ManualPayment(c)
  <2>1. ASSUME link[c] # "none", NEW o \in Deposited(Attached(c, live[c])),
               billed' = [billed EXCEPT ![c] = o.billed],
               review' = [review EXCEPT ![c] = o.review],
               UNCHANGED <<link, attachFailed>>
        PROVE  Remembers(b)
    <3>1. Attached(c, live[c]) \in OutcomeTypes
      BY <2>1, OutcomeType DEF AttachOutcomes
    <3>2. (billed[c] => o.billed) /\ (review[c] => o.review)
      BY <3>1, DepositType DEF Attached
    <3> QED
      BY <1>1, <2>1, <3>2 DEF Remembers
  <2> QED
    BY <1>2, <1>3, <1>6, <2>1 DEF ManualPayment, PostDeposit
<1>7. CASE AttachLost(c)
  BY <1>1, <1>7 DEF AttachLost, Remembers
<1>8. CASE Cancel(c) \/ CancelLost(c) \/ ClockCancels(c)
  <2>1. UNCHANGED <<billed, attachFailed>> /\ (Withdraw(c) \/ UNCHANGED <<link, live>>)
    BY <1>8 DEF Cancel, CancelLost, ClockCancels
  <2>2. link[b] # "none" => link'[b] # "none"
    BY <1>1, <2>1 DEF Withdraw
  <2>3. review[b] => review'[b]
    BY <1>1, <1>8 DEF Cancel, CancelRefund, CancelLost, ClockCancels
  <2> QED
    BY <2>1, <2>2, <2>3 DEF Remembers
<1>9. CASE ReviewLink(c) \/ MirrorLink(c)
  BY <1>1, <1>9 DEF ReviewLink, MirrorLink, Remembers
<1>10. CASE TimePasses(c) \/ Expire(c) \/ ReviewReject(c) \/ Mirror(c)
  BY <1>2, <1>10 DEF TimePasses, Expire, ReviewReject, Mirror, clock
<1> QED
  BY <1>4, <1>5, <1>6, <1>7, <1>8, <1>9, <1>10 DEF Booking

\* A step of booking c touches the ledger, orders and status of c only.
LEMMA Frame ==
  ASSUME TypeOK, NEW c \in Bookings, Booking(c), NEW b \in Bookings, b # c
  PROVE  Same(b)
<1>1. /\ \A s : SetStatus(c, s) => status'[b] = status[b]
      /\ \A o : Commit(c, o) => status'[b] = status[b]
      /\ \A o : Undo(c, o) => status'[b] = status[b]
      /\ \A i, s : Record(c, i, s) => ledger'[b] = ledger[b]
  BY DEF TypeOK, SetStatus, Commit, Undo, Record
<1>2. ASSUME NEW m, NEW r, Fill(c, m, r)
      PROVE  /\ method'[b] = method[b] /\ ledger'[b] = ledger[b]
             /\ manual'[b] = manual[b] /\ attempt'[b] = attempt[b]
  BY <1>2 DEF TypeOK, Fill
<1>3. CASE Create(c)
  <2>1. ASSUME NEW m, NEW r, CreateUnavailable(c, m, r) PROVE Same(b)
    BY <1>1, <1>2, <2>1 DEF CreateUnavailable, Same
  <2>2. ASSUME NEW m, NEW r, CreateOnline(c, m, r) PROVE Same(b)
    BY <1>1, <1>2, <2>2 DEF TypeOK, CreateOnline, Same
  <2>3. ASSUME NEW r, CreatePayAtHotel(c, r) PROVE Same(b)
    BY <1>1, <1>2, <2>3 DEF CreatePayAtHotel, Same
  <2> QED
    BY <1>3, <2>1, <2>2, <2>3 DEF Create
<1>4. ASSUME NEW i \in Orders, Order(c, i) PROVE Same(b)
  <2>1. CASE PayOrder(c, i) \/ Resend(c, i)
    BY <2>1 DEF TypeOK, PayOrder, Resend, Same
  <2>2. CASE StripeConfirm(c, i)
    BY <1>1, <2>2 DEF StripeConfirm, Same
  <2>3. CASE StripeLate(c, i)
    BY <1>1, <2>3 DEF TypeOK, StripeLate, GatewayRefund, Same
  <2>4. CASE PokPayOrder(c, i)
    BY <1>1, <2>4 DEF PokPayOrder, Same
  <2>5. CASE RefundStuck(c, i)
    BY <2>5 DEF RefundStuck, money, Same
  <2> QED
    BY <1>4, <2>1, <2>2, <2>3, <2>4, <2>5 DEF Order
<1>5. CASE ManualPayment(c)
  BY <1>1, <1>5 DEF TypeOK, ManualPayment, PostDeposit, Same
<1>6. CASE Expire(c)
  BY <1>1, <1>6 DEF Expire, money, Same
<1>7. CASE Cancel(c)
  <2>1. orders'[b] = orders[b]
    BY <1>7 DEF TypeOK, Cancel, CancelRefund
  <2> QED
    BY <1>1, <1>7, <2>1 DEF Cancel, Same
<1>8. CASE ReviewReject(c) \/ Mirror(c)
  BY <1>1, <1>8 DEF ReviewReject, Mirror, money, Same
<1>9. CASE \/ AttachLost(c) \/ TimePasses(c) \/ CancelLost(c) \/ ClockCancels(c)
           \/ ReviewLink(c) \/ MirrorLink(c)
  BY <1>9
     DEF AttachLost, TimePasses, CancelLost, ClockCancels, ReviewLink, MirrorLink, money, Same
<1> QED
  BY <1>3, <1>4, <1>5, <1>6, <1>7, <1>8, <1>9 DEF Booking

\* A confirmation records the one order it is made for.
LEMMA LedgerRecord ==
  ASSUME TypeOK, NEW b \in Bookings, NEW i \in Orders, Ledger(b), Remembers(b),
         PaidOrders(b) \subseteq {i}, manual[b] => PaidOrders(b) # {},
         NEW o \in ContinueOutcomes(b), Commit(b, o),
         Record(b, i, "PAID"), UNCHANGED <<method, manual, attempt, orders>>
  PROVE  Ledger(b)'
<1>1. ledger'[b] = [ledger[b] EXCEPT ![i] = "PAID"]
  BY DEF TypeOK, Record
<1>2. PaidOrders(b)' = {i}
  BY <1>1 DEF PaidOrders, TypeOK
<1>3. status'[b] \notin {"NONE", "PAYMENT_PENDING", "EXPIRED"}
  BY ContinueFacts DEF Commit, SetStatus, TypeOK
<1>4. \A j \in Orders : ledger'[b][j] = "LATE_AFTER_EXPIRY" => ledger[b][j] = "LATE_AFTER_EXPIRY"
  BY <1>1 DEF TypeOK
<1>5. ClockConnected => billed'[b] \/ review'[b] \/ attachFailed'[b]
  BY ContinueFacts DEF Commit, TypeOK
<1>6. manual'[b] => link'[b] # "none" /\ (review'[b] \/ attachFailed'[b])
  BY DEF Ledger, Remembers
<1> QED
  BY <1>2, <1>3, <1>4, <1>5, <1>6 DEF Ledger, Unpaid

\* A change of status that leaves the payments alone keeps the ledger if it
\* does not turn a booking past payment into an unpaid one or no one at all.
LEMMA LedgerStatus ==
  ASSUME NEW b \in Bookings, Ledger(b), Remembers(b), UNCHANGED <<method, ledger, manual, attempt>>,
         \A i \in Orders : orders[b][i] = "refunded" => orders'[b][i] = "refunded",
         Unpaid(b)' => Unpaid(b), status[b] # "NONE" => status'[b] # "NONE"
  PROVE  Ledger(b)'
  BY DEF Ledger, Remembers, PaidOrders

LEMMA LedgerCreate ==
  ASSUME TypeOK, NEW b \in Bookings, Ledger(b), Create(b) PROVE Ledger(b)'
<1>1. /\ status[b] = "NONE" /\ ledger' = ledger /\ manual' = manual
      /\ PaidOrders(b) = {} /\ ~manual[b]
      /\ attempt' = attempt
      /\ \A i \in Orders : ledger[b][i] # "LATE_AFTER_EXPIRY" /\ attempt[b][i] # "returned"
  BY DEF Create, CreateUnavailable, CreateOnline, CreatePayAtHotel, Fill, Ledger, Unpaid
<1> QED
  BY <1>1 DEF Ledger, PaidOrders

LEMMA LedgerOrder ==
  ASSUME TypeOK, NEW b \in Bookings, NEW i \in Orders, Ledger(b), Remembers(b), Order(b, i)
  PROVE  Ledger(b)'
<1>1. CASE PayOrder(b, i) \/ Resend(b, i)
  <2>1. \A j \in Orders : orders[b][j] = "refunded" => orders'[b][j] = "refunded"
    BY <1>1 DEF TypeOK, PayOrder, Resend
  <2>2. UNCHANGED <<status, method, ledger, manual, attempt>>
    BY <1>1 DEF PayOrder, Resend
  <2> QED
    BY <2>1, <2>2, LedgerStatus DEF Unpaid
<1>2. CASE StripeConfirm(b, i)
  <2>1. PICK o \in ContinueOutcomes(b) :
          IF o.ok THEN Commit(b, o) /\ Record(b, i, "PAID")
                  ELSE Undo(b, o) /\ UNCHANGED ledger
    BY <1>2 DEF StripeConfirm
  <2>2. PaidOrders(b) = {} /\ ~manual[b] /\ UNCHANGED <<method, manual, attempt, orders>>
    BY <1>2 DEF StripeConfirm, Ledger, Unpaid
  <2>3. CASE o.ok
    BY <2>1, <2>2, <2>3, LedgerRecord
  <2>4. CASE ~o.ok
    BY <2>1, <2>2, <2>4, LedgerStatus DEF Undo, Unpaid
  <2> QED
    BY <2>3, <2>4
<1>3. CASE StripeLate(b, i)
  <2>1. /\ method[b] = "STRIPE_CHECKOUT" /\ status[b] = "EXPIRED"
        /\ ledger[b][i] = "none" /\ UNCHANGED <<status, method, manual>>
    BY <1>3 DEF StripeLate
  <2>2. /\ \A j \in Orders : attempt'[b][j] = "returned" =>
             attempt[b][j] = "returned" \/ orders'[b][j] = "refunded"
        /\ \A j \in Orders : orders[b][j] = "refunded" => orders'[b][j] = "refunded"
    BY <1>3 DEF StripeLate, GatewayRefund, TypeOK
  <2>3. \A j \in Orders :
          \/ ledger'[b][j] = ledger[b][j]
          \/ ledger'[b][j] = "LATE_AFTER_EXPIRY" /\ attempt'[b][j] = "returned"
    BY <1>3 DEF StripeLate, Record, TypeOK
  <2>4. PaidOrders(b) = {} /\ ~manual[b]
    BY <2>1 DEF Ledger, Unpaid
  <2>5. PaidOrders(b)' = {}
    BY <2>3, <2>4 DEF PaidOrders
  <2>6. ASSUME NEW j \in Orders,
               ledger'[b][j] = "LATE_AFTER_EXPIRY" \/ attempt'[b][j] = "returned"
        PROVE  orders'[b][j] = "refunded"
    BY <2>2, <2>3, <2>6 DEF Ledger
  <2> QED
    BY <2>1, <2>4, <2>5, <2>6 DEF Ledger
<1>4. CASE PokPayOrder(b, i)
  <2>1. PICK o \in ContinueOutcomes(b) : Commit(b, o)
    BY <1>4 DEF PokPayOrder
  <2>2. Record(b, i, "PAID") /\ UNCHANGED <<method, manual, attempt, orders>>
    BY <1>4 DEF PokPayOrder
  <2>3. CASE status[b] = "PAYMENT_PENDING"
    <3>1. PaidOrders(b) = {} /\ ~manual[b]
      BY <2>3 DEF Ledger, Unpaid
    <3> QED
      BY <2>1, <2>2, <3>1, LedgerRecord
  <2>4. CASE status[b] # "PAYMENT_PENDING"
    <3>1. ledger[b][i] # "none" /\ method[b] = "POKPAY"
      BY <1>4, <2>4 DEF PokPayOrder
    <3>2. ledger[b][i] # "LATE_AFTER_EXPIRY"
      BY <3>1 DEF Ledger
    <3>3. i \in PaidOrders(b)
      BY <3>1, <3>2 DEF PaidOrders, TypeOK
    <3>4. PaidOrders(b) \subseteq {i} /\ PaidOrders(b) # {}
      BY <3>3 DEF Ledger
    <3> QED
      BY <2>1, <2>2, <3>4, LedgerRecord
  <2> QED
    BY <2>3, <2>4
<1>5. CASE RefundStuck(b, i)
  BY <1>5, LedgerStatus DEF RefundStuck, money, Unpaid
<1> QED
  BY <1>1, <1>2, <1>3, <1>4, <1>5 DEF Order

LEMMA LedgerRest ==
  ASSUME TypeOK, NEW b \in Bookings, Ledger(b), Remembers(b),
         \/ ManualPayment(b) \/ AttachLost(b)
         \/ TimePasses(b) \/ Expire(b) \/ Cancel(b) \/ CancelLost(b) \/ ClockCancels(b)
         \/ ReviewLink(b) \/ ReviewReject(b) \/ MirrorLink(b) \/ Mirror(b)
  PROVE  Ledger(b)'
<1>1. \A s : SetStatus(b, s) => status'[b] = s
  BY DEF TypeOK, SetStatus
<1>2. CASE ManualPayment(b)
  <2>1. BalanceDue(b) /\ UNCHANGED <<method, ledger, attempt, orders>> /\ PaidOrders(b)' = PaidOrders(b)
    BY <1>2 DEF ManualPayment, PaidOrders
  <2>2. status'[b] \notin {"NONE", "PAYMENT_PENDING", "EXPIRED"}
    BY <1>1, <1>2, ContinueFacts DEF ManualPayment, PostDeposit, Commit
  <2>3. PaidOrders(b) # {} =>
          ClockConnected /\ link[b] # "none" /\ (review[b] \/ attachFailed[b])
    BY <2>1 DEF BalanceDue, Ledger
  <2> QED
    BY <2>1, <2>2, <2>3 DEF Ledger, Remembers, Unpaid
<1>3. CASE Expire(b)
  BY <1>1, <1>3, LedgerStatus DEF Expire, money, Unpaid
<1>4. CASE Cancel(b)
  <2>1. \A i \in Orders : orders[b][i] = "refunded" => orders'[b][i] = "refunded"
    BY <1>4 DEF Cancel, CancelRefund, TypeOK
  <2> QED
    BY <1>1, <1>4, <2>1, LedgerStatus DEF Cancel, Unpaid
<1>5. CASE ReviewReject(b)
  BY <1>1, <1>5, LedgerStatus DEF ReviewReject, money, Unpaid
<1>6. CASE Mirror(b)
  BY <1>1, <1>6, LedgerStatus DEF Mirror, ReservationStatus, money, Unpaid
<1>7. CASE \/ AttachLost(b) \/ TimePasses(b) \/ CancelLost(b) \/ ClockCancels(b)
           \/ ReviewLink(b) \/ MirrorLink(b)
  BY <1>7, LedgerStatus
     DEF AttachLost, TimePasses, CancelLost, ClockCancels, ReviewLink, MirrorLink, money, Unpaid
<1> QED
  BY <1>2, <1>3, <1>4, <1>5, <1>6, <1>7

LEMMA LedgerInit == Init => \A b \in Bookings : Ledger(b)
  BY DEF Init, Ledger, PaidOrders, Orders

LEMMA LedgerStep ==
  ASSUME TypeOK, \A b \in Bookings : Ledger(b), [Next]_vars
  PROVE  \A b \in Bookings : Ledger(b)'
<1> SUFFICES ASSUME NEW b \in Bookings PROVE Ledger(b)'
  OBVIOUS
<1>1. CASE Booking(b)
  <2>1. Remembers(b)
    BY <1>1, Memory
  <2> QED
    BY <1>1, <2>1, LedgerCreate, LedgerOrder, LedgerRest DEF Booking
<1>2. ASSUME NEW c \in Bookings, Booking(c), b # c PROVE Ledger(b)'
  BY <1>2, Frame, Memory, SameLedger
<1>3. CASE (\E n \in 0 .. MaxStock : SetStock(n)) \/ UNCHANGED vars
  <2>1. Same(b) /\ Remembers(b)
    BY <1>3 DEF SetStock, vars, money, clock, Same, Remembers
  <2> QED
    BY <2>1, SameLedger
<1> QED
  BY <1>1, <1>2, <1>3 DEF Next

THEOREM LedgerInvariant == Spec => []LedgerInv
<1>1. Init => \A b \in Bookings : Ledger(b)
  BY LedgerInit
<1>2. TypeOK /\ (\A b \in Bookings : Ledger(b)) /\ [Next]_vars => (\A b \in Bookings : Ledger(b))'
  BY LedgerStep
<1>3. LedgerInv <=> TypeOK /\ \A b \in Bookings : Ledger(b)
  BY DEF LedgerInv
<1> QED
  BY <1>1, <1>2, <1>3, BookingTypes, PTL DEF Spec

\* A booking is paid once in the ledger, through every redelivery, second
\* order and resumption, and staff record a further payment at the desk only
\* after a failure that left a trace (processAuthoritativeOrder,
\* processPaymentSucceeded, ManualPaymentService.record).
THEOREM OnePayment == Spec => []PaidOnce
<1>1. LedgerInv => PaidOnce
  <2> SUFFICES ASSUME LedgerInv, NEW b \in Bookings
               PROVE  /\ Cardinality(PaidOrders(b)) <= 1
                      /\ manual[b] /\ PaidOrders(b) # {}
                         => link[b] # "none" /\ (review[b] \/ attachFailed[b])
    BY DEF PaidOnce
  <2>1. Ledger(b)
    BY DEF LedgerInv
  <2>2. CASE PaidOrders(b) = {}
    BY <2>2, FS_EmptySet
  <2>3. CASE PaidOrders(b) # {}
    <3> PICK i \in PaidOrders(b) : TRUE
      BY <2>3
    <3>1. PaidOrders(b) = {i}
      BY <2>1 DEF Ledger
    <3>2. Cardinality({i}) = 1
      BY FS_Singleton
    <3>3. Cardinality(PaidOrders(b)) <= 1
      BY <3>1, <3>2
    <3> QED
      BY <2>1, <3>3 DEF Ledger
  <2> QED
    BY <2>2, <2>3
<1> QED
  BY <1>1, LedgerInvariant, PTL

\* What the ledger shows as paid is past payment, so the expiry sweep finds no
\* paid booking to release (expirePaymentPending's re-read of the row), and
\* money recorded as late has gone back and stays there
\* (processPaymentSucceeded, EXPIRED branch).
THEOREM ChargesAreHonoured == Spec => []ChargeIsHonoured
<1>1. LedgerInv => ChargeIsHonoured
  BY DEF LedgerInv, Ledger, Unpaid, PaidOrders, ChargeIsHonoured
<1> QED
  BY <1>1, LedgerInvariant, PTL

-----------------------------------------------------------------------------
Uncertain == {"PMS_CREATION_PENDING", "PMS_UNKNOWN_RESULT", "PMS_REJECTED"}
Reviewed(b) == status[b] \in Uncertain => review[b]

\* No outcome of an attach is uncertain without a review item.
LEMMA OutcomeReviewed ==
  ASSUME TypeOK, NEW b \in Bookings,
         NEW o \in AttachOutcomes(b) \cup {ConfirmedLocally(b)} \cup ContinueOutcomes(b)
  PROVE  o.status \in Uncertain => o.review
<1>1. ASSUME NEW a \in AttachOutcomes(b) \cup {ConfirmedLocally(b)}
      PROVE  a.status \in Uncertain => a.review
  BY DEF AttachOutcomes, Attached, Failed, ConfirmedLocally, Uncertain
<1>2. CASE o \in ContinueOutcomes(b)
  <2>1. PICK a \in AttachOutcomes(b) \cup {ConfirmedLocally(b)} :
          a \in OutcomeTypes /\ (o = a \/ o \in Deposited(a))
    BY <1>2, ContinueType
  <2> QED
    BY <1>1, <2>1, DepositType
<1> QED
  BY <1>1, <1>2

LEMMA ReviewedStep ==
  ASSUME TypeOK, NEW b \in Bookings, Reviewed(b), Booking(b) PROVE Reviewed(b)'
<1>1. Remembers(b)
  BY Memory
<1>2. \A s : SetStatus(b, s) => status'[b] = s
  BY DEF TypeOK, SetStatus
<1>3. ASSUME NEW o \in AttachOutcomes(b) \cup {ConfirmedLocally(b)} \cup ContinueOutcomes(b),
             Commit(b, o)
      PROVE  Reviewed(b)'
  <2>1. status'[b] = o.status /\ review'[b] = o.review
    BY <1>3 DEF TypeOK, Commit, SetStatus
  <2> QED
    BY <2>1, OutcomeReviewed DEF Reviewed
<1>4. ASSUME status'[b] \in Uncertain => status[b] \in Uncertain PROVE Reviewed(b)'
  BY <1>1, <1>4 DEF Reviewed, Remembers
<1>5. CASE Create(b)
  BY <1>2, <1>3, <1>4, <1>5
     DEF Create, CreateUnavailable, CreateOnline, CreatePayAtHotel, Uncertain
<1>6. ASSUME NEW i \in Orders, Order(b, i) PROVE Reviewed(b)'
  BY <1>3, <1>4, <1>6
     DEF Order, PayOrder, Resend, StripeConfirm, StripeLate, PokPayOrder, RefundStuck, Undo, clock
<1>7. CASE ManualPayment(b)
  BY <1>3, <1>4, <1>7 DEF ManualPayment, PostDeposit
<1>8. CASE ReviewReject(b)
  BY <1>2, <1>4, <1>8 DEF ReviewReject, Uncertain
<1>9. CASE Expire(b) \/ Cancel(b) \/ Mirror(b)
  BY <1>2, <1>4, <1>9 DEF Expire, Cancel, Mirror, ReservationStatus, Uncertain
<1>10. CASE \/ AttachLost(b) \/ TimePasses(b) \/ CancelLost(b) \/ ClockCancels(b)
            \/ ReviewLink(b) \/ MirrorLink(b)
  BY <1>4, <1>10 DEF AttachLost, TimePasses, CancelLost, ClockCancels, ReviewLink, MirrorLink
<1> QED
  BY <1>5, <1>6, <1>7, <1>8, <1>9, <1>10 DEF Booking

\* With and without Clock, a booking whose attachment ended uncertain has a
\* review item for a person, and no later step takes the item away or leaves
\* one uncertain without it (attachRealReservation's failure branches).
THEOREM UncertainHasItem == Spec => []UncertainIsReviewed
<1>1. Init => UncertainIsReviewed
  BY DEF Init, UncertainIsReviewed
<1>2. TypeOK /\ UncertainIsReviewed /\ [Next]_vars => UncertainIsReviewed'
  <2> SUFFICES ASSUME TypeOK, UncertainIsReviewed, [Next]_vars, NEW b \in Bookings
               PROVE  Reviewed(b)'
    BY DEF UncertainIsReviewed, Reviewed, Uncertain
  <2>1. Reviewed(b)
    BY DEF UncertainIsReviewed, Reviewed, Uncertain
  <2>2. CASE Booking(b)
    BY <2>1, <2>2, ReviewedStep
  <2>3. ASSUME NEW c \in Bookings, Booking(c), b # c PROVE Reviewed(b)'
    BY <2>1, <2>3, Frame, Memory DEF Same, Remembers, Reviewed
  <2>4. CASE (\E n \in 0 .. MaxStock : SetStock(n)) \/ UNCHANGED vars
    BY <2>1, <2>4 DEF SetStock, vars, clock, Reviewed
  <2> QED
    BY <2>2, <2>3, <2>4 DEF Next
<1> QED
  BY <1>1, <1>2, BookingTypes, PTL DEF Spec

-----------------------------------------------------------------------------
\* A confirmed booking has its reservation or its money.
Backed(b) ==
  status[b] = "CONFIRMED" =>
    IF ClockConnected THEN link[b] # "none"
    ELSE method[b] \in Online =>
           manual[b] \/ \E i \in PaidOrders(b) : orders[b][i] \in {"paid", "refunded"}

\* In a Clock hotel an attach confirms a booking only with its reservation.
LEMMA AttachedHasLink ==
  ASSUME ClockConnected, TypeOK, NEW b \in Bookings,
         NEW o \in AttachOutcomes(b) \cup ContinueOutcomes(b), o.status = "CONFIRMED"
  PROVE  o.link # "none"
<1>1. ASSUME NEW a \in AttachOutcomes(b), a.status = "CONFIRMED" PROVE a.link # "none"
  BY <1>1 DEF AttachOutcomes, Attached, Failed
<1>2. CASE o \in ContinueOutcomes(b)
  <2>1. PICK a \in AttachOutcomes(b) :
          a \in OutcomeTypes /\ (o = a \/ o \in Deposited(a))
    BY <1>2, ContinueType
  <2>2. o.status = a.status /\ o.link = a.link
    BY <2>1, DepositType
  <2> QED
    BY <1>1, <2>1, <2>2
<1> QED
  BY <1>1, <1>2

LEMMA BackedStep ==
  ASSUME TypeOK, NEW b \in Bookings, Backed(b), Booking(b) PROVE Backed(b)'
<1>0. Remembers(b)
  BY Memory
<1>1. \A s : SetStatus(b, s) => status'[b] = s
  BY DEF TypeOK, SetStatus
<1>2. ASSUME UNCHANGED <<method, manual, ledger>>, status'[b] = status[b],
             \A i \in Orders : orders[b][i] \in {"paid", "refunded"} =>
                              orders'[b][i] \in {"paid", "refunded"}
      PROVE  Backed(b)'
  BY <1>0, <1>2 DEF Backed, Remembers, PaidOrders
<1>3. ASSUME NEW o \in AttachOutcomes(b) \cup ContinueOutcomes(b), Commit(b, o), ClockConnected
      PROVE  Backed(b)'
  <2>1. status'[b] = o.status /\ link'[b] = o.link
    BY <1>3 DEF TypeOK, Commit, SetStatus
  <2> QED
    BY <1>3, <2>1, AttachedHasLink DEF Backed
<1>4. CASE Create(b)
  <2>1. ASSUME NEW r, CreatePayAtHotel(b, r) PROVE Backed(b)'
    <3>1. method'[b] \notin Online
      BY <2>1 DEF TypeOK, CreatePayAtHotel, Fill, Online
    <3>2. CASE ClockConnected
      BY <1>3, <2>1, <3>2 DEF CreatePayAtHotel
    <3>3. CASE ~ClockConnected
      BY <3>1, <3>3 DEF Backed
    <3> QED
      BY <3>2, <3>3
  <2> QED
    BY <1>1, <1>4, <2>1 DEF Create, CreateUnavailable, CreateOnline, Backed
<1>5. ASSUME NEW i \in Orders, orders[b][i] = "paid", Record(b, i, "PAID"), orders' = orders,
             NEW o \in ContinueOutcomes(b), Commit(b, o)
      PROVE  Backed(b)'
  <2>1. i \in PaidOrders(b)'
    BY <1>5 DEF TypeOK, Record, PaidOrders
  <2>2. CASE ClockConnected
    BY <1>3, <1>5, <2>2
  <2>3. CASE ~ClockConnected
    BY <1>5, <2>1, <2>3 DEF Backed
  <2> QED
    BY <2>2, <2>3
<1>6. ASSUME NEW i \in Orders, Order(b, i) PROVE Backed(b)'
  <2>1. CASE PayOrder(b, i) \/ Resend(b, i)
    <3>1. /\ UNCHANGED <<status, method, manual, ledger>>
          /\ \A j \in Orders : orders[b][j] \in {"paid", "refunded"} =>
                               orders'[b][j] \in {"paid", "refunded"}
      BY <2>1 DEF TypeOK, PayOrder, Resend
    <3> QED
      BY <1>2, <3>1
  <2>2. CASE StripeConfirm(b, i)
    BY <1>2, <1>5, <2>2 DEF StripeConfirm, Undo
  <2>3. CASE StripeLate(b, i)
    BY <2>3 DEF StripeLate, Backed
  <2>4. CASE PokPayOrder(b, i)
    BY <1>5, <2>4 DEF PokPayOrder
  <2>5. CASE RefundStuck(b, i)
    BY <1>2, <2>5 DEF RefundStuck, money
  <2> QED
    BY <1>6, <2>1, <2>2, <2>3, <2>4, <2>5 DEF Order
<1>7. CASE ManualPayment(b)
  <2>1. manual'[b] /\ (status'[b] = status[b] \/ \E o \in ContinueOutcomes(b) : Commit(b, o))
    BY <1>7 DEF TypeOK, ManualPayment, PostDeposit
  <2>2. CASE ~ClockConnected
    BY <2>1, <2>2 DEF Backed
  <2>3. CASE ClockConnected
    BY <1>0, <1>3, <2>1, <2>3 DEF Backed, Remembers
  <2> QED
    BY <2>2, <2>3
<1>8. CASE Expire(b) \/ Cancel(b) \/ ReviewReject(b)
  BY <1>1, <1>8 DEF Expire, Cancel, ReviewReject, Backed
<1>9. CASE \/ AttachLost(b) \/ TimePasses(b) \/ CancelLost(b) \/ ClockCancels(b)
           \/ ReviewLink(b) \/ MirrorLink(b)
  BY <1>2, <1>9
     DEF AttachLost, TimePasses, CancelLost, ClockCancels, ReviewLink, MirrorLink, money
<1>10. CASE Mirror(b)
  BY <1>10 DEF Mirror, clock, Backed
<1> QED
  BY <1>4, <1>6, <1>7, <1>8, <1>9, <1>10 DEF Booking

\* In a Clock hotel no booking is confirmed that has no reservation in Clock,
\* whatever attachments failed, were lost or were settled by a review; in any
\* other an online booking is confirmed only with money that the gateway
\* captured or staff recorded (attachRealReservation, continueAfterPayment's
\* callers, hydrateBooking).
THEOREM ConfirmedHasBacking == Spec => []ConfirmedIsBacked
<1>1. Init => ConfirmedIsBacked
  BY DEF Init, ConfirmedIsBacked
<1>2. TypeOK /\ ConfirmedIsBacked /\ [Next]_vars => ConfirmedIsBacked'
  <2> SUFFICES ASSUME TypeOK, ConfirmedIsBacked, [Next]_vars, NEW b \in Bookings
               PROVE  Backed(b)'
    BY DEF ConfirmedIsBacked, Backed
  <2>1. Backed(b)
    BY DEF ConfirmedIsBacked, Backed
  <2>2. CASE Booking(b)
    BY <2>1, <2>2, BackedStep
  <2>3. ASSUME Same(b), Remembers(b) PROVE Backed(b)'
    BY <2>1, <2>3 DEF Same, Remembers, Backed, PaidOrders
  <2>4. ASSUME NEW c \in Bookings, Booking(c), b # c PROVE Backed(b)'
    BY <2>3, <2>4, Frame, Memory
  <2>5. CASE (\E n \in 0 .. MaxStock : SetStock(n)) \/ UNCHANGED vars
    BY <2>3, <2>5 DEF SetStock, vars, money, clock, Same, Remembers
  <2> QED
    BY <2>2, <2>4, <2>5 DEF Next
<1> QED
  BY <1>1, <1>2, BookingTypes, PTL DEF Spec

-----------------------------------------------------------------------------
Ended == {"AVAILABILITY_FAILED", "CANCELLED", "EXPIRED"}

\* The only way back for an ended booking is its reservation in Clock.
LEMMA EndedStep ==
  ASSUME TypeOK, NEW b \in Bookings, status[b] \in Ended, Booking(b), ~Mirror(b)
  PROVE  status'[b] = status[b]
<1>1. ~Create(b)
  BY DEF Create, CreateUnavailable, CreateOnline, CreatePayAtHotel, Fill, Ended
<1>2. ContinueOutcomes(b) = {}
  BY DEF ContinueOutcomes, Ended
<1>3. ASSUME NEW i \in Orders, Order(b, i) PROVE status'[b] = status[b]
  BY <1>2, <1>3
     DEF Order, PayOrder, Resend, StripeConfirm, StripeLate, PokPayOrder, RefundStuck
<1>4. ~ManualPayment(b) /\ ~Expire(b) /\ ~Cancel(b) /\ ~ReviewReject(b)
  BY DEF ManualPayment, Expire, Cancel, Cancellable, ReviewReject, Ended
<1>5. CASE \/ AttachLost(b) \/ TimePasses(b) \/ CancelLost(b) \/ ClockCancels(b)
           \/ ReviewLink(b) \/ MirrorLink(b)
  BY <1>5 DEF AttachLost, TimePasses, CancelLost, ClockCancels, ReviewLink, MirrorLink
<1> QED
  BY <1>1, <1>3, <1>4, <1>5 DEF Booking

\* No payment, retry, sweep or review revives a booking that ended: it changes
\* only to the status of its reservation, and never in a hotel without Clock
\* (BOOKING_STATUS_TRANSITIONS has no way out of the end states; hydrateBooking
\* does not consult it).
THEOREM EndedIsFinal == Spec => EndedStaysEnded
<1>1. TypeOK /\ [Next]_vars =>
        [\A b \in Bookings :
           status[b] \in {"AVAILABILITY_FAILED", "CANCELLED", "EXPIRED"}
           => \/ status'[b] = status[b]
              \/ ClockConnected /\ link[b] # "none" /\ status'[b] = ReservationStatus(b)]_vars
  <2> SUFFICES ASSUME TypeOK, [Next]_vars, NEW b \in Bookings, status[b] \in Ended
               PROVE  \/ status'[b] = status[b]
                      \/ ClockConnected /\ link[b] # "none" /\ status'[b] = ReservationStatus(b)
    BY DEF Ended
  <2>1. CASE Mirror(b)
    BY <2>1 DEF Mirror, SetStatus, TypeOK
  <2>2. CASE Booking(b) /\ ~Mirror(b)
    BY <2>2, EndedStep
  <2>3. ASSUME NEW c \in Bookings, Booking(c), b # c PROVE status'[b] = status[b]
    BY <2>3, Frame DEF Same
  <2>4. CASE (\E n \in 0 .. MaxStock : SetStock(n)) \/ UNCHANGED vars
    BY <2>4 DEF SetStock, vars
  <2> QED
    BY <2>1, <2>2, <2>3, <2>4 DEF Next
<1> QED
  BY <1>1, BookingTypes, PTL DEF Spec, EndedStaysEnded
=============================================================================
