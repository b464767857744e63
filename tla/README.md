# MUST booking platform: TLA+ models and proofs

The platform sells hotel rooms. A guest books through the hotel's website, pays
online or at the hotel, and the booking lives either in MUST alone or also in
Clock, the hotel's own management system. The API (`src/apps/api`, NestJS over
Postgres, Redis/BullMQ, Stripe, PokPay and Clock) holds all the state that can
be wrong; this directory models the parts of it that are hardest to test and
proves the central facts about them:

1. **a Clock webhook event**, from its delivery to its one outcome
   (`ProviderEvents`, which implements `EventOutcome`);
2. **a booking**, from creation to confirmation, expiry or cancellation, with the
   unit or room it holds, its payments and its reservation in Clock
   (`BookingLifecycle`, whose units implement `UnitHolds`);
3. **the mirror of a reservation** made by webhooks and importers beside MUST's own
   writers (`BookingMirror`, which implements `VersionedCopy`);
4. **the background sync** that finds what no webhook told (`ClockSync`);
5. **the refunds of a charge**, with their attempts, Clock's copy and the recovery
   (`RefundLedger`, which implements `ExactRefunds`);
6. **the delivery of one e-mail** (`MailDelivery`, which implements `MessageLife`);
7. **an order of several rooms** under one payment (`MultiRoomOrder`, whose units
   implement `UnitHolds` too).

`PROJECT.json` lists components, runs, mutants, the source lines of every
definition, findings, hazards and theorems.

## The system's parts

Paths are relative to `src/apps/api/src`.

| Part | State it keeps | Operations | What is hard |
|---|---|---|---|
| Provider events (`integrations/clock/clock-webhook.service.ts`, `clock-worker.service.ts`, `clock-provider-event-status.ts`, `clock-queue.service.ts`) | the `provider_events` row with its owner (`processing_token`, `processing_attempt`), the BullMQ job, review items | deliver, claim, hydrate, finalize, fail, sweep, recreate the job, park, reset by an operator | redelivery, stalled jobs run twice, lost jobs, crashes between any two statements |
| Booking lifecycle (`booking/local-pms.provider.ts`, `booking-state-machine.ts`) | `bookings.status`, method, room, Clock link | create, resend a checkout, continue after payment, expire, cancel | payments, sweeps, cancellations and the mirror in any order |
| Units and rooms (`tenancy/availability.service.ts`, `inventory-stock.service.ts`) | `inventory_units.booked_units`, `available_units` | reserve, release, set the stock | the last unit, the one room, the stock changed meanwhile |
| Gateway payments (`payments/stripe-webhook.service.ts`, `pokpay-payment.service.ts`) | the `payments` ledger; the gateway's orders | settle an event or an order | redelivery, several orders, money after the end of the booking |
| Expiry (`payments/payment-expiry.service.ts`) | none of its own | sweep each minute | its list of candidates is old when it acts |
| Staff payments (`payments/manual-payment.service.ts`) | ledger rows | record a payment | ledger and Clock's bill disagree |
| Refunds (`payments/payment-refund.service.ts`, `payment-refund-recovery.service.ts`) | ledger rows, `integration_operations` attempts | refund, recover, alert | the attempt outlives the transaction that made it; lost answers; the recovery runs beside commands |
| Clock reservations (`integrations/clock/clock-booking.service.ts`) | link, bill, review items; Clock's reservations | attach, post the deposit, cancel | requests without an answer inside a transaction |
| Mirror of Clock (`integrations/clock/clock-booking-hydration.service.ts`) | `bookings` with `pms_source_updated_at` and `updated_at`; link and status | look at the row, ask Clock, write under the row's lock, tell staff of a cancellation | several readers and MUST's own writers; stamps of two clocks, equal or late |
| Background sync (`integrations/clock/clock-background-sync.service.ts`) | `clock_sync_jobs`: lease, progress of a pass, high-water mark | claim, list, read a batch, save, release | several processes; a holder that dies or outlives its lease; late stamps |
| Review (`booking/booking-review.service.ts`) | link, status | link, reject | the person acts on what Clock said a moment ago |
| Mail delivery (`mail/mail-delivery.service.ts`, `property-mail-dispatcher.ts`, `email-transport-journal.ts`) | `email_messages`, its job, the journal `email_transport_attempts` | dispatch, claim, request, record, fall back, sweep, resend by staff | an accepted request whose answer is lost; attempts that overlap; leases that lapse |
| Multi-room orders (`booking/multi-room-booking.service.ts`, the order branches of `local-pms.provider.ts`, `booking-requests.service.ts`) | several `bookings` with one `order_reference`, one charge on one of them | reserve all, one checkout, continue, expire, cancel the order, cancel one room | each operation names one room and must move all |
| Payment collection, stay changes, folios, catalog sync, HTTP client and circuit breaker, connections, scheduled mails, venues, prices and promo codes, tenancy, reports, frontends | | | not modelled; see the end of this file |

How they interact: Stripe and PokPay call the gateway services, which lock the
booking, record the payment and call `continueAfterPayment`; in a Clock hotel that
calls `attachRealReservation` and `postDeposit` inside the same transaction.
The sweep calls PokPay's poll and then `expirePaymentPending`. Cancelling calls
Clock, then the refund flow, then releases the unit. Clock's webhooks reach the
booking through the provider event, its job and `hydrateBooking`, which ends the
event in the transaction that writes the booking; the background sync calls the
same `hydrateBooking` for what Clock lists as changed. Refunds ask the gateway
from inside the booking's transaction but save their attempt outside of it, and a
job recovers the attempts that were left. Confirmations, cancellations and refunds
hand their messages to the mail delivery after they commit. What is correct for each part
is what the properties below say of it.

## Modules

| Module | Models |
|---|---|
| `EventOutcome` | what an event promises: one outcome, its effect at most once and only with HYDRATED |
| `ProviderEvents` | the row, the job, the attempts, deliveries, sweep ticks and the operator |
| `ProviderEventsProofs` | its theorems |
| `UnitHolds` | what the sold/held counter promises: one unit per holder, the rooms of an order all or none, never more holders than stock |
| `BookingLifecycle`, `MCBookingLifecycle` | the bookings of one hotel; the same with interchangeable bookings, for the run without liveness |
| `BookingLifecycleProofs` | types, units, rooms, endings |
| `BookingLedgerProofs` | payments and review items |
| `VersionedCopy` | what a copy of a record of another system promises: it never goes back, shows one content per version, and the original's at its newest version |
| `BookingMirror`, `MCBookingMirror`, `BookingMirrorProofs` | one reservation of Clock and its row; the same with interchangeable webhooks, for its run; its theorems |
| `ClockSync`, `ClockSyncProofs` | the sync's job; its theorems |
| `ExactRefunds` | what the refunds of a charge promise: the money of each once, in full, after all earlier money is in the ledger |
| `RefundLedger`, `RefundLedgerProofs` | the refunds of one charge; its theorems |
| `MessageLife` | what the row of an e-mail promises its readers: each word that speaks of an acceptance follows one |
| `MailDelivery`, `MailDeliveryProofs` | one message; its theorems |
| `MultiRoomOrder`, `MultiRoomOrderProofs` | one order; its theorems |

The modules meet at one operation each and are checked apart, because they share
no variable but through it: what an event's attempt does to the row is
`BookingMirror`'s reading, which is one `Read` of `ClockSync`; what a booking's late
refund or cancellation does is a command of `RefundLedger`; what becomes of one
room of an order in Clock is `BookingLifecycle`.

### ProviderEvents

All the SQL touches one row by its key, so one event is modelled. Each SQL
statement or transaction under the row lock is one action; what the code does
between two of them is a step of its own, so anything can interleave there.

- `status`, `token`, `gen` are the row. An attempt is `<<job number,
  attemptsStarted>>`; BullMQ gives each activation a fresh lock token, so the
  attempt is its own token.
- `jobState`, `jobNo`, `started`, `made`, `stalls` are the BullMQ job as the code
  uses it (external: `Activate`, `Stall`, `LoseJob`). A stalled attempt may still
  be running when the job is handed out again.
- `pc` is where each attempt is in `processHydrateEvent`: `ReadRow`, `Claim`,
  `Hydrate` (or `finalizeEvent`), `Throw`, `Return`, `Fail`, the `failed` listener
  `MarkFailed`; `Crash` is possible anywhere.
- `rpc` and `snap` are where each delivery or sweep tick is: `Deliver` or
  `SweepSelect`, `Inspect` (`reconcileJob`), then `Snapshot`, `Enqueue`, `Reset`
  for a missing job, `Park` for a completed and `FailRow` for a failed one;
  `Abandon` is an error or a death in between.
- `appliers`, `lastClaim` are history: nothing reads them but the
  properties.

Abstracted: what an event is about (an effect, or an outcome without one),
signatures, `updated_at` and the order in which the sweep takes rows.

### BookingLifecycle

Every operation locks its booking, and the property when it counts units, and
runs in one transaction: it is one action. What Clock and the gateways did inside
a transaction that is rolled back is kept: `Undo` (a failed attachment that makes
Stripe's handler throw), `AttachLost`, `CancelLost`, `attempt`.

- `status` has the committed values of the state machine only. `method`, `room`
  and `due` (the hold has run out) complete the row; `link` is
  `external_booking_id` and what became of that reservation.
- `ledger`, `manual` are the CHARGE rows; `orders` is the gateway's side of each
  order; `attempt` is the refund attempt of a late order, which `gatewayRefund`
  saves in a transaction of its own and never sends twice.
- `live` counts Clock's reservations with the booking's reference; `billed` says
  that Clock's bill has the payment; `review` that a review item was recorded;
  `attachFailed` is history.
- `stock`, `booked` are the inventory row. A hotel with Clock and no such row has
  nothing to count (`HasStock`).
- `AttachOutcomes` is the whole of `attachRealReservation`: already linked;
  mapping or guest unreadable; sold out; posted, found again, or unknown. A
  lookup that fails counts as "no reservation", as in the code.
- `RefundStuck` is the recovery job for an attempt whose charge row does not
  exist: it can only tell a person.

Abstracted: amounts (one payment covers the balance), nights (all bookings
overlap), guest data, mails, row versions. `CreateUnavailable` is every failure of a
creation that leaves a row: the quote, the automatic choice of a room, the unit or room.
The mirror's reading is one step here, in which the booking takes its reservation's room
and status, or keeps its status when MUST does not know Clock's; what it drops or takes
over late is `BookingMirror`. The provider's second availability check before payment is
left out. The hotel cancels only the linked reservation. Whether Clock is connected is a
constant.

### BookingMirror

- `clk` is the reservation in Clock: a version number for its content, its
  `updated_at`, and its status: live, cancelled, or a word MUST does not know.
  `ClockEdit` gives it the next version with a stamp that may equal the last one and may
  be late by `Skew`.
- `link`, `shows`, `src`, `cancelled`, `updated` are the row: there is none, or it is MUST's
  own before the link, or linked; the version whose content it has,
  `pms_source_updated_at`, the status and `updated_at`.
- A reader is a webhook attempt or an importer (`notify: false`). `Look` reads the row,
  `Fetch` is Clock's answer, which may lack its stamp, and then, under the row's lock,
  `LinkOwn` links MUST's own booking and does no more, `Apply` writes after the freshness
  test (`Stale`), or `LeaveOut` ends the reading without touching the row: it is stale,
  has no mapping or currency, or an unknown status and no booking. A booking keeps its
  status when Clock's is unknown, and its stamps when the answer has none. `fresh`
  says whether the row is still what the reader saw, which is
  what the code finds out by comparing. A webhook that takes a cancellation over goes on
  to `NotifyStaff`, outside the transaction; `GiveUp` is a death or an error. `told` is
  history: the mails sent about each version.
- `LocalWrite` is any change MUST makes to the row but the two others: `SaveLink`, the
  payment flow saving the link it found, and a cancellation, without a link
  (`CancelUnlinked`) or with one, when it reaches Clock before it commits (`CancelInClock`
  with `CancelCommit` or `CancelUndone`). Nothing bounds their number.

Abstracted: which fields a version changes, the mapping of guests and rates, whether a
review item is opened or is open already, and the merge of a booking that the sync
imported a moment before MUST's own was linked (`absorbImportedDuplicate`).

### ClockSync

- `token` is the lease, `until` and `left` the saved progress of the pass under way,
  `high` the high-water mark, `requested` and `soon` the row's `requested_at` and whether
  `next_run_at` is now.
- A runner is a process's scheduler: `Claim`, `List` (what changed since the mark less the
  overlap), `NextBatch` (a `Slice` of at
  most a batch), one `Read` per reservation, then `SaveProgress`, `Complete`, or
  `SaveFenced` when another has the lease; `StepFails` and `Crash` end a step anywhere.
- `ver` and `stamp` are Clock's; `seen` is the newest version a read has dealt with.

Abstracted: the lease's time (a lease is free when its holder is gone; a claim of a
held one is a holder slower than its lease, a fault), the resources without a
high-water mark, the choice among several due jobs. `Skew <= Overlap` is the
assumption under which an overlap helps at all: Clock's stamps are at most 60
seconds late.

### RefundLedger

- `lock` is the booking's row, held by a command's transaction; `advisory` the lock the
  recovery job takes instead. `pc` and `plan` are where a command is and the row it is
  about to commit; `done` are the commands whose result is kept under their key.
- `attempt` is the durable attempt, saved in transactions of its own: PREPARING before
  the request, RETURNED with the gateway's answer, UNCERTAIN without one.
- `row`, `recorded` are the REFUND rows; `clock` the negative payments in Clock; `sent` and
  `moved` are the gateway's side.
- The transaction can be lost at any step while the request goes on; `sweep` is where
  each run of the recovery is. The recovery takes attempts five minutes old, counted from
  their creation: `maker` is the command whose transaction made its attempt and still
  runs, which ends before that, while a retry that holds the row later may run beside the
  recovery (`OldEnough`).
- `RefundAtProvider` is the hotel returning a part or the rest in the gateway's dashboard;
  `elsewhere` remembers it. PokPay is asked for a share of what is left of its order, at
  the rate of that over what is left by the ledger, rounded (`Share`); so after a dashboard
  refund it returns less than it was asked for.

Abstracted: one charge, paid through a gateway; amounts in units of it; the refund
window, the e-mail and the choice between automatic and custom amounts, except that
a free cancellation asks for the whole charge. A command that lost its transaction ends
before its key is tried again.

### MailDelivery

- `status`, `known`, `slot` are the message's row, whether the provider's id is known,
  and its place in the hotel's hourly limit. `journal` has a row per stage (the hotel's own
  sender, then the fallback): SENDING under a lease (`fence`, `lapsed`), ACCEPTED,
  REJECTED or UNKNOWN.
- `job`, `holder`, `stalls` are the BullMQ job; `run` is what each runner is at: an inline
  attempt, a job's attempt, a resend by staff.
- `accepts` counts what each channel accepted; MUST's provider remembers its
  idempotency keys (external), so it accepts once, a hotel's own does not.

Abstracted: payloads and their expiry, sender tests, grouped staff messages, alerts
to the owner, approved retries. The hotel's profile may change
between any two attempts, so `Prepare` and `ClaimSend` choose freely; the hourly limit is
a choice too. `ClaimSend` is one transaction in the code: it inserts the row READY and
claims it SENDING, so READY is never committed. A resend reads the journal, then the job,
then claims the row, in three steps (`AskResend`, `FindJob`, `Requeue`).

### MultiRoomOrder

- `status`, `orders`, `ledger`, `desk`, `refunded` are per room: the booking, the gateway's
  order bound to it, the charge recorded on it, what staff recorded, what was refunded.
  `pooled` are the rooms without a chosen room, which count a unit; `free` those whose
  cancellation is free now.
- `Settle` and `DeskSettle` continue every pending room of the order from the one that was
  paid (`Attach`: each room has its own outcome in Clock). `RecordCharge` is the charge row
  that the gateway's handler writes before it. `Expire` ends the pending rooms together;
  `CancelOrder` is the guest's, `Look` and `CancelOne` the staff's: evidence in one
  transaction, execution in another.
- `inClock` are the rooms that have a reservation in Clock. `SettleLost` is a payment whose
  transaction is lost after Clock took rooms; `Mirror` gives a room the status of its
  reservation, whatever its own was.

Abstracted: a room costs one; nights; quotes, limits and free orders; the window in
which a guest may cancel online at all; one gateway order and one desk payment per
room (bounds). A hotel with Clock counts no units here, and the link, the bill and the
duplicates of one reservation are `BookingLifecycle`'s. A late refund that fails is
in `BookingLifecycle`, the refund that follows a staff cancellation in `RefundLedger`.

## Properties and runs

Every property of a passing run has a mutant in `PROJECT.json`: a plausible bug
in the mapped code that TLC finds with the same configuration.

| Run | Instance | Shows |
|---|---|---|
| `events_safety` | one recreator, as delivery or as sweep, 2 jobs, 1 try, 1 stall, 1 operator reset | `TypeOK`; `EffectOnce`; `OutcomeByLastClaimer`; `TakeoverIsNewer`; `OnlyOperatorReopens`; `ImplementsOutcome` |
| `events_live` | the same recreator, 2 jobs of 2 tries, 1 reset | `EventSettles`; `OneReviewPerParking` |
| `booking_local` | 2 bookings, 1 unit, 1 room, every method, 2 orders each, no Clock | `TypeOK`; `PaidOnce`; `ConfirmedIsBacked`; `ChargeIsHonoured`; `ImplementsUnitHolds`; `HoldEnds`; `LateMoneyIsHandled` |
| `booking_clock` | 2 bookings, 1 room, every method, 1 order and 1 reservation each, Clock | `PaidOnce`; `UncertainIsReviewed`; `ConfirmedIsBacked`; `EndedStaysEnded`; `RoomSharedOnlyByClock` |
| `mirror_rows` | 2 webhooks, 1 importer, 3 versions, skew 1, time 1, any number of writes and crashes | `TypeOK`; `OneMailPerCancellation`; `ImplementsVersionedCopy` |
| `sync_job` | 2 processes, 2 reservations of 2 versions, batch 1, skew and overlap 1, time 2, 1 fault, 1 webhook | `TypeOK`; `WatermarkCovers`; `WatermarkAdvances`; `CatchesUp` |
| `refunds` | 1 refund by staff, 1 by a cancellation, charge 3, 1 sweep, 2 faults | `TypeOK`; `MoneyIsTraced`; `BooksFollowMoney`; `ImplementsExactRefunds`; `StuckIsNoticed` |
| `mail_delivery` | 2 runners, fallback allowed, 2 tries, 1 stall, 1 dispatch, 1 resend, 1 fault | `TypeOK`; `AcceptedOnce`; `ImplementsMessageLife`; `SentStays`; `DoubtEnds` |
| `orders` | 2 rooms, with Clock, or with up to 2 units and any units of others | `TypeOK`; `OrderMovesAsOne`; `ImplementsUnitHolds` |

What they say, in words:

- An event's effect is applied at most once and then it is HYDRATED for ever
  (`EffectOnce`); only the attempt that claimed last decides its outcome
  (`OutcomeByLastClaimer`); within a job the row goes only to a later activation
  (`TakeoverIsNewer`); only an operator reopens it (`OnlyOperatorReopens`); it is
  parked together with one review item (`OneReviewPerParking`); it does not stay
  unsettled (`EventSettles`).
- The counter is the number of bookings that hold a unit, none is sold twice or lost,
  and the stock is not cut below it (`ImplementsUnitHolds`). MUST puts nobody into the
  room of a booking that is pending, uncertain, rejected or confirmed, and revives none
  into one; what the hotel does in Clock can, and MUST copies it
  (`RoomSharedOnlyByClock`). A booking is paid once (`PaidOnce`). It is confirmed only on
  something: its reservation in a Clock hotel, captured or recorded money for an online
  booking elsewhere (`ConfirmedIsBacked`). A charge is honoured: a paid booking is not
  released as unpaid, late money in the ledger went back (`ChargeIsHonoured`), and late
  money of Stripe goes back or a person is told (`LateMoneyIsHandled`). What ended is
  revived by nothing but the status of its reservation in Clock (`EndedStaysEnded`), a hold
  ends (`HoldEnds`), and an uncertain booking has a review item (`UncertainIsReviewed`).
- The row is a copy of its reservation that may be late but not wrong
  (`ImplementsVersionedCopy`), and staff are told of a cancellation at most once, however
  many webhooks read it (`OneMailPerCancellation`).
- What is older than the next list has been read (`WatermarkCovers`), the mark does
  not go back (`WatermarkAdvances`), and the last change of every reservation is read
  even if no webhook comes (`CatchesUp`).
- The money of each refund goes back once, exactly as asked unless the hotel returned money
  elsewhere, never beyond the charge, and only when every refund whose money went back before is in the ledger
  (`ImplementsExactRefunds`); what moved is in the ledger or blocks further refunds
  (`MoneyIsTraced`); ledger and Clock show nothing that did not move
  (`BooksFollowMoney`); what blocks is cleared or reported (`StuckIsNoticed`).
- The hotel's own sender and the fallback accept a message once between them
  (`AcceptedOnce`); what its row says follows what the providers did, a
  complaint is the last word, nothing but a complaint changes SUPPRESSED or BOUNCED, and
  only staff, a delivery report or a late receipt revive a failed message
  (`ImplementsMessageLife`); only the provider's report takes SENT back (`SentStays`, which
  `MessageLife` cannot say, because it sees the row and not who wrote it); a request
  without an answer does not hold a message for ever (`DoubtEnds`).
- A paid order has no room waiting or expired, an unpaid one none beyond payment but by
  its reservation in Clock, and at most one gateway charge is recorded for it
  (`OrderMovesAsOne`); its pooled rooms take their
  units all or none, and each goes back once (`ImplementsUnitHolds`).

The bounds. A race over a row needs two attempts, and a race over its job two
jobs: the second job's small generation against the first one's is the case
ADR-0031 is about. One stall is BullMQ's own limit, and is what makes two
activations of one job overlap; two tries are the first and the last. One
recreator at a time is a bound of these runs only; the theorems hold for any
number. Two bookings over one unit and one room are the smallest competition; the
theorems hold for any number. Two orders are a checkout and its resend. In a Clock hotel two
bookings over one room are one that is uncertain, rejected or ended and one that wants
its room; no property of that run is about liveness or names a booking, so exchanging the
two changes nothing (`Symmetry`). Several orders are checked without Clock; `OnePayment`
proves both for any number of orders and reservations.
Three versions of a reservation are what a reader can be late by while another wins, and
two instants are an equal stamp, a later one and a late one; three readers are two
that race and the one that decides between them. Two
reservations with a batch of one make a pass of two steps, between which a lease can
change hands. A refund of one, two or three of a charge of three
beside one of the whole charge are two of which at most one fits; three is the least
charge of which a part can be returned in the dashboard and still leave a share to round;
two faults are a lost transaction and a lost write or recovery after it. Two
tries, one stall and a resend give a message every pair of
attempts that overlap. Two rooms are the named one and its sibling; a stock of up to
two fits the order, or does not, or fits it only without the others' units. One fault
is one thing that goes wrong anywhere; the theorems allow any number.
`CHECK_DEADLOCK FALSE` everywhere: a settled event, or bookings that have all
ended, have nothing left to do.

### Fairness

- `ProviderEvents`: BullMQ dispatches a waiting job and detects the stall of a
  dead holder; a live attempt goes on, since its requests time out; the scheduler
  keeps starting the sweep. The sweep's own steps are strongly fair: Redis and
  Postgres may fail a tick at any point, as often as they like, but not for ever.
  Neither deliveries nor the `failed` listener are relied on, because a process
  can die before either.
- `BookingLifecycle`: time passes, the minute sweep expires, Stripe redelivers
  until it is answered with success, PokPay is polled by the sweep, and the
  recovery job looks at old attempts. No fairness on guests, staff, the mirror or
  on Clock.
- `ClockSync`: time passes, the scheduler of a live process ticks each second, and a
  step goes on since its requests time out. Nobody has to edit, and no webhook has to
  come.
- `RefundLedger`: a transaction ends since it has a timeout, and the recovery job runs
  every five minutes and takes each old attempt in turn (strong fairness per attempt).
  Nobody has to try again.
- `MailDelivery`: time passes and the scheduled sweep runs. Nothing is asked of workers,
  providers or staff.
- `BookingMirror` and `MultiRoomOrder` state safety only.

### Where the code and its documentation disagree

Each of these runs is expected to end in a violation; `findings` quotes the line.

| Run | What TLC shows |
|---|---|
| `booking_autorefund` | Stripe, Clock: a failed attachment is rolled back, the booking expires, the redelivered payment is refunded, although `continueAfterPayment` says that goes to a person |
| `refunds_told` | a refund is posted in Clock, its transaction is lost, and the recovery posts the same money again under another reference; the documentation says it is posted once, after the local transaction |
| `order_refund` | a guest cancels a paid order through its second room; the charge is looked up on the room named, none is found there, and the free rooms are neither refunded nor reported |

More follow from the actions of the models, without a run of their own.

Events:
- Two recreators saw the job missing; the later one reads the ownership after the new
  attempt has claimed, and its compare-and-swap clears that live claim (`Snapshot`,
  `Reset`; ADR-0031 says a real claim is never cleared).
- The new job runs before its recreator resets the generation and is refused (`Enqueue`,
  `Reset`).
- The documented reset of a row leaves the old failed or completed job, and the sweep
  fails or parks the row again (`OperatorRetry`, `FailRow`, `Park`).

Bookings:
- A PokPay order paid after the hold expired is neither recorded nor returned
  (`PokPayOrder`).
- A failed lookup by reference is taken for "no reservation", and a second one is posted
  (`AttachOutcomes`).
- The mirror confirms a linked booking whose payment is not in the ledger (`Mirror`).
- A paid booking that finds Clock sold out ends AVAILABILITY_FAILED without the review
  item that the comment on `attachRealReservation` promises (`AttachOutcomes`).
- A late Stripe refund that fails once is never recorded as `LATE_AFTER_EXPIRY`, because
  its charge is rolled back and the saved failure is replayed (`StripeLate`).
- A cancellation from an uncertain status leaves the unit counted
  (`ReleaseAtCancel`; ADR-0013 says a cancellation decrements `booked_units`).

Mirror and sync:
- A front-desk cancellation that an importer takes over first, or whose reader dies after
  the commit, is told to nobody (`Apply`, `NotifyStaff`, `GiveUp`).
- A webhook that comes during a pass of several steps is cleared by the next step's
  claim, so the finished pass waits for its usual delay (`Wake`, `Claim`;
  `docs/integrations/clock/webhooks-and-reconciliation.md` says it stays pending).

Refunds:
- The recovery and a retry of the same key can both insert a row for one refund, and
  the recovery closes a PENDING attempt with another refund's REFUNDED row.
  With a retry that commits a row lost before while the recovery records the whole rest,
  the ledger shows more than the charge (`RecoverCommit`, `Commit`).
- A cancellation's automatic refund asks for the whole charge after staff returned a part
  of it; the refusal blocks every later refund until a person is told, and no code lets
  that person resolve the attempt.

Mail:
- MUST's sender accepts a message and its answer is lost; the hotel activates its own
  sender, and the retry sends the message through that (`RequestDefault`, `Prepare`).
- A resend of a message that its provider failed after accepting it is answered SENT by
  the journal without a request (`ClaimSettled`).
- An attempt that finds the message busy on the last try of its job leaves the row QUEUED
  without a job; so does a crash between recording the message and adding its job.

Orders:
- A payment between the evidence and the execution lets staff cancel one room of an order
  with a pooled charge, which the documentation says fails closed (`Look`, `CancelOne`);
  no property forbids it.
- Staff cancel a waiting room, then the guest pays the sum of all of them (`CancelOne`,
  `Settle`); or, when that room was the one the checkout is bound to, the payment is
  refused.
- What staff may record is counted per booking, so the desk can take the order's sum
  again on a sibling of the paid one (`Owed`).
- A checkout that cannot be opened leaves its rooms held until they expire
  (`CreateOnline`).

## Proofs

`tlapm` checks all of them; each holds for every value of the constants that the
assumptions `ProviderEventsAssumption`, `BookingLifecycleAssumption`,
`BookingMirrorAssumption`, `ClockSyncAssumption`, `RefundAssumption`,
`MailDeliveryAssumption` and `MultiRoomAssumption` allow.

**ProviderEventsProofs.** `TypeCorrect`, `EffectIsAppliedOnce`, `OutcomeIsFenced`,
`OwnershipMovesForward`, `SettledStaysSettled`, `ParkedWithOneItem` and
`Refinement`. The inductive
invariant is `IInv == TypeOK /\ JobCount /\ EffectOnce /\ OwnerIsLastClaimer`.
`JobCount` relates BullMQ's counters (an activation is a failed try, a stall or
the attempt that runs now); without it the number of activations, and so the set
of tokens, has no bound. `OwnerIsLastClaimer` says that the row's owner is the
attempt that claimed last and that the row's generation is its own, from which
`OwnsRow` excludes every superseded attempt. `EffectOnce` is inductive with these,
because an effect commits only together with HYDRATED, and no attempt owns a
HYDRATED row. `RowStep` sorts the steps by what they do to the row, and each
kind is a step of `EventOutcome` or a stutter.

**BookingLifecycleProofs.** `BookingTypes` needs `booked <= stock`, which keeps the
counter in its range. `UnitsAreExact` and `UnitsRefine` assume a hotel without Clock, and
this is where the assumption matters: with Clock, a cancellation from an uncertain status
makes the counter inexact, and the mirror may revive an ended booking. Their invariant says that
without Clock a booking is never in an uncertain status (`LocalStatuses`), so the
cancellable statuses are exactly those from which a unit is given back. Each step
is shown to keep the holders, add one with its unit, or remove one with its unit
(`UnitEffect`); counting follows from the library's facts on cardinality,
and `Bookings` need not be finite. From the same three cases every step is an `Acquire`,
a `Release` or a `Resize` of `UnitHolds`, or a stutter. `NobodyPutIntoOccupiedRoom` is about
any hotel: only a creation and the mirror bring a booking into a room
(`OthersEnterNoRoom`), a creation takes one that is free (`CreateTakesFreeRoom`), and the
mirror changes nothing but the room and the status of a linked booking.

**BookingLedgerProofs.** `OnePayment`, `ChargesAreHonoured`, `UncertainHasItem`,
`ConfirmedHasBacking` and `EndedIsFinal`, all with and without Clock. The invariant
`Ledger(b)` says that a booking with a payment has
left the unpaid statuses for good, which is what makes a second recording
impossible; that a late row, and an answered refund attempt, belong to a Stripe
booking whose order is refunded, so PokPay cannot resume on one and a replay
records only money that went back; and that where Clock's bill missed a payment a
failure or a review item remembers it (`Memory`: no step forgets a link, a bill,
an item or a failure; the same fact gives `UncertainHasItem`). `ConfirmedHasBacking`
needs no more than the types: each step confirms a booking together with what it
is confirmed on, and links, money captured and rows are not taken away. `EndedIsFinal`
rests on `EndedStep`: no step but the mirror's changes an ended status.
`Frame` reduces each step to the booking it is about.

**BookingMirrorProofs.** `MirrorTypes`, `OneMail` and the refinement
`RowIsVersionedCopy`, for any number of readers,
writes and crashes and any skew. The invariant is `TypeOK`, `ClockLeads`,
`SameVersionSameState`, `FreshIsNewer`, `Unlinked`, `RowIsTrue` and `ToldIsPast`. `FreshIsNewer` is the
heart of it: a reader whose row is still what it saw has an answer at least as new as the
row, because it looked before it asked; so the write it makes under the lock cannot go
back, whatever the stamps say. `ClockLeads` says that nobody knows a version Clock does not
have yet; `RowIsTrue`, with `SameVersionSameState`, that the row, the answers under way and
Clock never disagree on what a version says, as far as MUST can read it, which makes each
write a `Take` of `VersionedCopy`. `ToldIsPast` says that a version staff were told of, or are about to be
told of by the one webhook that took it over, is behind the row or in it as a
cancellation: no later reader takes it over again.

**ClockSyncProofs.** `SyncTypes`, `NothingPassedOver`, `MarkAdvances`, for any number of
processes, reservations and faults and any batch size. `Passes` says what a pass that
ends at `until` still owes: a change stamped before `until - Overlap` has been read, or
its reservation is among those left to read. A change made after the list is stamped at
least `until - Skew`, hence not before `until - Overlap`: this is where `Skew <= Overlap`
is needed. `InOrder` says that a pass starts in the past and that the one whose runner
has the lease is not older than the mark.

**RefundLedgerProofs.** `RefundTypes`, `MoneyTraced`, `BooksFollow` and the refinement
`RefundsAreExact`. The
invariant says what a command may commit (`Plans`) and what its attempt stands for
(`Attempts`); that the ledger is behind the gateway by the money of one command at most,
and that this command blocks the others (`Behind`); that it is behind by exactly that
while the hotel returned nothing elsewhere (`Tally`), so the gateway's rate is one and a
refund returns what it was asked for; and that while money can still move
one request is on its way and nothing else is in doubt (`OneAtATime`), since every
command looks for blocking attempts after it took the booking's row. `Reconciling` says
that a row taken from the provider stands for the whole charge, after which the gateway
refuses everything. In the refinement a request that the gateway performs is a `Return`
(`SendReturns`: all earlier money is in the ledger), a commit or a recovery that writes a
row is a `Book` or a `Settle` (`BooksRefine`: its money has moved), and everything else
stutters.

**MailDeliveryProofs.** `MailTypes`, `OneAcceptance`, `SentNeverLost` and the refinement
`MailKeepsItsWord`.
`JournalTells`: a request on its way belongs to the fence of its row, and the journal never
says less than the provider did; a row in doubt is not sent again. `RunnerKnows` says what
a runner may conclude from its answer, `FallsAfterRejection` that the second stage begins
only when the first was rejected, hence not accepted, `SentWasAccepted` that SENT follows an
acceptance, and `JobHasTries` bounds the job. The refinement adds `KnownWasAccepted`: the
row knows a provider's id of accepted messages only, so a report is about one of them.

**MultiRoomOrderProofs.** `OrderTypes`, `OneOrder`, `OrderUnits` and the refinement
`OrderUnitsRefine`, for any number of rooms.
`Fresh`: before the order nothing of it exists; `Stages`: a waiting room has no sibling that
expired, and no room of an order without an online payment waits. `Settle` and `Expire` take
all pending rooms, so these survive every interleaving with the cancellation of single
rooms, with transactions that are lost and with the mirror. For `UnitHolds` a
creation takes the pooled rooms' units in one step (`CreationTakes`), a payment keeps them
(`PaymentKeeps`), and every ending returns exactly those of the rooms it ends
(`EndReturns`). The counting rests on the library's theorems on finite sets.

**Model-checked only.** Liveness (`EventSettles`, `HoldEnds`, `LateMoneyIsHandled`,
`CatchesUp`, `StuckIsNoticed`, `DoubtEnds`) is outside the prover's reach, as is anything
with ENABLED. The violations are counterexamples of TLC.

## Not modelled, and the plan

In the order in which it is worth doing:

1. `RecoverySweep`: several events, `updated_at`, the batch limit and an exception
   in the middle of a tick; whether every stuck row gets its turn. The same shape
   for the expiry sweep and for the stuck refunds, of which the job takes fifty.
2. `ClockConnection`: connecting and disabling Clock while bookings are open; the
   check before disabling does not ask for PMS_CREATION_PENDING.
3. Stay changes and room moves, with nights; payment collection and instalments over
   the ledger rules of `RefundLedger`.
4. Venue table holds and deposits; the circuit breaker and the rate limiter.
5. Pure functions against reference definitions: the price evaluator, promo codes,
   cancellation windows.

Left out for good: catalog, rate and permission sync (mapping of data),
tenancy and access control (a guard around every operation), reports, audit and
search (read models), the web frontends and the WordPress plugin (clients).
