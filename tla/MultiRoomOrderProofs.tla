------------------------ MODULE MultiRoomOrderProofs ------------------------
(***************************************************************************)
(* Machine-checked proofs about MultiRoomOrder, for an order of any number *)
(* of rooms and any stock.                                                 *)
(***************************************************************************)
EXTENDS MultiRoomOrder, FiniteSetTheorems, TLAPS

\* Before the order there is nothing of it.
Fresh ==
  method = "NONE" =>
    /\ pooled = {} /\ inClock = {}
    /\ \A c \in Rooms : status[c] = "NONE" /\ ledger[c] = "none" /\ desk[c] = 0

\* Only online orders wait and expire, a waiting room has no expired sibling, and
\* without Clock a room beyond payment is confirmed.
Stages ==
  /\ method \notin Online => \A c \in Rooms : status[c] \notin {"PAYMENT_PENDING", "EXPIRED"}
  /\ \A c, d \in Rooms : status[c] = "PAYMENT_PENDING" => status[d] # "EXPIRED"
  /\ ~connected =>
       inClock = {} /\ \A c \in Rooms : status[c] \in Attached => status[c] = "CONFIRMED"

IInv == TypeOK /\ Fresh /\ Stages /\ OrderMovesAsOne /\ UnitsMatchRooms

-----------------------------------------------------------------------------
LEMMA RoomsFinite == IsFiniteSet(Rooms) /\ Cardinality(Rooms) = Size
  BY FS_Interval, MultiRoomAssumption DEF Rooms

LEMMA SubsetsFinite ==
  ASSUME NEW S, S \subseteq Rooms
  PROVE  IsFiniteSet(S) /\ Cardinality(S) \in 0 .. Size
  <1>1. IsFiniteSet(S) /\ Cardinality(S) <= Size
    BY RoomsFinite, FS_Subset
  <1>2. Cardinality(S) \in Nat
    BY <1>1, FS_CardinalityType
  <1> QED
    BY <1>1, <1>2, MultiRoomAssumption

\* What an attach of the rooms S leaves.
LEMMA AttachEffect ==
  ASSUME TypeOK, NEW S, S \subseteq Rooms, NEW deposits \in BOOLEAN, Attach(S, deposits)
  PROVE  /\ status' \in [Rooms -> Statuses]
         /\ review' \subseteq Rooms
         /\ inClock' \subseteq Rooms /\ (~connected => inClock' = inClock)
         /\ \A c \in S : status'[c] \in Attached /\ (~connected => status'[c] = "CONFIRMED")
         /\ \A c \in Rooms \ S : status'[c] = status[c]
  <1>1. PICK s \in [S -> IF connected THEN Attached ELSE {"CONFIRMED"}] :
          /\ status' = [c \in Rooms |-> IF c \in S THEN s[c] ELSE status[c]]
          /\ \E unknown \in SUBSET {c \in S : s[c] \in Uncertain} :
               inClock' = inClock \cup unknown \cup {c \in S : connected /\ s[c] = "CONFIRMED"}
          /\ \E unposted \in SUBSET {c \in S : deposits /\ connected /\ s[c] = "CONFIRMED"} :
               review' = review \cup unposted \cup {c \in S : s[c] \in Uncertain}
    BY DEF Attach
  <1>2. \A c \in S : s[c] \in Attached /\ (~connected => s[c] = "CONFIRMED")
    <2>1. CASE connected
      BY <2>1
    <2>2. CASE ~connected
      BY <2>2 DEF Attached
    <2> QED
      BY <2>1, <2>2
  <1>3. review' \subseteq Rooms
    BY <1>1 DEF TypeOK
  <1>4. status' \in [Rooms -> Statuses]
    BY <1>1, <1>2 DEF TypeOK, Statuses
  <1>5. inClock' \subseteq Rooms
    BY <1>1 DEF TypeOK
  <1>6. ~connected => inClock' = inClock
    BY <1>1 DEF Uncertain
  <1> QED
    BY <1>1, <1>2, <1>3, <1>4, <1>5, <1>6

\* A step that keeps the counter and the rooms that are held.
LEMMA SameUnits ==
  ASSUME UnitsMatchRooms, UNCHANGED <<hotel, booked>>, ~connected => Held' = Held
  PROVE  UnitsMatchRooms'
  BY DEF UnitsMatchRooms, hotel

\* A step in which the rooms S, and no others, stop being held.
LEMMA GivenBack ==
  ASSUME TypeOK, UnitsMatchRooms, UNCHANGED hotel, NEW S, S \subseteq Rooms,
         GiveBack(S), Held' = Held \ S
  PROVE  UnitsMatchRooms' /\ booked' \in 0 .. MaxStock
  <1>1. CASE connected
    BY <1>1 DEF UnitsMatchRooms, GiveBack, hotel, TypeOK
  <1>2. CASE ~connected
    <2>1. Held \subseteq Rooms /\ S \cap Held \subseteq Rooms
      BY DEF Held, TypeOK
    <2>2. IsFiniteSet(Held) /\ Cardinality(Held) \in Nat /\ Cardinality(S \cap Held) \in Nat
      BY <2>1, SubsetsFinite
    <2>3. Cardinality(Held \ S) = Cardinality(Held) - Cardinality(Held \cap S)
      BY <2>2, FS_Difference
    <2>4. Held \cap S = S \cap Held
      OBVIOUS
    <2>5. Cardinality(Held') = Cardinality(Held) - Cardinality(S \cap Held)
      BY <2>3, <2>4
    <2>6. booked' = booked - Cardinality(S \cap Held) /\ Cardinality(S \cap Held) <= booked
      BY <1>2 DEF GiveBack
    <2>7. booked = others + Cardinality(Held) /\ booked <= stock /\ booked \in 0 .. MaxStock
          /\ others \in Nat /\ stock \in Nat /\ MaxStock \in Nat
      BY <1>2, MultiRoomAssumption DEF UnitsMatchRooms, TypeOK
    <2>8. booked' = others' + Cardinality(Held') /\ booked' <= stock' /\ booked' \in 0 .. MaxStock
      BY <2>2, <2>5, <2>6, <2>7 DEF hotel
    <2> QED
      BY <2>8 DEF UnitsMatchRooms
  <1> QED
    BY <1>1, <1>2

-----------------------------------------------------------------------------
\* The initial states satisfy the inductive invariant.
LEMMA InitInv == Init => IInv
  <1> SUFFICES ASSUME Init PROVE IInv
    OBVIOUS
  <1> USE MultiRoomAssumption DEF Init
  <1>1. TypeOK
    <2>1. connected \in BOOLEAN /\ due \in BOOLEAN
      BY Zenon
    <2>2. stock \in 0 .. MaxStock /\ others \in 0 .. MaxStock /\ booked \in 0 .. MaxStock
      OBVIOUS
    <2>3. desk \in [Rooms -> 0 .. Size] /\ refunded \in [Rooms -> 0 .. Size]
      OBVIOUS
    <2>4. /\ method \in {"NONE", "PAY_AT_HOTEL"} \cup Online
          /\ pooled \subseteq Rooms /\ free \subseteq Rooms
          /\ review \subseteq Rooms /\ inClock \subseteq Rooms /\ seen \subseteq Rooms
          /\ status \in [Rooms -> Statuses]
          /\ orders \in [Rooms -> {"none", "open", "paid", "refunded"}]
          /\ ledger \in [Rooms -> {"none", "PAID", "LATE_AFTER_EXPIRY"}]
      BY DEF Statuses
    <2> QED
      BY <2>1, <2>2, <2>3, <2>4 DEF TypeOK
  <1>2. Fresh
    BY DEF Fresh
  <1>3. Stages
    BY DEF Stages, Attached, Uncertain, Online
  <1>4. OrderMovesAsOne
    BY DEF OrderMovesAsOne, Online
  <1>5. UnitsMatchRooms
    <2>1. Held = {}
      BY DEF Held
    <2> QED
      BY <2>1, FS_EmptySet DEF UnitsMatchRooms
  <1> QED
    BY <1>1, <1>2, <1>3, <1>4, <1>5 DEF IInv

-----------------------------------------------------------------------------
\* ReserveAll of the pooled rooms of a new order whose rooms are all held.
LEMMA Reserved ==
  ASSUME TypeOK, Fresh, UnitsMatchRooms, method = "NONE", UNCHANGED hotel,
         NEW P, P \subseteq Rooms, ReserveAll(P), ~connected => Held' = P
  PROVE  UnitsMatchRooms' /\ booked' \in 0 .. MaxStock
  <1>1. Cardinality(P) \in Nat
    BY SubsetsFinite
  <1>2. CASE connected
    BY <1>2 DEF UnitsMatchRooms, ReserveAll, hotel, TypeOK
  <1>3. CASE ~connected
    <2>1. Held = {}
      BY DEF Held, Fresh
    <2>2. booked = others
      BY <1>3, <2>1, FS_EmptySet DEF UnitsMatchRooms, TypeOK
    <2>3. booked + Cardinality(P) <= stock /\ booked' = booked + Cardinality(P)
      BY <1>3 DEF ReserveAll
    <2>4. booked' = others' + Cardinality(Held') /\ booked' <= stock' /\ booked' \in 0 .. MaxStock
      BY <1>1, <1>3, <2>2, <2>3, MultiRoomAssumption DEF TypeOK, hotel
    <2> QED
      BY <2>4 DEF UnitsMatchRooms
  <1> QED
    BY <1>2, <1>3

LEMMA CreateOnlineInv ==
  ASSUME IInv, NEW m \in Online, NEW P \in SUBSET Rooms, CreateOnline(m, P)
  PROVE  IInv'
  <1> USE DEF IInv
  <1>1. /\ method = "NONE" /\ method' = m /\ pooled' = P /\ ReserveAll(P)
        /\ UNCHANGED <<hotel, due, free, ledger, desk, refunded, seen, review, inClock>>
        /\ \A c \in Rooms : status'[c] = "PAYMENT_PENDING"
        /\ status' \in [Rooms -> Statuses]
        /\ orders' \in [Rooms -> {"none", "open", "paid", "refunded"}]
    BY DEF CreateOnline, Fill, SetStatus, TypeOK, Statuses, Online
  <1>2. \A c \in Rooms : ledger[c] = "none" /\ desk[c] = 0
    BY <1>1 DEF Fresh
  <1>3. Held' = P
    BY <1>1 DEF Held
  <1>4. UnitsMatchRooms' /\ booked' \in 0 .. MaxStock
    BY <1>1, <1>3, Reserved
  <1>5. TypeOK'
    BY <1>1, <1>4 DEF TypeOK, hotel
  <1>6. Fresh'
    BY <1>1 DEF Fresh, Online
  <1>7. Stages'
    BY <1>1 DEF Stages, Attached, Uncertain, hotel
  <1>8. OrderMovesAsOne'
    BY <1>1, <1>2, MultiRoomAssumption DEF OrderMovesAsOne, Settled, Paid, Attached, Uncertain
  <1> QED
    BY <1>4, <1>5, <1>6, <1>7, <1>8

LEMMA CreatePayAtHotelInv ==
  ASSUME IInv, NEW P \in SUBSET Rooms, CreatePayAtHotel(P)
  PROVE  IInv'
  <1> USE DEF IInv
  <1>1. /\ method = "NONE" /\ method' = "PAY_AT_HOTEL" /\ pooled' = P /\ ReserveAll(P)
        /\ UNCHANGED <<hotel, due, free, orders, ledger, desk, refunded, seen>>
        /\ Attach(Rooms, FALSE)
    BY DEF CreatePayAtHotel, Fill
  <1>2. /\ status' \in [Rooms -> Statuses] /\ review' \subseteq Rooms
        /\ inClock' \subseteq Rooms /\ (~connected => inClock' = inClock)
        /\ \A c \in Rooms : status'[c] \in Attached /\ (~connected => status'[c] = "CONFIRMED")
    BY <1>1, AttachEffect
  <1>3. ~connected => Held' = P
    BY <1>1, <1>2 DEF Held
  <1>4. UnitsMatchRooms' /\ booked' \in 0 .. MaxStock
    BY <1>1, <1>3, Reserved
  <1>5. TypeOK'
    BY <1>1, <1>2, <1>4 DEF TypeOK, hotel
  <1>6. Fresh'
    BY <1>1 DEF Fresh
  <1>7. Stages'
    BY <1>1, <1>2 DEF Stages, Attached, Uncertain, hotel
  <1>8. OrderMovesAsOne'
    BY <1>1 DEF OrderMovesAsOne, Online
  <1> QED
    BY <1>4, <1>5, <1>6, <1>7, <1>8

\* A payment recorded for a pending booking c: every pending room goes on.
LEMMA SettledInv ==
  ASSUME IInv, NEW c \in Rooms, status[c] = "PAYMENT_PENDING", Attach(Pending, TRUE),
         UNCHANGED <<hotel, method, pooled, due, free, orders, refunded, seen, booked>>,
         ledger' \in [Rooms -> {"none", "PAID", "LATE_AFTER_EXPIRY"}],
         desk' \in [Rooms -> 0 .. Size],
         Settled',
         \A d \in Rooms : ledger'[d] = "PAID" => d = c
  PROVE  IInv'
  <1> USE DEF IInv
  <1>1. Pending \subseteq Rooms
    BY DEF Pending
  <1>2. /\ status' \in [Rooms -> Statuses] /\ review' \subseteq Rooms
        /\ inClock' \subseteq Rooms /\ (~connected => inClock' = inClock)
        /\ \A d \in Pending : status'[d] \in Attached /\ (~connected => status'[d] = "CONFIRMED")
        /\ \A d \in Rooms \ Pending : status'[d] = status[d]
    BY <1>1, AttachEffect
  <1>3. \A d \in Rooms : status'[d] \notin {"PAYMENT_PENDING", "EXPIRED"}
    BY <1>2 DEF Pending, Stages, Attached, Uncertain
  <1>4. ~connected => Held' = Held
    BY <1>1, <1>2 DEF Held, Pending, TypeOK
  <1>5. UnitsMatchRooms'
    BY <1>4, SameUnits
  <1>6. TypeOK'
    BY <1>2 DEF TypeOK, hotel
  <1>7. Fresh'
    BY DEF Fresh, Stages, Online
  <1>8. Stages'
    BY <1>2, <1>3 DEF Stages, hotel
  <1>9. OrderMovesAsOne'
    BY <1>3 DEF OrderMovesAsOne, Paid
  <1> QED
    BY <1>5, <1>6, <1>7, <1>8, <1>9

\* A pending room of an online order: nothing was paid yet.
LEMMA PendingIsUnpaid ==
  ASSUME IInv, NEW c \in Rooms, status[c] = "PAYMENT_PENDING"
  PROVE  method \in Online /\ ~Settled
  BY DEF IInv, Stages, OrderMovesAsOne

LEMMA SettleInv ==
  ASSUME IInv, NEW c \in Rooms, Settle(c)
  PROVE  IInv'
  <1>1. /\ status[c] = "PAYMENT_PENDING" /\ Attach(Pending, TRUE)
        /\ ledger' = [ledger EXCEPT ![c] = "PAID"]
        /\ UNCHANGED <<hotel, method, pooled, due, free, orders, desk, refunded, seen, booked>>
    BY DEF Settle, RecordCharge
  <1>2. ledger' \in [Rooms -> {"none", "PAID", "LATE_AFTER_EXPIRY"}] /\ ledger'[c] = "PAID"
        /\ desk' \in [Rooms -> 0 .. Size]
    BY <1>1 DEF IInv, TypeOK
  <1>3. \A d \in Rooms : ledger'[d] = "PAID" => d = c
    BY <1>1, PendingIsUnpaid DEF Settled, Paid, IInv, TypeOK
  <1>4. Settled'
    BY <1>2 DEF Settled, Paid
  <1> QED
    BY <1>1, <1>2, <1>3, <1>4, SettledInv

LEMMA DeskSettleInv ==
  ASSUME IInv, NEW c \in Rooms, DeskSettle(c)
  PROVE  IInv'
  <1>1. /\ status[c] = "PAYMENT_PENDING" /\ Attach(Pending, TRUE)
        /\ UNCHANGED <<hotel, method, pooled, due, free, orders, ledger, refunded, seen, booked>>
    BY DEF DeskSettle
  <1>2. PICK n \in Owed(c) \ {0} : desk' = [desk EXCEPT ![c] = n]
    BY DEF DeskSettle
  <1>3. ~Settled
    BY <1>1, PendingIsUnpaid
  <1>4. n = Size
    BY <1>1, <1>2, <1>3 DEF Owed, Settled
  <1>5. desk' \in [Rooms -> 0 .. Size] /\ desk'[c] = Size
    BY <1>2, <1>4, MultiRoomAssumption DEF IInv, TypeOK
  <1>6. Settled'
    BY <1>5 DEF Settled
  <1>7. \A d \in Rooms : ledger'[d] = "PAID" => d = c
    BY <1>1, <1>3 DEF Settled, Paid
  <1>8. ledger' \in [Rooms -> {"none", "PAID", "LATE_AFTER_EXPIRY"}]
    BY <1>1 DEF IInv, TypeOK
  <1> QED
    BY <1>1, <1>5, <1>6, <1>7, <1>8, SettledInv

\* The steps that leave every room's status and the units alone.
LEMMA StatusKeptInv ==
  ASSUME IInv, UNCHANGED <<hotel, method, pooled, status, booked>>, TypeOK',
         inClock \subseteq inClock', ~connected => inClock' = inClock,
         method \in Online => (Settled' <=> Settled),
         \A d \in Rooms : Paid(d)' <=> Paid(d), Fresh'
  PROVE  IInv'
  <1> USE DEF IInv
  <1>1. UnitsMatchRooms'
    BY SameUnits DEF Held
  <1>2. Stages'
    BY DEF Stages, hotel
  <1>3. OrderMovesAsOne'
    BY DEF OrderMovesAsOne, hotel
  <1> QED
    BY <1>1, <1>2, <1>3

\* Gateway orders, time, policies and evidence change no room's stage.
LEMMA QuietInv ==
  ASSUME IInv,
         NEW c \in Rooms,
         \/ PayOrder(c) \/ Resend(c) \/ TimePasses \/ WindowCloses(c) \/ Look(c)
         \/ SettleLost(c)
  PROVE  IInv'
  <1> USE DEF IInv
  <1>1. UNCHANGED <<hotel, method, pooled, status, ledger, desk, refunded, review, booked>>
    BY DEF PayOrder, Resend, TimePasses, WindowCloses, Look, SettleLost, money
  <1>2. /\ orders' \in [Rooms -> {"none", "open", "paid", "refunded"}]
        /\ due' \in BOOLEAN /\ free' \subseteq Rooms /\ seen' \subseteq Rooms
    BY DEF PayOrder, Resend, TimePasses, WindowCloses, Look, SettleLost, money, TypeOK
  <1>3. /\ inClock' \subseteq Rooms /\ inClock \subseteq inClock'
        /\ ~connected => inClock' = inClock
    BY DEF PayOrder, Resend, TimePasses, WindowCloses, Look, SettleLost, Pending, TypeOK
  <1>4. TypeOK'
    BY <1>1, <1>2, <1>3 DEF TypeOK, hotel
  <1>5. Fresh'
    <2>1. inClock' = inClock \/ \E d \in Rooms : status[d] = "PAYMENT_PENDING"
      BY DEF PayOrder, Resend, TimePasses, WindowCloses, Look, SettleLost
    <2> QED
      BY <1>1, <2>1 DEF Fresh
  <1>6. (Settled' <=> Settled) /\ \A d \in Rooms : Paid(d)' <=> Paid(d)
    BY <1>1 DEF Settled, Paid
  <1> QED
    BY <1>1, <1>3, <1>4, <1>5, <1>6, StatusKeptInv

LEMMA StripeLateInv ==
  ASSUME IInv, NEW c \in Rooms, StripeLate(c)
  PROVE  IInv'
  <1> USE DEF IInv
  <1>1. /\ status[c] = "EXPIRED" /\ ledger[c] = "none"
        /\ orders' = [orders EXCEPT ![c] = "refunded"]
        /\ ledger' = [ledger EXCEPT ![c] = "LATE_AFTER_EXPIRY"]
        /\ refunded' = [refunded EXCEPT ![c] = Size]
        /\ UNCHANGED <<hotel, method, pooled, status, due, free, desk, review, inClock,
                       seen, booked>>
    BY DEF StripeLate
  <1>2. TypeOK'
    BY <1>1, MultiRoomAssumption DEF TypeOK, hotel
  <1>3. Fresh'
    BY <1>1 DEF Fresh
  <1>4. \A d \in Rooms : Paid(d)' <=> Paid(d)
    BY <1>1 DEF Paid, TypeOK
  <1>5. Settled' <=> Settled
    BY <1>1, <1>4 DEF Settled
  <1> QED
    BY <1>1, <1>2, <1>3, <1>4, <1>5, StatusKeptInv

LEMMA DeskPaymentInv ==
  ASSUME IInv, NEW c \in Rooms, DeskPayment(c)
  PROVE  IInv'
  <1> USE DEF IInv
  <1>1. /\ status[c] = "CONFIRMED" /\ desk[c] = 0
        /\ review' \subseteq Rooms
        /\ UNCHANGED <<hotel, method, pooled, status, due, free, orders, ledger, refunded,
                       inClock, seen, booked>>
    BY DEF DeskPayment, TypeOK
  <1>2. PICK owed \in Owed(c) : \E n \in 1 .. owed : desk' = [desk EXCEPT ![c] = n]
    BY DEF DeskPayment
  <1>3. owed \in 0 .. Size
    BY MultiRoomAssumption DEF Owed
  <1>4. PICK n \in 1 .. owed : desk' = [desk EXCEPT ![c] = n]
    BY <1>2
  <1>5. n \in 0 .. Size /\ n > 0
    BY <1>3, <1>4, MultiRoomAssumption
  <1>6. TypeOK'
    BY <1>1, <1>4, <1>5 DEF TypeOK, hotel
  <1>7. Fresh'
    BY <1>1 DEF Fresh
  <1>8. \A d \in Rooms : Paid(d)' <=> Paid(d)
    BY <1>1 DEF Paid
  <1>9. method \in Online => (Settled' <=> Settled)
    <2>1. SUFFICES ASSUME method \in Online PROVE Settled' <=> Settled
      OBVIOUS
    <2>2. CASE connected
      <3>1. owed <= 1
        BY <1>1, <2>2 DEF Owed
      <3>2. n = 1
        BY <1>3, <1>4, <3>1, MultiRoomAssumption
      <3>3. desk' = [desk EXCEPT ![c] = 1]
        BY <1>4, <3>2
      <3>4. \A d \in Rooms : (desk'[d] = Size <=> desk[d] = Size)
        BY <1>1, <3>3, MultiRoomAssumption DEF TypeOK
      <3> QED
        BY <1>8, <3>4 DEF Settled
    <2>3. CASE ~connected
      <3>1. PICK d \in Rooms : Paid(d) \/ desk[d] = Size
        BY <1>1, <2>1, <2>3 DEF Settled, OrderMovesAsOne, Attached
      <3>2. desk[d] = Size => desk'[d] = Size
        BY <1>1, <1>4, MultiRoomAssumption DEF TypeOK
      <3> QED
        BY <1>8, <3>1, <3>2 DEF Settled
    <2> QED
      BY <2>2, <2>3
  <1> QED
    BY <1>1, <1>6, <1>7, <1>8, <1>9, StatusKeptInv

\* The steps that end rooms and give their units back: S is cancelled, or the
\* pending rooms expire.
LEMMA EndedInv ==
  ASSUME IInv, NEW S, S \subseteq Rooms, NEW end \in {"CANCELLED", "EXPIRED"},
         SetStatus(S, end), GiveBack(S), \A c \in S : status[c] # "NONE",
         UNCHANGED <<hotel, method, pooled, due, free, orders, ledger, desk, inClock>>,
         refunded' \in [Rooms -> 0 .. Size], review' \subseteq Rooms, seen' \subseteq Rooms,
         end = "EXPIRED" => S = Pending /\ S # {}
  PROVE  IInv'
  <1> USE DEF IInv
  <1>1. /\ status' \in [Rooms -> Statuses]
        /\ \A c \in S : status'[c] = end
        /\ \A c \in Rooms \ S : status'[c] = status[c]
    BY DEF SetStatus, TypeOK, Statuses
  <1>2. Held' = Held \ S
    BY <1>1 DEF Held, TypeOK
  <1>3. UnitsMatchRooms' /\ booked' \in 0 .. MaxStock
    BY <1>2, GivenBack
  <1>4. TypeOK'
    BY <1>1, <1>3 DEF TypeOK, hotel
  <1>5. Fresh'
    <2>1. CASE S = {}
      BY <1>1, <2>1 DEF Fresh
    <2>2. CASE S # {}
      BY <2>2 DEF Fresh
    <2> QED
      BY <2>1, <2>2
  <1>6. (Settled' <=> Settled) /\ \A d \in Rooms : Paid(d)' <=> Paid(d)
    BY DEF Settled, Paid
  <1>7. CASE end = "CANCELLED"
    <2>1. Stages'
      BY <1>1, <1>7 DEF Stages, Attached, Uncertain, hotel
    <2>2. OrderMovesAsOne'
      BY <1>1, <1>6, <1>7 DEF OrderMovesAsOne, Attached, Uncertain, hotel
    <2> QED
      BY <1>3, <1>4, <1>5, <2>1, <2>2
  <1>8. CASE end = "EXPIRED"
    <2>1. PICK c \in Rooms : status[c] = "PAYMENT_PENDING"
      BY <1>8 DEF Pending
    <2>2. method \in Online /\ ~Settled
      BY <2>1, PendingIsUnpaid
    <2>3. \A d \in Rooms : status'[d] # "PAYMENT_PENDING"
      BY <1>1, <1>8 DEF Pending
    <2>4. Stages'
      BY <1>1, <1>8, <2>2, <2>3 DEF Stages, Attached, Uncertain, hotel
    <2>5. OrderMovesAsOne'
      BY <1>1, <1>6, <1>8, <2>2 DEF OrderMovesAsOne, Attached, Uncertain, hotel
    <2> QED
      BY <1>3, <1>4, <1>5, <2>4, <2>5
  <1> QED
    BY <1>7, <1>8

\* The mirror ends no wait but that of a room in Clock, and starts none.
LEMMA MirrorInv ==
  ASSUME IInv, NEW c \in Rooms, Mirror(c)
  PROVE  IInv'
  <1> USE DEF IInv
  <1>1. /\ connected /\ c \in inClock
        /\ UNCHANGED <<hotel, method, pooled, due, free, orders, ledger, desk, refunded, review,
                       inClock, seen, booked>>
    BY DEF Mirror, money
  <1>2. PICK s \in {"CONFIRMED", "CANCELLED"} : SetStatus({c}, s)
    BY DEF Mirror
  <1>3. status' \in [Rooms -> Statuses] /\ status'[c] = s
        /\ \A d \in Rooms \ {c} : status'[d] = status[d]
    BY <1>2 DEF SetStatus, TypeOK, Statuses, Attached
  <1>4. UnitsMatchRooms'
    BY <1>1 DEF UnitsMatchRooms, hotel
  <1>5. TypeOK'
    BY <1>1, <1>3 DEF TypeOK, hotel
  <1>6. Fresh'
    BY <1>1 DEF Fresh
  <1>7. Stages'
    BY <1>1, <1>3 DEF Stages, hotel
  <1>8. (Settled' <=> Settled) /\ \A d \in Rooms : Paid(d)' <=> Paid(d)
    BY <1>1 DEF Settled, Paid
  <1>9. OrderMovesAsOne'
    BY <1>1, <1>3, <1>8 DEF OrderMovesAsOne, hotel
  <1> QED
    BY <1>4, <1>5, <1>6, <1>7, <1>9

LEMMA ExpireInv ==
  ASSUME IInv, NEW c \in Rooms, Expire(c)
  PROVE  IInv'
  <1>1. /\ Pending # {} /\ Pending \subseteq Rooms /\ GiveBack(Pending)
        /\ SetStatus(Pending, "EXPIRED")
        /\ \A d \in Pending : status[d] # "NONE"
    BY DEF Expire, Pending
  <1>2. UNCHANGED <<hotel, method, pooled, due, free, orders, ledger, desk, inClock>>
    BY DEF Expire, money
  <1>3. refunded' \in [Rooms -> 0 .. Size] /\ review' \subseteq Rooms /\ seen' \subseteq Rooms
    BY DEF Expire, money, IInv, TypeOK
  <1> QED
    BY <1>1, <1>2, <1>3, EndedInv

LEMMA CancelOrderInv ==
  ASSUME IInv, NEW c \in Rooms, CancelOrder(c)
  PROVE  IInv'
  <1>1. /\ GiveBack(Rooms) /\ SetStatus(Rooms, "CANCELLED") /\ RefundFree(c)
        /\ \A d \in Rooms : status[d] # "NONE"
        /\ UNCHANGED <<hotel, method, pooled, due, free, orders, ledger, desk, inClock>>
    BY DEF CancelOrder, Cancellable, Uncertain
  <1>2. Cardinality(free) \in 0 .. Size
    BY SubsetsFinite DEF IInv, TypeOK
  <1>3. refunded' \in [Rooms -> 0 .. Size] /\ review' \subseteq Rooms
    BY <1>1, <1>2 DEF RefundFree, IInv, TypeOK
  <1>4. seen' \subseteq Rooms
    BY DEF CancelOrder, IInv, TypeOK
  <1> QED
    BY <1>1, <1>3, <1>4, EndedInv

LEMMA CancelOneInv ==
  ASSUME IInv, NEW c \in Rooms, CancelOne(c)
  PROVE  IInv'
  <1>1. /\ seen' \subseteq Rooms /\ refunded' \in [Rooms -> 0 .. Size]
        /\ UNCHANGED <<hotel, method, pooled, due, free, orders, ledger, desk, refunded,
                       inClock>>
    BY DEF CancelOne, money, IInv, TypeOK
  <1>2. CASE /\ status[c] \in Cancellable /\ GiveBack({c}) /\ SetStatus({c}, "CANCELLED")
             /\ UNCHANGED review
    <2>1. review' \subseteq Rooms
      BY <1>2 DEF IInv, TypeOK
    <2>2. \A d \in {c} : status[d] # "NONE"
      BY <1>2 DEF Cancellable, Uncertain
    <2> QED
      BY <1>1, <1>2, <2>1, <2>2, EndedInv
  <1>3. CASE review' = review \cup {c} /\ UNCHANGED <<status, booked>>
    <2>1. TypeOK'
      BY <1>1, <1>3 DEF IInv, TypeOK, hotel
    <2>2. Fresh'
      BY <1>1, <1>3 DEF IInv, Fresh
    <2>3. (Settled' <=> Settled) /\ \A d \in Rooms : Paid(d)' <=> Paid(d)
      BY <1>1 DEF Settled, Paid
    <2> QED
      BY <1>1, <1>3, <2>1, <2>2, <2>3, StatusKeptInv
  <1> QED
    BY <1>2, <1>3 DEF CancelOne

-----------------------------------------------------------------------------
\* Every step keeps the inductive invariant.
LEMMA StepInv == IInv /\ [Next]_vars => IInv'
  <1> SUFFICES ASSUME IInv, [Next]_vars PROVE IInv'
    OBVIOUS
  <1>1. ASSUME NEW P \in SUBSET Rooms, CreatePayAtHotel(P) PROVE IInv'
    BY <1>1, CreatePayAtHotelInv
  <1>2. ASSUME NEW P \in SUBSET Rooms, NEW m \in Online, CreateOnline(m, P) PROVE IInv'
    BY <1>2, CreateOnlineInv
  <1>3. CASE TimePasses
    <2>1. Anchor \in Rooms
      BY MultiRoomAssumption DEF Anchor, Rooms
    <2> QED
      BY <1>3, <2>1, QuietInv
  <1>4. ASSUME NEW c \in Rooms, Room(c) PROVE IInv'
    <2>1. CASE PayOrder(c) \/ Resend(c) \/ WindowCloses(c) \/ Look(c) \/ SettleLost(c)
      BY <2>1, QuietInv
    <2>2. CASE Settle(c)
      BY <2>2, SettleInv
    <2>3. CASE StripeLate(c)
      BY <2>3, StripeLateInv
    <2>4. CASE DeskSettle(c)
      BY <2>4, DeskSettleInv
    <2>5. CASE DeskPayment(c)
      BY <2>5, DeskPaymentInv
    <2>6. CASE Expire(c)
      BY <2>6, ExpireInv
    <2>7. CASE CancelOrder(c)
      BY <2>7, CancelOrderInv
    <2>8. CASE CancelOne(c)
      BY <2>8, CancelOneInv
    <2>9. CASE Mirror(c)
      BY <2>9, MirrorInv
    <2> QED
      BY <1>4, <2>1, <2>2, <2>3, <2>4, <2>5, <2>6, <2>7, <2>8, <2>9 DEF Room
  <1>5. CASE UNCHANGED vars
    <2>1. UNCHANGED <<hotel, method, pooled, status, due, free, orders, ledger, desk, refunded,
                      review, inClock, seen, booked>>
      BY <1>5 DEF vars, money
    <2>2. TypeOK' /\ Fresh'
      BY <2>1 DEF IInv, TypeOK, Fresh, hotel
    <2>3. (Settled' <=> Settled) /\ \A d \in Rooms : Paid(d)' <=> Paid(d)
      BY <2>1 DEF Settled, Paid
    <2> QED
      BY <2>1, <2>2, <2>3, StatusKeptInv
  <1> QED
    BY <1>1, <1>2, <1>3, <1>4, <1>5 DEF Next

LEMMA Always == Spec => []IInv
  <1>1. Init => IInv
    BY InitInv
  <1>2. IInv /\ [Next]_vars => IInv'
    BY StepInv
  <1> QED
    BY <1>1, <1>2, PTL DEF Spec

\* Every variable keeps its type: no counter of units or money leaves its range.
THEOREM OrderTypes == Spec => []TypeOK
  <1>1. IInv => TypeOK
    BY DEF IInv
  <1> QED
    BY <1>1, Always, PTL

\* Payments, resent links, the desk, the sweep and cancellations move an order
\* as one, though transactions are lost: paid, nothing of it waits or has expired;
\* unpaid, nothing of it is beyond payment but by its reservation in Clock.
THEOREM OneOrder == Spec => []OrderMovesAsOne
  <1>1. IInv => OrderMovesAsOne
    BY DEF IInv
  <1> QED
    BY <1>1, Always, PTL

\* The hotel's counter follows the order's pooled rooms exactly.
THEOREM OrderUnits == Spec => []UnitsMatchRooms
  <1>1. IInv => UnitsMatchRooms
    BY DEF IInv
  <1> QED
    BY <1>1, Always, PTL

-----------------------------------------------------------------------------
(***************************************************************************)
(* The order implements UnitHolds.                                         *)
(***************************************************************************)
\* In a hotel without Clock a step leaves the units alone, takes those of every
\* pooled room of a new order, or gives back those of held rooms.
Kept == Held' = Held /\ booked' = booked

Taken(S) ==
  /\ Held = {} /\ Held' = S
  /\ booked + Cardinality(S) <= stock /\ booked' = booked + Cardinality(S)

Returned(S) == S \subseteq Held /\ Held' = Held \ S /\ booked' = booked - Cardinality(S)

UnitMove == Kept \/ \E S \in SUBSET Rooms : Taken(S) \/ Returned(S)

LEMMA CreationTakes ==
  ASSUME IInv, ~connected, NEW P \in SUBSET Rooms,
         CreatePayAtHotel(P) \/ \E m \in Online : CreateOnline(m, P)
  PROVE  Taken(P)
<1> USE DEF IInv
<1>1. method = "NONE" /\ pooled' = P /\ ReserveAll(P)
  BY DEF CreatePayAtHotel, CreateOnline, Fill
<1>2. \A c \in Rooms : status'[c] \in {"PAYMENT_PENDING", "CONFIRMED"}
  <2>1. CASE CreatePayAtHotel(P)
    BY <2>1, AttachEffect DEF CreatePayAtHotel
  <2>2. ASSUME NEW m \in Online, CreateOnline(m, P)
        PROVE  \A c \in Rooms : status'[c] = "PAYMENT_PENDING"
    BY <2>2 DEF CreateOnline, SetStatus
  <2> QED
    BY <2>1, <2>2
<1>3. Held = {}
  BY <1>1 DEF Fresh, Held
<1>4. Held' = P
  BY <1>1, <1>2 DEF Held
<1> QED
  BY <1>1, <1>3, <1>4 DEF Taken, ReserveAll

\* A paid room is held as the pending one was.
LEMMA PaymentKeeps ==
  ASSUME IInv, ~connected, UNCHANGED <<booked, pooled>>, Attach(Pending, TRUE)
  PROVE  Kept
<1>1. Pending \subseteq Rooms
  BY DEF Pending
<1>2. /\ \A d \in Pending : status'[d] = "CONFIRMED"
      /\ \A d \in Rooms \ Pending : status'[d] = status[d]
  BY <1>1, AttachEffect DEF IInv
<1>3. Held' = Held
  BY <1>1, <1>2 DEF Held, Pending, IInv, TypeOK
<1> QED
  BY <1>3 DEF Kept

\* Cancelled or expired rooms give back what they held, and no more.
LEMMA EndReturns ==
  ASSUME IInv, ~connected, NEW S, S \subseteq Rooms, NEW end \in {"CANCELLED", "EXPIRED"},
         SetStatus(S, end), GiveBack(S), UNCHANGED pooled
  PROVE  UnitMove
<1>1. Held' = Held \ (S \cap Held)
  BY DEF Held, SetStatus, IInv, TypeOK
<1>2. Returned(S \cap Held)
  BY <1>1 DEF Returned, GiveBack
<1> QED
  BY <1>2 DEF UnitMove

LEMMA StepMovesUnits ==
  ASSUME IInv, ~connected, [Next]_vars
  PROVE  UnitMove
<1>1. ASSUME NEW P \in SUBSET Rooms,
             CreatePayAtHotel(P) \/ \E m \in Online : CreateOnline(m, P)
      PROVE  UnitMove
  BY <1>1, CreationTakes DEF UnitMove
<1>2. CASE UNCHANGED vars \/ TimePasses
  BY <1>2 DEF vars, TimePasses, UnitMove, Kept, Held
<1>3. ASSUME NEW c \in Rooms, Room(c) PROVE UnitMove
  <2>1. CASE Settle(c) \/ DeskSettle(c)
    BY <2>1, PaymentKeeps DEF Settle, DeskSettle, UnitMove
  <2>2. CASE \/ PayOrder(c) \/ Resend(c) \/ StripeLate(c) \/ DeskPayment(c)
             \/ WindowCloses(c) \/ Look(c) \/ SettleLost(c) \/ Mirror(c)
    BY <2>2
       DEF SettleLost, Mirror, PayOrder, Resend, StripeLate, DeskPayment, WindowCloses, Look, UnitMove, Kept, Held
  <2>3. CASE Expire(c)
    BY <2>3, EndReturns DEF Expire, Pending
  <2>4. CASE CancelOrder(c)
    BY <2>4, EndReturns DEF CancelOrder
  <2>5. CASE CancelOne(c)
    <3>1. CASE GiveBack({c}) /\ SetStatus({c}, "CANCELLED")
      BY <2>5, <3>1, EndReturns DEF CancelOne
    <3>2. CASE UNCHANGED <<status, booked>>
      BY <2>5, <3>2 DEF CancelOne, UnitMove, Kept, Held
    <3> QED
      BY <2>5, <3>1, <3>2 DEF CancelOne
  <2> QED
    BY <1>3, <2>1, <2>2, <2>3, <2>4, <2>5 DEF Room
<1> QED
  BY <1>1, <1>2, <1>3 DEF Next

LEMMA HotelFixed ==
  ASSUME [Next]_vars
  PROVE  UNCHANGED hotel
BY DEF Next, vars, Room, CreatePayAtHotel, CreateOnline, Fill, TimePasses, PayOrder, Resend,
       Settle, SettleLost, Mirror, StripeLate, DeskSettle, DeskPayment, WindowCloses, Expire, CancelOrder, Look,
       CancelOne

\* The bookings that hold a unit are as many as the counter says.
LEMMA HoldersCounted ==
  ASSUME IInv, ~connected
  PROVE  /\ Holders = Held \cup (Size + 1 .. Size + others)
         /\ Held \cap (Size + 1 .. Size + others) = {}
         /\ Holders \in SUBSET (1 .. Size + MaxStock)
         /\ IsFiniteSet(Holders) /\ Cardinality(Holders) = booked
<1> DEFINE Theirs == Size + 1 .. Size + others
<1>1. Size \in Nat /\ others \in Nat /\ others <= MaxStock /\ MaxStock \in Nat
  BY MultiRoomAssumption DEF IInv, TypeOK
<1>2. Held \subseteq Rooms /\ IsFiniteSet(Held) /\ Cardinality(Held) \in Nat
  BY SubsetsFinite DEF Held, IInv, TypeOK
<1>3. IsFiniteSet(Theirs) /\ Cardinality(Theirs) = others
  BY <1>1, FS_Interval
<1>4. Held \cap Theirs = {}
  BY <1>1, <1>2 DEF Rooms
<1>5. Held \cup Theirs \in SUBSET (1 .. Size + MaxStock)
  BY <1>1, <1>2 DEF Rooms
<1>6. IsFiniteSet(Held \cup Theirs)
      /\ Cardinality(Held \cup Theirs) = Cardinality(Held) + Cardinality(Theirs)
  <2>1. Cardinality(Held \cap Theirs) = 0
    BY <1>4, FS_EmptySet
  <2>2. IsFiniteSet(Held \cup Theirs)
    BY <1>2, <1>3, FS_Union
  <2>3. Cardinality(Held \cup Theirs)
          = Cardinality(Held) + Cardinality(Theirs) - Cardinality(Held \cap Theirs)
    BY <1>2, <1>3, FS_Union
  <2> HIDE DEF Theirs
  <2> QED
    BY <1>1, <1>2, <1>3, <2>1, <2>2, <2>3
<1>7. Cardinality(Held \cup Theirs) = booked
  BY <1>1, <1>2, <1>3, <1>6 DEF IInv, UnitsMatchRooms
<1>8. Holders = Held \cup Theirs
  BY DEF Holders
<1> QED
  BY <1>4, <1>5, <1>6, <1>7, <1>8

\* The order implements UnitHolds, with and without Clock, for any number of
\* rooms and any stock: the units of an order are taken all or none and each
\* goes back once, whatever ends the rooms and in whatever order.
THEOREM OrderUnitsRefine == Spec => ImplementsUnitHolds
<1>0. \A S : /\ Holds!Cardinality(S) = Cardinality(S)
             /\ Holds!IsFiniteSet(S) <=> IsFiniteSet(S)
  BY Zenon DEF Cardinality, Holds!Cardinality, IsFiniteSet, Holds!IsFiniteSet
<1>1. Init => Holds!Init
  <2> SUFFICES ASSUME Init PROVE Holds!Init
    OBVIOUS
  <2>1. IInv /\ stock \in 0 .. MaxStock
    BY InitInv DEF IInv, TypeOK
  <2>2. CASE connected
    <3>1. Holders = {} /\ UnitsUsed = 0
      BY <2>2 DEF Holders, UnitsUsed
    <3>2. IsFiniteSet({}) /\ Cardinality({}) = 0
      BY FS_EmptySet
    <3> QED
      BY <1>0, <2>1, <3>1, <3>2, MultiRoomAssumption DEF Holds!Init
  <2>3. CASE ~connected
    <3>1. UnitsUsed = booked /\ booked <= stock
      BY <2>1, <2>3 DEF UnitsUsed, IInv, UnitsMatchRooms
    <3> QED
      BY <1>0, <2>1, <2>3, <3>1, HoldersCounted DEF Holds!Init
  <2> QED
    BY <2>2, <2>3
<1>2. IInv /\ [Next]_vars => [Holds!Next]_Holds!vars
  <2> SUFFICES ASSUME IInv, [Next]_vars PROVE [Holds!Next]_Holds!vars
    OBVIOUS
  <2>1. UNCHANGED <<connected, stock, others>>
    BY HotelFixed DEF hotel
  <2>2. CASE connected
    BY <2>1, <2>2 DEF Holders, UnitsUsed, Holds!vars
  <2>3. CASE ~connected
    <3> DEFINE Theirs == Size + 1 .. Size + others
    <3>1. /\ Holders = Held \cup Theirs /\ Holders' = Held' \cup Theirs
          /\ Held \cap Theirs = {}
          /\ Holders \in SUBSET (1 .. Size + MaxStock)
          /\ Holders' \in SUBSET (1 .. Size + MaxStock)
          /\ UnitsUsed = booked /\ UnitsUsed' = booked'
      <4>1. IInv'
        BY StepInv
      <4>2. Holders' \in SUBSET (1 .. Size + MaxStock) /\ Holders' = Held' \cup Theirs
        <5>1. Holders' = (Held \cup (Size + 1 .. Size + others))'
          BY <2>1, <2>3 DEF Holders
        <5>2. Held' \subseteq Rooms
          BY <4>1 DEF IInv, TypeOK, Held
        <5>3. Theirs \subseteq 1 .. Size + MaxStock /\ Rooms \subseteq 1 .. Size + MaxStock
          BY MultiRoomAssumption DEF IInv, TypeOK, Rooms
        <5> QED
          BY <2>1, <5>1, <5>2, <5>3
      <4> QED
        BY <2>1, <2>3, <4>2, HoldersCounted DEF UnitsUsed
    <3>2. \A S \in SUBSET Rooms : IsFiniteSet(S) /\ S \cap Theirs = {}
                                  /\ S \in SUBSET (1 .. Size + MaxStock)
      <4>1. Rooms \cap Theirs = {} /\ Rooms \subseteq 1 .. Size + MaxStock
        BY MultiRoomAssumption DEF Rooms, IInv, TypeOK
      <4> QED
        BY <4>1, SubsetsFinite
    <3>3. CASE Kept
      BY <2>1, <3>1, <3>3 DEF Kept, Holds!vars
    <3>4. ASSUME NEW S \in SUBSET Rooms, Taken(S) PROVE Holds!Next
      <4>1. Holds!Acquire(S)
        BY <1>0, <2>1, <3>1, <3>2, <3>4 DEF Taken, Holds!Acquire
      <4> QED
        BY <3>2, <4>1 DEF Holds!Next
    <3>5. ASSUME NEW S \in SUBSET Rooms, Returned(S) PROVE Holds!Next
      <4>1. Holds!Release(S)
        BY <1>0, <2>1, <3>1, <3>2, <3>5 DEF Returned, Holds!Release
      <4> QED
        BY <3>2, <4>1 DEF Holds!Next
    <3> QED
      BY <2>3, <3>3, <3>4, <3>5, StepMovesUnits DEF UnitMove
  <2> QED
    BY <2>2, <2>3
<1> QED
  BY <1>1, <1>2, Always, PTL DEF Spec, ImplementsUnitHolds, Holds!Spec
=============================================================================
