------------------------------ MODULE UnitHolds ------------------------------
(***************************************************************************)
(* What the sold/held counter of one room type on one night promises       *)
(* (ADR-0013): every unit belongs to at most one booking, a booking holds  *)
(* at most one unit, the rooms of one order take their units all or none,  *)
(* the counter is the number of the holders and never passes the           *)
(* configured stock, and the stock is never cut below the units in use.    *)
(* BookingLifecycle and MultiRoomOrder implement this.                     *)
(***************************************************************************)
EXTENDS Naturals, FiniteSets

CONSTANTS
  Bookings,    \* bookings that may hold a unit
  MaxStock     \* bound of the configured stock

VARIABLES
  holders,     \* bookings that hold a unit
  used,        \* the counter
  stock        \* units the hotel configured

vars == <<holders, used, stock>>

Init ==
  /\ holders \in SUBSET Bookings /\ IsFiniteSet(holders)
  /\ used = Cardinality(holders)
  /\ stock \in 0 .. MaxStock /\ used <= stock

\* All the bookings of S get a unit, or nobody does.
Acquire(S) ==
  /\ IsFiniteSet(S) /\ S \cap holders = {}
  /\ used + Cardinality(S) <= stock
  /\ holders' = holders \cup S /\ used' = used + Cardinality(S)
  /\ UNCHANGED stock

Release(S) ==
  /\ IsFiniteSet(S) /\ S \subseteq holders
  /\ holders' = holders \ S /\ used' = used - Cardinality(S)
  /\ UNCHANGED stock

Resize(n) ==
  /\ used <= n
  /\ stock' = n
  /\ UNCHANGED <<holders, used>>

Next ==
  \/ \E S \in SUBSET Bookings : Acquire(S) \/ Release(S)
  \/ \E n \in 0 .. MaxStock : Resize(n)

Spec == Init /\ [][Next]_vars
=============================================================================
