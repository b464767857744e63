---------------------------- MODULE ExactRefunds ----------------------------
(***************************************************************************)
(* What the refunds of one charge promise the guest and the hotel: the     *)
(* money of a refund goes back once, for the amount asked, and never more  *)
(* than the charge between them; it goes back only when the ledger shows   *)
(* every refund whose money went back before; and a refund enters the      *)
(* ledger once, for good, after its money.  The hotel may return money at  *)
(* the provider itself; a refund may give less than it was asked for only  *)
(* after that, and only a charge that is returned whole is settled from    *)
(* there.  RefundLedger implements this.                                   *)
(***************************************************************************)
EXTENDS Naturals

CONSTANTS Refunds, Charge

VARIABLES
  asked,     \* amount of each refund
  returned,  \* what went back to the guest
  elsewhere, \* some of it was returned at the provider
  paid,      \* refunds whose money went back
  booked,    \* refunds that the ledger shows as done
  settled    \* the ledger took the rest from the provider

vars == <<asked, returned, elsewhere, paid, booked, settled>>

Init ==
  /\ asked \in [Refunds -> 1 .. Charge]
  /\ returned = 0 /\ elsewhere = FALSE /\ paid = {} /\ booked = {} /\ settled = FALSE

Return(r) ==
  /\ r \notin paid /\ paid \subseteq booked
  /\ \E m \in 1 .. asked[r] :
       /\ m = asked[r] \/ elsewhere
       /\ returned + m <= Charge /\ returned' = returned + m
  /\ paid' = paid \cup {r}
  /\ UNCHANGED <<asked, elsewhere, booked, settled>>

ReturnElsewhere ==
  /\ returned < Charge /\ returned' \in (returned + 1) .. Charge
  /\ elsewhere' = TRUE
  /\ UNCHANGED <<asked, paid, booked, settled>>

Book(r) ==
  /\ r \in paid \ booked
  /\ booked' = booked \cup {r}
  /\ UNCHANGED <<asked, returned, elsewhere, paid, settled>>

Settle ==
  /\ ~settled /\ returned = Charge
  /\ settled' = TRUE
  /\ UNCHANGED <<asked, returned, elsewhere, paid, booked>>

Next == ReturnElsewhere \/ Settle \/ \E r \in Refunds : Return(r) \/ Book(r)

Spec == Init /\ [][Next]_vars
=============================================================================
