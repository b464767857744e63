---------------------------- MODULE EventOutcome ----------------------------
(***************************************************************************)
(* What a provider event promises, whoever processes it and however often: *)
(* it is open until it gets one outcome, its local effect is applied at    *)
(* most once, together with the outcome HYDRATED, and only an operator     *)
(* reopens or confirms an outcome.  ProviderEvents implements this with a  *)
(* row, a job queue and a fencing token.                                   *)
(***************************************************************************)
VARIABLES
  phase,      \* "absent", "open" or the outcome
  applied     \* whether the event's local effect has been applied

Outcomes == {"HYDRATED", "IGNORED", "FAILED", "NEEDS_RECONCILIATION"}

Init == phase = "absent" /\ applied = FALSE

Receive == phase = "absent" /\ phase' = "open" /\ UNCHANGED applied

Apply == phase = "open" /\ ~applied /\ phase' = "HYDRATED" /\ applied' = TRUE

\* An outcome without a local effect: nothing to do, given up, or parked.
Close == phase = "open" /\ phase' \in Outcomes /\ UNCHANGED applied

Reopen ==
  /\ phase \in {"FAILED", "NEEDS_RECONCILIATION"}
  /\ phase' = "open" /\ UNCHANGED applied

Confirm ==
  phase = "NEEDS_RECONCILIATION" /\ phase' = "HYDRATED" /\ UNCHANGED applied

Next == Receive \/ Apply \/ Close \/ Reopen \/ Confirm

Spec == Init /\ [][Next]_<<phase, applied>>
=============================================================================
