---------------------------- MODULE MessageLife ----------------------------
(***************************************************************************)
(* What the row of an e-mail promises to the people who read it: staff who *)
(* ask whether a guest was told, and the resend button.  MailDelivery      *)
(* implements it, with its queue, its journal and its races.               *)
(*                                                                         *)
(* Every word of the row that speaks of an acceptance follows one; the     *)
(* hotel's own accounts accept at most once; a message that was suppressed *)
(* or bounced is finished, but for a complaint of its reader, which is the *)
(* last word on any message; only staff revive a failed one, and a receipt *)
(* that comes late corrects it.                                            *)
(***************************************************************************)
EXTENDS Naturals

VARIABLES
  row,   \* the row's word on the message
  own,   \* acceptances by the hotel's own accounts and the fallback
  must   \* MUST's provider accepted it under the message's key

Told == own = 1 \/ must

Init == row = "NONE" /\ own = 0 /\ must = FALSE

\* A notification asks for the message.
Ask == row = "NONE" /\ row' = "QUEUED" /\ UNCHANGED <<own, must>>

\* A provider takes it, whatever the row says by then.
TakenByOwn == own = 0 /\ own' = 1 /\ UNCHANGED <<row, must>>
TakenByMust == must' = TRUE /\ UNCHANGED <<row, own>>

\* The row learns of the acceptance.
Confirm == Told /\ row \in {"QUEUED", "FAILED"} /\ row' = "SENT" /\ UNCHANGED <<own, must>>

\* It ends without one that is known; staff may ask again.
GiveUp == row = "QUEUED" /\ row' \in {"FAILED", "SUPPRESSED"} /\ UNCHANGED <<own, must>>
AskAgain == row = "FAILED" /\ row' = "QUEUED" /\ UNCHANGED <<own, must>>

\* The provider reports what became of what it accepted.
Reported ==
  /\ Told
  /\ \/ row \in {"QUEUED", "SENT"} /\ row' \in {"DELIVERED", "FAILED"}
     \/ row \in {"QUEUED", "SENT", "DELIVERED", "FAILED"} /\ row' = "BOUNCED"
     \/ row # "COMPLAINED" /\ row' = "COMPLAINED"
  /\ UNCHANGED <<own, must>>

Next ==
  Ask \/ TakenByOwn \/ TakenByMust \/ Confirm \/ GiveUp \/ AskAgain \/ Reported

Spec == Init /\ [][Next]_<<row, own, must>>
=============================================================================
