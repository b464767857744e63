---------------------------- MODULE RefundLedger ----------------------------
(***************************************************************************)
(* The refunds of one charge: PaymentRefundService and its recovery job.   *)
(*                                                                         *)
(* A refund runs in a transaction that holds the booking's row, but saves  *)
(* its attempt in a transaction of its own before it asks the gateway, and *)
(* the answer in another one.  The outer transaction can be lost at any    *)
(* point (its timeout, a crash) while the request goes on.  The recovery   *)
(* job holds the advisory lock of the booking's refunds, not its row.      *)
(*                                                                         *)
(* Amounts are counted in units of the charge.  A command's idempotency    *)
(* key is the command itself.                                              *)
(***************************************************************************)
EXTENDS Integers

CONSTANTS
  Staff,          \* refunds asked for by staff, one idempotency key each
  Cancellations,  \* automatic refunds of a free cancellation
  Sweeps,         \* runs of the recovery job
  Nobody,         \* no holder of a lock
  Reconciled,     \* the refund id of a row taken from the provider
  Charge,         \* the amount of the charge
  MaxFaults       \* bound: lost transactions, writes and sweeps

Commands == Staff \cup Cancellations
Refs == Commands \cup {Reconciled}

ASSUME RefundAssumption ==
  /\ Charge \in Nat \ {0} /\ MaxFaults \in Nat
  /\ Nobody \notin Commands \cup Sweeps /\ Reconciled \notin Commands
  /\ Staff \cap Cancellations = {}

VARIABLES
  gateway,    \* the provider of the charge
  asked,      \* amount of each command
  lock,       \* who holds the booking's row
  maker,      \* the command whose transaction runs since it made its attempt
  advisory,   \* which sweep holds the advisory lock of the refunds
  pc,         \* where each command is
  done,       \* commands whose result is committed under their key
  plan,       \* the row a command is about to commit
  attempt,    \* integration_operations of kind gateway_refund
  row,        \* payments of kind REFUND: status by refund id
  recorded,   \* SUM(amount) of those rows
  sent,       \* what the gateway returned to the guest
  moved,      \* how often it returned money for each command
  elsewhere,  \* the hotel returned some of it in the gateway's dashboard
  clock,      \* amount of the negative payment in Clock by refund id
  sweep,      \* where each run of the recovery job is
  alerted,    \* attempts people were told about
  faults

books == <<row, recorded>>
provider == <<sent, moved, elsewhere>>
vars == <<gateway, asked, lock, maker, advisory, pc, done, plan, attempt, books, provider,
          clock, sweep, alerted, faults>>

Entry(status, ref, amount) == [status |-> status, ref |-> ref, amount |-> amount]
NoEntry == Entry("none", Reconciled, 0)
Failed == Entry("FAILED", Reconciled, 0)

Saved(stage, status, ref) == [stage |-> stage, status |-> status, ref |-> ref]
Unsaved == Saved("none", "none", Reconciled)

At(place, c, missing) == [at |-> place, op |-> c, missing |-> missing]
Asleep == At("idle", Nobody, 0)

\* A booking with one charge, and no refund yet.
Init ==
  /\ gateway \in {"stripe", "pokpay"}
  /\ asked \in [Commands -> 1 .. Charge]
  /\ \A c \in Cancellations : asked[c] = Charge
  /\ lock = Nobody /\ maker = Nobody /\ advisory = Nobody
  /\ pc = [c \in Commands |-> "idle"] /\ done = {}
  /\ plan = [c \in Commands |-> NoEntry]
  /\ attempt = [c \in Commands |-> Unsaved]
  /\ row = [r \in Refs |-> "none"] /\ recorded = 0
  /\ sent = 0 /\ moved = [c \in Commands |-> 0] /\ elsewhere = FALSE
  /\ clock = [r \in Refs |-> 0]
  /\ sweep = [s \in Sweeps |-> Asleep]
  /\ alerted = {}
  /\ faults = 0

-----------------------------------------------------------------------------
MutantBlocks(c) == attempt[c].stage \in {"PREPARING", "UNCERTAIN"}

\* An attempt that blocks other refunds: without a definite answer, or its
\* row is not in the ledger.
Blocks(c) ==
  /\ attempt[c].stage # "none"
  /\ attempt[c].stage # "RETURNED" \/ row[attempt[c].ref] # "REFUNDED"

MutantInsert(e) ==
  IF row[e.ref] = "none"
    THEN row' = [row EXCEPT ![e.ref] = "REFUNDED"] /\ recorded' = recorded + e.amount
    ELSE UNCHANGED books

\* ON CONFLICT DO NOTHING.
Insert(e) ==
  IF e.status \in {"REFUNDED", "PENDING"} /\ row[e.ref] = "none"
    THEN row' = [row EXCEPT ![e.ref] = e.status] /\ recorded' = recorded + e.amount
    ELSE UNCHANGED books

Fault == faults < MaxFaults /\ faults' = faults + 1

-----------------------------------------------------------------------------
(***************************************************************************)
(* A command.                                                              *)
(***************************************************************************)
\* Staff may ask for what remains of the charge, a cancellation for all of it.
Begin(c) ==
  /\ pc[c] = "idle" /\ c \notin done /\ lock = Nobody
  /\ c \in Staff => asked[c] <= Charge - recorded
  /\ lock' = c /\ pc' = [pc EXCEPT ![c] = "begun"]
  /\ UNCHANGED <<gateway, asked, maker, advisory, done, plan, attempt, books, provider,
                 clock, sweep, alerted, faults>>

Refuse(c) ==
  /\ c \in Staff /\ pc[c] = "idle" /\ c \notin done /\ lock = Nobody
  /\ asked[c] > Charge - recorded
  /\ done' = done \cup {c}
  /\ UNCHANGED <<gateway, asked, lock, maker, advisory, pc, plan, attempt, books, provider,
                 clock, sweep, alerted, faults>>

Concludes(c, e) ==
  /\ pc' = [pc EXCEPT ![c] = "result"]
  /\ plan' = [plan EXCEPT ![c] = e]

\* syncRefundAlreadyDone: PokPay shows the charge as returned.
AlreadyDone(c) ==
  /\ pc[c] = "begun" /\ lock = c
  /\ gateway = "pokpay" /\ sent = Charge
  /\ Concludes(c, IF recorded < Charge THEN Entry("REFUNDED", Reconciled, Charge - recorded)
                  ELSE Failed)
  /\ UNCHANGED <<gateway, asked, lock, maker, advisory, done, attempt, books, provider,
                 clock, sweep, alerted, faults>>

MutantMayStart(c) == \A d \in Commands \ {c} : ~Blocks(d)
MutantMayStartBlind(c) == attempt[c].stage = "none"

\* The first try of a key, with no other attempt in the way.
MayStart(c) == attempt[c].stage = "none" /\ \A d \in Commands : ~Blocks(d)

\* gatewayRefund, before the request: the attempt is saved in a transaction of
\* its own, though that of the command may be lost by then, ...
Prepare(c) ==
  /\ pc[c] = "begun" /\ advisory = Nobody
  /\ MayStart(c)
  /\ attempt' = [attempt EXCEPT ![c] = Saved("PREPARING", "none", Reconciled)]
  /\ pc' = [pc EXCEPT ![c] = "sending"]
  /\ maker' = (IF lock = c THEN c ELSE maker)
  /\ UNCHANGED <<gateway, asked, lock, advisory, done, plan, books, provider, clock, sweep,
                 alerted, faults>>

\* ... or the saved answer is used again, or the refund is refused.
Replay(c) ==
  /\ pc[c] = "begun" /\ advisory = Nobody
  /\ ~MayStart(c)
  /\ Concludes(c, IF attempt[c].stage = "RETURNED"
                  THEN Entry(attempt[c].status, attempt[c].ref, asked[c]) ELSE Failed)
  /\ UNCHANGED <<gateway, asked, lock, maker, advisory, done, attempt, books, provider,
                 clock, sweep, alerted, faults>>

Answered(c, e) ==
  /\ pc' = [pc EXCEPT ![c] = "answered"]
  /\ plan' = [plan EXCEPT ![c] = e]

\* PokPay is asked in its own currency, at the rate of what is left of the order
\* over what is left by the ledger, and rounds.
Share(amount) ==
  (2 * amount * (Charge - sent) + (Charge - recorded)) \div (2 * (Charge - recorded))

\* What the gateway returns for c; nothing, when it or its client refuses.
Returns(c) ==
  CASE gateway = "pokpay" /\ asked[c] <= Charge - recorded -> Share(asked[c])
    [] gateway = "stripe" /\ asked[c] <= Charge - sent -> asked[c]
    [] OTHER -> 0

\* What the gateway says of money it returns: PokPay says REFUNDED when nothing
\* of the order is left, Stripe may still have to settle.
AnswerTo(c) ==
  IF gateway = "pokpay" THEN {IF sent + Returns(c) = Charge THEN "REFUNDED" ELSE "PENDING"}
  ELSE {"REFUNDED", "PENDING"}

\* The gateway returns the money, and its answer may be lost.
Send(c) ==
  /\ pc[c] = "sending" /\ Returns(c) > 0
  /\ sent' = sent + Returns(c) /\ moved' = [moved EXCEPT ![c] = @ + 1]
  /\ \/ \E a \in AnswerTo(c) : Answered(c, Entry(a, c, asked[c]))
     \/ Answered(c, Failed)
  /\ UNCHANGED <<gateway, asked, lock, maker, advisory, done, attempt, books, elsewhere,
                 clock, sweep, alerted, faults>>

\* It refuses, or is not reached.
SendFails(c) ==
  /\ pc[c] = "sending"
  /\ Answered(c, Failed)
  /\ UNCHANGED <<gateway, asked, lock, maker, advisory, done, attempt, books, provider,
                 clock, sweep, alerted, faults>>

\* persistGatewayResult, which may fail for good.
Persist(c) ==
  /\ pc[c] = "answered"
  /\ \/ /\ attempt' = [attempt EXCEPT ![c] =
             Saved(IF plan[c].status = "FAILED" THEN "UNCERTAIN" ELSE "RETURNED",
                   plan[c].status, plan[c].ref)]
        /\ UNCHANGED faults
     \/ Fault /\ UNCHANGED attempt
  /\ pc' = [pc EXCEPT ![c] = "result"]
  /\ UNCHANGED <<gateway, asked, lock, maker, advisory, done, plan, books, provider, clock,
                 sweep, alerted>>

\* postRefund, for a row this transaction inserted; Clock may not take it.
Mirror(c) ==
  /\ pc[c] = "result" /\ lock = c
  /\ plan[c].status = "REFUNDED" /\ plan[c].ref = c /\ row[c] = "none"
  /\ \/ clock' = [clock EXCEPT ![c] = plan[c].amount]
     \/ UNCHANGED clock
  /\ pc' = [pc EXCEPT ![c] = "mirrored"]
  /\ UNCHANGED <<gateway, asked, lock, maker, advisory, done, plan, attempt, books,
                 provider, sweep, alerted, faults>>

\* The transaction commits the row, with a review item if it is not REFUNDED.
Commit(c) ==
  /\ pc[c] \in {"result", "mirrored"} /\ lock = c
  /\ pc[c] = "result" => plan[c].status # "REFUNDED" \/ plan[c].ref # c \/ row[c] # "none"
  /\ Insert(plan[c])
  /\ done' = done \cup {c} /\ lock' = Nobody /\ maker' = Nobody
  /\ pc' = [pc EXCEPT ![c] = "idle"] /\ plan' = [plan EXCEPT ![c] = NoEntry]
  /\ UNCHANGED <<gateway, asked, advisory, attempt, provider, clock, sweep, alerted,
                 faults>>

\* The transaction is lost; a request on its way is not.
LoseTransaction(c) ==
  /\ lock = c /\ lock' = Nobody /\ maker' = Nobody
  /\ Fault
  /\ UNCHANGED <<gateway, asked, advisory, pc, done, plan, attempt, books, provider, clock,
                 sweep, alerted>>

\* The command ends without a result, or its process has died.
GiveUp(c) ==
  /\ pc[c] # "idle" /\ lock # c
  /\ pc' = [pc EXCEPT ![c] = "idle"] /\ plan' = [plan EXCEPT ![c] = NoEntry]
  /\ UNCHANGED <<gateway, asked, lock, maker, advisory, done, attempt, books, provider,
                 clock, sweep, alerted, faults>>

\* The hotel returns a part or the rest in the gateway's own dashboard.
RefundAtProvider ==
  /\ sent < Charge /\ sent' \in (sent + 1) .. Charge
  /\ elsewhere' = TRUE
  /\ UNCHANGED <<gateway, asked, lock, maker, advisory, pc, done, plan, attempt, books,
                 moved, clock, sweep, alerted, faults>>

-----------------------------------------------------------------------------
(***************************************************************************)
(* The recovery job.                                                       *)
(***************************************************************************)
MutantOldEnough(c) == c \in done

\* Five minutes old: longer than the transaction that made it can last, while a
\* later try of the same command may be under way.
OldEnough(c) == maker # c

Goto(s, a) == sweep' = [sweep EXCEPT ![s] = a]

\* The ledger has the whole charge already: the attempt is closed with its
\* last row.
LookComplete(s, c) ==
  /\ sweep[s] = Asleep /\ advisory = Nobody /\ Blocks(c) /\ OldEnough(c)
  /\ recorded >= Charge
  /\ \E r \in Refs :
       /\ row[r] = "REFUNDED"
       /\ attempt' = [attempt EXCEPT ![c] = Saved("RETURNED", "REFUNDED", r)]
  /\ UNCHANGED <<gateway, asked, lock, maker, advisory, pc, done, plan, books, provider,
                 clock, sweep, alerted, faults>>

\* PokPay shows the charge as returned, the ledger less.
LookBehind(s, c) ==
  /\ sweep[s] = Asleep /\ advisory = Nobody /\ Blocks(c) /\ OldEnough(c)
  /\ recorded < Charge /\ gateway = "pokpay" /\ sent = Charge
  /\ advisory' = s /\ Goto(s, At("behind", c, Charge - recorded))
  /\ UNCHANGED <<gateway, asked, lock, maker, pc, done, plan, attempt, books, provider,
                 clock, alerted, faults>>

\* Nothing can be proved: a partial refund, Stripe, or no answer.
LookUnproved(s, c) ==
  /\ sweep[s] = Asleep /\ advisory = Nobody /\ Blocks(c) /\ OldEnough(c)
  /\ recorded < Charge \/ \A r \in Refs : row[r] # "REFUNDED"
  /\ Goto(s, At("alert", c, 0))
  /\ UNCHANGED <<gateway, asked, lock, maker, advisory, pc, done, plan, attempt, books,
                 provider, clock, alerted, faults>>

\* postRefund under the id of the reconciled row.
RecoverMirror(s) ==
  /\ sweep[s].at = "behind"
  /\ \/ clock' = [clock EXCEPT ![Reconciled] = sweep[s].missing]
     \/ UNCHANGED clock
  /\ Goto(s, [sweep[s] EXCEPT !.at = "mirrored"])
  /\ UNCHANGED <<gateway, asked, lock, maker, advisory, pc, done, plan, attempt, books,
                 provider, alerted, faults>>

RecoverCommit(s) ==
  /\ sweep[s].at = "mirrored"
  /\ Insert(Entry("REFUNDED", Reconciled, sweep[s].missing))
  /\ attempt' = [attempt EXCEPT ![sweep[s].op] = Saved("RETURNED", "REFUNDED", Reconciled)]
  /\ advisory' = Nobody /\ Goto(s, Asleep)
  /\ UNCHANGED <<gateway, asked, lock, maker, pc, done, plan, provider, clock, alerted,
                 faults>>

\* raiseStuckRefundAlert, once for an attempt.
Alert(s) ==
  /\ sweep[s].at = "alert"
  /\ alerted' = alerted \cup {sweep[s].op}
  /\ Goto(s, Asleep)
  /\ UNCHANGED <<gateway, asked, lock, maker, advisory, pc, done, plan, attempt, books,
                 provider, clock, faults>>

\* The job dies or its transaction fails.
SweepFails(s) ==
  /\ sweep[s] # Asleep
  /\ Fault
  /\ advisory' = (IF advisory = s THEN Nobody ELSE advisory)
  /\ Goto(s, Asleep)
  /\ UNCHANGED <<gateway, asked, lock, maker, pc, done, plan, attempt, books, provider,
                 clock, alerted>>

-----------------------------------------------------------------------------
CommandStep(c) ==
  \/ AlreadyDone(c) \/ Prepare(c) \/ Replay(c) \/ Send(c) \/ SendFails(c) \/ Persist(c)
  \/ Mirror(c) \/ Commit(c) \/ GiveUp(c)

Look(s, c) == LookComplete(s, c) \/ LookBehind(s, c) \/ LookUnproved(s, c)

SweepStep(s) == RecoverMirror(s) \/ RecoverCommit(s) \/ Alert(s)

Next ==
  \/ \E c \in Commands : Begin(c) \/ Refuse(c) \/ CommandStep(c) \/ LoseTransaction(c)
  \/ RefundAtProvider
  \/ \E s \in Sweeps : SweepStep(s) \/ SweepFails(s) \/ \E c \in Commands : Look(s, c)

Spec == Init /\ [][Next]_vars

\* A transaction ends, since it has a timeout; the job runs every five minutes
\* and takes each old attempt in turn.  Nobody has to try again.
Fairness ==
  /\ WF_vars(\E c \in Commands : CommandStep(c))
  /\ \A s \in Sweeps : WF_vars(SweepStep(s))
  /\ \A c \in Commands : SF_vars(\E s \in Sweeps : Look(s, c))

FairSpec == Spec /\ Fairness

-----------------------------------------------------------------------------
(***************************************************************************)
(* Properties.                                                             *)
(***************************************************************************)
Statuses == {"none", "FAILED", "PENDING", "REFUNDED"}

\* Types; the gateway returns money at most once for a command.
TypeOK ==
  /\ gateway \in {"stripe", "pokpay"} /\ asked \in [Commands -> 1 .. Charge]
  /\ lock \in Commands \cup {Nobody} /\ maker \in {lock, Nobody}
  /\ advisory \in Sweeps \cup {Nobody}
  /\ pc \in [Commands -> {"idle", "begun", "sending", "answered", "result", "mirrored"}]
  /\ done \subseteq Commands
  /\ plan \in [Commands -> [status : Statuses, ref : Refs, amount : 0 .. Charge]]
  /\ attempt \in [Commands -> [stage : {"none", "PREPARING", "UNCERTAIN", "RETURNED"},
                               status : Statuses, ref : Refs]]
  /\ row \in [Refs -> {"none", "PENDING", "REFUNDED"}] /\ recorded \in Nat
  /\ sent \in 0 .. Charge /\ moved \in [Commands -> {0, 1}] /\ elsewhere \in BOOLEAN
  /\ clock \in [Refs -> 0 .. Charge]
  /\ sweep \in [Sweeps -> [at : {"idle", "behind", "mirrored", "alert"},
                           op : Commands \cup {Nobody}, missing : 0 .. Charge]]
  /\ alerted \subseteq Commands
  /\ faults \in 0 .. MaxFaults

\* The comment on gatewayRefund: a lost response or a rolled-back transaction
\* never turns the next click into a second refund.  Commands, lost answers and
\* writes, the gateway's dashboard and the recovery implement ExactRefunds: money
\* moves once a command, and only when all that moved before is in the ledger.
Exact == INSTANCE ExactRefunds WITH
  Refunds <- Commands,
  returned <- sent,
  paid <- {c \in Commands : moved[c] > 0},
  booked <- {c \in Commands : row[c] = "REFUNDED"},
  settled <- row[Reconciled] = "REFUNDED"

ImplementsExactRefunds == Exact!Spec

\* Money that moved is in the ledger, or its attempt keeps blocking refunds.
MoneyIsTraced ==
  \A c \in Commands : moved[c] > 0 =>
    row[c] # "none" \/ row[Reconciled] # "none" \/ Blocks(c)

\* The ledger and Clock show a refund only if its money moved: a command's own,
\* or for the reconciled row the whole charge.
BooksFollowMoney ==
  /\ \A c \in Commands : row[c] # "none" \/ clock[c] > 0 => moved[c] > 0
  /\ row[Reconciled] # "none" \/ clock[Reconciled] > 0 => sent = Charge

\* An attempt that blocks the refunds of its booking is cleared or a person is
\* told, whatever was lost on its way.
StuckIsNoticed == \A c \in Commands : Blocks(c) ~> ~Blocks(c) \/ c \in alerted

\* docs/integrations/clock/booking-lifecycle.md: refunds are mirrored once, after
\* the refund is recorded.  A refund that is in Clock already is not posted there
\* a second time by the recovery.
ClockToldOnce == \A c \in Commands : clock[c] > 0 /\ clock[Reconciled] > 0 =>
                   clock[c] + clock[Reconciled] <= sent
=============================================================================
