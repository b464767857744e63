---------------------------- MODULE MailDelivery ----------------------------
(***************************************************************************)
(* One e-mail of a hotel: its row in email_messages, its BullMQ job, and   *)
(* the journal of the requests that carry it to a mail provider            *)
(* (MailDeliveryService, PropertyMailDispatcher, EmailTransportJournal).   *)
(*                                                                         *)
(* A hotel sends through MUST's own provider (default), or through one of  *)
(* its own (custom), which has no memory of what it was asked before.  A   *)
(* request may be accepted and its answer lost, so the journal freezes the *)
(* transport at the first request and stops when acceptance is unknown.    *)
(* The message may go through a second stage, FALLBACK, once the first was *)
(* rejected.  Each SQL transaction, Redis call and request is a step.      *)
(***************************************************************************)
EXTENDS Integers

CONSTANTS
  Runners,       \* activities: dispatches, job processors, staff requests
  Nobody,        \* no runner
  FallbackGuest, \* the frozen preference: MUST's sender may take over a guest's mail
  MaxTries,      \* retryPolicy.attempts
  MaxStalls,     \* BullMQ's maxStalledCount
  MaxDispatches, \* bound: calls of dispatch with the message's idempotency key
  MaxResends,    \* bound: "send again" requests of staff
  MaxFaults      \* bound: crashes and failed writes to Postgres or Redis

ASSUME MailDeliveryAssumption ==
  /\ Nobody \notin Runners /\ FallbackGuest \in BOOLEAN
  /\ MaxTries \in Nat \ {0} /\ MaxStalls \in Nat
  /\ MaxDispatches \in Nat /\ MaxResends \in Nat
  /\ MaxFaults \in Nat

Stages == {"PRIMARY", "FALLBACK"}
Channels == Stages \cup {"default"}

VARIABLES
  status,    \* email_messages.status
  known,     \* email_messages.provider_message_id is set
  slot,      \* the message has its email_delivery_slots row
  journal,   \* email_transport_attempts, by stage
  job,       \* the BullMQ job
  holder,    \* the runner that holds the job's lock
  run,       \* where each runner is
  accepts,   \* how often each channel accepted the message
  dispatches, resends, stalls, faults

message == <<status, known, slot>>
queue == <<job, holder, stalls>>
bounds == <<dispatches, resends, faults>>
vars == <<message, journal, queue, run, accepts, bounds>>

Row(state, retryable, fence, lapsed) ==
  [state |-> state, retryable |-> retryable, fence |-> fence, lapsed |-> lapsed]
NoRow == Row("none", FALSE, Nobody, FALSE)

Job(state, made, limit) == [state |-> state, made |-> made, limit |-> limit]

\* An activity: where it is, why it sends ("first": inlineFirst, "last":
\* inline because the queue failed), whether no retry follows, the stage, and
\* what came of it.
Act(at, by, final, stage, res) ==
  [at |-> at, by |-> by, final |-> final, stage |-> stage, res |-> res]
Idle == Act("idle", "job", FALSE, "PRIMARY", "none")
Attempt(by, final) == Act("attempt", by, final, "PRIMARY", "none")

Init ==
  /\ status = "NONE" /\ known = FALSE /\ slot = FALSE
  /\ journal = [s \in Stages |-> NoRow]
  /\ job = Job("none", 0, MaxTries) /\ holder = Nobody
  /\ run = [p \in Runners |-> Idle]
  /\ accepts = [c \in Channels |-> 0]
  /\ dispatches = 0 /\ resends = 0 /\ stalls = 0 /\ faults = 0

Becomes(p, act) == run' = [run EXCEPT ![p] = act]
Goto(p, at) == Becomes(p, [run[p] EXCEPT !.at = at])
Outcome(p, res) == Becomes(p, [run[p] EXCEPT !.at = "record", !.res = res])

Fault == faults < MaxFaults /\ faults' = faults + 1
OnlyRun == UNCHANGED <<message, journal, queue, accepts, bounds>>

-----------------------------------------------------------------------------
(***************************************************************************)
(* dispatch and the queue.                                                 *)
(***************************************************************************)
\* recordMessage: only a row that is QUEUED, or new, is queued or sent inline.
Dispatch(p) ==
  /\ run[p] = Idle
  /\ dispatches < MaxDispatches /\ dispatches' = dispatches + 1
  /\ status \in {"NONE", "QUEUED"} /\ status' = "QUEUED"
  /\ \/ Becomes(p, Act("add", "job", FALSE, "PRIMARY", "none"))
     \/ Becomes(p, Attempt("first", FALSE))
  /\ UNCHANGED <<known, slot, journal, queue, accepts, resends, faults>>

\* After a first attempt inline the job has one try less.
Limit(by) == IF by = "first" /\ MaxTries > 1 THEN MaxTries - 1 ELSE MaxTries

\* enqueue: a job with this id that exists already is kept as it is.
Add(p) ==
  /\ run[p].at = "add"
  /\ job' = IF job.state = "none" THEN Job("waiting", 0, Limit(run[p].by)) ELSE job
  /\ Becomes(p, Idle)
  /\ UNCHANGED <<message, journal, holder, stalls, accepts, bounds>>

\* Redis refuses the job: the message is sent inline, once.
AddFails(p) ==
  /\ run[p].at = "add" /\ Fault
  /\ Becomes(p, Attempt("last", TRUE))
  /\ UNCHANGED <<message, journal, queue, accepts, dispatches, resends>>

Activate(p) ==
  /\ run[p] = Idle /\ job.state = "waiting"
  /\ job' = [job EXCEPT !.state = "active"] /\ holder' = p
  /\ \E last \in BOOLEAN :
       (last <=> job.made + 1 >= job.limit) /\ Becomes(p, Attempt("job", last))
  /\ UNCHANGED <<message, journal, stalls, accepts, bounds>>

\* The job's lock was not renewed: it is handed out again, or fails; its
\* processor may still be running.
Stall ==
  /\ job.state = "active"
  /\ job' = [job EXCEPT !.state = IF stalls < MaxStalls THEN "waiting" ELSE "done"]
  /\ stalls' = IF stalls < MaxStalls THEN stalls + 1 ELSE stalls
  /\ holder' = Nobody
  /\ UNCHANGED <<message, journal, run, accepts, bounds>>

Holds(p) == run[p].by = "job" /\ holder = p

\* The processor returns, or an inline attempt does.
Return(p) ==
  /\ job' = IF Holds(p) THEN [job EXCEPT !.state = "done"] ELSE job
  /\ holder' = IF Holds(p) THEN Nobody ELSE holder
  /\ Becomes(p, Idle)

\* The attempt throws: BullMQ retries the job or gives it up, a first inline
\* attempt is followed by the queue, and dispatch swallows the error of a last.
Throw(p) ==
  /\ job' = IF Holds(p)
       THEN Job(IF job.made + 1 >= job.limit THEN "done" ELSE "waiting", job.made + 1, job.limit)
       ELSE job
  /\ holder' = IF Holds(p) THEN Nobody ELSE holder
  /\ Becomes(p, IF run[p].by = "first" THEN Act("add", "first", FALSE, "PRIMARY", "none") ELSE Idle)

-----------------------------------------------------------------------------
(***************************************************************************)
(* attempt, up to the transport.                                           *)
(***************************************************************************)
\* A suppressed recipient, or a row that has its outcome, ends the attempt.
Skip(p) ==
  /\ run[p].at = "attempt"
  /\ \/ status # "QUEUED" /\ UNCHANGED status
     \/ status = "QUEUED" /\ status' = "SUPPRESSED"
  /\ Return(p)
  /\ UNCHANGED <<known, slot, journal, stalls, accepts, bounds>>

\* The row is still QUEUED (the claim is not exclusive), and the hotel's
\* hourly cap leaves room; a message keeps the slot it took.
Start(p) ==
  /\ run[p].at = "attempt" /\ status = "QUEUED"
  /\ \/ slot' = TRUE /\ Goto(p, "send")
     \/ ~slot /\ UNCHANGED slot /\ Outcome(p, "retry")
  /\ UNCHANGED <<status, known, journal, queue, accepts, bounds>>

-----------------------------------------------------------------------------
(***************************************************************************)
(* EmailTransportJournal.claim, under the row lock of the message.         *)
(***************************************************************************)
MutantSendable(r) == r.state \in {"none", "UNKNOWN"} \/ (r.state = "REJECTED" /\ r.retryable)

\* No request of this stage was made, or the last was rejected for now.
Sendable(r) == r.state = "none" \/ (r.state = "REJECTED" /\ r.retryable)

MutantSettled(r) ==
  CASE r.state \in {"ACCEPTED", "UNKNOWN"} -> "ok"
    [] r.state = "SENDING" /\ ~r.lapsed -> "busy"
    [] OTHER -> "rejected"

\* The stage's own row answers the claim without a request.
Settled(r) ==
  CASE r.state = "ACCEPTED" -> "ok"
    [] r.state = "SENDING" /\ ~r.lapsed -> "busy"
    [] r.state = "REJECTED" /\ ~r.retryable -> "rejected"
    [] OTHER -> "unknown"

SetRow(s, r) == journal' = [journal EXCEPT ![s] = r]

\* Whether the stage may be claimed: never PRIMARY once FALLBACK began, and
\* FALLBACK only when PRIMARY was rejected.
MutantStageOpen(s) == s = "FALLBACK" \/ journal["FALLBACK"].state = "none"

StageOpen(s) ==
  IF s = "PRIMARY" THEN journal["FALLBACK"].state = "none" ELSE journal["PRIMARY"].state = "REJECTED"

ClaimElsewhere(p) ==
  /\ run[p].at = "send" /\ ~StageOpen(run[p].stage)
  /\ IF run[p].stage = "PRIMARY"
       THEN Becomes(p, [run[p] EXCEPT !.stage = "FALLBACK"])
       ELSE Outcome(p, "unknown")
  /\ OnlyRun

\* prepare, unless it freezes a transport (ClaimSend): a hotel that has none of
\* its own at this moment bypasses the journal, and an unusable setup is
\* refused.  The hotel may change its profile between any two attempts.
Prepare(p) ==
  /\ run[p].at = "send" /\ StageOpen(run[p].stage)
  /\ journal[run[p].stage].state = "none"
  /\ \/ run[p].stage = "PRIMARY" /\ Goto(p, "default")
     \/ Outcome(p, "rejected")
  /\ OnlyRun

\* The row is inserted READY and claimed in the same transaction, so nobody sees
\* it READY: a stage that has no row, or one rejected for now, becomes SENDING.
ClaimSend(p) ==
  LET s == run[p].stage IN
  /\ run[p].at = "send" /\ StageOpen(s) /\ Sendable(journal[s])
  /\ SetRow(s, Row("SENDING", FALSE, p, FALSE))
  /\ Goto(p, "request")
  /\ UNCHANGED <<message, queue, accepts, bounds>>

\* A lease that ran out without a receipt becomes a tombstone.
ClaimSettled(p) ==
  LET s == run[p].stage
      r == journal[s] IN
  /\ run[p].at = "send" /\ StageOpen(s) /\ ~Sendable(r)
  /\ SetRow(s, IF r.state = "SENDING" /\ r.lapsed THEN Row("UNKNOWN", FALSE, r.fence, FALSE) ELSE r)
  /\ IF Settled(r) = "rejected" THEN Becomes(p, [run[p] EXCEPT !.at = "answer", !.res = "rejected"])
     ELSE Outcome(p, Settled(r))
  /\ UNCHANGED <<message, queue, accepts, bounds>>

-----------------------------------------------------------------------------
(***************************************************************************)
(* The requests, and PropertyMailDispatcher.execute.                       *)
(***************************************************************************)
\* A provider of the hotel's own accepts each request by itself.
Request(p) ==
  /\ run[p].at = "request"
  /\ \E acc \in BOOLEAN, res \in {"ok", "retry", "rejected", "unknown"} :
       /\ res = "ok" => acc
       /\ res \in {"retry", "rejected"} => ~acc
       /\ accepts' = [accepts EXCEPT ![run[p].stage] = IF acc THEN @ + 1 ELSE @]
       /\ Becomes(p, [run[p] EXCEPT !.at = "finish", !.res = res])
  /\ UNCHANGED <<message, journal, queue, bounds>>

\* MUST's provider knows the idempotency key; a lost answer is retried.
RequestDefault(p) ==
  /\ run[p].at = "default"
  /\ \E acc \in BOOLEAN, res \in {"ok", "retry", "rejected"} :
       /\ res = "ok" => acc
       /\ res = "rejected" => ~acc
       /\ accepts' = [accepts EXCEPT !["default"] = IF acc THEN 1 ELSE @]
       /\ Outcome(p, res)
  /\ UNCHANGED <<message, journal, queue, bounds>>

Verdict(res) ==
  CASE res = "ok" -> "ACCEPTED"
    [] res = "unknown" -> "UNKNOWN"
    [] OTHER -> "REJECTED"

Owns(p, s) == journal[s].fence = p /\ journal[s].state \in {"SENDING", "UNKNOWN"}

\* finish: the holder of the fence writes the result, over a tombstone too.
\* A fence means nothing in any other state.
Finish(p) ==
  LET s == run[p].stage IN
  /\ run[p].at = "finish" /\ Owns(p, s)
  /\ SetRow(s, Row(Verdict(run[p].res), run[p].res = "retry", Nobody, FALSE))
  /\ Goto(p, "answer")
  /\ UNCHANGED <<message, queue, accepts, bounds>>

\* The result cannot be written: acceptance counts as unknown.
FinishFails(p) ==
  /\ run[p].at = "finish"
  /\ \/ ~Owns(p, run[p].stage) /\ UNCHANGED faults
     \/ Fault
  /\ Outcome(p, "unknown")
  /\ UNCHANGED <<message, journal, queue, accepts, dispatches, resends>>

\* send: a first stage that was rejected for good, or on the last try.
FallsBack(p) ==
  /\ run[p].stage = "PRIMARY" /\ FallbackGuest
  /\ run[p].res = "rejected" \/ (run[p].res = "retry" /\ run[p].final)

Answer(p) ==
  /\ run[p].at = "answer"
  /\ IF FallsBack(p) THEN Becomes(p, Act("send", run[p].by, run[p].final, "FALLBACK", "none"))
     ELSE Goto(p, "record")
  /\ OnlyRun

-----------------------------------------------------------------------------
(***************************************************************************)
(* attempt, its outcome.                                                   *)
(***************************************************************************)
\* Another worker sends, or the failure is temporary and a try is left.
TryAgain(p) == run[p].res = "busy" \/ (run[p].res = "retry" /\ ~run[p].final)

RecordRetry(p) ==
  /\ run[p].at = "record" /\ TryAgain(p)
  /\ Throw(p)
  /\ UNCHANGED <<message, journal, stalls, accepts, bounds>>

Accepted(p) == journal[run[p].stage].state = "ACCEPTED"

\* A FAILED row becomes SENT when the journal proves the acceptance.
RecordSent(p) ==
  /\ run[p].at = "record" /\ run[p].res = "ok"
  /\ IF status = "QUEUED" \/ (status = "FAILED" /\ Accepted(p))
       THEN status' = "SENT" /\ known' = TRUE
       ELSE UNCHANGED <<status, known>>
  /\ Return(p)
  /\ UNCHANGED <<slot, journal, stalls, accepts, bounds>>

MutantAfterFailure == "FAILED"

AfterFailure == IF status = "QUEUED" THEN "FAILED" ELSE status

RecordFailed(p) ==
  /\ run[p].at = "record" /\ run[p].res # "ok" /\ ~TryAgain(p)
  /\ status' = AfterFailure
  /\ Return(p)
  /\ UNCHANGED <<known, slot, journal, stalls, accepts, bounds>>

\* A query fails before the request: the error counts as temporary.
QueryFails(p) ==
  /\ Fault
  /\ \/ run[p].at = "attempt" /\ Throw(p)
     \/ run[p].at = "send" /\ Outcome(p, "retry") /\ UNCHANGED <<job, holder>>
  /\ UNCHANGED <<message, journal, stalls, accepts, dispatches, resends>>

\* updateMessage swallows the error: the row stays as it is.
RecordLost(p) ==
  /\ run[p].at = "record" /\ ~TryAgain(p) /\ Fault
  /\ Return(p)
  /\ UNCHANGED <<message, journal, stalls, accepts, dispatches, resends>>

Crash(p) ==
  /\ run[p].at # "idle" /\ Fault
  /\ Becomes(p, Idle)
  /\ UNCHANGED <<message, journal, queue, accepts, dispatches, resends>>

-----------------------------------------------------------------------------
(***************************************************************************)
(* The lease, its cleanup, the provider's reports, the hotel and its staff.*)
(***************************************************************************)
Lapse(s) ==
  /\ journal[s].state = "SENDING" /\ ~journal[s].lapsed
  /\ SetRow(s, [journal[s] EXCEPT !.lapsed = TRUE])
  /\ UNCHANGED <<message, queue, run, accepts, bounds>>

MutantCleanable(s) == journal[s].state = "SENDING" /\ journal[s].lapsed /\ holder = Nobody

Cleanable(s) == journal[s].state = "SENDING" /\ journal[s].lapsed

\* cleanup, run by the sweep of the scheduled e-mails.
Cleanup(s) ==
  /\ Cleanable(s)
  /\ SetRow(s, Row("UNKNOWN", FALSE, journal[s].fence, FALSE))
  /\ status' = AfterFailure
  /\ UNCHANGED <<known, slot, queue, run, accepts, bounds>>

\* A delivery event of the provider, which finds the row by the provider's id.
Report ==
  /\ known
  /\ \/ status \in {"QUEUED", "SENT"} /\ status' \in {"DELIVERED", "FAILED"}
     \/ status \in {"QUEUED", "SENT", "DELIVERED", "FAILED"} /\ status' = "BOUNCED"
     \/ status # "COMPLAINED" /\ status' = "COMPLAINED"
  /\ UNCHANGED <<known, slot, journal, queue, run, accepts, bounds>>

\* resend: transportRetryAllowed ...
AskResend(p) ==
  /\ run[p] = Idle /\ resends < MaxResends /\ resends' = resends + 1
  /\ \A s \in Stages : journal[s].state \notin {"SENDING", "UNKNOWN"}
  /\ Goto(p, "allowed")
  /\ UNCHANGED <<message, journal, queue, accepts, dispatches, faults>>

\* ... then a finished job, or nothing can be sent again ...
FindJob(p) ==
  /\ run[p].at = "allowed"
  /\ IF job.state = "done" THEN Goto(p, "asked") ELSE Becomes(p, Idle)
  /\ OnlyRun

\* ... then FAILED becomes QUEUED ...
Requeue(p) ==
  /\ run[p].at = "asked"
  /\ IF status = "FAILED" THEN status' = "QUEUED" /\ Goto(p, "remove")
     ELSE UNCHANGED status /\ Becomes(p, Idle)
  /\ UNCHANGED <<known, slot, journal, queue, accepts, bounds>>

\* ... and the finished job is removed, to be added anew (Add).  One that runs
\* again cannot be removed: the message is sent inline.
Remove(p) ==
  /\ run[p].at = "remove"
  /\ \/ job.state = "active" /\ UNCHANGED job /\ Becomes(p, Attempt("last", TRUE))
     \/ job.state # "active" /\ job' = Job("none", 0, MaxTries)
        /\ Becomes(p, Act("add", "job", FALSE, "PRIMARY", "none"))
  /\ UNCHANGED <<message, journal, holder, stalls, accepts, bounds>>

-----------------------------------------------------------------------------
\* What a runner does by itself once it started.
Progress(p) ==
  \/ Add(p) \/ Skip(p) \/ Start(p) \/ ClaimElsewhere(p) \/ Prepare(p) \/ ClaimSend(p)
  \/ ClaimSettled(p) \/ Request(p) \/ RequestDefault(p) \/ Finish(p) \/ Answer(p)
  \/ RecordRetry(p) \/ RecordSent(p) \/ RecordFailed(p) \/ FindJob(p) \/ Requeue(p) \/ Remove(p)

RunnerFails(p) ==
  AddFails(p) \/ QueryFails(p) \/ FinishFails(p) \/ RecordLost(p) \/ Crash(p)

Next ==
  \/ \E p \in Runners :
       Dispatch(p) \/ Activate(p) \/ AskResend(p) \/ Progress(p) \/ RunnerFails(p)
  \/ Stall \/ Report
  \/ \E s \in Stages : Lapse(s) \/ Cleanup(s)

Spec == Init /\ [][Next]_vars

\* Time passes, and the scheduled sweep runs every few minutes.  Nothing is
\* asked of workers, providers or staff.
FairSpec == Spec /\ \A s \in Stages : WF_vars(Lapse(s)) /\ WF_vars(Cleanup(s))

-----------------------------------------------------------------------------
(***************************************************************************)
(* Properties.                                                             *)
(***************************************************************************)
Statuses == {"NONE", "QUEUED", "SENT", "FAILED", "SUPPRESSED", "DELIVERED", "BOUNCED",
             "COMPLAINED"}
Rows == [state : {"none", "SENDING", "ACCEPTED", "REJECTED", "UNKNOWN"}, retryable : BOOLEAN,
         fence : Runners \cup {Nobody}, lapsed : BOOLEAN]
Jobs == [state : {"none", "waiting", "active", "done"}, made : 0 .. MaxTries, limit : 1 .. MaxTries]
Places == {"idle", "add", "attempt", "send", "default", "request", "finish", "answer", "record",
           "allowed", "asked", "remove"}
Results == {"none", "ok", "retry", "rejected", "unknown", "busy"}
Acts == [at : Places, by : {"job", "first", "last"}, final : BOOLEAN, stage : Stages, res : Results]

\* Types of the message, its journal, its job and its runners; each channel
\* accepts the message at most once.
TypeOK ==
  /\ status \in Statuses /\ known \in BOOLEAN /\ slot \in BOOLEAN
  /\ journal \in [Stages -> Rows] /\ job \in Jobs /\ holder \in Runners \cup {Nobody}
  /\ run \in [Runners -> Acts]
  /\ accepts \in [Channels -> 0 .. 1]
  /\ dispatches \in 0 .. MaxDispatches /\ resends \in 0 .. MaxResends
  /\ stalls \in 0 .. MaxStalls /\ faults \in 0 .. MaxFaults

\* A hotel's own provider and the fallback after it accept the message once
\* between them, however dispatches, jobs handed out twice, crashes, lost
\* answers, lapsed leases and resends overlap (the journal's promise: "unknown
\* acceptance must never cross an automatic transport/account boundary").
AcceptedOnce == accepts["PRIMARY"] + accepts["FALLBACK"] <= 1

\* Whatever runs at once, the row tells the truth about the message as
\* MessageLife states it: SENT and every report of the provider follow an
\* acceptance, no answer of the journal to a second claim invents a receipt,
\* COMPLAINED is final, only a complaint changes SUPPRESSED or BOUNCED, and the
\* hotel's own accounts accept once.
Life == INSTANCE MessageLife
  WITH row <- status, own <- accepts["PRIMARY"] + accepts["FALLBACK"], must <- accepts["default"] = 1

ImplementsMessageLife == Life!Spec

\* A loser of any race does not take a SENT message back: only the provider's
\* own report changes it (guards of the FAILED and SUPPRESSED writes).
SentStays ==
  [][status = "SENT" /\ status' # "SENT"
       => known /\ status' \in {"DELIVERED", "FAILED", "BOUNCED", "COMPLAINED"} /\ run' = run
          /\ journal' = journal]_vars

\* A request whose worker died does not hold the message for ever: its lease
\* runs out and the sweep ends the doubt, whatever became of the job.
DoubtEnds ==
  \A s \in Stages : journal[s].state = "SENDING" ~> journal[s].state # "SENDING"
=============================================================================
