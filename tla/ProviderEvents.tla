--------------------------- MODULE ProviderEvents ---------------------------
(***************************************************************************)
(* One Clock webhook event from its delivery to its outcome: the           *)
(* provider_events row in Postgres, the BullMQ job that hydrates it, the   *)
(* attempts that run the job (ClockWorkerService.processHydrateEvent), and *)
(* the processes that reconcile the row with the job: webhook deliveries   *)
(* (ClockWebhookService.handle) and recovery-sweep ticks                   *)
(* (ClockWorkerService.reconcileStuckEvent).  ADR-0031 is the design.      *)
(*                                                                         *)
(* Every SQL statement of the code touches one row by its key, so one      *)
(* event is modelled; a statement or a transaction that holds the row lock *)
(* is one action, and anything between two of them can interleave.         *)
(***************************************************************************)
EXTENDS Naturals

CONSTANTS
  Webhooks,     \* concurrent deliveries of the SNS notification
  Sweeps,       \* concurrent recovery-sweep ticks
  MaxJobs,      \* bound: BullMQ jobs that may be created for the event
  MaxTries,     \* HYDRATE_EVENT_JOB_OPTIONS.attempts (10 in the code)
  MaxStalls,    \* BullMQ's maxStalledCount (1 by default)
  MaxRetries    \* bound: times an operator resets the row

ASSUME ProviderEventsAssumption ==
  /\ MaxJobs \in Nat \ {0}
  /\ MaxTries \in Nat \ {0}
  /\ MaxStalls \in Nat
  /\ MaxRetries \in Nat

Recreators == Webhooks \cup Sweeps

\* An attempt is one activation of one job: <<job, attemptsStarted>>.  It is
\* also the attempt's fencing token, because BullMQ draws a fresh lock token
\* for every activation.
Attempts == (1 .. MaxJobs) \X (1 .. (MaxTries + MaxStalls))
NoToken == <<0, 0>>     \* processing_token IS NULL
NoGen == 0              \* processing_attempt IS NULL; attemptsStarted is >= 1

NonTerminal == {"RECEIVED", "QUEUED"}
Settled == {"HYDRATED", "IGNORED", "FAILED", "NEEDS_RECONCILIATION"}

VARIABLES
  status,     \* provider_events.status, "NONE" before the insert
  token,      \* provider_events.processing_token
  gen,        \* provider_events.processing_attempt
  reviews,    \* ManualReviewItems recorded by parkNeedsReconciliation
  jobState,   \* the job in Redis
  jobNo,      \* jobs created so far, the number of the current one
  started,    \* job.attemptsStarted
  made,       \* job.attemptsMade
  stalls,     \* job's stalled counter
  pc,         \* where each attempt's processor function is
  rpc,        \* where each delivery or sweep tick is
  snap,       \* the ownership each recreator read before queue.add()
  retries,    \* operator resets so far
  appliers,   \* history: attempts whose local effect committed
  lastClaim   \* history: the attempt of the latest successful claim

row == <<status, token, gen>>
job == <<jobState, jobNo, started, made, stalls>>
history == <<appliers, lastClaim>>
vars == <<row, reviews, job, pc, rpc, snap, retries, history>>

Unowned == [token |-> NoToken, gen |-> NoGen]

Init ==
  /\ status = "NONE" /\ token = NoToken /\ gen = NoGen
  /\ reviews = 0
  /\ jobState = "missing" /\ jobNo = 0 /\ started = 0 /\ made = 0 /\ stalls = 0
  /\ pc = [a \in Attempts |-> "unborn"]
  /\ rpc = [r \in Recreators |-> "idle"]
  /\ snap = [r \in Recreators |-> Unowned]
  /\ retries = 0
  /\ appliers = {} /\ lastClaim = NoToken

-----------------------------------------------------------------------------
(***************************************************************************)
(* The row's guarded statements.                                           *)
(***************************************************************************)
SetRow(s, t, g) == status' = s /\ token' = t /\ gen' = g

MutantClaimAllowedNoGen(a) == status \in NonTerminal
MutantClaimAllowedResurrects(a) == status \notin {"NONE", "HYDRATED", "IGNORED"}

\* claimEventSql: the status guard and the token + generation guard.
ClaimAllowed(a) ==
  /\ status \in NonTerminal
  /\ \/ gen = NoGen
     \/ gen < a[2]
     \/ gen = a[2] /\ token = a

MutantOwnsRowStatusOnly(a) == status = "QUEUED"

\* ownershipLockSql + ownsRow, and guardedTransitionSql with requireToken.
OwnsRow(a) == status = "QUEUED" /\ token = a

-----------------------------------------------------------------------------
(***************************************************************************)
(* BullMQ, as the code uses it.                                            *)
(***************************************************************************)
HoldsLock(a) == jobState = "active" /\ a = <<jobNo, started>>

\* A worker takes the waiting (or delayed) job: attemptsStarted grows and the
\* processor function starts with a fresh lock token.
Activate ==
  /\ jobState = "waiting"
  /\ jobState' = "active" /\ started' = started + 1
  /\ pc' = [pc EXCEPT ![<<jobNo, started + 1>>] = "read"]
  /\ UNCHANGED <<row, reviews, jobNo, made, stalls, rpc, snap, retries, history>>

\* The lock was not renewed in time: the job is handed out again, or fails
\* once it stalled too often.  The old attempt may still be running.
Stall ==
  /\ jobState = "active"
  /\ stalls' = stalls + 1
  /\ jobState' = IF stalls < MaxStalls THEN "waiting" ELSE "failed"
  /\ UNCHANGED <<row, reviews, jobNo, started, made, pc, rpc, snap, retries, history>>

\* A completed job ages out (removeOnComplete), or Redis or an operator loses
\* the job while an attempt may still be running.
LoseJob ==
  /\ jobState # "missing"
  /\ jobNo < MaxJobs
  /\ jobState' = "missing"
  /\ UNCHANGED <<row, reviews, jobNo, started, made, stalls, pc, rpc, snap, retries, history>>

-----------------------------------------------------------------------------
(***************************************************************************)
(* An attempt: ClockWorkerService.processHydrateEvent.                     *)
(***************************************************************************)
AttemptOnly == UNCHANGED <<reviews, jobNo, started, stalls, rpc, snap, retries>>

\* The unlocked SELECT: a row that is no longer processable is skipped.
ReadRow(a) ==
  /\ pc[a] = "read"
  /\ pc' = [pc EXCEPT ![a] = IF status \in NonTerminal THEN "claim" ELSE "returned"]
  /\ AttemptOnly /\ UNCHANGED <<row, jobState, made, history>>

\* claimEvent: one guarded UPDATE; an attempt that is refused just returns.
Claim(a) ==
  /\ pc[a] = "claim"
  /\ \/ /\ ClaimAllowed(a)
        /\ SetRow("QUEUED", a, a[2])
        /\ pc' = [pc EXCEPT ![a] = "work"]
        /\ lastClaim' = a
     \/ /\ ~ClaimAllowed(a)
        /\ pc' = [pc EXCEPT ![a] = "returned"]
        /\ UNCHANGED <<row, lastClaim>>
  /\ AttemptOnly /\ UNCHANGED <<jobState, made, appliers>>

MutantHydrateThenFinalize(a) ==
  /\ pc[a] = "work"
  /\ OwnsRow(a)
  /\ appliers' = appliers \cup {a}
  /\ AttemptOnly /\ UNCHANGED <<row, pc, jobState, made, lastClaim>>

\* The hydration transaction (or finalizeEvent, for an event with nothing to
\* hydrate): under the row lock, an owner commits its local effect together
\* with the terminal status; whoever lost ownership writes nothing.  A stale
\* read ends HYDRATED without an effect, a booking that cannot be mapped FAILED,
\* an event that does not concern a booking IGNORED.
Hydrate(a) ==
  /\ pc[a] = "work"
  /\ pc' = [pc EXCEPT ![a] = "returned"]
  /\ \/ /\ OwnsRow(a)
        /\ \/ SetRow("HYDRATED", NoToken, NoGen) /\ appliers' = appliers \cup {a}
           \/ /\ \E s \in {"HYDRATED", "IGNORED", "FAILED"} : SetRow(s, NoToken, NoGen)
              /\ UNCHANGED appliers
     \/ ~OwnsRow(a) /\ UNCHANGED <<row, appliers>>
  /\ AttemptOnly /\ UNCHANGED <<jobState, made, lastClaim>>

\* A database error, a failed Clock request, no active connection, or a folio
\* whose booking is not there yet: nothing was written, the processor throws.
Throw(a) ==
  /\ pc[a] \in {"read", "claim", "work"}
  /\ pc' = [pc EXCEPT ![a] = "thrown"]
  /\ AttemptOnly /\ UNCHANGED <<row, jobState, made, history>>

\* The processor returned: BullMQ completes the job if this activation still
\* holds its lock.
Return(a) ==
  /\ pc[a] = "returned"
  /\ pc' = [pc EXCEPT ![a] = "gone"]
  /\ jobState' = IF HoldsLock(a) THEN "completed" ELSE jobState
  /\ AttemptOnly /\ UNCHANGED <<row, made, history>>

MutantFailRetriesOnceMore(a) ==
  /\ pc[a] = "thrown"
  /\ HoldsLock(a)
  /\ made' = made + 1
  /\ jobState' = IF made < MaxTries THEN "waiting" ELSE "failed"
  /\ pc' = [pc EXCEPT ![a] = "gone"]
  /\ AttemptOnly /\ UNCHANGED <<row, history>>

\* The processor threw: the job is delayed for its next try or, after the
\* last one, failed, and only then does the 'failed' listener act.
Fail(a) ==
  /\ pc[a] = "thrown"
  /\ \/ /\ HoldsLock(a)
        /\ made' = made + 1
        /\ \/ made + 1 < MaxTries /\ jobState' = "waiting" /\ pc' = [pc EXCEPT ![a] = "gone"]
           \/ made + 1 >= MaxTries /\ jobState' = "failed" /\ pc' = [pc EXCEPT ![a] = "exhausted"]
     \/ /\ ~HoldsLock(a)
        /\ pc' = [pc EXCEPT ![a] = "gone"]
        /\ UNCHANGED <<jobState, made>>
  /\ AttemptOnly /\ UNCHANGED <<row, history>>

\* The 'failed' listener: markHydrateEventFailed, guarded by the token.
MarkFailed(a) ==
  /\ pc[a] = "exhausted"
  /\ pc' = [pc EXCEPT ![a] = "gone"]
  /\ \/ OwnsRow(a) /\ SetRow("FAILED", NoToken, NoGen)
     \/ ~OwnsRow(a) /\ UNCHANGED row
  /\ AttemptOnly /\ UNCHANGED <<jobState, made, history>>

\* The process that runs the attempt dies, at any point.
Crash(a) ==
  /\ pc[a] \notin {"unborn", "gone"}
  /\ pc' = [pc EXCEPT ![a] = "gone"]
  /\ AttemptOnly /\ UNCHANGED <<row, jobState, made, history>>

-----------------------------------------------------------------------------
(***************************************************************************)
(* A recreator: a webhook delivery or a sweep tick that finds the row not  *)
(* yet settled and reconciles it with the job.                             *)
(***************************************************************************)
Goto(r, l) == rpc[r] # l /\ rpc' = [rpc EXCEPT ![r] = l]
RecreatorOnly == UNCHANGED <<pc, retries, history>>

\* handle: the event is stored once (ON CONFLICT DO NOTHING); a duplicate of a
\* settled event is acknowledged and nothing else happens.
Deliver(w) ==
  /\ rpc[w] = "idle"
  /\ \/ status = "NONE" /\ status' = "RECEIVED"
     \/ status \in NonTerminal /\ UNCHANGED status
  /\ Goto(w, "inspect")
  /\ RecreatorOnly /\ UNCHANGED <<token, gen, reviews, job, snap>>

\* processEventRecoverySweep selects the row (its age is only a heuristic).
SweepSelect(s) ==
  /\ rpc[s] = "idle"
  /\ status \in NonTerminal
  /\ Goto(s, "inspect")
  /\ RecreatorOnly /\ UNCHANGED <<row, reviews, job, snap>>

MutantInspectSparesMissing(r) ==
  /\ rpc[r] = "inspect"
  /\ Goto(r, CASE jobState = "completed" -> "park"
               [] jobState = "failed"    -> "fail"
               [] OTHER                  -> "idle")
  /\ RecreatorOnly /\ UNCHANGED <<row, reviews, job, snap>>

\* reconcileJob: what to do next depends on the job BullMQ knows of now.
Inspect(r) ==
  /\ rpc[r] = "inspect"
  /\ Goto(r, CASE jobState = "missing"   -> "snapshot"
               [] jobState = "completed" -> "park"
               [] jobState = "failed"    -> "fail"
               [] OTHER                  -> "idle")
  /\ RecreatorOnly /\ UNCHANGED <<row, reviews, job, snap>>

\* recreateMissingJob, first step: the unlocked read of the ownership.
Snapshot(r) ==
  /\ rpc[r] = "snapshot"
  /\ \/ /\ status \in NonTerminal
        /\ snap' = [snap EXCEPT ![r] = [token |-> token, gen |-> gen]]
        /\ Goto(r, "enqueue")
     \/ status \notin NonTerminal /\ Goto(r, "idle") /\ UNCHANGED snap
  /\ RecreatorOnly /\ UNCHANGED <<row, reviews, job>>

\* queue.add() with the event's job id: a no-op when the job exists.
Enqueue(r) ==
  /\ rpc[r] = "enqueue"
  /\ \/ /\ jobState = "missing"
        /\ jobState' = "waiting" /\ jobNo' = jobNo + 1
        /\ started' = 0 /\ made' = 0 /\ stalls' = 0
     \/ jobState # "missing" /\ UNCHANGED job
  /\ Goto(r, "reset")
  /\ RecreatorOnly /\ UNCHANGED <<row, reviews, snap>>

\* resetForJobRecreationSql's compare: the row's ownership is still exactly
\* what the recreator read.
SnapshotHolds(r) == token = snap[r].token /\ gen = snap[r].gen

\* recreateMissingJob, last step: the compare-and-swap that clears ownership.
Reset(r) ==
  /\ rpc[r] = "reset"
  /\ \/ /\ status \in NonTerminal
        /\ SnapshotHolds(r)
        /\ SetRow("QUEUED", NoToken, NoGen)
     \/ ~(status \in NonTerminal /\ SnapshotHolds(r)) /\ UNCHANGED row
  /\ Goto(r, "idle") /\ snap' = [snap EXCEPT ![r] = Unowned]
  /\ RecreatorOnly /\ UNCHANGED <<reviews, job>>

MutantParkSeparately(r) ==
  /\ rpc[r] = "park"
  /\ \/ status \in NonTerminal /\ status' = "NEEDS_RECONCILIATION"
     \/ status \notin NonTerminal /\ UNCHANGED status
  /\ reviews' = reviews + 1
  /\ Goto(r, "idle")
  /\ RecreatorOnly /\ UNCHANGED <<token, gen, job, snap>>

\* parkNeedsReconciliation: the guarded write and its review item commit
\* together; the item is recorded only if the write landed.
Park(r) ==
  /\ rpc[r] = "park"
  /\ \/ /\ status \in NonTerminal
        /\ status' = "NEEDS_RECONCILIATION" /\ reviews' = reviews + 1
     \/ status \notin NonTerminal /\ UNCHANGED <<status, reviews>>
  /\ Goto(r, "idle")
  /\ RecreatorOnly /\ UNCHANGED <<token, gen, job, snap>>

MutantFailRowUnguarded(r) ==
  /\ rpc[r] = "fail"
  /\ status' = "FAILED"
  /\ Goto(r, "idle")
  /\ RecreatorOnly /\ UNCHANGED <<token, gen, reviews, job, snap>>

\* A job BullMQ gave up on: the row is failed, whoever owned it.
FailRow(r) ==
  /\ rpc[r] = "fail"
  /\ \/ status \in NonTerminal /\ status' = "FAILED"
     \/ status \notin NonTerminal /\ UNCHANGED status
  /\ Goto(r, "idle")
  /\ RecreatorOnly /\ UNCHANGED <<token, gen, reviews, job, snap>>

\* Redis or Postgres fails, or the process dies: the recreator stops where it
\* is; what it committed stays.
Abandon(r) ==
  /\ Goto(r, "idle")
  /\ snap' = [snap EXCEPT ![r] = Unowned]
  /\ RecreatorOnly /\ UNCHANGED <<row, reviews, job>>

-----------------------------------------------------------------------------
(***************************************************************************)
(* The operator, following the recovery procedure the review item and      *)
(* docs/integrations/clock/webhooks-and-reconciliation.md give.            *)
(***************************************************************************)
OperatorRetry ==
  /\ status \in {"FAILED", "NEEDS_RECONCILIATION"}
  /\ retries < MaxRetries
  /\ retries' = retries + 1
  /\ status' = "RECEIVED" /\ token' = NoToken
  /\ UNCHANGED <<gen, reviews, job, pc, rpc, snap, appliers, lastClaim>>

OperatorConfirm ==
  /\ status = "NEEDS_RECONCILIATION"
  /\ status' = "HYDRATED" /\ token' = NoToken
  /\ UNCHANGED <<gen, reviews, job, pc, rpc, snap, retries, history>>

-----------------------------------------------------------------------------
AttemptProgress(a) ==
  ReadRow(a) \/ Claim(a) \/ Hydrate(a) \/ Throw(a) \/ Return(a) \/ Fail(a)

RecreatorStep(r) ==
  \/ Inspect(r) \/ Snapshot(r) \/ Enqueue(r) \/ Reset(r) \/ Park(r) \/ FailRow(r)
  \/ Abandon(r)

Next ==
  \/ Activate \/ Stall \/ LoseJob
  \/ \E a \in Attempts : AttemptProgress(a) \/ MarkFailed(a) \/ Crash(a)
  \/ \E w \in Webhooks : Deliver(w)
  \/ \E s \in Sweeps : SweepSelect(s)
  \/ \E r \in Recreators : RecreatorStep(r)
  \/ OperatorRetry \/ OperatorConfirm

Spec == Init /\ [][Next]_vars

\* BullMQ keeps dispatching and detects a dead holder's stalled job, a live
\* attempt goes on (its Clock request times out), and the scheduler keeps
\* running the sweep, which Redis and Postgres do not fail for ever.  Neither
\* a delivery nor the 'failed' listener is relied on.
Fairness ==
  /\ WF_vars(Activate)
  /\ WF_vars(Stall /\ pc[<<jobNo, started>>] = "gone")
  /\ \A a \in Attempts : WF_vars(AttemptProgress(a))
  /\ \A s \in Sweeps :
       /\ WF_vars(SweepSelect(s))
       /\ SF_vars(Inspect(s)) /\ SF_vars(Snapshot(s)) /\ SF_vars(Enqueue(s))
       /\ SF_vars(Reset(s)) /\ SF_vars(Park(s)) /\ SF_vars(FailRow(s))

FairSpec == Spec /\ Fairness

-----------------------------------------------------------------------------
(***************************************************************************)
(* Properties.                                                             *)
(***************************************************************************)

\* The event as EventOutcome sees it.
Phase ==
  CASE status = "NONE" -> "absent"
    [] status \in NonTerminal -> "open"
    [] OTHER -> status

Outcome == INSTANCE EventOutcome WITH phase <- Phase, applied <- (appliers # {})

\* The row, the job and the token implement the abstract event: every step of
\* this module is a step of EventOutcome or leaves the outcome alone.
ImplementsOutcome == Outcome!Spec

\* Every variable stays in its type; the counters of the job stay within what
\* BullMQ's limits allow.
TypeOK ==
  /\ status \in {"NONE"} \cup NonTerminal \cup Settled
  /\ token \in Attempts \cup {NoToken}
  /\ gen \in 0 .. (MaxTries + MaxStalls)
  /\ reviews \in Nat
  /\ jobState \in {"missing", "waiting", "active", "completed", "failed"}
  /\ jobNo \in 0 .. MaxJobs
  /\ started \in 0 .. (MaxTries + MaxStalls)
  /\ made \in 0 .. MaxTries
  /\ stalls \in 0 .. (MaxStalls + 1)
  /\ pc \in [Attempts -> {"unborn", "read", "claim", "work", "returned", "thrown",
                          "exhausted", "gone"}]
  /\ rpc \in [Recreators -> {"idle", "inspect", "snapshot", "enqueue", "reset", "park", "fail"}]
  /\ snap \in [Recreators -> [token : Attempts \cup {NoToken}, gen : 0 .. (MaxTries + MaxStalls)]]
  /\ retries \in 0 .. MaxRetries
  /\ appliers \subseteq Attempts
  /\ lastClaim \in Attempts \cup {NoToken}

\* However attempts, jobs and operators overlap, the local effect of the event
\* commits at most once, and once it has the row says HYDRATED for ever: no
\* second attempt redoes it (ownership fence, terminal write in the same
\* transaction).
EffectOnce ==
  /\ \A a, b \in appliers : a = b
  /\ appliers # {} => status = "HYDRATED"

\* Only the attempt that claimed last writes an outcome, whether it commits an
\* effect, finalizes without one, or reports FAILED from the 'failed' listener:
\* a stalled attempt that wakes up late changes nothing.
OutcomeByLastClaimer ==
  [][\A a \in Attempts :
       /\ pc[a] \in {"work", "exhausted"} /\ pc'[a] # pc[a] /\ status' # status
       => a = lastClaim]_vars

\* Within one job, ownership only ever passes to a later activation: a claim
\* that reaches Postgres late cannot take the row back (processing_attempt).
TakeoverIsNewer ==
  [][(token # token' /\ token # NoToken /\ token' # NoToken /\ token[1] = token'[1])
       => token'[2] > token[2]]_vars

\* Nothing automatic moves a settled event: a redelivery, a sweep or an old
\* attempt cannot resurrect it.  Only the operator reopens FAILED or
\* NEEDS_RECONCILIATION, or confirms the latter.
OnlyOperatorReopens ==
  [][(status \in Settled /\ status' # status)
       => \/ status' = "RECEIVED" /\ retries' = retries + 1
          \/ status = "NEEDS_RECONCILIATION" /\ status' = "HYDRATED" /\ pc' = pc]_vars

\* An event is parked together with exactly one review item, and no item is
\* recorded for a parking that lost its race.
OneReviewPerParking ==
  [][(reviews' # reviews)
       <=> (status # "NEEDS_RECONCILIATION" /\ status' = "NEEDS_RECONCILIATION")]_vars

\* A stored event does not stay RECEIVED or QUEUED: crashes, stalls, a lost
\* job and a lost enqueue are all recovered by the sweep.
EventSettles == status \in NonTerminal ~> status \in Settled
=============================================================================
