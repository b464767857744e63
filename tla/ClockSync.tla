----------------------------- MODULE ClockSync -----------------------------
(***************************************************************************)
(* The bookings job of ClockBackgroundSyncService: a row of                *)
(* clock_sync_jobs with a lease, the saved progress of a pass and a        *)
(* high-water mark, run by the schedulers of several processes.            *)
(*                                                                         *)
(* A pass lists what Clock changed since the last one, reads it a batch    *)
(* per step, and saves after each.  A read ends with the reservation's     *)
(* newest version in its row, or left out by hydrateBooking; what happens  *)
(* in it is BookingMirror.  Here it is one step, and only what Clock has   *)
(* shown the job counts.                                                   *)
(***************************************************************************)
EXTENDS Integers, FiniteSets

CONSTANTS
  Reservations,
  Runners,      \* processes that run the scheduler
  Nobody,       \* lease_token IS NULL
  BatchSize,    \* reservations per step (20 in the code)
  Skew,         \* how far Clock's stamps may be behind MUST's clock
  Overlap,      \* the 60 seconds by which two passes overlap
  MaxTime,      \* bound: the clock
  MaxVersion,   \* bound: versions of a reservation
  MaxFaults,    \* bound: crashes, failed reads and leases lost to slowness
  MaxWakes      \* bound: webhooks that wake the job

ASSUME ClockSyncAssumption ==
  /\ IsFiniteSet(Reservations) /\ Nobody \notin Runners
  /\ BatchSize \in Nat \ {0}
  /\ Skew \in Nat /\ Overlap \in Nat /\ Skew <= Overlap
  /\ MaxTime \in Nat /\ MaxVersion \in Nat \ {0}
  /\ MaxFaults \in Nat /\ MaxWakes \in Nat

Never == -1                   \* no high-water mark, no pass under way
Time == 0 .. MaxTime
Versions == 1 .. MaxVersion

VARIABLES
  now,       \* the clock
  ver,       \* Clock: version of each reservation
  stamp,     \* Clock: its updated_at
  token,     \* clock_sync_jobs.lease_token
  until,     \* progress.until, Never without progress
  left,      \* progress: the listed reservations not read yet
  high,      \* snapshot.highWater
  requested, \* requested_at IS NOT NULL
  soon,      \* next_run_at is now, not after the usual delay
  run,       \* where each runner is, with what it claimed
  seen,      \* newest version of each reservation that a read has dealt with
  faults, wakes

clock == <<ver, stamp>>
job == <<token, until, left, high, requested, soon>>
vars == <<now, clock, job, run, seen, faults, wakes>>

\* A step of the job: the pass it belongs to, what the pass has left, and
\* what is being read.
Step(at, u, rest, batch) == [at |-> at, until |-> u, left |-> rest, batch |-> batch]
Idle == Step("idle", Never, {}, {})

\* A hotel that just connected.
Init ==
  /\ now = 0
  /\ ver = [r \in Reservations |-> 1] /\ stamp = [r \in Reservations |-> 0]
  /\ token = Nobody /\ until = Never /\ left = {} /\ high = Never
  /\ requested = FALSE /\ soon = TRUE
  /\ run = [w \in Runners |-> Idle]
  /\ seen = [r \in Reservations |-> 0]
  /\ faults = 0 /\ wakes = 0

-----------------------------------------------------------------------------
Tick ==
  /\ now < MaxTime
  /\ now' = now + 1
  /\ UNCHANGED <<clock, job, run, seen, faults, wakes>>

\* The hotel changes a reservation.  Clock's stamps never go back, and may be
\* late.  The last tick is left for the passes.
ClockEdit(r) ==
  /\ now < MaxTime /\ ver[r] < MaxVersion
  /\ ver' = [ver EXCEPT ![r] = @ + 1]
  /\ \E s \in Time :
       /\ stamp[r] <= s /\ now - Skew <= s /\ s <= now
       /\ stamp' = [stamp EXCEPT ![r] = s]
  /\ UNCHANGED <<now, job, run, seen, faults, wakes>>

\* A webhook makes the job due at once.
Wake ==
  /\ wakes < MaxWakes /\ wakes' = wakes + 1
  /\ requested' = TRUE /\ soon' = TRUE
  /\ UNCHANGED <<now, clock, token, until, left, high, run, seen, faults>>

-----------------------------------------------------------------------------
MutantLeaseFree == token = Nobody

\* The lease is free or its holder is gone; else a holder may be so slow that
\* it outlives its lease.
LeaseFree == token # Nobody => run[token].at = "idle"

Claim(w) ==
  /\ run[w].at = "idle"
  /\ \/ LeaseFree /\ UNCHANGED faults
     \/ ~LeaseFree /\ faults < MaxFaults /\ faults' = faults + 1
  /\ token' = w /\ requested' = FALSE
  /\ run' = [run EXCEPT ![w] =
       IF until = Never THEN Step("list", now, {}, {}) ELSE Step("next", until, left, {})]
  /\ UNCHANGED <<now, clock, until, left, high, soon, seen, wakes>>

\* The start of the list: everything, or the last high-water mark less the
\* overlap.
ListFrom == IF high = Never THEN 0 ELSE high - Overlap

\* updatedBookingIds.
Listed(u) == {r \in Reservations : ListFrom <= stamp[r] /\ stamp[r] < u}

List(w) ==
  /\ run[w].at = "list"
  /\ run' = [run EXCEPT ![w] = Step("next", @.until, Listed(@.until), {})]
  /\ UNCHANGED <<now, clock, job, seen, faults, wakes>>

MutantSlice(B, rest) == B = rest

\* slice(0, 20): all that is left, or a full batch of it.
Slice(B, rest) ==
  Cardinality(B) <= BatchSize /\ (B = rest \/ Cardinality(B) = BatchSize)

NextBatch(w) ==
  /\ run[w].at = "next"
  /\ \E B \in SUBSET run[w].left :
       /\ Slice(B, run[w].left)
       /\ run' = [run EXCEPT ![w] = Step("read", @.until, @.left \ B, B)]
  /\ UNCHANGED <<now, clock, job, seen, faults, wakes>>

\* A read always gets the current version.
Answer(r) == ver[r]

\* One hydrateBooking of the batch ends: created, updated or skipped.
Read(w, r) ==
  /\ run[w].at = "read" /\ r \in run[w].batch
  /\ seen' = [seen EXCEPT ![r] = Answer(r)]
  /\ run' = [run EXCEPT ![w] = Step("read", @.until, @.left, @.batch \ {r})]
  /\ UNCHANGED <<now, clock, job, faults, wakes>>

MutantOwnsLease(w) == TRUE

OwnsLease(w) == token = w

Stop(w) == run' = [run EXCEPT ![w] = Idle]

BatchDone(w) == run[w].at = "read" /\ run[w].batch = {}

\* save after a step in the middle of a pass.
SaveProgress(w) ==
  /\ BatchDone(w) /\ run[w].left # {} /\ OwnsLease(w)
  /\ token' = Nobody /\ until' = run[w].until /\ left' = run[w].left
  /\ soon' = TRUE
  /\ Stop(w)
  /\ UNCHANGED <<now, clock, high, requested, seen, faults, wakes>>

\* save after the last step of a pass.
Complete(w) ==
  /\ BatchDone(w) /\ run[w].left = {} /\ OwnsLease(w)
  /\ token' = Nobody /\ until' = Never /\ left' = {} /\ high' = run[w].until
  /\ soon' = requested /\ requested' = FALSE
  /\ Stop(w)
  /\ UNCHANGED <<now, clock, seen, faults, wakes>>

\* save of a runner that lost its lease changes nothing.
SaveFenced(w) ==
  /\ BatchDone(w) /\ ~OwnsLease(w)
  /\ Stop(w)
  /\ UNCHANGED <<now, clock, job, seen, faults, wakes>>

MutantReleased(w) == IF OwnsLease(w) THEN token' = Nobody /\ left' = run[w].left /\ until' = run[w].until
                     ELSE UNCHANGED <<token, left, until>>

\* The row after a failed step: RETRY, with the progress saved before.
Released(w) ==
  /\ token' = IF OwnsLease(w) THEN Nobody ELSE token
  /\ UNCHANGED <<left, until>>

\* Clock does not answer, or a read throws: the step is given up.
StepFails(w) ==
  /\ run[w].at \in {"list", "read"}
  /\ faults < MaxFaults /\ faults' = faults + 1
  /\ Released(w) /\ Stop(w)
  /\ UNCHANGED <<now, clock, high, requested, soon, seen, wakes>>

\* The process dies; its lease runs out.
Crash(w) ==
  /\ run[w].at # "idle"
  /\ faults < MaxFaults /\ faults' = faults + 1
  /\ Stop(w)
  /\ UNCHANGED <<now, clock, job, seen, wakes>>

-----------------------------------------------------------------------------
JobStep(w) ==
  \/ List(w) \/ NextBatch(w) \/ (\E r \in Reservations : Read(w, r))
  \/ SaveProgress(w) \/ Complete(w) \/ SaveFenced(w)

Next ==
  \/ Tick \/ Wake
  \/ \E r \in Reservations : ClockEdit(r)
  \/ \E w \in Runners : Claim(w) \/ JobStep(w) \/ StepFails(w) \/ Crash(w)

Spec == Init /\ [][Next]_vars

\* Time passes, the scheduler of a live process ticks each second, and a step
\* goes on since its requests time out.  Nobody has to edit, and no webhook
\* has to come.
Fairness ==
  /\ WF_vars(Tick)
  /\ WF_vars(\E w \in Runners : LeaseFree /\ Claim(w))
  /\ \A w \in Runners : WF_vars(JobStep(w))

FairSpec == Spec /\ Fairness

-----------------------------------------------------------------------------
(***************************************************************************)
(* Properties.                                                             *)
(***************************************************************************)
Batches == {B \in SUBSET Reservations : Cardinality(B) <= BatchSize}

\* Types of the job's row, of the runners and of the reservations; a runner
\* never holds more than a batch, which is what its lease has time for.
TypeOK ==
  /\ now \in Time
  /\ ver \in [Reservations -> Versions] /\ stamp \in [Reservations -> Time]
  /\ token \in Runners \cup {Nobody} /\ until \in Time \cup {Never}
  /\ left \subseteq Reservations /\ high \in Time \cup {Never}
  /\ requested \in BOOLEAN /\ soon \in BOOLEAN
  /\ run \in [Runners -> [at : {"idle", "list", "next", "read"}, until : Time \cup {Never},
                          left : SUBSET Reservations, batch : Batches]]
  /\ seen \in [Reservations -> Versions \cup {0}]
  /\ faults \in 0 .. MaxFaults /\ wakes \in 0 .. MaxWakes

\* What the high-water mark promises: a change stamped before the start of the
\* next list has been read, whatever steps failed and whoever lost the lease
\* (until is taken before the list, and the overlap covers late stamps).
WatermarkCovers ==
  \A r \in Reservations : high # Never /\ stamp[r] < ListFrom => seen[r] = ver[r]

\* A runner that lost its lease cannot take the job back to an earlier pass,
\* nor a failed one skip ahead (save is fenced by the lease token).
WatermarkAdvances == [][high' >= high]_vars

\* Once Clock is quiet every last version is read, without a single webhook.
CatchesUp == \A r \in Reservations : <>[](seen[r] = ver[r])
=============================================================================
