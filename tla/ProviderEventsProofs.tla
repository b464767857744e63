------------------------ MODULE ProviderEventsProofs ------------------------
(***************************************************************************)
(* Machine-checked proofs about ProviderEvents, for any number of jobs,    *)
(* tries, stalls, deliveries, sweep ticks and operator resets.             *)
(***************************************************************************)
EXTENDS ProviderEvents, TLAPS

\* What BullMQ's counters say of each other: an activation is accounted for by
\* a failed try, a stall or the attempt that runs now.  TypeOK needs it to bound
\* the number of activations.
JobCount ==
  /\ jobState = "missing" => jobNo < MaxJobs
  /\ jobState # "missing" => jobNo >= 1
  /\ jobState = "waiting" => started = made + stalls
  /\ jobState = "active" => started = made + stalls + 1
  /\ jobState \in {"waiting", "active"} => made < MaxTries /\ stalls <= MaxStalls

\* The row's owner is always the attempt that claimed last, and its generation
\* is the one the row records.
OwnerIsLastClaimer ==
  token # NoToken => token = lastClaim /\ gen = token[2]

IInv == TypeOK /\ JobCount /\ EffectOnce /\ OwnerIsLastClaimer

-----------------------------------------------------------------------------
\* A token is a pair of positive numbers, hence never the NULL token.
LEMMA AttemptFacts ==
  ASSUME NEW a \in Attempts
  PROVE  /\ a = <<a[1], a[2]>>
         /\ a[1] \in 1 .. MaxJobs
         /\ a[2] \in 1 .. (MaxTries + MaxStalls)
         /\ a[2] \in 0 .. (MaxTries + MaxStalls)
         /\ a[2] # NoGen
         /\ a # NoToken
  BY ProviderEventsAssumption DEF Attempts, NoToken, NoGen

\* The initial state satisfies the inductive invariant.
LEMMA InitInv == Init => IInv
  <1> SUFFICES ASSUME Init PROVE IInv
    OBVIOUS
  <1> USE ProviderEventsAssumption DEF Init
  <1>1. TypeOK
    <2>1. gen \in 0 .. (MaxTries + MaxStalls) /\ started \in 0 .. (MaxTries + MaxStalls)
      BY DEF NoGen
    <2>2. snap \in [Recreators -> [token : Attempts \cup {NoToken}, gen : 0 .. (MaxTries + MaxStalls)]]
      BY <2>1 DEF Unowned
    <2>3. pc \in [Attempts -> {"unborn", "read", "claim", "work", "returned", "thrown",
                                "exhausted", "gone"}]
      OBVIOUS
    <2>4. rpc \in [Recreators -> {"idle", "inspect", "snapshot", "enqueue", "reset", "park",
                                   "fail"}]
      OBVIOUS
    <2>5. jobNo \in 0 .. MaxJobs /\ made \in 0 .. MaxTries /\ stalls \in 0 .. (MaxStalls + 1)
          /\ retries \in 0 .. MaxRetries
      OBVIOUS
    <2> QED
      BY <2>1, <2>2, <2>3, <2>4, <2>5 DEF TypeOK
  <1>2. JobCount
    BY DEF JobCount
  <1>3. EffectOnce /\ OwnerIsLastClaimer
    BY DEF EffectOnce, OwnerIsLastClaimer
  <1> QED
    BY <1>1, <1>2, <1>3 DEF IInv

-----------------------------------------------------------------------------
\* Every step preserves types and the counters of the job.
LEMMA TypeStep ==
  ASSUME TypeOK, JobCount, [Next]_vars
  PROVE  TypeOK' /\ JobCount'
  <1> USE ProviderEventsAssumption DEF TypeOK, JobCount, NonTerminal, Settled
  <1>1. CASE Activate
    <2>1. <<jobNo, started + 1>> \in Attempts
      BY <1>1 DEF Activate, Attempts
    <2>2. started' \in 0 .. (MaxTries + MaxStalls) /\ started' = made' + stalls' + 1
      BY <1>1 DEF Activate
    <2>3. pc' \in [Attempts -> {"unborn", "read", "claim", "work", "returned", "thrown",
                                 "exhausted", "gone"}]
      BY <1>1, <2>1 DEF Activate
    <2>4. UNCHANGED <<status, token, gen, appliers, lastClaim, reviews, jobNo, made,
                      stalls, rpc, snap, retries>> /\ jobState = "waiting" /\ jobState' = "active"
      BY <1>1 DEF Activate, row, history
    <2> QED
      BY <2>2, <2>3, <2>4
  <1>2. CASE Stall
    BY <1>2 DEF Stall, row, history
  <1>3. CASE LoseJob
    BY <1>3 DEF LoseJob, row, history
  <1>4. ASSUME NEW a \in Attempts, AttemptProgress(a) \/ MarkFailed(a) \/ Crash(a)
        PROVE  TypeOK' /\ JobCount'
    <2> USE AttemptFacts DEF AttemptOnly, row, history, SetRow
    <2>1. CASE ReadRow(a)
      BY <2>1 DEF ReadRow
    <2>2. CASE Claim(a)
      BY <2>2 DEF Claim
    <2>3. CASE Hydrate(a)
      BY <2>3 DEF Hydrate, NoGen
    <2>4. CASE Throw(a)
      BY <2>4 DEF Throw
    <2>5. CASE Return(a)
      BY <2>5 DEF Return, HoldsLock
    <2>6. CASE Fail(a)
      <3>1. pc' \in [Attempts -> {"unborn", "read", "claim", "work", "returned", "thrown",
                                   "exhausted", "gone"}]
        BY <2>6 DEF Fail
      <3>2. UNCHANGED <<status, token, gen, appliers, lastClaim, reviews, jobNo,
                        started, stalls, rpc, snap, retries>>
        BY <2>6 DEF Fail
      <3>3. CASE UNCHANGED <<jobState, made>>
        BY <3>1, <3>2, <3>3
      <3>4. CASE ~UNCHANGED <<jobState, made>>
        <4>1. /\ jobState = "active" /\ made' = made + 1
              /\ \/ made + 1 < MaxTries /\ jobState' = "waiting"
                 \/ jobState' = "failed"
          BY <2>6, <3>4 DEF Fail, HoldsLock
        <4>2. made' \in 0 .. MaxTries
          BY <4>1
        <4> QED
          BY <3>1, <3>2, <4>1, <4>2
      <3> QED
        BY <3>3, <3>4
    <2>7. CASE MarkFailed(a)
      BY <2>7 DEF MarkFailed, NoGen
    <2>8. CASE Crash(a)
      BY <2>8 DEF Crash
    <2> QED
      BY <1>4, <2>1, <2>2, <2>3, <2>4, <2>5, <2>6, <2>7, <2>8 DEF AttemptProgress
  <1>5. ASSUME NEW w \in Webhooks, Deliver(w) PROVE TypeOK' /\ JobCount'
    BY <1>5 DEF Deliver, Goto, RecreatorOnly, job, history, Recreators
  <1>6. ASSUME NEW s \in Sweeps, SweepSelect(s) PROVE TypeOK' /\ JobCount'
    BY <1>6 DEF SweepSelect, Goto, RecreatorOnly, row, job, history, Recreators
  <1>7. ASSUME NEW r \in Recreators, RecreatorStep(r) PROVE TypeOK' /\ JobCount'
    <2> USE DEF Goto, RecreatorOnly, row, job, history
    <2>1. CASE Inspect(r)
      BY <2>1 DEF Inspect
    <2>2. CASE Snapshot(r)
      BY <2>2 DEF Snapshot
    <2>3. CASE Enqueue(r)
      BY <2>3 DEF Enqueue
    <2>4. CASE Reset(r)
      BY <2>4 DEF Reset, SetRow, Unowned, NoGen
    <2>5. CASE Park(r)
      BY <2>5 DEF Park
    <2>6. CASE FailRow(r)
      BY <2>6 DEF FailRow
    <2>7. CASE Abandon(r)
      BY <2>7 DEF Abandon, Unowned, NoGen
    <2> QED
      BY <1>7, <2>1, <2>2, <2>3, <2>4, <2>5, <2>6, <2>7 DEF RecreatorStep
  <1>8. CASE OperatorRetry
    BY <1>8 DEF OperatorRetry, job
  <1>9. CASE OperatorConfirm
    BY <1>9 DEF OperatorConfirm, job, history
  <1>10. CASE UNCHANGED vars
    BY <1>10 DEF vars, row, job, history
  <1> QED
    BY <1>1, <1>2, <1>3, <1>4, <1>5, <1>6, <1>7, <1>8, <1>9, <1>10 DEF Next

-----------------------------------------------------------------------------
\* The effect stays single and the owner stays the last claimer: an effect needs
\* a QUEUED row, so none was committed before, and it leaves the row HYDRATED,
\* which no guarded statement touches.
LEMMA FenceStep ==
  ASSUME TypeOK, EffectOnce, OwnerIsLastClaimer, [Next]_vars
  PROVE  EffectOnce' /\ OwnerIsLastClaimer'
  <1> USE DEF EffectOnce, OwnerIsLastClaimer, NonTerminal
  <1>1. CASE Activate
    BY <1>1 DEF Activate, row, history
  <1>2. CASE Stall
    BY <1>2 DEF Stall, row, history
  <1>3. CASE LoseJob
    BY <1>3 DEF LoseJob, row, history
  <1>4. ASSUME NEW a \in Attempts, AttemptProgress(a) \/ MarkFailed(a) \/ Crash(a)
        PROVE  EffectOnce' /\ OwnerIsLastClaimer'
    <2> USE AttemptFacts DEF row, history, SetRow
    <2>1. CASE ReadRow(a)
      BY <2>1 DEF ReadRow
    <2>2. CASE Claim(a)
      BY <2>2 DEF Claim, ClaimAllowed
    <2>3. CASE Hydrate(a)
      BY <2>3 DEF Hydrate, OwnsRow
    <2>4. CASE Throw(a)
      BY <2>4 DEF Throw
    <2>5. CASE Return(a)
      BY <2>5 DEF Return
    <2>6. CASE Fail(a)
      BY <2>6 DEF Fail
    <2>7. CASE MarkFailed(a)
      BY <2>7 DEF MarkFailed, OwnsRow
    <2>8. CASE Crash(a)
      BY <2>8 DEF Crash
    <2> QED
      BY <1>4, <2>1, <2>2, <2>3, <2>4, <2>5, <2>6, <2>7, <2>8 DEF AttemptProgress
  <1>5. ASSUME NEW w \in Webhooks, Deliver(w) PROVE EffectOnce' /\ OwnerIsLastClaimer'
    BY <1>5 DEF Deliver, RecreatorOnly, history
  <1>6. ASSUME NEW s \in Sweeps, SweepSelect(s) PROVE EffectOnce' /\ OwnerIsLastClaimer'
    BY <1>6 DEF SweepSelect, RecreatorOnly, row, history
  <1>7. ASSUME NEW r \in Recreators, RecreatorStep(r)
        PROVE  EffectOnce' /\ OwnerIsLastClaimer'
    <2> USE DEF RecreatorOnly, row, history
    <2>1. CASE Inspect(r)
      BY <2>1 DEF Inspect
    <2>2. CASE Snapshot(r)
      BY <2>2 DEF Snapshot
    <2>3. CASE Enqueue(r)
      BY <2>3 DEF Enqueue
    <2>4. CASE Reset(r)
      BY <2>4 DEF Reset, SetRow
    <2>5. CASE Park(r)
      BY <2>5 DEF Park
    <2>6. CASE FailRow(r)
      BY <2>6 DEF FailRow
    <2>7. CASE Abandon(r)
      BY <2>7 DEF Abandon
    <2> QED
      BY <1>7, <2>1, <2>2, <2>3, <2>4, <2>5, <2>6, <2>7 DEF RecreatorStep
  <1>8. CASE OperatorRetry
    BY <1>8 DEF OperatorRetry
  <1>9. CASE OperatorConfirm
    BY <1>9 DEF OperatorConfirm, history
  <1>10. CASE UNCHANGED vars
    BY <1>10 DEF vars, row, history
  <1> QED
    BY <1>1, <1>2, <1>3, <1>4, <1>5, <1>6, <1>7, <1>8, <1>9, <1>10 DEF Next

\* The inductive invariant holds in every reachable state.
THEOREM Inductive == Spec => []IInv
  <1>1. IInv /\ [Next]_vars => IInv'
    BY TypeStep, FenceStep DEF IInv
  <1> QED
    BY InitInv, <1>1, PTL DEF Spec

\* The state keeps its types whatever the bounds are.
THEOREM TypeCorrect == Spec => []TypeOK
  <1>1. IInv => TypeOK
    BY DEF IInv
  <1> QED
    BY Inductive, <1>1, PTL

\* The event's local effect commits at most once, and then the row is HYDRATED.
THEOREM EffectIsAppliedOnce == Spec => []EffectOnce
  <1>1. IInv => EffectOnce
    BY DEF IInv
  <1> QED
    BY Inductive, <1>1, PTL

-----------------------------------------------------------------------------
\* The steps of an attempt move the program counter of that attempt only; every
\* other step except a dispatch leaves the program counters alone.
LEMMA OnlyOwnPc ==
  ASSUME TypeOK, Next, NEW a \in Attempts, pc'[a] # pc[a], pc[a] # "unborn"
  PROVE  \/ AttemptProgress(a) \/ MarkFailed(a) \/ Crash(a)
         \/ Activate
  <1>1. ASSUME NEW b \in Attempts, AttemptProgress(b) \/ MarkFailed(b) \/ Crash(b)
        PROVE  a = b
    BY <1>1 DEF AttemptProgress, ReadRow, Claim, Hydrate, Throw, Return, Fail, MarkFailed,
                Crash, TypeOK
  <1>2. ASSUME NEW w \in Webhooks, Deliver(w) PROVE FALSE
    BY <1>2 DEF Deliver, RecreatorOnly
  <1>3. ASSUME NEW s \in Sweeps, SweepSelect(s) PROVE FALSE
    BY <1>3 DEF SweepSelect, RecreatorOnly
  <1>4. ASSUME NEW r \in Recreators, RecreatorStep(r) PROVE FALSE
    BY <1>4 DEF RecreatorStep, Inspect, Snapshot, Enqueue, Reset, Park, FailRow, Abandon,
                RecreatorOnly
  <1>5. ~(Stall \/ LoseJob \/ OperatorRetry \/ OperatorConfirm)
    BY DEF Stall, LoseJob, OperatorRetry, OperatorConfirm
  <1> QED
    BY <1>1, <1>2, <1>3, <1>4, <1>5 DEF Next

\* Only the last claimer writes an outcome: an attempt that changes the status
\* passed the ownership check, and the owner is the last claimer.
THEOREM OutcomeIsFenced == Spec => OutcomeByLastClaimer
  <1> DEFINE Fenced == \A a \in Attempts :
               /\ pc[a] \in {"work", "exhausted"} /\ pc'[a] # pc[a] /\ status' # status
               => a = lastClaim
  <1>1. IInv /\ [Next]_vars => Fenced
    <2> SUFFICES ASSUME IInv, [Next]_vars, NEW a \in Attempts,
                        pc[a] \in {"work", "exhausted"}, pc'[a] # pc[a], status' # status
                 PROVE  a = lastClaim
      OBVIOUS
    <2>1. Next
      BY DEF vars, row
    <2>2. ~Activate
      BY DEF Activate, row
    <2>3. AttemptProgress(a) \/ MarkFailed(a) \/ Crash(a)
      BY <2>1, <2>2, OnlyOwnPc DEF IInv
    <2>4. OwnsRow(a)
      BY <2>3 DEF AttemptProgress, ReadRow, Claim, Hydrate, Throw, Return, Fail, MarkFailed,
                  Crash, row
    <2> QED
      BY <2>4, AttemptFacts DEF OwnsRow, IInv, OwnerIsLastClaimer
  <1>2. IInv /\ [Next]_vars => [Fenced]_vars
    BY <1>1
  <1> QED
    BY Inductive, <1>2, PTL DEF Spec, OutcomeByLastClaimer

-----------------------------------------------------------------------------
\* How a step can change the owner or the status of the row: the list of the
\* guarded statements.  The action theorems below follow from it.
LEMMA RowStep ==
  ASSUME [Next]_vars, UNCHANGED row => FALSE
  PROVE  \/ status = "NONE" /\ status' = "RECEIVED" /\ token' = token
         \/ \E a \in Attempts : ClaimAllowed(a) /\ status' = "QUEUED" /\ token' = a
         \/ \E a \in Attempts : /\ OwnsRow(a) /\ token' = NoToken
                                /\ status' \in {"HYDRATED", "IGNORED", "FAILED"}
         \/ status \in NonTerminal /\ status' = "QUEUED" /\ token' = NoToken
         \/ /\ status \in NonTerminal /\ token' = token
            /\ status' \in {"FAILED", "NEEDS_RECONCILIATION"}
         \/ OperatorRetry
         \/ OperatorConfirm
  <1> USE DEF row
  <1>1. Next
    BY DEF vars
  <1>2. ~(Activate \/ Stall \/ LoseJob)
    BY DEF Activate, Stall, LoseJob
  <1>3. ASSUME NEW a \in Attempts, AttemptProgress(a) \/ MarkFailed(a) \/ Crash(a)
        PROVE  \/ ClaimAllowed(a) /\ status' = "QUEUED" /\ token' = a
               \/ /\ OwnsRow(a) /\ token' = NoToken
                  /\ status' \in {"HYDRATED", "IGNORED", "FAILED"}
    BY <1>3 DEF AttemptProgress, ReadRow, Claim, Hydrate, Throw, Return, Fail, MarkFailed, Crash,
                SetRow
  <1>4. ASSUME NEW w \in Webhooks, Deliver(w)
        PROVE  status = "NONE" /\ status' = "RECEIVED" /\ token' = token
    BY <1>4 DEF Deliver
  <1>5. ASSUME NEW s \in Sweeps, SweepSelect(s) PROVE FALSE
    BY <1>5 DEF SweepSelect
  <1>6. ASSUME NEW r \in Recreators, RecreatorStep(r)
        PROVE  \/ status \in NonTerminal /\ status' = "QUEUED" /\ token' = NoToken
               \/ /\ status \in NonTerminal /\ token' = token
                  /\ status' \in {"FAILED", "NEEDS_RECONCILIATION"}
    BY <1>6 DEF RecreatorStep, Inspect, Snapshot, Enqueue, Reset, Park, FailRow, Abandon, SetRow
  <1> QED
    BY <1>1, <1>2, <1>3, <1>4, <1>5, <1>6 DEF Next

\* Within one job, ownership passes only to a later activation.
THEOREM OwnershipMovesForward == Spec => TakeoverIsNewer
  <1> DEFINE Newer == (token # token' /\ token # NoToken /\ token' # NoToken /\ token[1] = token'[1])
                        => token'[2] > token[2]
  <1>1. IInv /\ [Next]_vars => Newer
    <2> SUFFICES ASSUME IInv, [Next]_vars, token # token', token # NoToken, token' # NoToken
                 PROVE  token'[2] > token[2]
      OBVIOUS
    <2>1. PICK a \in Attempts : ClaimAllowed(a) /\ token' = a
      BY RowStep DEF row, OperatorRetry, OperatorConfirm
    <2>2. token \in Attempts /\ gen = token[2]
      BY DEF IInv, TypeOK, OwnerIsLastClaimer
    <2>3. gen < a[2]
      BY <2>1, <2>2, AttemptFacts DEF ClaimAllowed
    <2> QED
      BY <2>1, <2>2, <2>3, AttemptFacts
  <1>2. IInv /\ [Next]_vars => [Newer]_vars
    BY <1>1
  <1> QED
    BY Inductive, <1>2, PTL DEF Spec, TakeoverIsNewer

\* Nothing automatic reopens a settled event.
THEOREM SettledStaysSettled == Spec => OnlyOperatorReopens
  <1> DEFINE Kept == (status \in Settled /\ status' # status)
                       => \/ status' = "RECEIVED" /\ retries' = retries + 1
                          \/ status = "NEEDS_RECONCILIATION" /\ status' = "HYDRATED" /\ pc' = pc
  <1>1. [Next]_vars => [Kept]_vars
    <2> SUFFICES ASSUME [Next]_vars, status \in Settled, status' # status
                 PROVE  \/ status' = "RECEIVED" /\ retries' = retries + 1
                        \/ status = "NEEDS_RECONCILIATION" /\ status' = "HYDRATED" /\ pc' = pc
      OBVIOUS
    <2>1. OperatorRetry \/ OperatorConfirm
      BY RowStep DEF row, Settled, NonTerminal, ClaimAllowed, OwnsRow
    <2> QED
      BY <2>1 DEF OperatorRetry, OperatorConfirm
  <1> QED
    BY <1>1, PTL DEF Spec, OnlyOperatorReopens

-----------------------------------------------------------------------------
\* An event is parked together with one review item, whoever races for it
\* (parkNeedsReconciliation's guarded write and its item in one transaction).
THEOREM ParkedWithOneItem == Spec => OneReviewPerParking
  <1> DEFINE Paired == (reviews' # reviews)
                         <=> (status # "NEEDS_RECONCILIATION" /\ status' = "NEEDS_RECONCILIATION")
  <1>1. IInv /\ [Next]_vars => [Paired]_vars
    <2> SUFFICES ASSUME IInv, [Next]_vars PROVE Paired
      OBVIOUS
    <2> USE DEF row
    <2>1. ASSUME NEW r \in Recreators, Park(r) PROVE Paired
      BY <2>1 DEF Park, IInv, TypeOK, NonTerminal
    <2>2. ASSUME NEW r \in Recreators, RecreatorStep(r), ~Park(r) PROVE Paired
      BY <2>2 DEF RecreatorStep, Inspect, Snapshot, Enqueue, Reset, FailRow, Abandon, SetRow
    <2>3. ASSUME NEW a \in Attempts, AttemptProgress(a) \/ MarkFailed(a) \/ Crash(a)
          PROVE  Paired
      BY <2>3 DEF AttemptProgress, ReadRow, Claim, Hydrate, Throw, Return, Fail, MarkFailed,
                  Crash, SetRow, AttemptOnly
    <2>4. ASSUME NEW w \in Webhooks, Deliver(w) PROVE Paired
      BY <2>4 DEF Deliver
    <2>5. ASSUME NEW s \in Sweeps, SweepSelect(s) PROVE Paired
      BY <2>5 DEF SweepSelect
    <2>6. CASE Activate \/ Stall \/ LoseJob
      BY <2>6 DEF Activate, Stall, LoseJob
    <2>7. CASE OperatorRetry \/ OperatorConfirm
      BY <2>7 DEF OperatorRetry, OperatorConfirm
    <2>8. CASE UNCHANGED vars
      BY <2>8 DEF vars
    <2> QED
      BY <2>1, <2>2, <2>3, <2>4, <2>5, <2>6, <2>7, <2>8 DEF Next
  <1> QED
    BY Inductive, <1>1, PTL DEF Spec, OneReviewPerParking

-----------------------------------------------------------------------------
\* An effect commits in one step with HYDRATED, and only from a QUEUED row.
LEMMA EffectStep ==
  ASSUME [Next]_vars, appliers' # appliers
  PROVE  /\ status = "QUEUED" /\ status' = "HYDRATED"
         /\ \E a \in Attempts : appliers' = appliers \cup {a}
  <1>1. Next
    BY DEF vars, history
  <1>2. ~(Activate \/ Stall \/ LoseJob \/ OperatorRetry \/ OperatorConfirm)
    BY DEF Activate, Stall, LoseJob, OperatorRetry, OperatorConfirm, history
  <1>3. ASSUME NEW a \in Attempts, AttemptProgress(a) \/ MarkFailed(a) \/ Crash(a)
        PROVE  /\ status = "QUEUED" /\ status' = "HYDRATED"
               /\ appliers' = appliers \cup {a}
    BY <1>3 DEF AttemptProgress, ReadRow, Claim, Hydrate, Throw, Return, Fail, MarkFailed, Crash,
                SetRow, OwnsRow, history
  <1>4. ASSUME NEW w \in Webhooks, Deliver(w) PROVE FALSE
    BY <1>4 DEF Deliver, RecreatorOnly, history
  <1>5. ASSUME NEW s \in Sweeps, SweepSelect(s) PROVE FALSE
    BY <1>5 DEF SweepSelect, RecreatorOnly, history
  <1>6. ASSUME NEW r \in Recreators, RecreatorStep(r) PROVE FALSE
    BY <1>6 DEF RecreatorStep, Inspect, Snapshot, Enqueue, Reset, Park, FailRow, Abandon,
                RecreatorOnly, history
  <1> QED
    BY <1>1, <1>2, <1>3, <1>4, <1>5, <1>6 DEF Next

\* The row, the job queue and the token implement the abstract event.
THEOREM Refinement == Spec => ImplementsOutcome
  <1> USE DEF Phase, NonTerminal
  <1>1. Init => Outcome!Init
    BY DEF Init, Outcome!Init
  <1>2. IInv /\ [Next]_vars => [Outcome!Next]_<<Phase, appliers # {}>>
    <2> SUFFICES ASSUME IInv, [Next]_vars
                 PROVE  Outcome!Next \/ (Phase' = Phase /\ (appliers' # {}) = (appliers # {}))
      OBVIOUS
    <2> USE DEF Outcome!Next, Outcome!Receive, Outcome!Apply, Outcome!Close, Outcome!Reopen,
                Outcome!Confirm, Outcome!Outcomes
    <2>1. CASE appliers' # appliers
      <3>1. appliers = {} /\ appliers' # {} /\ status = "QUEUED" /\ status' = "HYDRATED"
        BY <2>1, EffectStep DEF IInv, EffectOnce
      <3>2. Outcome!Apply
        BY <3>1
      <3> QED
        BY <3>2
    <2>2. CASE appliers' = appliers /\ UNCHANGED row
      BY <2>2 DEF row
    <2>3. CASE appliers' = appliers /\ ~UNCHANGED row
      <3>1. \/ status = "NONE" /\ status' = "RECEIVED"
            \/ status \in NonTerminal /\ status' = "QUEUED"
            \/ status \in NonTerminal /\ status' \in Settled
            \/ status \in {"FAILED", "NEEDS_RECONCILIATION"} /\ status' = "RECEIVED"
            \/ status = "NEEDS_RECONCILIATION" /\ status' = "HYDRATED"
        BY <2>3, RowStep DEF ClaimAllowed, OwnsRow, OperatorRetry, OperatorConfirm, Settled
      <3> QED
        BY <2>3, <3>1 DEF Settled
    <2> QED
      BY <2>1, <2>2, <2>3
  <1> QED
    BY Inductive, <1>1, <1>2, PTL DEF Spec, Outcome!Spec, ImplementsOutcome
=============================================================================
