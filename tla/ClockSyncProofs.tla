-------------------------- MODULE ClockSyncProofs --------------------------
(***************************************************************************)
(* Machine-checked proofs about ClockSync, for any number of reservations  *)
(* and runners, any batch size, and any skew that the overlap covers.      *)
(***************************************************************************)
EXTENDS ClockSync, TLAPS, FiniteSetTheorems

\* What a pass up to u that still has to read rest guarantees.
PassCovers(u, rest) ==
  \A r \in Reservations : stamp[r] < u - Overlap => seen[r] = ver[r] \/ r \in rest

Passes ==
  /\ until # Never => PassCovers(until, left)
  /\ \A w \in Runners :
       run[w].at \in {"next", "read"} => PassCovers(run[w].until, run[w].left \cup run[w].batch)

\* A pass starts in the past, and not before the one that completed last.
InOrder ==
  /\ high <= now /\ until <= now
  /\ until # Never => high <= until
  /\ \A w \in Runners :
       /\ run[w].until <= now
       /\ run[w].at = "next" => run[w].batch = {}
       /\ run[w].at # "idle" => run[w].until # Never
       /\ token = w /\ run[w].at # "idle" => high <= run[w].until

IInv == TypeOK /\ InOrder /\ Passes /\ WatermarkCovers

-----------------------------------------------------------------------------
LEMMA Facts ==
  ASSUME TypeOK
  PROVE  /\ now \in Int /\ high \in Int /\ until \in Int
         /\ \A r \in Reservations : stamp[r] \in Nat
         /\ \A w \in Runners : run[w].until \in Int
         /\ Overlap \in Nat /\ Skew \in Nat /\ Skew <= Overlap
         /\ Never \in Int /\ Never < 0
  BY ClockSyncAssumption DEF TypeOK, Time, Never

Runs == [at : {"idle", "list", "next", "read"}, until : Time \cup {Never},
         left : SUBSET Reservations, batch : Batches]

\* A batch is a small set of reservations, and stays one as it is read.
LEMMA BatchFacts ==
  /\ {} \in Batches
  /\ \A B \in Batches : B \subseteq Reservations
  /\ \A B \in Batches, r \in Reservations : B \ {r} \in Batches
  /\ \A rest \in SUBSET Reservations : \A B \in SUBSET rest : Slice(B, rest) => B \in Batches
  <1>1. {} \in Batches
    BY FS_EmptySet, ClockSyncAssumption DEF Batches
  <1>2. ASSUME NEW B \in Batches, NEW r \in Reservations PROVE B \ {r} \in Batches
    <2>1. B \subseteq Reservations /\ Cardinality(B) <= BatchSize /\ IsFiniteSet(B)
      BY FS_Subset, ClockSyncAssumption DEF Batches
    <2>2. IsFiniteSet(B \ {r}) /\ Cardinality(B \ {r}) <= Cardinality(B)
      BY <2>1, FS_Subset
    <2>3. Cardinality(B) \in Nat /\ Cardinality(B \ {r}) \in Nat
      BY <2>1, <2>2, FS_CardinalityType
    <2> QED
      BY <2>1, <2>2, <2>3, ClockSyncAssumption DEF Batches
  <1>3. ASSUME NEW rest \in SUBSET Reservations, NEW B \in SUBSET rest, Slice(B, rest)
        PROVE  B \in Batches
    BY <1>3 DEF Slice, Batches
  <1> QED
    BY <1>1, <1>2, <1>3 DEF Batches

LEMMA IdleFacts ==
  Idle \in Runs /\ Idle.at = "idle" /\ Idle.until = Never /\ Idle.left = {} /\ Idle.batch = {}
  BY BatchFacts DEF Idle, Step, Runs

\* What each step of a runner makes of its record.
LEMMA StepFacts ==
  ASSUME TypeOK, NEW w \in Runners
  PROVE  /\ Claim(w) => \/ until = Never /\ run' = [run EXCEPT ![w] = Step("list", now, {}, {})]
                        \/ until # Never /\ run' = [run EXCEPT ![w] = Step("next", until, left, {})]
         /\ List(w) => run' = [run EXCEPT ![w] = Step("next", run[w].until, Listed(run[w].until), {})]
         /\ NextBatch(w) => \E B \in SUBSET run[w].left :
              /\ Slice(B, run[w].left)
              /\ run' = [run EXCEPT ![w] = Step("read", run[w].until, run[w].left \ B, B)]
         /\ \A r \in Reservations : Read(w, r) =>
              run' = [run EXCEPT ![w] = Step("read", run[w].until, run[w].left, run[w].batch \ {r})]
         /\ SaveProgress(w) \/ Complete(w) \/ SaveFenced(w) \/ StepFails(w) \/ Crash(w) =>
              run' = [run EXCEPT ![w] = Idle]
  BY DEF TypeOK, Claim, List, NextBatch, Read, SaveProgress, Complete, SaveFenced, StepFails,
         Crash, Stop

\* The initial state satisfies the inductive invariant.
LEMMA InitInv == Init => IInv
  <1> SUFFICES ASSUME Init PROVE IInv
    OBVIOUS
  <1> USE ClockSyncAssumption, IdleFacts DEF Init
  <1>1. TypeOK
    <2>1. now \in Time /\ until \in Time \cup {Never} /\ high \in Time \cup {Never}
          /\ faults \in 0 .. MaxFaults /\ wakes \in 0 .. MaxWakes
      BY DEF Time
    <2>2. ver \in [Reservations -> Versions] /\ stamp \in [Reservations -> Time]
          /\ seen \in [Reservations -> Versions \cup {0}]
      BY DEF Time, Versions
    <2>3. requested \in BOOLEAN /\ soon \in BOOLEAN
      BY Zenon
    <2>4. run \in [Runners -> Runs]
      OBVIOUS
    <2> QED
      BY <2>1, <2>2, <2>3, <2>4 DEF TypeOK, Runs
  <1>2. InOrder
    <2>1. \A w \in Runners : run[w] = Idle
      OBVIOUS
    <2> QED
      BY <2>1 DEF InOrder, Never
  <1>3. Passes /\ WatermarkCovers
    BY DEF Passes, WatermarkCovers
  <1> QED
    BY <1>1, <1>2, <1>3 DEF IInv

-----------------------------------------------------------------------------
\* Every step preserves types.
LEMMA TypeStep ==
  ASSUME TypeOK, [Next]_vars
  PROVE  TypeOK'
  <1> USE ClockSyncAssumption, IdleFacts, BatchFacts DEF clock, job
  <1>0. run \in [Runners -> Runs]
    BY DEF TypeOK, Runs
  <1>1. CASE Tick
    BY <1>1 DEF Tick, TypeOK, Time
  <1>2. CASE Wake
    <2>1. requested' \in BOOLEAN /\ soon' \in BOOLEAN
      BY <1>2 DEF Wake
    <2> QED
      BY <1>2, <2>1 DEF Wake, TypeOK
  <1>3. ASSUME NEW r \in Reservations, ClockEdit(r) PROVE TypeOK'
    <2>1. ver' \in [Reservations -> Versions] /\ stamp' \in [Reservations -> Time]
      BY <1>3 DEF ClockEdit, TypeOK, Versions
    <2> QED
      BY <1>3, <2>1 DEF ClockEdit, TypeOK
  <1>4. ASSUME NEW w \in Runners, Claim(w) PROVE TypeOK'
    <2>1. run' \in [Runners -> Runs]
      <3>1. Step("list", now, {}, {}) \in Runs /\ (until # Never => Step("next", until, left, {}) \in Runs)
        BY DEF Step, Runs, TypeOK
      <3> QED
        BY <1>0, <1>4, <3>1, StepFacts
    <2>2. faults' \in 0 .. MaxFaults
      BY <1>4 DEF Claim, TypeOK
    <2> QED
      BY <1>4, <2>1, <2>2 DEF Claim, TypeOK, Runs
  <1>5. ASSUME NEW w \in Runners, List(w) PROVE TypeOK'
    <2>1. Listed(run[w].until) \subseteq Reservations
      BY DEF Listed
    <2>2. run' \in [Runners -> Runs]
      <3>1. run[w].until \in Time \cup {Never}
        BY <1>0 DEF Runs
      <3>2. Step("next", run[w].until, Listed(run[w].until), {}) \in Runs
        BY <2>1, <3>1 DEF Step, Runs
      <3> QED
        BY <1>0, <1>5, <3>2, StepFacts
    <2> QED
      BY <1>5, <2>2 DEF List, TypeOK, Runs
  <1>6. ASSUME NEW w \in Runners, NextBatch(w) PROVE TypeOK'
    <2>1. run' \in [Runners -> Runs]
      BY <1>0, <1>6, StepFacts DEF Step, Runs
    <2> QED
      BY <1>6, <2>1 DEF NextBatch, TypeOK, Runs
  <1>7. ASSUME NEW w \in Runners, NEW r \in Reservations, Read(w, r) PROVE TypeOK'
    <2>1. run' \in [Runners -> Runs]
      BY <1>0, <1>7, StepFacts DEF Step, Runs
    <2>2. seen' \in [Reservations -> Versions \cup {0}]
      BY <1>7 DEF Read, Answer, TypeOK
    <2> QED
      BY <1>7, <2>1, <2>2 DEF Read, TypeOK, Runs
  <1>8. ASSUME NEW w \in Runners,
               SaveProgress(w) \/ Complete(w) \/ SaveFenced(w) \/ StepFails(w) \/ Crash(w)
        PROVE TypeOK'
    <2>1. run' \in [Runners -> Runs]
      BY <1>0, <1>8 DEF SaveProgress, Complete, SaveFenced, StepFails, Crash, Stop
    <2>2. run[w].until \in Time \cup {Never} /\ run[w].left \subseteq Reservations
      BY <1>0 DEF Runs
    <2>3. CASE SaveProgress(w)
      BY <2>1, <2>2, <2>3 DEF SaveProgress, TypeOK, Runs
    <2>4. CASE Complete(w)
      BY <2>1, <2>2, <2>4 DEF Complete, TypeOK, Runs
    <2>5. CASE SaveFenced(w)
      BY <2>1, <2>5 DEF SaveFenced, TypeOK, Runs
    <2>6. CASE StepFails(w)
      BY <2>1, <2>6 DEF StepFails, Released, TypeOK, Runs
    <2>7. CASE Crash(w)
      BY <2>1, <2>7 DEF Crash, TypeOK, Runs
    <2> QED
      BY <1>8, <2>3, <2>4, <2>5, <2>6, <2>7
  <1>9. CASE UNCHANGED vars
    BY <1>9 DEF vars, TypeOK
  <1> QED
    BY <1>1, <1>2, <1>3, <1>4, <1>5, <1>6, <1>7, <1>8, <1>9 DEF Next, JobStep

-----------------------------------------------------------------------------
\* Passes stay in order.
LEMMA OrderStep ==
  ASSUME IInv, [Next]_vars
  PROVE  InOrder'
  <1> USE Facts, IdleFacts DEF clock, job
  <1>0. TypeOK /\ InOrder /\ run \in [Runners -> Runs]
    BY DEF IInv, TypeOK, Runs
  <1>1. CASE Tick
    BY <1>0, <1>1 DEF Tick, InOrder
  <1>2. CASE Wake
    BY <1>0, <1>2 DEF Wake, InOrder
  <1>3. ASSUME NEW r \in Reservations, ClockEdit(r) PROVE InOrder'
    BY <1>0, <1>3 DEF ClockEdit, InOrder
  <1>4. ASSUME NEW w \in Runners, Claim(w) PROVE InOrder'
    <2>1. /\ UNCHANGED <<now, until, high>> /\ token' = w
          /\ \A v \in Runners : v # w => run'[v] = run[v]
          /\ run'[w].batch = {}
          /\ run'[w].until = IF until = Never THEN now ELSE until
      BY <1>0, <1>4, StepFacts DEF Claim, Step
    <2>2. now # Never /\ Never <= now
      BY <1>0, ClockSyncAssumption DEF TypeOK, Time, Never
    <2>3. /\ high <= now /\ until <= now
          /\ until # Never => high <= until
      BY <1>0 DEF InOrder
    <2>4. run'[w].until <= now /\ run'[w].until # Never /\ high <= run'[w].until
      <3>1. CASE until = Never
        BY <1>0, <2>1, <2>2, <2>3, <3>1
      <3>2. CASE until # Never
        BY <1>0, <2>1, <2>3, <3>2
      <3> QED
        BY <3>1, <3>2
    <2>5. ASSUME NEW v \in Runners, v # w
          PROVE  /\ run'[v].until <= now
                 /\ run'[v].at = "next" => run'[v].batch = {}
                 /\ run'[v].at # "idle" => run'[v].until # Never
                 /\ token' # v
      BY <1>0, <2>1, <2>5 DEF InOrder
    <2> QED
      BY <2>1, <2>3, <2>4, <2>5 DEF InOrder
  <1>5. ASSUME NEW w \in Runners, List(w) \/ NextBatch(w) \/ \E r \in Reservations : Read(w, r)
        PROVE  InOrder'
    <2>1. UNCHANGED <<now, until, high, token>> /\ run[w].at # "idle"
      BY <1>5 DEF List, NextBatch, Read
    <2>2. /\ \A v \in Runners : v # w => run'[v] = run[v]
          /\ run'[w].until = run[w].until
          /\ run'[w].at = "next" => run'[w].batch = {}
      BY <1>0, <1>5, StepFacts DEF Step
    <2> QED
      BY <1>0, <2>1, <2>2 DEF InOrder
  <1>6. ASSUME NEW w \in Runners, StepFails(w) \/ Crash(w) \/ SaveFenced(w)
        PROVE  InOrder'
    <2>1. /\ UNCHANGED <<now, until, high>> /\ token' \in {token, Nobody}
          /\ \A v \in Runners : v # w => run'[v] = run[v]
          /\ run'[w] = Idle
      BY <1>0, <1>6, StepFacts DEF StepFails, Released, Crash, SaveFenced
    <2>2. /\ high <= now /\ until <= now /\ Never <= now
          /\ until # Never => high <= until
      BY <1>0, ClockSyncAssumption DEF InOrder, TypeOK, Time, Never
    <2>3. ASSUME NEW v \in Runners
          PROVE  /\ run'[v].until <= now
                 /\ run'[v].at = "next" => run'[v].batch = {}
                 /\ run'[v].at # "idle" => run'[v].until # Never
                 /\ token' = v /\ run'[v].at # "idle" => high <= run'[v].until
      <3>1. CASE v = w
        BY <2>1, <2>2, <3>1
      <3>2. CASE v # w
        <4>1. run'[v] = run[v] /\ (token' = v => token = v)
          BY <2>1, <3>2, ClockSyncAssumption
        <4> QED
          BY <1>0, <4>1 DEF InOrder
      <3> QED
        BY <3>1, <3>2
    <2> QED
      BY <2>1, <2>2, <2>3 DEF InOrder
  <1>7. ASSUME NEW w \in Runners, SaveProgress(w) \/ Complete(w) PROVE InOrder'
    <2>1. /\ now' = now /\ token' = Nobody /\ token = w /\ run[w].at = "read"
          /\ \A v \in Runners : v # w => run'[v] = run[v]
          /\ run'[w] = Idle
      BY <1>0, <1>7, StepFacts DEF SaveProgress, Complete, OwnsLease, BatchDone
    <2>2. high <= run[w].until /\ run[w].until <= now
      BY <1>0, <2>1 DEF InOrder
    <2>3. \/ until' = run[w].until /\ high' = high
          \/ until' = Never /\ high' = run[w].until
      BY <1>7 DEF SaveProgress, Complete
    <2>4. Never <= now
      BY <1>0, ClockSyncAssumption DEF TypeOK, Time, Never
    <2> QED
      BY <1>0, <2>1, <2>2, <2>3, <2>4, ClockSyncAssumption DEF InOrder
  <1>9. CASE UNCHANGED vars
    BY <1>0, <1>9 DEF vars, InOrder
  <1> QED
    BY <1>1, <1>2, <1>3, <1>4, <1>5, <1>6, <1>7, <1>9 DEF Next, JobStep

-----------------------------------------------------------------------------
\* PassCovers of a fixed pass after a step.
StillCovers(u, rest) ==
  \A r \in Reservations : stamp'[r] < u - Overlap => seen'[r] = ver'[r] \/ r \in rest

\* A pass keeps its guarantee as long as nothing it covers changes: a later
\* change carries a later stamp.
LEMMA CoverKept ==
  ASSUME IInv, [Next]_vars
  PROVE  \A u \in Int, rest \in SUBSET Reservations :
           u <= now /\ PassCovers(u, rest) => StillCovers(u, rest)
  <1> SUFFICES ASSUME NEW u \in Int, NEW rest \in SUBSET Reservations,
                      u <= now, PassCovers(u, rest)
               PROVE  StillCovers(u, rest)
    OBVIOUS
  <1> USE Facts DEF clock, job
  <1>0. TypeOK
    BY DEF IInv
  <1>1. ASSUME NEW r \in Reservations, ClockEdit(r) PROVE StillCovers(u, rest)
    <2>1. /\ seen' = seen /\ stamp'[r] >= now - Skew /\ stamp'[r] \in Int
          /\ \A q \in Reservations : q # r => stamp'[q] = stamp[q] /\ ver'[q] = ver[q]
      BY <1>0, <1>1, ClockSyncAssumption DEF ClockEdit, TypeOK, Time
    <2> QED
      BY <1>0, <2>1 DEF PassCovers, StillCovers
  <1>2. ASSUME NEW w \in Runners, NEW r \in Reservations, Read(w, r) PROVE StillCovers(u, rest)
    <2>1. /\ UNCHANGED clock /\ seen'[r] = ver[r]
          /\ \A q \in Reservations : q # r => seen'[q] = seen[q]
      BY <1>0, <1>2 DEF Read, Answer, TypeOK
    <2> QED
      BY <2>1 DEF PassCovers, StillCovers
  <1>3. CASE UNCHANGED <<ver, stamp, seen>>
    BY <1>3 DEF PassCovers, StillCovers
  <1> QED
    BY <1>1, <1>2, <1>3 DEF Next, JobStep, vars, Tick, Wake, Claim, List, NextBatch, SaveProgress,
       Complete, SaveFenced, StepFails, Crash

\* The list of a pass, with what was read before it, covers the pass.
LEMMA ListCovers ==
  ASSUME IInv
  PROVE  \A u \in Int : PassCovers(u, Listed(u))
  BY Facts, ClockSyncAssumption DEF IInv, PassCovers, WatermarkCovers, ListFrom, Listed

\* The high-water mark is the pass that completed last.
LEMMA WatermarkIsPass ==
  ASSUME TypeOK
  PROVE  WatermarkCovers <=> (high # Never => PassCovers(high, {}))
  BY DEF WatermarkCovers, PassCovers, ListFrom

\* Every step keeps the guarantee of the completed pass, of the saved one and of
\* every runner's.
LEMMA PassStep ==
  ASSUME IInv, [Next]_vars
  PROVE  Passes' /\ WatermarkCovers'
  <1> USE IdleFacts DEF clock, job
  <1>0. TypeOK /\ InOrder /\ Passes /\ WatermarkCovers /\ run \in [Runners -> Runs]
    BY DEF IInv, TypeOK, Runs
  <1>1. until # Never => StillCovers(until, left)
    BY <1>0, Facts, CoverKept DEF Passes, InOrder, TypeOK
  <1>2. high # Never => StillCovers(high, {})
    BY <1>0, Facts, CoverKept, WatermarkIsPass DEF InOrder
  <1>3. ASSUME NEW w \in Runners, run[w].at \in {"next", "read"}
        PROVE  StillCovers(run[w].until, run[w].left \cup run[w].batch)
    <2>1. run[w].left \cup run[w].batch \in SUBSET Reservations /\ run[w].until <= now
          /\ run[w].until \in Int
      BY <1>0, Facts, BatchFacts DEF InOrder, Runs
    <2>2. PassCovers(run[w].until, run[w].left \cup run[w].batch)
      BY <1>0, <1>3 DEF Passes
    <2> QED
      BY <2>1, <2>2, CoverKept
  <1>4. ASSUME NEW w \in Runners
        PROVE  run'[w].at \in {"next", "read"} =>
                 StillCovers(run'[w].until, run'[w].left \cup run'[w].batch)
    <2>1. CASE run'[w] = run[w]
      BY <1>3, <2>1
    <2>2. CASE Claim(w)
      <3>1. \/ run'[w].at = "list"
            \/ until # Never /\ run'[w].until = until /\ run'[w].left \cup run'[w].batch = left
        BY <1>0, <2>2, StepFacts DEF Step
      <3> QED
        BY <1>1, <3>1
    <2>3. CASE List(w)
      <3>1. run'[w].until = run[w].until /\ run'[w].left \cup run'[w].batch = Listed(run[w].until)
        BY <1>0, <2>3, StepFacts DEF Step
      <3>2. run[w].until \in Int /\ run[w].until <= now
            /\ Listed(run[w].until) \in SUBSET Reservations
        BY <1>0, Facts DEF InOrder, Listed
      <3> QED
        BY <3>1, <3>2, ListCovers, CoverKept
    <2>4. CASE NextBatch(w)
      <3>1. run[w].at = "next" /\ run[w].batch = {}
        BY <1>0, <2>4 DEF NextBatch, InOrder
      <3>2. /\ run'[w].until = run[w].until
            /\ run'[w].left \cup run'[w].batch = run[w].left \cup run[w].batch
        BY <1>0, <2>4, <3>1, StepFacts DEF Step
      <3> QED
        BY <1>3, <3>1, <3>2
    <2>5. ASSUME NEW r \in Reservations, Read(w, r)
          PROVE  StillCovers(run'[w].until, run'[w].left \cup run'[w].batch)
      <3>1. /\ run'[w].until = run[w].until /\ run[w].at = "read"
            /\ run'[w].left = run[w].left /\ run'[w].batch = run[w].batch \ {r}
        BY <1>0, <2>5, StepFacts DEF Step, Read
      <3>2. seen'[r] = ver'[r]
        BY <1>0, <2>5 DEF Read, Answer, TypeOK
      <3>3. StillCovers(run[w].until, run[w].left \cup run[w].batch)
        BY <1>3, <3>1
      <3> QED
        BY <3>1, <3>2, <3>3 DEF StillCovers
    <2>6. CASE run'[w] = Idle
      BY <2>6
    <2>7. \/ run'[w] = run[w] \/ run'[w] = Idle
          \/ Claim(w) \/ List(w) \/ NextBatch(w) \/ \E r \in Reservations : Read(w, r)
      BY <1>0, StepFacts DEF Next, JobStep, vars, Tick, Wake, ClockEdit
    <2> QED
      BY <2>1, <2>2, <2>3, <2>4, <2>5, <2>6, <2>7
  <1>5. ASSUME NEW w \in Runners, SaveProgress(w)
        PROVE  StillCovers(until', left') /\ high' = high
    <2>1. /\ until' = run[w].until /\ left' = run[w].left /\ run[w].batch = {}
          /\ run[w].at = "read" /\ high' = high
      BY <1>5 DEF SaveProgress, BatchDone
    <2>2. left' = run[w].left \cup run[w].batch
      BY <2>1
    <2> QED
      BY <1>3, <2>1, <2>2
  <1>6. ASSUME NEW w \in Runners, Complete(w)
        PROVE  until' = Never /\ StillCovers(high', {})
    <2>1. /\ until' = Never /\ high' = run[w].until /\ run[w].left = {} /\ run[w].batch = {}
          /\ run[w].at = "read"
      BY <1>6 DEF Complete, BatchDone
    <2>2. run[w].left \cup run[w].batch = {}
      BY <2>1
    <2> QED
      BY <1>3, <2>1, <2>2
  <1>7. (\E w \in Runners : SaveProgress(w) \/ Complete(w)) \/ UNCHANGED <<until, left, high>>
    BY DEF Next, JobStep, vars, Tick, Wake, ClockEdit, Claim, List, NextBatch, Read, SaveFenced,
           StepFails, Released, Crash
  <1>8. (until' # Never => StillCovers(until', left')) /\ (high' # Never => StillCovers(high', {}))
    BY <1>1, <1>2, <1>5, <1>6, <1>7
  <1> QED
    BY <1>4, <1>8 DEF StillCovers, Passes, PassCovers, WatermarkCovers, ListFrom

\* The inductive invariant holds in every reachable state.
THEOREM Invariance == Spec => []IInv
  <1>1. IInv /\ [Next]_vars => IInv'
    BY TypeStep, OrderStep, PassStep DEF IInv
  <1> QED
    BY <1>1, InitInv, PTL DEF Spec

\* Types of the job's row, of the runners and of the reservations.
THEOREM SyncTypes == Spec => []TypeOK
  BY Invariance, PTL DEF IInv

\* Whatever was stamped before the next list's start has been read.
THEOREM NothingPassedOver == Spec => []WatermarkCovers
  BY Invariance, PTL DEF IInv

\* The high-water mark never goes back, though several runners hold the lease
\* one after the other and some outlive theirs.
THEOREM MarkAdvances == Spec => WatermarkAdvances
  <1>1. IInv /\ [Next]_vars => [high' >= high]_vars
    <2> SUFFICES ASSUME IInv, [Next]_vars PROVE high' >= high
      OBVIOUS
    <2>0. TypeOK /\ InOrder
      BY DEF IInv
    <2>1. ASSUME NEW w \in Runners, Complete(w) PROVE high' >= high
      BY <2>0, <2>1, Facts DEF Complete, BatchDone, OwnsLease, InOrder
    <2>2. ASSUME ~ \E w \in Runners : Complete(w) PROVE high' = high
      BY <2>2 DEF Next, JobStep, vars, job, Tick, Wake, ClockEdit, Claim, List, NextBatch, Read,
                  SaveProgress, SaveFenced, StepFails, Crash
    <2> QED
      BY <2>0, <2>1, <2>2, Facts
  <1> QED
    BY <1>1, Invariance, PTL DEF Spec, WatermarkAdvances
=============================================================================
