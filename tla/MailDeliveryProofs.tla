------------------------ MODULE MailDeliveryProofs ------------------------
(***************************************************************************)
(* Machine-checked proofs about MailDelivery, for any number of            *)
(* dispatches, workers, tries, stalls, resends and faults.                 *)
(***************************************************************************)
EXTENDS MailDelivery, TLAPS

Flying(p, s) == run[p].at \in {"request", "finish"} /\ run[p].stage = s

\* A request on its way belongs to the fence, and the journal never says less
\* than the provider did.
JournalTells ==
  \A s \in Stages :
    /\ \A p \in Runners : Flying(p, s) =>
         journal[s].fence = p /\ journal[s].state \in {"SENDING", "UNKNOWN"}
    /\ journal[s].state \in {"none", "REJECTED"} => accepts[s] = 0
    /\ journal[s].state = "ACCEPTED" => accepts[s] = 1

SomeAccepted == \E c \in Channels : accepts[c] = 1

\* A message that says SENT was accepted by somebody.
SentWasAccepted == status = "SENT" => \E c \in Channels : accepts[c] = 1

\* What each runner believes of its request.
RunnerKnows ==
  \A p \in Runners :
    /\ run[p].at = "request" => accepts[run[p].stage] = 0
    /\ run[p].at = "finish" =>
         /\ run[p].res \in {"ok", "retry", "rejected", "unknown"}
         /\ run[p].res = "ok" => accepts[run[p].stage] = 1
         /\ run[p].res \in {"retry", "rejected"} => accepts[run[p].stage] = 0
    /\ run[p].at \in {"answer", "record"} /\ run[p].res = "ok" => SomeAccepted

FallsAfterRejection ==
  journal["FALLBACK"].state # "none" => journal["PRIMARY"].state = "REJECTED"

\* A job that is held or waits has a try left.
JobHasTries ==
  /\ job.state \in {"waiting", "active"} => job.made < job.limit
  /\ holder # Nobody => job.state = "active"

IInv ==
  /\ TypeOK /\ JournalTells /\ RunnerKnows /\ FallsAfterRejection /\ JobHasTries
  /\ SentWasAccepted

-----------------------------------------------------------------------------
LEMMA StageFacts == "PRIMARY" \in Stages /\ "FALLBACK" \in Stages /\ Stages \subseteq Channels
                    /\ "default" \in Channels /\ "default" \notin Stages
  BY DEF Stages, Channels

LEMMA ActFacts ==
  ASSUME NEW a \in Acts
  PROVE  /\ a.at \in Places /\ a.stage \in Stages /\ a.res \in Results /\ a.final \in BOOLEAN
         /\ a.by \in {"job", "first", "last"}
         /\ \A at \in Places : [a EXCEPT !.at = at] \in Acts
         /\ \A at \in Places, res \in Results : [a EXCEPT !.at = at, !.res = res] \in Acts
         /\ \A at \in Places, s \in Stages : [a EXCEPT !.at = at, !.stage = s] \in Acts
         /\ \A s \in Stages : [a EXCEPT !.stage = s] \in Acts
  BY DEF Acts

LEMMA NewActFacts ==
  /\ Idle \in Acts /\ Idle.at = "idle" /\ Attempt("last", TRUE) \in Acts
  /\ Attempt("first", FALSE) \in Acts
  /\ \A f \in BOOLEAN : Attempt("job", f) \in Acts /\ Attempt("job", f).at = "attempt"
  /\ Attempt("last", TRUE).at = "attempt" /\ Attempt("first", FALSE).at = "attempt"
  /\ Act("add", "job", FALSE, "PRIMARY", "none") \in Acts
  /\ Act("add", "first", FALSE, "PRIMARY", "none") \in Acts
  /\ Act("add", "job", FALSE, "PRIMARY", "none").at = "add"
  /\ Act("add", "first", FALSE, "PRIMARY", "none").at = "add"
  BY DEF Idle, Attempt, Act, Acts, Places, Results, Stages

\* A runner that moves to a place without a request of its own disturbs nothing.
LEMMA Quiet ==
  ASSUME TypeOK, JournalTells, RunnerKnows, FallsAfterRejection,
         NEW p \in Runners, NEW act \in Acts, Becomes(p, act),
         UNCHANGED <<journal, accepts>>,
         act.at \notin {"request", "finish"},
         act.at \in {"answer", "record"} /\ act.res = "ok" => SomeAccepted
  PROVE  /\ run' \in [Runners -> Acts]
         /\ JournalTells' /\ RunnerKnows' /\ FallsAfterRejection'
  <1>1. run' \in [Runners -> Acts] /\ run'[p] = act
        /\ \A q \in Runners : q # p => run'[q] = run[q]
    BY DEF TypeOK, Becomes
  <1>2. SomeAccepted' <=> SomeAccepted
    BY DEF SomeAccepted
  <1>3. JournalTells'
    BY <1>1 DEF JournalTells, Flying
  <1>4. RunnerKnows'
    <2> SUFFICES ASSUME NEW q \in Runners
                 PROVE  /\ run'[q].at = "request" => accepts[run'[q].stage] = 0
                        /\ run'[q].at = "finish" =>
                             /\ run'[q].res \in {"ok", "retry", "rejected", "unknown"}
                             /\ run'[q].res = "ok" => accepts[run'[q].stage] = 1
                             /\ run'[q].res \in {"retry", "rejected"} => accepts[run'[q].stage] = 0
                        /\ run'[q].at \in {"answer", "record"} /\ run'[q].res = "ok" => SomeAccepted
      BY <1>2 DEF RunnerKnows
    <2>1. CASE q = p
      BY <2>1, <1>1
    <2>2. CASE q # p
      BY <2>2, <1>1 DEF RunnerKnows
    <2> QED
      BY <2>1, <2>2
  <1>5. FallsAfterRejection'
    BY DEF FallsAfterRejection
  <1> QED
    BY <1>1, <1>3, <1>4, <1>5

LEMMA InitInv == Init => IInv
  <1> SUFFICES ASSUME Init PROVE IInv
    OBVIOUS
  <1> USE MailDeliveryAssumption, StageFacts, NewActFacts DEF Init
  <1>1. NoRow \in Rows /\ NoRow.state = "none"
    BY DEF NoRow, Row, Rows
  <1>2. job \in Jobs /\ job.state = "none"
    BY DEF Job, Jobs
  <1>3. \A p \in Runners : run[p].at = "idle"
    OBVIOUS
  <1>4. TypeOK
    <2>1. status \in Statuses /\ known \in BOOLEAN /\ slot \in BOOLEAN
      BY DEF Statuses
    <2>2. journal \in [Stages -> Rows] /\ run \in [Runners -> Acts] /\ accepts \in [Channels -> 0 .. 1]
      BY <1>1
    <2> QED
      BY <1>2, <2>1, <2>2 DEF TypeOK
  <1>5. JournalTells /\ FallsAfterRejection
    BY <1>1, <1>3 DEF JournalTells, Flying, FallsAfterRejection
  <1>6. RunnerKnows /\ JobHasTries /\ SentWasAccepted
    BY <1>2, <1>3 DEF RunnerKnows, JobHasTries, SentWasAccepted
  <1> QED
    BY <1>4, <1>5, <1>6 DEF IInv

\* The job, after an attempt returned or threw.
LEMMA JobMoves ==
  ASSUME TypeOK, JobHasTries, NEW p \in Runners, Return(p) \/ Throw(p)
  PROVE  job' \in Jobs /\ holder' \in Runners \cup {Nobody} /\ JobHasTries'
  <1> USE MailDeliveryAssumption
  <1>0. job \in Jobs /\ holder \in Runners \cup {Nobody} /\ job.made \in Nat /\ job.limit \in Nat
        /\ job.made <= MaxTries /\ job.limit <= MaxTries /\ job.limit >= 1
    BY DEF TypeOK, Jobs
  <1>1. CASE ~Holds(p)
    BY <1>0, <1>1 DEF Return, Throw, JobHasTries
  <1>2. CASE Holds(p) /\ Return(p)
    BY <1>0, <1>2 DEF Return, JobHasTries, Jobs
  <1>3. CASE Holds(p) /\ Throw(p)
    <2>1. job.made < job.limit
      BY <1>0, <1>3 DEF Holds, JobHasTries
    <2>2. holder' = Nobody /\ job' = Job(IF job.made + 1 >= job.limit THEN "done" ELSE "waiting",
                                         job.made + 1, job.limit)
      BY <1>3 DEF Throw
    <2>3. job.made + 1 \in 0 .. MaxTries /\ job.limit \in 1 .. MaxTries
      BY <2>1, <1>0
    <2>4. CASE job.made + 1 >= job.limit
      <3>1. job' = [state |-> "done", made |-> job.made + 1, limit |-> job.limit]
        BY <2>2, <2>4 DEF Job
      <3> QED
        BY <3>1, <2>2, <2>3 DEF Jobs, JobHasTries
    <2>5. CASE job.made + 1 < job.limit
      <3>1. job' = [state |-> "waiting", made |-> job.made + 1, limit |-> job.limit]
        BY <2>2, <2>5, <1>0 DEF Job
      <3> QED
        BY <3>1, <2>2, <2>3, <2>5 DEF Jobs, JobHasTries
    <2> QED
      BY <2>4, <2>5, <1>0
  <1> QED
    BY <1>1, <1>2, <1>3

\* A quiet move that leaves the job alone, or moves it as Return and Throw do.
LEMMA QuietStep ==
  ASSUME IInv, NEW p \in Runners, NEW act \in Acts, Becomes(p, act),
         UNCHANGED <<journal, accepts>>,
         act.at \notin {"request", "finish"},
         act.at \in {"answer", "record"} /\ act.res = "ok" => SomeAccepted,
         job' \in Jobs, holder' \in Runners \cup {Nobody}, JobHasTries',
         status' \in Statuses, known' \in BOOLEAN, slot' \in BOOLEAN,
         status' = "SENT" => SomeAccepted,
         dispatches' \in 0 .. MaxDispatches, resends' \in 0 .. MaxResends,
         stalls' \in 0 .. MaxStalls, faults' \in 0 .. MaxFaults
  PROVE  IInv'
  <1>1. /\ run' \in [Runners -> Acts]
        /\ JournalTells' /\ RunnerKnows' /\ FallsAfterRejection'
    BY Quiet DEF IInv
  <1>2. TypeOK'
    BY <1>1 DEF IInv, TypeOK
  <1>3. SentWasAccepted'
    BY DEF SentWasAccepted, SomeAccepted
  <1> QED
    BY <1>1, <1>2, <1>3 DEF IInv

\* The same for a move that leaves the message and the job alone.
LEMMA QuietMove ==
  ASSUME IInv, NEW p \in Runners, NEW act \in Acts, Becomes(p, act), OnlyRun,
         act.at \notin {"request", "finish"},
         act.at \in {"answer", "record"} /\ act.res = "ok" => SomeAccepted
  PROVE  IInv'
  <1>1. /\ UNCHANGED <<journal, accepts>> /\ job' \in Jobs /\ holder' \in Runners \cup {Nobody}
        /\ status' \in Statuses /\ known' \in BOOLEAN /\ slot' \in BOOLEAN
        /\ dispatches' \in 0 .. MaxDispatches /\ resends' \in 0 .. MaxResends
        /\ stalls' \in 0 .. MaxStalls /\ faults' \in 0 .. MaxFaults
    BY DEF OnlyRun, message, queue, bounds, IInv, TypeOK
  <1>2. JobHasTries' /\ (status' = "SENT" => SomeAccepted)
    BY DEF OnlyRun, message, queue, IInv, JobHasTries, SentWasAccepted, SomeAccepted
  <1> QED
    BY <1>1, <1>2, QuietStep

LEMMA DispatchInv == ASSUME IInv, NEW p \in Runners, Dispatch(p) PROVE IInv'
  <1>1. PICK act \in {Act("add", "job", FALSE, "PRIMARY", "none"), Attempt("first", FALSE)} :
          Becomes(p, act)
    BY DEF Dispatch
  <1>2. act \in Acts /\ act.at \in {"add", "attempt"}
    BY <1>1, NewActFacts
  <1>3. /\ UNCHANGED <<journal, accepts>> /\ job' \in Jobs /\ holder' \in Runners \cup {Nobody}
        /\ status' \in Statuses /\ status' # "SENT" /\ known' \in BOOLEAN /\ slot' \in BOOLEAN
        /\ dispatches' \in 0 .. MaxDispatches /\ resends' \in 0 .. MaxResends
        /\ stalls' \in 0 .. MaxStalls /\ faults' \in 0 .. MaxFaults
    BY MailDeliveryAssumption DEF Dispatch, queue, IInv, TypeOK, Statuses
  <1>4. JobHasTries'
    BY DEF Dispatch, queue, IInv, JobHasTries
  <1> QED
    BY <1>1, <1>2, <1>3, <1>4, QuietStep

LEMMA AddInv == ASSUME IInv, NEW p \in Runners, Add(p) PROVE IInv'
  <1> USE MailDeliveryAssumption
  <1>1. Becomes(p, Idle) /\ Idle \in Acts /\ Idle.at = "idle"
    BY NewActFacts DEF Add
  <1>2. Limit(run[p].by) \in 1 .. MaxTries
    BY DEF Limit
  <1>3. job' = job \/ job' = [state |-> "waiting", made |-> 0, limit |-> Limit(run[p].by)]
    BY DEF Add, Job
  <1>4. job' \in Jobs
    BY <1>2, <1>3 DEF Jobs, IInv, TypeOK
  <1>5. job' = job \/ job.state = "none"
    BY DEF Add
  <1>6. JobHasTries'
    <2>1. holder' = holder
      BY DEF Add
    <2>2. CASE job' = job
      BY <2>1, <2>2 DEF IInv, JobHasTries
    <2>3. CASE job.state = "none" /\ job' = [state |-> "waiting", made |-> 0, limit |-> Limit(run[p].by)]
      BY <2>1, <2>3, <1>2 DEF IInv, JobHasTries
    <2> QED
      BY <1>3, <1>5, <2>2, <2>3
  <1>7. /\ UNCHANGED <<journal, accepts>> /\ holder' \in Runners \cup {Nobody}
        /\ status' \in Statuses /\ known' \in BOOLEAN /\ slot' \in BOOLEAN
        /\ dispatches' \in 0 .. MaxDispatches /\ resends' \in 0 .. MaxResends
        /\ stalls' \in 0 .. MaxStalls /\ faults' \in 0 .. MaxFaults
    BY DEF Add, message, bounds, IInv, TypeOK
  <1>8. status' = "SENT" => SomeAccepted
    BY DEF Add, message, IInv, SentWasAccepted, SomeAccepted
  <1> QED
    BY <1>1, <1>4, <1>6, <1>7, <1>8, QuietStep

LEMMA RemoveInv == ASSUME IInv, NEW p \in Runners, Remove(p) PROVE IInv'
  <1> USE MailDeliveryAssumption
  <1>1. PICK act \in {Attempt("last", TRUE), Act("add", "job", FALSE, "PRIMARY", "none")} :
          Becomes(p, act)
    BY DEF Remove
  <1>2. act \in Acts /\ act.at \in {"add", "attempt"}
    BY <1>1, NewActFacts
  <1>3. \/ job' = job
        \/ job.state # "active" /\ job' = [state |-> "none", made |-> 0, limit |-> MaxTries]
    BY DEF Remove, Job
  <1>4. job' \in Jobs
    BY <1>3 DEF Jobs, IInv, TypeOK
  <1>5. JobHasTries'
    <2>1. holder' = holder
      BY DEF Remove
    <2> QED
      BY <2>1, <1>3 DEF IInv, JobHasTries
  <1>6. /\ UNCHANGED <<journal, accepts>> /\ holder' \in Runners \cup {Nobody}
        /\ status' \in Statuses /\ known' \in BOOLEAN /\ slot' \in BOOLEAN
        /\ dispatches' \in 0 .. MaxDispatches /\ resends' \in 0 .. MaxResends
        /\ stalls' \in 0 .. MaxStalls /\ faults' \in 0 .. MaxFaults
    BY DEF Remove, message, bounds, IInv, TypeOK
  <1>7. status' = "SENT" => SomeAccepted
    BY DEF Remove, message, IInv, SentWasAccepted, SomeAccepted
  <1> QED
    BY <1>1, <1>2, <1>4, <1>5, <1>6, <1>7, QuietStep

LEMMA ActivateInv == ASSUME IInv, NEW p \in Runners, Activate(p) PROVE IInv'
  <1> USE MailDeliveryAssumption
  <1>2. PICK last \in BOOLEAN : Becomes(p, Attempt("job", last))
    BY DEF Activate
  <1> DEFINE act == Attempt("job", last)
  <1>8. Becomes(p, act) /\ act \in Acts /\ act.at = "attempt"
    BY <1>2, NewActFacts
  <1>3. job \in Jobs /\ job.state = "waiting" /\ job' = [job EXCEPT !.state = "active"] /\ holder' = p
    BY DEF Activate, IInv, TypeOK
  <1>4. job' \in Jobs /\ job'.state = "active" /\ job'.made = job.made /\ job'.limit = job.limit
    BY <1>3 DEF Jobs
  <1>5. JobHasTries'
    BY <1>3, <1>4 DEF IInv, JobHasTries
  <1>6. /\ UNCHANGED <<journal, accepts>>
        /\ status' \in Statuses /\ known' \in BOOLEAN /\ slot' \in BOOLEAN
        /\ dispatches' \in 0 .. MaxDispatches /\ resends' \in 0 .. MaxResends
        /\ stalls' \in 0 .. MaxStalls /\ faults' \in 0 .. MaxFaults
    BY DEF Activate, message, bounds, IInv, TypeOK
  <1>7. status' = "SENT" => SomeAccepted
    BY DEF Activate, message, IInv, SentWasAccepted, SomeAccepted
  <1> HIDE DEF act
  <1> QED
    BY <1>3, <1>4, <1>5, <1>6, <1>7, <1>8, QuietStep

\* A fault that leaves the message and the job alone.
LEMMA FaultInv ==
  ASSUME IInv, NEW p \in Runners, AddFails(p) \/ FinishFails(p) \/ Crash(p)
  PROVE  IInv'
  <1> USE MailDeliveryAssumption
  <1>1. PICK act \in Acts :
          /\ Becomes(p, act) /\ act.at \notin {"request", "finish"}
          /\ ~(act.at \in {"answer", "record"} /\ act.res = "ok")
    <2>1. CASE AddFails(p)
      BY <2>1, NewActFacts DEF AddFails
    <2>2. CASE FinishFails(p)
      <3>1. run[p] \in Acts /\ "record" \in Places /\ "unknown" \in Results
        BY DEF IInv, TypeOK, Places, Results
      <3> DEFINE act == [run[p] EXCEPT !.at = "record", !.res = "unknown"]
      <3>2. act \in Acts
        BY <3>1, ActFacts
      <3>3. act.at = "record" /\ act.res = "unknown"
        BY <3>1 DEF Acts
      <3>4. Becomes(p, act)
        BY <2>2 DEF FinishFails, Outcome
      <3> HIDE DEF act
      <3> QED
        BY <3>2, <3>3, <3>4
    <2>3. CASE Crash(p)
      BY <2>3, NewActFacts DEF Crash
    <2> QED
      BY <2>1, <2>2, <2>3
  <1>0. /\ UNCHANGED <<journal, accepts, status, known, slot, job, holder, stalls, dispatches, resends>>
        /\ faults' = faults \/ (faults < MaxFaults /\ faults' = faults + 1)
    BY DEF AddFails, FinishFails, Crash, Fault, message, queue
  <1>4. faults' \in 0 .. MaxFaults
    BY <1>0 DEF IInv, TypeOK
  <1>2. /\ UNCHANGED <<journal, accepts>> /\ job' \in Jobs /\ holder' \in Runners \cup {Nobody}
        /\ status' \in Statuses /\ known' \in BOOLEAN /\ slot' \in BOOLEAN
        /\ dispatches' \in 0 .. MaxDispatches /\ resends' \in 0 .. MaxResends
        /\ stalls' \in 0 .. MaxStalls
    BY <1>0 DEF IInv, TypeOK
  <1>3. JobHasTries' /\ (status' = "SENT" => SomeAccepted)
    BY DEF AddFails, FinishFails, Crash, message, queue, IInv, JobHasTries, SentWasAccepted,
           SomeAccepted
  <1> QED
    BY <1>1, <1>2, <1>3, <1>4, QuietStep

\* The attempt ends, with or without an outcome for the row.
LEMMA EndInv ==
  ASSUME IInv, NEW p \in Runners, Return(p) \/ Throw(p),
         UNCHANGED <<slot, journal, accepts, stalls, dispatches, resends>>,
         status' \in Statuses, known' \in BOOLEAN, status' = "SENT" => SomeAccepted,
         faults' = faults \/ (faults < MaxFaults /\ faults' = faults + 1)
  PROVE  IInv'
  <1> USE MailDeliveryAssumption
  <1>1. PICK act \in {Idle, Act("add", "first", FALSE, "PRIMARY", "none")} : Becomes(p, act)
    BY DEF Return, Throw
  <1>2. act \in Acts /\ act.at \in {"idle", "add"}
    BY <1>1, NewActFacts
  <1>3. job' \in Jobs /\ holder' \in Runners \cup {Nobody} /\ JobHasTries'
    BY JobMoves DEF IInv
  <1>4. faults' \in 0 .. MaxFaults
    BY DEF IInv, TypeOK
  <1>5. /\ slot' \in BOOLEAN
        /\ dispatches' \in 0 .. MaxDispatches /\ resends' \in 0 .. MaxResends
        /\ stalls' \in 0 .. MaxStalls
    BY DEF IInv, TypeOK
  <1> QED
    BY <1>1, <1>2, <1>3, <1>4, <1>5, QuietStep

LEMMA SentIsAccepted == ASSUME IInv, status = "SENT" PROVE SomeAccepted
  BY DEF IInv, SentWasAccepted, SomeAccepted

LEMMA EndsInv ==
  ASSUME IInv, NEW p \in Runners,
         Skip(p) \/ RecordRetry(p) \/ RecordSent(p) \/ RecordFailed(p) \/ RecordLost(p)
  PROVE  IInv'
  <1>1. status \in Statuses /\ known \in BOOLEAN /\ {"SUPPRESSED", "SENT", "FAILED"} \subseteq Statuses
    BY DEF IInv, TypeOK, Statuses
  <1>2. CASE Skip(p)
    <2>1. status' = status \/ status' = "SUPPRESSED"
      BY <1>2 DEF Skip
    <2>2. /\ Return(p) /\ UNCHANGED <<slot, journal, accepts, stalls, dispatches, resends, known, faults>>
      BY <1>2 DEF Skip, bounds
    <2> QED
      BY <1>1, <2>1, <2>2, EndInv, SentIsAccepted
  <1>3. CASE RecordRetry(p)
    <2>1. /\ Throw(p) /\ UNCHANGED <<slot, journal, accepts, stalls, dispatches, resends, known, faults,
                                     status>>
      BY <1>3 DEF RecordRetry, bounds, message
    <2> QED
      BY <1>1, <2>1, EndInv, SentIsAccepted
  <1>4. CASE RecordSent(p)
    <2>1. SomeAccepted
      BY <1>4 DEF RecordSent, IInv, RunnerKnows
    <2>2. (status' = status \/ status' = "SENT") /\ (known' = known \/ known' = TRUE)
      BY <1>4, Zenon DEF RecordSent
    <2>3. known' \in BOOLEAN
      BY <1>1, <2>2
    <2>4. /\ Return(p) /\ UNCHANGED <<slot, journal, accepts, stalls, dispatches, resends, faults>>
      BY <1>4 DEF RecordSent, bounds
    <2> QED
      BY <1>1, <2>1, <2>2, <2>3, <2>4, EndInv
  <1>5. CASE RecordFailed(p)
    <2>1. status' = status \/ status' = "FAILED"
      BY <1>5 DEF RecordFailed, AfterFailure
    <2>2. /\ Return(p) /\ UNCHANGED <<slot, journal, accepts, stalls, dispatches, resends, known, faults>>
      BY <1>5 DEF RecordFailed, bounds
    <2> QED
      BY <1>1, <2>1, <2>2, EndInv, SentIsAccepted
  <1>6. CASE RecordLost(p)
    <2>1. /\ Return(p) /\ UNCHANGED <<slot, journal, accepts, stalls, dispatches, resends, known, status>>
          /\ faults < MaxFaults /\ faults' = faults + 1
      BY <1>6 DEF RecordLost, message, Fault
    <2> QED
      BY <1>1, <2>1, EndInv, SentIsAccepted
  <1> QED
    BY <1>2, <1>3, <1>4, <1>5, <1>6

\* Where a runner may move when it leaves all else alone.
MovesQuietly(p) ==
  \E act \in Acts :
    /\ Becomes(p, act) /\ act.at \notin {"request", "finish"}
    /\ act.at \in {"answer", "record"} /\ act.res = "ok" => SomeAccepted

\* Two ways of naming the next place.
LEMMA GotoMoves ==
  ASSUME TypeOK, NEW p \in Runners, NEW at \in Places \ {"request", "finish"}, Goto(p, at),
         at \in {"answer", "record"} /\ run[p].res = "ok" => SomeAccepted
  PROVE  MovesQuietly(p)
  <1> DEFINE act == [run[p] EXCEPT !.at = at]
  <1>1. act \in Acts /\ act.at = at /\ act.res = run[p].res
    BY DEF TypeOK, Acts
  <1>2. Becomes(p, act)
    BY DEF Goto
  <1> HIDE DEF act
  <1> QED
    BY <1>1, <1>2 DEF MovesQuietly

LEMMA OutcomeMoves ==
  ASSUME TypeOK, NEW p \in Runners, NEW res \in Results, Outcome(p, res),
         res = "ok" => SomeAccepted
  PROVE  MovesQuietly(p)
  <1> DEFINE act == [run[p] EXCEPT !.at = "record", !.res = res]
  <1>1. act \in Acts /\ act.at = "record" /\ act.res = res
    BY DEF TypeOK, Acts, Places
  <1>2. Becomes(p, act)
    BY DEF Outcome
  <1> HIDE DEF act
  <1> QED
    BY <1>1, <1>2 DEF MovesQuietly

LEMMA FallMoves ==
  ASSUME TypeOK, NEW p \in Runners,
         Becomes(p, Act("send", run[p].by, run[p].final, "FALLBACK", "none"))
  PROVE  MovesQuietly(p)
  <1> DEFINE act == Act("send", run[p].by, run[p].final, "FALLBACK", "none")
  <1>1. act \in Acts /\ act.at = "send"
    BY DEF TypeOK, Acts, Places, Stages, Results, Act
  <1>2. Becomes(p, act)
    OBVIOUS
  <1> HIDE DEF act
  <1> QED
    BY <1>1, <1>2 DEF MovesQuietly

LEMMA AnswerMoves ==
  ASSUME TypeOK, NEW p \in Runners, run[p].at = "send",
         Becomes(p, [run[p] EXCEPT !.stage = "FALLBACK"])
  PROVE  MovesQuietly(p)
  <1> DEFINE act == [run[p] EXCEPT !.stage = "FALLBACK"]
  <1>1. act \in Acts /\ act.at = "send"
    BY DEF TypeOK, Acts, Stages
  <1>2. Becomes(p, act)
    OBVIOUS
  <1> HIDE DEF act
  <1> QED
    BY <1>1, <1>2 DEF MovesQuietly

LEMMA QuietMoves ==
  ASSUME IInv, NEW p \in Runners, OnlyRun, MovesQuietly(p)
  PROVE  IInv'
  <1>1. PICK act \in Acts :
          /\ Becomes(p, act) /\ act.at \notin {"request", "finish"}
          /\ act.at \in {"answer", "record"} /\ act.res = "ok" => SomeAccepted
    BY DEF MovesQuietly
  <1> QED
    BY <1>1, QuietMove

LEMMA PlaceFacts ==
  /\ {"record", "default", "send", "answer", "remove", "allowed", "asked", "request", "finish"} \subseteq Places
  /\ {"unknown", "rejected", "retry", "ok", "busy"} \subseteq Results
  BY DEF Places, Results

LEMMA MovesInv ==
  ASSUME IInv, NEW p \in Runners, ClaimElsewhere(p) \/ Prepare(p) \/ Answer(p)
  PROVE  IInv'
  <1>0. TypeOK /\ OnlyRun
    BY DEF IInv, ClaimElsewhere, Prepare, Answer
  <1>1. CASE ClaimElsewhere(p)
    <2>1. \/ run[p].at = "send" /\ Becomes(p, [run[p] EXCEPT !.stage = "FALLBACK"])
          \/ Outcome(p, "unknown")
      BY <1>1 DEF ClaimElsewhere
    <2> QED
      BY <2>1, <1>0, PlaceFacts, AnswerMoves, OutcomeMoves, QuietMoves
  <1>2. CASE Prepare(p)
    <2>1. Goto(p, "default") \/ Outcome(p, "rejected")
      BY <1>2 DEF Prepare
    <2> QED
      BY <2>1, <1>0, PlaceFacts, GotoMoves, OutcomeMoves, QuietMoves
  <1>3. CASE Answer(p)
    <2>1. \/ Becomes(p, Act("send", run[p].by, run[p].final, "FALLBACK", "none"))
          \/ Goto(p, "record")
      BY <1>3 DEF Answer
    <2>2. run[p].res = "ok" => SomeAccepted
      BY <1>3 DEF Answer, IInv, RunnerKnows
    <2> QED
      BY <2>1, <2>2, <1>0, PlaceFacts, GotoMoves, FallMoves, QuietMoves
  <1> QED
    BY <1>1, <1>2, <1>3

\* A quiet move beside a change of the message's row.
LEMMA QuietChange ==
  ASSUME IInv, NEW p \in Runners, MovesQuietly(p),
         UNCHANGED <<known, journal, queue, accepts, dispatches, faults>>,
         status' = status \/ status' = "QUEUED", slot' \in BOOLEAN,
         resends' \in 0 .. MaxResends
  PROVE  IInv'
  <1>1. PICK act \in Acts :
          /\ Becomes(p, act) /\ act.at \notin {"request", "finish"}
          /\ act.at \in {"answer", "record"} /\ act.res = "ok" => SomeAccepted
    BY DEF MovesQuietly
  <1>2. /\ UNCHANGED <<journal, accepts>> /\ job' \in Jobs /\ holder' \in Runners \cup {Nobody}
        /\ status' \in Statuses /\ known' \in BOOLEAN
        /\ dispatches' \in 0 .. MaxDispatches /\ stalls' \in 0 .. MaxStalls
        /\ faults' \in 0 .. MaxFaults
    BY DEF queue, IInv, TypeOK, Statuses
  <1>3. JobHasTries' /\ (status' = "SENT" => SomeAccepted)
    BY SentIsAccepted DEF queue, IInv, JobHasTries
  <1> QED
    BY <1>1, <1>2, <1>3, QuietStep

LEMMA ChangesInv ==
  ASSUME IInv, NEW p \in Runners, Start(p) \/ AskResend(p) \/ FindJob(p) \/ Requeue(p)
  PROVE  IInv'
  <1>0. TypeOK
    BY DEF IInv
  <1>1. CASE Start(p)
    <2>1. Goto(p, "send") \/ Outcome(p, "retry")
      BY <1>1 DEF Start
    <2>2. MovesQuietly(p)
      BY <2>1, <1>0, PlaceFacts, GotoMoves, OutcomeMoves
    <2>3. slot' \in BOOLEAN /\ resends' \in 0 .. MaxResends
      BY <1>1, <1>0 DEF Start, TypeOK, bounds
    <2> QED
      BY <1>1, <2>2, <2>3, QuietChange DEF Start, bounds
  <1>2. CASE AskResend(p)
    <2>1. MovesQuietly(p)
      BY <1>2, <1>0, PlaceFacts, GotoMoves DEF AskResend
    <2>2. slot' \in BOOLEAN
      BY <1>2, <1>0 DEF AskResend, TypeOK, message
    <2>3. resends' \in 0 .. MaxResends
      BY <1>2, <1>0, MailDeliveryAssumption DEF AskResend, TypeOK
    <2> QED
      BY <1>2, <2>1, <2>2, <2>3, QuietChange DEF AskResend, message
  <1>3. CASE Requeue(p)
    <2>1. Goto(p, "remove") \/ Becomes(p, Idle)
      BY <1>3 DEF Requeue
    <2>2. MovesQuietly(p)
      <3>1. CASE Goto(p, "remove")
        BY <3>1, <1>0, PlaceFacts, GotoMoves
      <3>2. CASE Becomes(p, Idle)
        BY <3>2, NewActFacts DEF MovesQuietly
      <3> QED
        BY <2>1, <3>1, <3>2
    <2>3. slot' \in BOOLEAN /\ resends' \in 0 .. MaxResends
      BY <1>3, <1>0 DEF Requeue, TypeOK, bounds
    <2>4. status' = status \/ status' = "QUEUED"
      BY <1>3 DEF Requeue
    <2> QED
      BY <1>3, <2>2, <2>3, <2>4, QuietChange DEF Requeue, bounds
  <1>4. CASE FindJob(p)
    <2>1. Goto(p, "asked") \/ Becomes(p, Idle)
      BY <1>4 DEF FindJob
    <2>2. MovesQuietly(p)
      <3>1. CASE Goto(p, "asked")
        BY <3>1, <1>0, PlaceFacts, GotoMoves
      <3>2. CASE Becomes(p, Idle)
        BY <3>2, NewActFacts DEF MovesQuietly
      <3> QED
        BY <2>1, <3>1, <3>2
    <2>3. OnlyRun
      BY <1>4 DEF FindJob
    <2> QED
      BY <2>2, <2>3, <1>0, QuietMoves
  <1> QED
    BY <1>1, <1>2, <1>3, <1>4

LEMMA QueryFailsInv == ASSUME IInv, NEW p \in Runners, QueryFails(p) PROVE IInv'
  <1>0. /\ UNCHANGED <<status, known, slot, journal, accepts, stalls, dispatches, resends>>
        /\ faults < MaxFaults /\ faults' = faults + 1
    BY DEF QueryFails, Fault, message
  <1>1. CASE Throw(p)
    BY <1>0, <1>1, EndInv, SentIsAccepted DEF IInv, TypeOK
  <1>2. CASE Outcome(p, "retry") /\ UNCHANGED <<job, holder>>
    <2>1. MovesQuietly(p)
      BY <1>2, PlaceFacts, OutcomeMoves DEF IInv
    <2>2. PICK act \in Acts :
            /\ Becomes(p, act) /\ act.at \notin {"request", "finish"}
            /\ act.at \in {"answer", "record"} /\ act.res = "ok" => SomeAccepted
      BY <2>1 DEF MovesQuietly
    <2>3. faults' \in 0 .. MaxFaults
      BY <1>0, MailDeliveryAssumption DEF IInv, TypeOK
    <2>4. /\ job' \in Jobs /\ holder' \in Runners \cup {Nobody}
          /\ status' \in Statuses /\ known' \in BOOLEAN /\ slot' \in BOOLEAN
          /\ dispatches' \in 0 .. MaxDispatches /\ resends' \in 0 .. MaxResends
          /\ stalls' \in 0 .. MaxStalls
      BY <1>0, <1>2 DEF IInv, TypeOK
    <2>5. JobHasTries' /\ (status' = "SENT" => SomeAccepted)
      BY <1>0, <1>2, SentIsAccepted DEF IInv, JobHasTries
    <2> QED
      BY <1>0, <2>2, <2>3, <2>4, <2>5, QuietStep
  <1> QED
    BY <1>1, <1>2 DEF QueryFails

-----------------------------------------------------------------------------
(***************************************************************************)
(* Moves that write the journal.                                           *)
(***************************************************************************)
LEMMA RowFacts ==
  ASSUME TypeOK, NEW s \in Stages, NEW r \in Rows, SetRow(s, r)
  PROVE  /\ journal' \in [Stages -> Rows] /\ journal'[s] = r
         /\ \A t \in Stages \ {s} : journal'[t] = journal[t]
  BY DEF TypeOK, SetRow

LEMMA RunFacts ==
  ASSUME TypeOK, NEW p \in Runners, NEW act \in Acts, Becomes(p, act)
  PROVE  /\ run' \in [Runners -> Acts] /\ run'[p] = act
         /\ \A q \in Runners \ {p} : run'[q] = run[q]
  BY DEF TypeOK, Becomes

\* A lease that lapses, or becomes a tombstone under the same fence, beside
\* a quiet move.
LEMMA Doubts ==
  ASSUME IInv, run' \in [Runners -> Acts], journal' \in [Stages -> Rows], UNCHANGED accepts,
         \A q \in Runners :
           \/ run'[q] = run[q]
           \/ /\ run'[q].at \notin {"request", "finish"}
              /\ run'[q].at \in {"answer", "record"} /\ run'[q].res = "ok" => SomeAccepted,
         \A t \in Stages :
           \/ journal'[t] = journal[t]
           \/ /\ journal[t].state = "SENDING" /\ journal'[t].state \in {"SENDING", "UNKNOWN"}
              /\ journal'[t].fence = journal[t].fence
  PROVE  JournalTells' /\ RunnerKnows' /\ FallsAfterRejection'
  <1>1. SomeAccepted' <=> SomeAccepted
    BY DEF SomeAccepted
  <1>2. JournalTells'
    <2> SUFFICES ASSUME NEW t \in Stages
                 PROVE  /\ \A q \in Runners : Flying(q, t)' =>
                             journal'[t].fence = q /\ journal'[t].state \in {"SENDING", "UNKNOWN"}
                        /\ journal'[t].state \in {"none", "REJECTED"} => accepts'[t] = 0
                        /\ journal'[t].state = "ACCEPTED" => accepts'[t] = 1
      BY DEF JournalTells
    <2>1. \A q \in Runners : Flying(q, t)' => Flying(q, t)
      BY DEF Flying
    <2> QED
      BY <2>1 DEF IInv, JournalTells
  <1>3. RunnerKnows'
    <2> SUFFICES ASSUME NEW q \in Runners
                 PROVE  /\ run'[q].at = "request" => accepts[run'[q].stage] = 0
                        /\ run'[q].at = "finish" =>
                             /\ run'[q].res \in {"ok", "retry", "rejected", "unknown"}
                             /\ run'[q].res = "ok" => accepts[run'[q].stage] = 1
                             /\ run'[q].res \in {"retry", "rejected"} => accepts[run'[q].stage] = 0
                        /\ run'[q].at \in {"answer", "record"} /\ run'[q].res = "ok" => SomeAccepted
      BY <1>1 DEF RunnerKnows
    <2>1. CASE run'[q] = run[q]
      BY <2>1 DEF IInv, RunnerKnows
    <2>2. CASE run'[q] # run[q]
      BY <2>2
    <2> QED
      BY <2>1, <2>2
  <1>4. FallsAfterRejection'
    BY StageFacts DEF IInv, FallsAfterRejection
  <1> QED
    BY <1>2, <1>3, <1>4

\* What the three parts of the invariant about the journal leave to show.
LEMMA Rest ==
  ASSUME IInv, run' \in [Runners -> Acts], journal' \in [Stages -> Rows],
         accepts' \in [Channels -> 0 .. 1], SomeAccepted => SomeAccepted',
         UNCHANGED <<message, queue, bounds>>,
         JournalTells', RunnerKnows', FallsAfterRejection'
  PROVE  IInv'
  <1>1. TypeOK'
    BY DEF IInv, TypeOK, message, queue, bounds
  <1>2. JobHasTries'
    BY DEF IInv, JobHasTries, queue
  <1>3. SentWasAccepted'
    BY DEF IInv, SentWasAccepted, SomeAccepted, message
  <1> QED
    BY <1>1, <1>2, <1>3 DEF IInv

LEMMA ClaimSendInv == ASSUME IInv, NEW p \in Runners, ClaimSend(p) PROVE IInv'
  <1> PICK s \in Stages : run[p].stage = s
    BY DEF IInv, TypeOK, Acts
  <1> DEFINE act == [run[p] EXCEPT !.at = "request"]
             r == Row("SENDING", FALSE, p, FALSE)
  <1>0. TypeOK /\ run[p] \in Acts /\ journal[s] \in Rows
    BY DEF IInv, TypeOK
  <1>1. act \in Acts /\ act.at = "request" /\ act.stage = s /\ Becomes(p, act)
    BY <1>0 DEF ClaimSend, Goto, Acts, Places
  <1>2. r \in Rows /\ r.state = "SENDING" /\ r.fence = p /\ SetRow(s, r)
    BY DEF ClaimSend, Row, Rows
  <1>3. journal[s].state \in {"none", "REJECTED"} /\ StageOpen(s)
    BY DEF ClaimSend, Sendable
  <1> HIDE DEF act, r
  <1>4. /\ run' \in [Runners -> Acts] /\ run'[p] = act
        /\ \A q \in Runners \ {p} : run'[q] = run[q]
    BY <1>0, <1>1, RunFacts
  <1>5. /\ journal' \in [Stages -> Rows] /\ journal'[s] = r
        /\ \A t \in Stages \ {s} : journal'[t] = journal[t]
    BY <1>0, <1>2, RowFacts
  <1>6. UNCHANGED <<message, queue, accepts, bounds>>
    BY DEF ClaimSend
  <1>7. accepts[s] = 0 /\ \A q \in Runners : ~Flying(q, s)
    BY <1>0, <1>3 DEF IInv, JournalTells
  <1>8. JournalTells'
    <2> SUFFICES ASSUME NEW t \in Stages
                 PROVE  /\ \A q \in Runners : Flying(q, t)' =>
                             journal'[t].fence = q /\ journal'[t].state \in {"SENDING", "UNKNOWN"}
                        /\ journal'[t].state \in {"none", "REJECTED"} => accepts'[t] = 0
                        /\ journal'[t].state = "ACCEPTED" => accepts'[t] = 1
      BY DEF JournalTells
    <2>1. CASE t = s
      <3>1. \A q \in Runners : Flying(q, s)' => q = p
        BY <1>4, <1>7 DEF Flying
      <3> QED
        BY <2>1, <3>1, <1>2, <1>5
    <2>2. CASE t # s
      <3>1. \A q \in Runners : Flying(q, t)' => Flying(q, t)
        BY <2>2, <1>1, <1>4 DEF Flying
      <3> QED
        BY <2>2, <3>1, <1>5, <1>6 DEF IInv, JournalTells
    <2> QED
      BY <2>1, <2>2
  <1>9. RunnerKnows'
    <2>1. SomeAccepted' <=> SomeAccepted
      BY <1>6 DEF SomeAccepted
    <2> QED
      BY <2>1, <1>1, <1>4, <1>6, <1>7 DEF IInv, RunnerKnows
  <1>10. FallsAfterRejection'
    BY <1>0, <1>2, <1>3, <1>5, StageFacts DEF IInv, FallsAfterRejection, StageOpen, Stages
  <1>11. accepts' \in [Channels -> 0 .. 1] /\ (SomeAccepted => SomeAccepted')
    BY <1>0, <1>6 DEF TypeOK, SomeAccepted
  <1> QED
    BY <1>4, <1>5, <1>6, <1>8, <1>9, <1>10, <1>11, Rest

LEMMA ClaimSettledInv == ASSUME IInv, NEW p \in Runners, ClaimSettled(p) PROVE IInv'
  <1> PICK s \in Stages : run[p].stage = s
    BY DEF IInv, TypeOK, Acts
  <1> PICK r \in Rows : r = journal[s]
    BY DEF IInv, TypeOK
  <1> DEFINE n == IF r.state = "SENDING" /\ r.lapsed THEN Row("UNKNOWN", FALSE, r.fence, FALSE) ELSE r
  <1>0. TypeOK /\ run[p] \in Acts
    BY DEF IInv, TypeOK
  <1>9. SetRow(s, n)
    BY DEF ClaimSettled
  <1>1. n \in Rows /\ (n = r \/ (r.state = "SENDING" /\ n.state = "UNKNOWN" /\ n.fence = r.fence))
    BY <1>0 DEF Row, Rows
  <1>2. PICK act \in Acts :
          /\ Becomes(p, act) /\ act.at \notin {"request", "finish"}
          /\ act.at \in {"answer", "record"} /\ act.res = "ok" => SomeAccepted
    <2>1. CASE Settled(r) = "rejected"
      <3> DEFINE a == [run[p] EXCEPT !.at = "answer", !.res = "rejected"]
      <3>1. a \in Acts /\ a.at = "answer" /\ a.res = "rejected"
        BY <1>0 DEF Acts, Places, Results
      <3>2. Becomes(p, a)
        BY <2>1 DEF ClaimSettled
      <3> HIDE DEF a
      <3> QED
        BY <3>1, <3>2
    <2>2. CASE Settled(r) # "rejected"
      <3> DEFINE a == [run[p] EXCEPT !.at = "record", !.res = Settled(r)]
      <3>1. Settled(r) \in Results
        BY DEF Settled, Results
      <3>2. a \in Acts /\ a.at = "record" /\ a.res = Settled(r)
        BY <1>0, <3>1 DEF Acts, Places
      <3>3. Becomes(p, a)
        BY <2>2 DEF ClaimSettled, Outcome
      <3>4. Settled(r) = "ok" => r.state = "ACCEPTED"
        BY DEF Settled
      <3>5. r.state = "ACCEPTED" => SomeAccepted
        BY <1>0, StageFacts DEF IInv, JournalTells, SomeAccepted
      <3> HIDE DEF a
      <3> QED
        BY <3>2, <3>3, <3>4, <3>5
    <2> QED
      BY <2>1, <2>2
  <1>3. UNCHANGED <<message, queue, accepts, bounds>>
    BY DEF ClaimSettled
  <1> HIDE DEF n
  <1>4. /\ run' \in [Runners -> Acts] /\ run'[p] = act
        /\ \A q \in Runners \ {p} : run'[q] = run[q]
    BY <1>0, <1>2, RunFacts
  <1>5. /\ journal' \in [Stages -> Rows] /\ journal'[s] = n
        /\ \A t \in Stages \ {s} : journal'[t] = journal[t]
    BY <1>0, <1>1, <1>9, RowFacts
  <1>6. JournalTells' /\ RunnerKnows' /\ FallsAfterRejection'
    BY <1>1, <1>2, <1>3, <1>4, <1>5, Doubts
  <1>7. accepts' \in [Channels -> 0 .. 1] /\ (SomeAccepted => SomeAccepted')
    BY <1>0, <1>3 DEF TypeOK, SomeAccepted
  <1> QED
    BY <1>3, <1>4, <1>5, <1>6, <1>7, Rest

LEMMA RequestInv == ASSUME IInv, NEW p \in Runners, Request(p) PROVE IInv'
  <1> DEFINE s == run[p].stage
  <1>0. TypeOK /\ run[p] \in Acts /\ s \in Stages /\ run[p].at = "request"
        /\ s \in Channels /\ Flying(p, s)
    BY StageFacts DEF IInv, TypeOK, Acts, Request, Flying
  <1>1. PICK acc \in BOOLEAN, res \in {"ok", "retry", "rejected", "unknown"} :
          /\ res = "ok" => acc
          /\ res \in {"retry", "rejected"} => ~acc
          /\ accepts' = [accepts EXCEPT ![s] = IF acc THEN @ + 1 ELSE @]
          /\ Becomes(p, [run[p] EXCEPT !.at = "finish", !.res = res])
    BY DEF Request
  <1> DEFINE act == [run[p] EXCEPT !.at = "finish", !.res = res]
  <1>2. act \in Acts /\ act.at = "finish" /\ act.res = res /\ act.stage = s
    BY <1>0 DEF Acts, Places, Results
  <1>3. Becomes(p, act)
    BY <1>1
  <1> HIDE DEF act, s
  <1>4. /\ run' \in [Runners -> Acts] /\ run'[p] = act
        /\ \A q \in Runners \ {p} : run'[q] = run[q]
    BY <1>0, <1>2, <1>3, RunFacts
  <1>5. UNCHANGED <<message, journal, queue, bounds>>
    BY DEF Request
  <1>6. accepts[s] = 0 /\ accepts \in [Channels -> 0 .. 1]
    BY <1>0 DEF IInv, RunnerKnows, TypeOK, s
  <1>7. /\ accepts' \in [Channels -> 0 .. 1] /\ accepts'[s] = (IF acc THEN 1 ELSE 0)
        /\ \A c \in Channels \ {s} : accepts'[c] = accepts[c]
    BY <1>0, <1>1, <1>6
  <1>8. SomeAccepted => SomeAccepted'
    BY <1>0, <1>6, <1>7 DEF SomeAccepted
  <1>9. \A q \in Runners : Flying(q, s) => q = p
    BY <1>0 DEF IInv, JournalTells
  <1>10. JournalTells'
    <2> SUFFICES ASSUME NEW t \in Stages
                 PROVE  /\ \A q \in Runners : Flying(q, t)' =>
                             journal'[t].fence = q /\ journal'[t].state \in {"SENDING", "UNKNOWN"}
                        /\ journal'[t].state \in {"none", "REJECTED"} => accepts'[t] = 0
                        /\ journal'[t].state = "ACCEPTED" => accepts'[t] = 1
      BY DEF JournalTells
    <2>1. \A q \in Runners : Flying(q, t)' => Flying(q, t)
      BY <1>0, <1>2, <1>4 DEF Flying, s
    <2>2. CASE t = s
      BY <2>1, <2>2, <1>0, <1>5 DEF IInv, JournalTells
    <2>3. CASE t # s
      BY <2>1, <2>3, <1>5, <1>7, StageFacts DEF IInv, JournalTells
    <2> QED
      BY <2>2, <2>3
  <1>11. RunnerKnows'
    <2> SUFFICES ASSUME NEW q \in Runners
                 PROVE  /\ run'[q].at = "request" => accepts'[run'[q].stage] = 0
                        /\ run'[q].at = "finish" =>
                             /\ run'[q].res \in {"ok", "retry", "rejected", "unknown"}
                             /\ run'[q].res = "ok" => accepts'[run'[q].stage] = 1
                             /\ run'[q].res \in {"retry", "rejected"} => accepts'[run'[q].stage] = 0
                        /\ run'[q].at \in {"answer", "record"} /\ run'[q].res = "ok" => SomeAccepted'
      BY DEF RunnerKnows
    <2>1. CASE q = p
      BY <2>1, <1>1, <1>2, <1>4, <1>7
    <2>2. CASE q # p
      <3>1. run'[q] = run[q] /\ run[q].stage \in Channels
        BY <2>2, <1>0, <1>4, StageFacts DEF TypeOK, Acts
      <3>2. run[q].at \in {"request", "finish"} => run[q].stage # s
        BY <2>2, <1>9 DEF Flying
      <3> QED
        BY <3>1, <3>2, <1>7, <1>8 DEF IInv, RunnerKnows
    <2> QED
      BY <2>1, <2>2
  <1>12. FallsAfterRejection' /\ journal' \in [Stages -> Rows]
    BY <1>0, <1>5 DEF IInv, FallsAfterRejection, TypeOK
  <1> QED
    BY <1>4, <1>5, <1>7, <1>8, <1>10, <1>11, <1>12, Rest

LEMMA RequestDefaultInv == ASSUME IInv, NEW p \in Runners, RequestDefault(p) PROVE IInv'
  <1>0. TypeOK
    BY DEF IInv
  <1>1. PICK acc \in BOOLEAN, res \in {"ok", "retry", "rejected"} :
          /\ res = "ok" => acc
          /\ accepts' = [accepts EXCEPT !["default"] = IF acc THEN 1 ELSE @]
          /\ Outcome(p, res)
    BY DEF RequestDefault
  <1> DEFINE act == [run[p] EXCEPT !.at = "record", !.res = res]
  <1>2. act \in Acts /\ act.at = "record" /\ act.res = res /\ Becomes(p, act)
    BY <1>0, <1>1 DEF TypeOK, Acts, Places, Results, Outcome
  <1> HIDE DEF act
  <1>3. /\ run' \in [Runners -> Acts] /\ run'[p] = act
        /\ \A q \in Runners \ {p} : run'[q] = run[q]
    BY <1>0, <1>2, RunFacts
  <1>4. UNCHANGED <<message, journal, queue, bounds>>
    BY DEF RequestDefault
  <1>5. /\ accepts' \in [Channels -> 0 .. 1] /\ (acc => accepts'["default"] = 1)
        /\ \A t \in Stages : accepts'[t] = accepts[t]
    BY <1>0, <1>1, StageFacts DEF TypeOK
  <1>6. (SomeAccepted => SomeAccepted') /\ (acc => SomeAccepted')
    BY <1>0, <1>1, <1>5, StageFacts DEF SomeAccepted, TypeOK
  <1>7. JournalTells'
    <2>1. \A q \in Runners, t \in Stages : Flying(q, t)' => Flying(q, t)
      BY <1>2, <1>3 DEF Flying
    <2> QED
      BY <2>1, <1>4, <1>5 DEF IInv, JournalTells
  <1>8. RunnerKnows'
    <2> SUFFICES ASSUME NEW q \in Runners
                 PROVE  /\ run'[q].at = "request" => accepts'[run'[q].stage] = 0
                        /\ run'[q].at = "finish" =>
                             /\ run'[q].res \in {"ok", "retry", "rejected", "unknown"}
                             /\ run'[q].res = "ok" => accepts'[run'[q].stage] = 1
                             /\ run'[q].res \in {"retry", "rejected"} => accepts'[run'[q].stage] = 0
                        /\ run'[q].at \in {"answer", "record"} /\ run'[q].res = "ok" => SomeAccepted'
      BY DEF RunnerKnows
    <2>1. CASE q = p
      BY <2>1, <1>1, <1>2, <1>3, <1>6
    <2>2. CASE q # p
      <3>1. run'[q] = run[q] /\ run[q].stage \in Stages
        BY <2>2, <1>0, <1>3 DEF TypeOK, Acts
      <3> QED
        BY <3>1, <1>5, <1>6 DEF IInv, RunnerKnows
    <2> QED
      BY <2>1, <2>2
  <1>9. FallsAfterRejection' /\ journal' \in [Stages -> Rows]
    BY <1>0, <1>4 DEF IInv, FallsAfterRejection, TypeOK
  <1> QED
    BY <1>3, <1>4, <1>5, <1>6, <1>7, <1>8, <1>9, Rest

LEMMA FinishInv == ASSUME IInv, NEW p \in Runners, Finish(p) PROVE IInv'
  <1> PICK s \in Stages : run[p].stage = s
    BY DEF IInv, TypeOK, Acts
  <1> DEFINE act == [run[p] EXCEPT !.at = "answer"]
             r == Row(Verdict(run[p].res), run[p].res = "retry", Nobody, FALSE)
  <1>0. TypeOK /\ run[p] \in Acts /\ run[p].at = "finish" /\ Owns(p, s) /\ Flying(p, s)
    BY DEF IInv, TypeOK, Finish, Flying
  <1>1. act \in Acts /\ act.at = "answer" /\ act.res = run[p].res /\ Becomes(p, act)
    BY <1>0 DEF Finish, Goto, Acts, Places
  <1>2. (run[p].res = "retry") \in BOOLEAN
    BY Zenon
  <1>3. Verdict(run[p].res) \in {"ACCEPTED", "UNKNOWN", "REJECTED"}
    BY DEF Verdict
  <1>4. r \in Rows /\ r.state = Verdict(run[p].res)
    BY <1>2, <1>3 DEF Row, Rows
  <1>5. SetRow(s, r)
    BY DEF Finish
  <1>6. /\ r.state \in {"ACCEPTED", "UNKNOWN", "REJECTED"}
        /\ r.state = "ACCEPTED" => run[p].res = "ok"
        /\ r.state = "REJECTED" => run[p].res \in {"retry", "rejected"}
    BY <1>0, <1>4 DEF Verdict, IInv, RunnerKnows
  <1> HIDE DEF act, r
  <1>7. /\ run' \in [Runners -> Acts] /\ run'[p] = act
        /\ \A q \in Runners \ {p} : run'[q] = run[q]
    BY <1>0, <1>1, RunFacts
  <1>8. /\ journal' \in [Stages -> Rows] /\ journal'[s] = r
        /\ \A t \in Stages \ {s} : journal'[t] = journal[t]
    BY <1>0, <1>4, <1>5, RowFacts
  <1>9. UNCHANGED <<message, queue, accepts, bounds>>
    BY DEF Finish
  <1>10. /\ run[p].res = "ok" => accepts[s] = 1
         /\ run[p].res \in {"retry", "rejected"} => accepts[s] = 0
    BY <1>0 DEF IInv, RunnerKnows
  <1>11. \A q \in Runners : Flying(q, s) => q = p
    BY <1>0 DEF IInv, JournalTells
  <1>12. \A q \in Runners, t \in Stages : Flying(q, t)' => Flying(q, t) /\ q # p
    BY <1>1, <1>7 DEF Flying
  <1>13. JournalTells'
    <2> SUFFICES ASSUME NEW t \in Stages
                 PROVE  /\ \A q \in Runners : Flying(q, t)' =>
                             journal'[t].fence = q /\ journal'[t].state \in {"SENDING", "UNKNOWN"}
                        /\ journal'[t].state \in {"none", "REJECTED"} => accepts'[t] = 0
                        /\ journal'[t].state = "ACCEPTED" => accepts'[t] = 1
      BY DEF JournalTells
    <2>1. CASE t = s
      BY <2>1, <1>6, <1>8, <1>9, <1>10, <1>11, <1>12
    <2>2. CASE t # s
      BY <2>2, <1>8, <1>9, <1>12 DEF IInv, JournalTells
    <2> QED
      BY <2>1, <2>2
  <1>14. RunnerKnows'
    <2>1. SomeAccepted' <=> SomeAccepted
      BY <1>9 DEF SomeAccepted
    <2>2. run[p].res = "ok" => SomeAccepted
      BY <1>10, StageFacts DEF SomeAccepted
    <2> QED
      BY <2>1, <2>2, <1>1, <1>7, <1>9 DEF IInv, RunnerKnows
  <1>15. FallsAfterRejection'
    BY <1>0, <1>8, StageFacts DEF IInv, FallsAfterRejection, Owns, Stages
  <1>16. accepts' \in [Channels -> 0 .. 1] /\ (SomeAccepted => SomeAccepted')
    BY <1>0, <1>9 DEF TypeOK, SomeAccepted
  <1> QED
    BY <1>7, <1>8, <1>9, <1>13, <1>14, <1>15, <1>16, Rest

LEMMA LapseInv == ASSUME IInv, NEW s \in Stages, Lapse(s) PROVE IInv'
  <1> DEFINE r == [journal[s] EXCEPT !.lapsed = TRUE]
  <1>0. TypeOK /\ journal[s] \in Rows
    BY DEF IInv, TypeOK
  <1>1. r \in Rows /\ r.state = "SENDING" /\ r.fence = journal[s].fence /\ SetRow(s, r)
    BY <1>0 DEF Rows, Lapse
  <1> HIDE DEF r
  <1>2. /\ journal' \in [Stages -> Rows] /\ journal'[s] = r
        /\ \A t \in Stages \ {s} : journal'[t] = journal[t]
    BY <1>0, <1>1, RowFacts
  <1>3. UNCHANGED <<message, queue, run, accepts, bounds>> /\ journal[s].state = "SENDING"
    BY DEF Lapse
  <1>4. run' \in [Runners -> Acts] /\ accepts' \in [Channels -> 0 .. 1]
        /\ (SomeAccepted => SomeAccepted')
    BY <1>0, <1>3 DEF TypeOK, SomeAccepted
  <1>5. JournalTells' /\ RunnerKnows' /\ FallsAfterRejection'
    BY <1>1, <1>2, <1>3, <1>4, Doubts
  <1> QED
    BY <1>2, <1>3, <1>4, <1>5, Rest

\* Steps of the message and the job that leave runners and journal alone.
LEMMA Aside ==
  ASSUME IInv, run' = run, journal' \in [Stages -> Rows],
         UNCHANGED <<accepts, slot, known, dispatches, resends, faults>>,
         status' \in Statuses, status' = "SENT" => status = "SENT",
         job' \in Jobs, holder' \in Runners \cup {Nobody}, stalls' \in 0 .. MaxStalls, JobHasTries',
         JournalTells', RunnerKnows', FallsAfterRejection'
  PROVE  IInv'
  <1>1. TypeOK'
    BY DEF IInv, TypeOK
  <1>2. SentWasAccepted'
    BY DEF IInv, SentWasAccepted
  <1> QED
    BY <1>1, <1>2 DEF IInv

LEMMA CleanupInv == ASSUME IInv, NEW s \in Stages, Cleanup(s) PROVE IInv'
  <1> DEFINE r == Row("UNKNOWN", FALSE, journal[s].fence, FALSE)
  <1>0. TypeOK /\ journal[s] \in Rows
    BY DEF IInv, TypeOK
  <1>1. r \in Rows /\ r.state = "UNKNOWN" /\ r.fence = journal[s].fence /\ SetRow(s, r)
    BY <1>0 DEF Rows, Row, Cleanup
  <1> HIDE DEF r
  <1>2. /\ journal' \in [Stages -> Rows] /\ journal'[s] = r
        /\ \A t \in Stages \ {s} : journal'[t] = journal[t]
    BY <1>0, <1>1, RowFacts
  <1>3. /\ UNCHANGED <<known, slot, run, accepts, job, holder, stalls, dispatches, resends, faults>>
        /\ journal[s].state = "SENDING"
    BY DEF Cleanup, Cleanable, queue, bounds
  <1>4. run' \in [Runners -> Acts]
    BY <1>0, <1>3 DEF TypeOK
  <1>5. JournalTells' /\ RunnerKnows' /\ FallsAfterRejection'
    BY <1>1, <1>2, <1>3, <1>4, Doubts
  <1>6. status' \in Statuses /\ (status' = "SENT" => status = "SENT")
    BY <1>0 DEF Cleanup, AfterFailure, TypeOK, Statuses
  <1>7. job' \in Jobs /\ holder' \in Runners \cup {Nobody} /\ stalls' \in 0 .. MaxStalls
    BY <1>0, <1>3 DEF TypeOK
  <1>8. JobHasTries'
    BY <1>3 DEF IInv, JobHasTries
  <1> QED
    BY <1>2, <1>3, <1>5, <1>6, <1>7, <1>8, Aside

LEMMA AsideInv == ASSUME IInv, Stall \/ Report PROVE IInv'
  <1> USE MailDeliveryAssumption
  <1>0. TypeOK /\ {"DELIVERED", "FAILED", "BOUNCED", "COMPLAINED"} \subseteq Statuses
    BY DEF IInv, Statuses
  <1>1. UNCHANGED <<known, slot, run, journal, accepts, dispatches, resends, faults>>
    BY DEF Stall, Report, message, bounds
  <1>2. journal' \in [Stages -> Rows] /\ JournalTells' /\ RunnerKnows' /\ FallsAfterRejection'
    BY <1>1, <1>0 DEF TypeOK, IInv, JournalTells, RunnerKnows, FallsAfterRejection, Flying, SomeAccepted
  <1>3. CASE Stall
    <2>1. job \in Jobs /\ job.state = "active" /\ holder' = Nobody
          /\ job' = [job EXCEPT !.state = IF stalls < MaxStalls THEN "waiting" ELSE "done"]
      BY <1>0, <1>3 DEF Stall, TypeOK
    <2>2. job' \in Jobs /\ job'.made = job.made /\ job'.limit = job.limit
      BY <2>1 DEF Jobs
    <2>3. JobHasTries'
      BY <2>1, <2>2 DEF IInv, JobHasTries
    <2>4. stalls' \in 0 .. MaxStalls /\ status' = status
      BY <1>3, <1>0 DEF Stall, message, TypeOK
    <2> QED
      BY <1>0, <1>1, <1>2, <2>1, <2>2, <2>3, <2>4, Aside DEF TypeOK
  <1>4. CASE Report
    <2>1. status' \in {"DELIVERED", "FAILED", "BOUNCED", "COMPLAINED"} /\ UNCHANGED <<job, holder, stalls>>
      BY <1>4 DEF Report, queue
    <2>2. JobHasTries' /\ job' \in Jobs /\ holder' \in Runners \cup {Nobody}
          /\ stalls' \in 0 .. MaxStalls
      BY <2>1, <1>0 DEF IInv, JobHasTries, TypeOK
    <2> QED
      BY <1>0, <1>1, <1>2, <2>1, <2>2, Aside
  <1> QED
    BY <1>3, <1>4

-----------------------------------------------------------------------------
LEMMA NextInv == IInv /\ [Next]_vars => IInv'
  <1> SUFFICES ASSUME IInv, [Next]_vars PROVE IInv'
    OBVIOUS
  <1>1. ASSUME NEW p \in Runners, Dispatch(p) \/ Activate(p) \/ AskResend(p) PROVE IInv'
    BY <1>1, DispatchInv, ActivateInv, ChangesInv
  <1>2. ASSUME NEW p \in Runners, Progress(p) PROVE IInv'
    BY <1>2, AddInv, EndsInv, ChangesInv, MovesInv, ClaimSendInv, ClaimSettledInv, RequestInv,
       RequestDefaultInv, FinishInv, RemoveInv
    DEF Progress
  <1>3. ASSUME NEW p \in Runners, RunnerFails(p) PROVE IInv'
    BY <1>3, FaultInv, QueryFailsInv, EndsInv DEF RunnerFails
  <1>4. ASSUME NEW s \in Stages, Lapse(s) \/ Cleanup(s) PROVE IInv'
    BY <1>4, LapseInv, CleanupInv
  <1>5. CASE UNCHANGED vars
    BY <1>5 DEF vars, message, queue, bounds, IInv, TypeOK, JournalTells, RunnerKnows,
       FallsAfterRejection, JobHasTries, SentWasAccepted, Flying, SomeAccepted
  <1> QED
    BY <1>1, <1>2, <1>3, <1>4, <1>5, AsideInv DEF Next

THEOREM Invariance == Spec => []IInv
  BY InitInv, NextInv, PTL DEF Spec

\* Whatever the number of runners, tries and faults, the message, its journal
\* and its job keep their types, and each channel accepts it at most once.
THEOREM MailTypes == Spec => []TypeOK
  <1>1. IInv => TypeOK
    BY DEF IInv
  <1> QED
    BY <1>1, Invariance, PTL

LEMMA OnceFollows == IInv => AcceptedOnce
  <1> SUFFICES ASSUME IInv PROVE AcceptedOnce
    OBVIOUS
  <1>1. accepts["PRIMARY"] \in 0 .. 1 /\ accepts["FALLBACK"] \in 0 .. 1
    BY StageFacts DEF IInv, TypeOK
  <1>2. journal["FALLBACK"].state = "none" => accepts["FALLBACK"] = 0
    BY StageFacts DEF IInv, JournalTells
  <1>3. journal["PRIMARY"].state = "REJECTED" => accepts["PRIMARY"] = 0
    BY StageFacts DEF IInv, JournalTells
  <1> QED
    BY <1>1, <1>2, <1>3 DEF IInv, FallsAfterRejection, AcceptedOnce

\* The journal keeps its promise between a hotel's own provider and the
\* fallback: FALLBACK is claimed only when PRIMARY was rejected, a rejected
\* stage accepted nothing, and an unclaimed one neither.
THEOREM OneAcceptance == Spec => []AcceptedOnce
  BY OnceFollows, Invariance, PTL

\* No attempt, resend or sweep takes SENT back; only the provider's report
\* replaces it.
THEOREM SentNeverLost == Spec => SentStays
  <1>1. [Next]_vars =>
          [status = "SENT" /\ status' # "SENT"
             => known /\ status' \in {"DELIVERED", "FAILED", "BOUNCED", "COMPLAINED"}
                /\ run' = run /\ journal' = journal]_vars
    <2> SUFFICES ASSUME Next, status = "SENT", status' # "SENT"
                 PROVE  Report
      BY DEF Report
    <2>1. ASSUME NEW p \in Runners, Dispatch(p) \/ Activate(p) \/ AskResend(p) PROVE status' = status
      BY <2>1 DEF Dispatch, Activate, AskResend, message
    <2>2. ASSUME NEW p \in Runners, Progress(p) PROVE status' = status \/ status' = "SENT"
      BY <2>2 DEF Progress, Add, Skip, Start, ClaimElsewhere, Prepare, ClaimSend, ClaimSettled, Request,
         RequestDefault, Finish, Answer, RecordRetry, RecordSent, RecordFailed, FindJob, Requeue, Remove,
         OnlyRun, message, AfterFailure
    <2>3. ASSUME NEW p \in Runners, RunnerFails(p) PROVE status' = status
      BY <2>3 DEF RunnerFails, AddFails, QueryFails, FinishFails, RecordLost, Crash, message
    <2>4. ASSUME NEW s \in Stages, Lapse(s) \/ Cleanup(s) PROVE status' = status
      BY <2>4 DEF Lapse, Cleanup, AfterFailure, message
    <2>5. Stall => status' = status
      BY DEF Stall, message
    <2> QED
      BY <2>1, <2>2, <2>3, <2>4, <2>5 DEF Next
  <1> QED
    BY <1>1, PTL DEF Spec, SentStays

-----------------------------------------------------------------------------
(***************************************************************************)
(* The message implements MessageLife.                                     *)
(***************************************************************************)
\* The row knows the provider's id of accepted messages only.
KnownWasAccepted == known => SomeAccepted

Own == accepts["PRIMARY"] + accepts["FALLBACK"]

LEMMA ToldIsAccepted == ASSUME TypeOK, SomeAccepted, AcceptedOnce PROVE Life!Told
  <1>1. /\ accepts["PRIMARY"] \in 0 .. 1 /\ accepts["FALLBACK"] \in 0 .. 1
        /\ accepts["default"] \in 0 .. 1
    BY StageFacts DEF TypeOK
  <1>2. PICK c \in {"PRIMARY", "FALLBACK", "default"} : accepts[c] = 1
    BY DEF SomeAccepted, Channels, Stages
  <1>3. Own = 1 \/ accepts["default"] = 1
    BY <1>1, <1>2 DEF AcceptedOnce, Own
  <1> QED
    BY <1>3 DEF Life!Told, Own

\* Only the two requests change what providers accepted.
LEMMA OnlyRequestsAccept ==
  ASSUME [Next]_vars PROVE accepts' = accepts \/ \E p \in Runners : Request(p) \/ RequestDefault(p)
  <1>1. ASSUME NEW p \in Runners, Dispatch(p) \/ Activate(p) \/ AskResend(p)
        PROVE  accepts' = accepts
    BY <1>1 DEF Dispatch, Activate, AskResend
  <1>2. ASSUME NEW p \in Runners, Progress(p), ~Request(p), ~RequestDefault(p)
        PROVE  accepts' = accepts
    BY <1>2 DEF Progress, Add, Skip, Start, ClaimElsewhere, Prepare, ClaimSend, ClaimSettled,
       Finish, Answer, RecordRetry, RecordSent, RecordFailed, FindJob, Requeue, Remove, OnlyRun
  <1>3. ASSUME NEW p \in Runners, RunnerFails(p) PROVE accepts' = accepts
    BY <1>3 DEF RunnerFails, AddFails, QueryFails, FinishFails, RecordLost, Crash
  <1>4. ASSUME NEW s \in Stages, Lapse(s) \/ Cleanup(s) PROVE accepts' = accepts
    BY <1>4 DEF Lapse, Cleanup
  <1>5. Stall \/ Report \/ UNCHANGED vars => accepts' = accepts
    BY DEF Stall, Report, vars
  <1> QED
    BY <1>1, <1>2, <1>3, <1>4, <1>5 DEF Next

\* What is accepted stays accepted.
LEMMA AcceptedStays == ASSUME IInv, [Next]_vars, SomeAccepted PROVE SomeAccepted'
  <1>1. CASE accepts' = accepts
    BY <1>1 DEF SomeAccepted
  <1>2. ASSUME NEW p \in Runners, Request(p) PROVE SomeAccepted'
    <2>1. accepts[run[p].stage] = 0
      BY <1>2 DEF IInv, RunnerKnows, Request
    <2>2. PICK acc \in BOOLEAN : accepts' = [accepts EXCEPT ![run[p].stage] = IF acc THEN @ + 1 ELSE @]
      BY <1>2 DEF Request
    <2> QED
      BY <2>1, <2>2 DEF SomeAccepted, IInv, TypeOK
  <1>3. ASSUME NEW p \in Runners, RequestDefault(p) PROVE SomeAccepted'
    <2>1. PICK acc \in BOOLEAN : accepts' = [accepts EXCEPT !["default"] = IF acc THEN 1 ELSE @]
      BY <1>3 DEF RequestDefault
    <2> QED
      BY <2>1 DEF SomeAccepted, IInv, TypeOK
  <1> QED
    BY <1>1, <1>2, <1>3, OnlyRequestsAccept

\* Only an attempt that was answered "accepted" writes the provider's id.
LEMMA KnownStep ==
  ASSUME [Next]_vars PROVE known' = known \/ \E p \in Runners : RecordSent(p)
  <1>1. ASSUME NEW p \in Runners, Dispatch(p) \/ Activate(p) \/ AskResend(p)
        PROVE  known' = known
    BY <1>1 DEF Dispatch, Activate, AskResend, message
  <1>2. ASSUME NEW p \in Runners, Progress(p), ~RecordSent(p) PROVE known' = known
    BY <1>2 DEF Progress, Add, Skip, Start, ClaimElsewhere, Prepare, ClaimSend, ClaimSettled,
       Request, RequestDefault, Finish, Answer, RecordRetry, RecordFailed, FindJob, Requeue, Remove,
       OnlyRun, message
  <1>3. ASSUME NEW p \in Runners, RunnerFails(p) PROVE known' = known
    BY <1>3 DEF RunnerFails, AddFails, QueryFails, FinishFails, RecordLost, Crash, message
  <1>4. ASSUME NEW s \in Stages, Lapse(s) \/ Cleanup(s) PROVE known' = known
    BY <1>4 DEF Lapse, Cleanup, message
  <1>5. Stall \/ Report \/ UNCHANGED vars => known' = known
    BY DEF Stall, Report, vars, message
  <1> QED
    BY <1>1, <1>2, <1>3, <1>4, <1>5 DEF Next

LEMMA KnownInv == ASSUME IInv, KnownWasAccepted, [Next]_vars PROVE KnownWasAccepted'
  <1>1. CASE known' = known
    BY <1>1, AcceptedStays DEF KnownWasAccepted
  <1>2. ASSUME NEW p \in Runners, RecordSent(p) PROVE KnownWasAccepted'
    <2>1. SomeAccepted
      BY <1>2 DEF RecordSent, IInv, RunnerKnows
    <2> QED
      BY <2>1, AcceptedStays DEF KnownWasAccepted
  <1> QED
    BY <1>1, <1>2, KnownStep

\* An acceptance by a provider of the hotel's own is the first of them.
LEMMA RequestRefines ==
  ASSUME IInv, AcceptedOnce', NEW p \in Runners, Request(p)
  PROVE  Life!TakenByOwn \/ UNCHANGED <<status, Own, accepts["default"] = 1>>
  <1> DEFINE s == run[p].stage
  <1>1. /\ s \in {"PRIMARY", "FALLBACK"} /\ accepts[s] = 0 /\ accepts \in [Channels -> 0 .. 1]
    BY DEF IInv, RunnerKnows, Request, TypeOK, Acts, Stages
  <1>2. PICK acc \in BOOLEAN : accepts' = [accepts EXCEPT ![s] = IF acc THEN @ + 1 ELSE @]
    BY DEF Request
  <1>3. status' = status
    BY DEF Request, message
  <1>4. /\ accepts["PRIMARY"] \in 0 .. 1 /\ accepts["FALLBACK"] \in 0 .. 1
        /\ accepts'["default"] = accepts["default"]
    BY <1>1, <1>2, StageFacts
  <1>5. CASE acc
    <2>1. Own' = Own + 1
      BY <1>1, <1>2, <1>4, <1>5, StageFacts DEF Own
    <2>2. Own = 0 /\ Own' = 1
      BY <2>1, <1>4 DEF Own, AcceptedOnce
    <2> QED
      BY <2>2, <1>3, <1>4 DEF Life!TakenByOwn, Own
  <1>6. CASE ~acc
    <2>1. accepts' = accepts
      BY <1>1, <1>2, <1>6
    <2> QED
      BY <2>1, <1>3 DEF Own
  <1> QED
    BY <1>5, <1>6

LEMMA RequestDefaultRefines ==
  ASSUME IInv, NEW p \in Runners, RequestDefault(p)
  PROVE  Life!TakenByMust \/ UNCHANGED <<status, Own, accepts["default"] = 1>>
  <1>1. PICK acc \in BOOLEAN : accepts' = [accepts EXCEPT !["default"] = IF acc THEN 1 ELSE @]
    BY DEF RequestDefault
  <1>2. status' = status /\ accepts \in [Channels -> 0 .. 1]
    BY DEF RequestDefault, message, IInv, TypeOK
  <1>3. /\ accepts'["PRIMARY"] = accepts["PRIMARY"] /\ accepts'["FALLBACK"] = accepts["FALLBACK"]
        /\ accepts'["default"] = IF acc THEN 1 ELSE accepts["default"]
    BY <1>1, <1>2, StageFacts
  <1> QED
    BY <1>2, <1>3 DEF Life!TakenByMust, Own

\* Every other step accepts nothing, and moves the row as MessageLife allows.
RowMoves == Life!Ask \/ Life!Confirm \/ Life!GiveUp \/ Life!AskAgain \/ Life!Reported

LEMMA RowRefines ==
  ASSUME IInv, KnownWasAccepted, AcceptedOnce, Next, accepts' = accepts, status' # status
  PROVE  RowMoves
  <1> USE DEF RowMoves
  <1>1. TypeOK /\ (SomeAccepted => Life!Told)
    BY ToldIsAccepted DEF IInv
  <1>2. ASSUME NEW p \in Runners, Dispatch(p) \/ Activate(p) \/ AskResend(p) PROVE Life!Ask
    BY <1>2 DEF Dispatch, Activate, AskResend, message, Life!Ask
  <1>3. ASSUME NEW p \in Runners, Progress(p) PROVE RowMoves
    <2>1. Skip(p) \/ RecordSent(p) \/ RecordFailed(p) \/ Requeue(p)
      BY <1>3 DEF Progress, Add, Start, ClaimElsewhere, Prepare, ClaimSend, ClaimSettled, Request,
         RequestDefault, Finish, Answer, RecordRetry, FindJob, Remove, OnlyRun, message
    <2>2. CASE Skip(p)
      BY <2>2 DEF Skip, Life!GiveUp
    <2>3. CASE RecordSent(p)
      <3>1. SomeAccepted
        BY <2>3 DEF RecordSent, IInv, RunnerKnows
      <3>2. status \in {"QUEUED", "FAILED"} /\ status' = "SENT"
        BY <2>3 DEF RecordSent
      <3> QED
        BY <3>1, <3>2, <1>1 DEF Life!Confirm
    <2>4. CASE RecordFailed(p)
      BY <2>4 DEF RecordFailed, AfterFailure, Life!GiveUp
    <2>5. CASE Requeue(p)
      BY <2>5 DEF Requeue, Life!AskAgain
    <2> QED
      BY <2>1, <2>2, <2>3, <2>4, <2>5
  <1>4. ASSUME NEW p \in Runners, RunnerFails(p) PROVE FALSE
    BY <1>4 DEF RunnerFails, AddFails, QueryFails, FinishFails, RecordLost, Crash, message
  <1>5. ASSUME NEW s \in Stages, Lapse(s) \/ Cleanup(s) PROVE Life!GiveUp
    BY <1>5 DEF Lapse, Cleanup, AfterFailure, message, Life!GiveUp
  <1>6. CASE Stall
    BY <1>6 DEF Stall, message
  <1>7. CASE Report
    BY <1>1, <1>7 DEF Report, KnownWasAccepted, Life!Reported
  <1> QED
    BY <1>2, <1>3, <1>4, <1>5, <1>6, <1>7 DEF Next

\* What staff read in the row is true, whatever dispatches, jobs handed out
\* twice, crashes, lost answers and resends did at once: the message implements
\* MessageLife, so SENT and every report of the provider follow an acceptance,
\* no second request to the hotel's own accounts is accepted, COMPLAINED is
\* final, and only a complaint changes SUPPRESSED or BOUNCED.
THEOREM MailKeepsItsWord == Spec => ImplementsMessageLife
  <1>1. Init => Life!Init
    BY StageFacts DEF Init, Life!Init
  <1>2. Init => KnownWasAccepted
    BY DEF Init, KnownWasAccepted
  <1>3. IInv /\ KnownWasAccepted /\ [Next]_vars => KnownWasAccepted'
    BY KnownInv
  <1>4. IInv /\ IInv' /\ KnownWasAccepted /\ [Next]_vars
          => [Life!Next]_<<status, Own, accepts["default"] = 1>>
    <2> SUFFICES ASSUME IInv, IInv', KnownWasAccepted, [Next]_vars
                 PROVE  Life!Next \/ UNCHANGED <<status, Own, accepts["default"] = 1>>
      OBVIOUS
    <2>1. AcceptedOnce /\ AcceptedOnce'
      BY OnceFollows, PTL
    <2>2. ASSUME NEW p \in Runners, Request(p) \/ RequestDefault(p)
          PROVE  Life!Next \/ UNCHANGED <<status, Own, accepts["default"] = 1>>
      BY <2>1, <2>2, RequestRefines, RequestDefaultRefines DEF Life!Next
    <2>3. CASE accepts' = accepts /\ status' # status
      <3>1. Next
        BY <2>3 DEF vars, message
      <3> QED
        BY <3>1, <2>1, <2>3, RowRefines DEF RowMoves, Life!Next
    <2>4. CASE accepts' = accepts /\ status' = status
      BY <2>4 DEF Own
    <2> QED
      BY <2>2, <2>3, <2>4, OnlyRequestsAccept
  <1> QED
    BY <1>1, <1>2, <1>3, <1>4, Invariance, PTL DEF Spec, ImplementsMessageLife, Life!Spec, Own
=============================================================================
