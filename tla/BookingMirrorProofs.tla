------------------------ MODULE BookingMirrorProofs ------------------------
(***************************************************************************)
(* Machine-checked proofs about BookingMirror, for any number of webhooks  *)
(* and importers, any skew, and any number of versions and writes.         *)
(***************************************************************************)
EXTENDS BookingMirror, TLAPS

\* Clock is never behind what MUST knows of it, and its newest version has one
\* status.
ClockLeads ==
  /\ clk.ver >= 1 /\ shows <= clk.ver /\ cancelling <= clk.ver
  /\ cancelling > 0 => shows <= cancelling
  /\ \A p \in Readers :
       /\ got[p].ver <= clk.ver
       /\ got[p].ver = clk.ver => got[p].state = clk.state
       /\ rpc[p] \in {"answered", "mail"} => got[p].ver >= 1
       /\ rpc[p] \in {"idle", "asking"} => got[p] = NoAnswer

SameVersionSameState ==
  \A p, q \in Readers : got[p].ver = got[q].ver => got[p].state = got[q].state

\* An answer to a reader whose row nobody changed is not older than the row.
FreshIsNewer ==
  \A p \in Readers : fresh[p] /\ rpc[p] = "answered" => shows <= got[p].ver

\* A booking is in the state of the answer, as far as that can be read.
Agrees(isCancelled, st) == st # "unknown" => isCancelled = (st = "cancelled")

\* What version v of the reservation says, as far as anybody knows of it.
Says(v, isCancelled) ==
  /\ v = clk.ver => Agrees(isCancelled, clk.state)
  /\ \A p \in Readers : v = got[p].ver => Agrees(isCancelled, got[p].state)

\* A booking without a link shows no version, and nobody cancels it in Clock.
Unlinked == link # "linked" => shows = 0 /\ cancelling = 0

\* The row's state is that of the version it shows; the version that a
\* cancellation made is newer than the row's, and cancelled.
RowIsTrue ==
  /\ shows > 0 => Says(shows, cancelled)
  /\ cancelling > 0 => shows < cancelling /\ Says(cancelling, TRUE)

\* Staff were told, and are about to be told, of versions the row has taken.
Past(v) == v <= shows /\ (v = shows => cancelled)

Owes(h) == got[h].state = "cancelled" /\ Past(got[h].ver) /\ told[got[h].ver] = 0

ToldIsPast ==
  /\ \A v \in Versions : told[v] # 0 => told[v] = 1 /\ Past(v)
  /\ \A h \in Readers : rpc[h] = "mail" => Owes(h)
  /\ \A h, k \in Readers :
       rpc[h] = "mail" /\ rpc[k] = "mail" /\ got[h].ver = got[k].ver => h = k

Relations ==
  /\ ClockLeads /\ SameVersionSameState /\ FreshIsNewer /\ Unlinked /\ RowIsTrue
  /\ ToldIsPast

IInv == TypeOK /\ Relations

-----------------------------------------------------------------------------
LEMMA NoAnswerFacts == NoAnswer \in Answers /\ NoAnswer.ver = 0
  BY BookingMirrorAssumption DEF NoAnswer, Answers, Time, Versions, ClockStatuses

\* The initial states satisfy the inductive invariant.
LEMMA InitInv == Init => IInv
  <1> SUFFICES ASSUME Init PROVE IInv
    OBVIOUS
  <1> USE BookingMirrorAssumption, NoAnswerFacts DEF Init
  <1>1. TypeOK
    <2>1. clk \in Answers /\ clk.stamp \in Time
      BY DEF Answers, Time, Versions, ClockStatuses
    <2>2. now \in Time /\ shows \in Versions \cup {0} /\ src \in Time \cup {Never}
          /\ updated \in Time /\ cancelling \in Versions \cup {0}
      BY DEF Time, Versions
    <2>3. rpc \in [Readers -> {"idle", "asking", "answered", "mail"}]
          /\ fresh \in [Readers -> BOOLEAN] /\ got \in [Readers -> Answers]
      OBVIOUS
    <2>4. mapped \in BOOLEAN /\ cancelled \in BOOLEAN
      BY Zenon
    <2>5. link \in {"none", "own", "linked"}
      OBVIOUS
    <2> QED
      BY <2>1, <2>2, <2>3, <2>4, <2>5 DEF TypeOK
  <1>2. ClockLeads
    <2>1. clk.ver = 1 /\ shows \in Nat /\ shows <= 1
      OBVIOUS
    <2>2. \A p \in Readers : got[p] = NoAnswer /\ rpc[p] = "idle"
      OBVIOUS
    <2> QED
      BY <2>1, <2>2 DEF ClockLeads
  <1>3. SameVersionSameState /\ FreshIsNewer /\ Unlinked /\ ToldIsPast
    BY DEF SameVersionSameState, FreshIsNewer, Unlinked, ToldIsPast
  <1>4. RowIsTrue
    <2>1. Agrees(cancelled, clk.state) /\ cancelling = 0
      BY DEF Agrees
    <2>2. \A p \in Readers : got[p].ver = 0
      OBVIOUS
    <2>3. ~(cancelling > 0) /\ (shows > 0 => \A p \in Readers : shows # got[p].ver)
      BY <2>1, <2>2
    <2> QED
      BY ONLY <2>1, <2>3, Zenon DEF RowIsTrue, Says
  <1> QED
    BY <1>1, <1>2, <1>3, <1>4 DEF IInv, Relations

\* What a new version of the reservation is.
LEMMA NextVersionFacts ==
  ASSUME TypeOK, NEW st \in ClockStatuses, NextVersion(st)
  PROVE  clk' \in Answers /\ clk'.stamp \in Time /\ clk'.ver = clk.ver + 1
  BY BookingMirrorAssumption DEF TypeOK, NextVersion, Answers, Time, Versions

LEMMA CountOneMore ==
  ASSUME NEW f \in [Versions -> Nat], NEW v
  PROVE  [f EXCEPT ![v] = @ + 1] \in [Versions -> Nat]
  <1>1. \A w \in Versions : [f EXCEPT ![v] = @ + 1][w] \in Nat
    OBVIOUS
  <1> QED
    BY <1>1

\* Every step preserves types.
LEMMA TypeStep ==
  ASSUME TypeOK, [Next]_vars
  PROVE  TypeOK'
  <1> USE BookingMirrorAssumption, NoAnswerFacts DEF TypeOK, row, reading
  <1>1. CASE Tick \/ ConfirmMapping \/ LocalWrite \/ SaveLink \/ CancelUnlinked
    <2>1. CASE Tick
      BY <2>1 DEF Tick, Time
    <2>2. CASE ConfirmMapping
      BY <2>2 DEF ConfirmMapping
    <2>3. CASE LocalWrite
      BY <2>3 DEF LocalWrite, Overtaken
    <2>4. CASE SaveLink \/ CancelUnlinked
      BY <2>4 DEF SaveLink, CancelUnlinked, Overtaken
    <2> QED
      BY <1>1, <2>1, <2>2, <2>3, <2>4
  <1>2. CASE ClockEdit
    BY <1>2, NextVersionFacts DEF ClockEdit
  <1>3. CASE CancelInClock
    <2>1. clk' \in Answers /\ clk'.stamp \in Time /\ clk'.ver = clk.ver + 1
      BY <1>3, NextVersionFacts DEF CancelInClock, ClockStatuses
    <2>2. clk'.ver \in Versions \cup {0}
      BY <2>1 DEF Answers
    <2> QED
      BY <1>3, <2>1, <2>2 DEF CancelInClock
  <1>4. CASE CancelCommit \/ CancelUndone
    BY <1>4 DEF CancelCommit, CancelUndone, Overtaken
  <1>5. ASSUME NEW p \in Readers, ReaderStep(p)
        PROVE  TypeOK'
    <2>1. CASE Look(p)
      BY <2>1 DEF Look
    <2>2. CASE Fetch(p)
      <3>1. [clk EXCEPT !.stamp = Never] \in Answers
        BY DEF Answers
      <3> QED
        BY <2>2, <3>1 DEF Fetch
    <2>3. CASE LeaveOut(p)
      BY <2>3 DEF LeaveOut, Ends
    <2>7. CASE LinkOwn(p)
      BY <2>7 DEF LinkOwn, Ends, Overtaken
    <2>6. CASE GiveUp(p)
      BY <2>6 DEF GiveUp, Ends
    <2>4. CASE Apply(p)
      <3>1. /\ got[p].ver \in Versions \cup {0} /\ got[p].stamp \in Time \cup {Never}
            /\ UpdatedAt(p) \in Time
        BY DEF UpdatedAt, Answers
      <3>3. src' \in Time \cup {Never} /\ cancelled' \in BOOLEAN /\ link' = "linked"
        BY <2>4, <3>1 DEF Apply
      <3>2. rpc' \in [Readers -> {"idle", "asking", "answered", "mail"}]
            /\ got' \in [Readers -> Answers]
        BY <2>4 DEF Apply, Ends
      <3> QED
        BY <2>4, <3>1, <3>2, <3>3 DEF Apply, Overtaken
    <2>5. CASE NotifyStaff(p)
      <3>1. told' = [told EXCEPT ![got[p].ver] = @ + 1]
        BY <2>5 DEF NotifyStaff
      <3>2. told' \in [Versions -> Nat]
        BY <3>1, CountOneMore
      <3> QED
        BY <2>5, <3>2 DEF NotifyStaff, Ends
    <2> QED
      BY <1>5, <2>1, <2>2, <2>3, <2>4, <2>5, <2>6, <2>7 DEF ReaderStep
  <1>6. CASE UNCHANGED vars
    BY <1>6 DEF vars
  <1> QED
    BY <1>1, <1>2, <1>3, <1>4, <1>5, <1>6 DEF Next

-----------------------------------------------------------------------------
\* Versions are numbers.
LEMMA Numbers ==
  ASSUME TypeOK
  PROVE  /\ clk.ver \in Nat /\ shows \in Nat /\ cancelling \in Nat
         /\ clk.state \in ClockStatuses /\ cancelled \in BOOLEAN
         /\ \A p \in Readers : got[p].ver \in Nat /\ got[p].state \in ClockStatuses
         /\ \A v \in Versions : v \in Nat /\ told[v] \in Nat
  BY BookingMirrorAssumption DEF TypeOK, Answers, Versions

\* A new version in Clock leaves every relation true: nobody knows it yet.
LEMMA VersionStep ==
  ASSUME IInv, NEW st \in ClockStatuses, NextVersion(st),
         UNCHANGED <<row, reading, told>>,
         \/ cancelling' = cancelling
         \/ st = "cancelled" /\ link = "linked" /\ cancelling = 0 /\ cancelling' = clk.ver + 1
  PROVE  Relations'
  <1>1. /\ clk'.ver = clk.ver + 1 /\ clk'.state = st
        /\ UNCHANGED <<link, shows, cancelled, rpc, fresh, got, told>>
    BY DEF NextVersion, row, reading
  <1>2. ClockLeads'
    BY <1>1, Numbers DEF IInv, Relations, ClockLeads
  <1>3. RowIsTrue'
    <2>1. shows <= clk.ver /\ shows # clk.ver + 1 /\ \A p \in Readers : got[p].ver # clk.ver + 1
      BY Numbers DEF IInv, Relations, ClockLeads
    <2>2. shows > 0 => Says(shows, cancelled)'
      BY <1>1, <2>1 DEF IInv, Relations, RowIsTrue, Says
    <2>3. CASE cancelling' = cancelling
      <3>1. cancelling # clk.ver + 1
        BY Numbers DEF IInv, Relations, ClockLeads
      <3> QED
        BY <1>1, <2>2, <2>3, <3>1 DEF IInv, Relations, RowIsTrue, Says
    <2>4. CASE st = "cancelled" /\ cancelling' = clk.ver + 1
      BY <1>1, <2>1, <2>2, <2>4, Numbers DEF IInv, RowIsTrue, Says, Agrees
    <2> QED
      BY <2>3, <2>4
  <1> QED
    BY <1>1, <1>2, <1>3
    DEF IInv, Relations, SameVersionSameState, FreshIsNewer, Unlinked, ToldIsPast, Past, Owes

\* A row that is written shows what its reader was answered, which is at least
\* as new.
LEMMA ApplyFacts ==
  ASSUME IInv, NEW p \in Readers, Apply(p)
  PROVE  /\ 1 <= got[p].ver /\ shows <= got[p].ver /\ shows' = got[p].ver
         /\ Agrees(cancelled', got[p].state) /\ cancelled' \in BOOLEAN
         /\ got[p].ver = shows => cancelled' = cancelled
         /\ link' = "linked" /\ cancelling = 0 /\ cancelling' = 0 /\ clk' = clk /\ told' = told
         /\ rpc[p] = "answered"
  <1>1. /\ rpc[p] = "answered" /\ cancelling = 0 /\ ~Stale(p)
        /\ shows' = got[p].ver /\ link' = "linked"
        /\ cancelled' = IF got[p].state = "unknown" THEN cancelled ELSE got[p].state = "cancelled"
        /\ UNCHANGED <<clk, cancelling, told>>
    BY DEF Apply, Locks
  <1>2. 1 <= got[p].ver /\ shows <= got[p].ver
    BY <1>1, Numbers DEF IInv, Relations, ClockLeads, FreshIsNewer, Unlinked, Stale
  <1>3. got[p].ver = shows => cancelled' = cancelled
    BY <1>1, <1>2, Numbers DEF IInv, Relations, RowIsTrue, Says, Agrees
  <1>4. Agrees(cancelled', got[p].state) /\ cancelled' \in BOOLEAN
    BY <1>1, Numbers DEF Agrees, IInv
  <1> QED
    BY <1>1, <1>2, <1>3, <1>4

\* Writing a row keeps every relation.
LEMMA ApplyStep ==
  ASSUME IInv, NEW p \in Readers, Apply(p)
  PROVE  Relations'
  <1>1. /\ 1 <= got[p].ver /\ shows <= got[p].ver /\ shows' = got[p].ver
        /\ Agrees(cancelled', got[p].state) /\ cancelled' \in BOOLEAN
        /\ got[p].ver = shows => cancelled' = cancelled
        /\ link' = "linked" /\ cancelling = 0 /\ cancelling' = 0 /\ clk' = clk /\ told' = told
        /\ rpc[p] = "answered"
    BY ApplyFacts
  <1>2. /\ \A q \in Readers : q # p => rpc'[q] = rpc[q] /\ got'[q] = got[q]
        /\ \/ /\ rpc'[p] = "mail" /\ got'[p] = got[p]
              /\ got[p].state = "cancelled" /\ ~cancelled
           \/ rpc'[p] = "idle" /\ got'[p] = NoAnswer
    BY DEF IInv, TypeOK, Apply, Ends, TakesOver
  <1>3. ClockLeads'
    BY <1>1, <1>2, Numbers DEF IInv, Relations, ClockLeads, NoAnswer
  <1>4. SameVersionSameState'
    <2>1. ASSUME NEW q \in Readers, got[q].ver = 0 PROVE got[q] = NoAnswer
      BY <2>1, Numbers DEF IInv, TypeOK, Relations, ClockLeads
    <2> QED
      BY <1>2, <2>1, NoAnswerFacts DEF IInv, Relations, SameVersionSameState
  <1>5. FreshIsNewer' /\ Unlinked'
    BY <1>1 DEF Apply, Overtaken, FreshIsNewer, Unlinked
  <1>6. RowIsTrue'
    <2>1. got[p].ver = clk.ver => got[p].state = clk.state
      BY DEF IInv, Relations, ClockLeads
    <2>2. \A q \in Readers : got[p].ver = got'[q].ver => got[p].state = got'[q].state
      BY <1>1, <1>2, NoAnswerFacts, Numbers DEF IInv, Relations, SameVersionSameState
    <2> QED
      BY <1>1, <2>1, <2>2 DEF RowIsTrue, Says
  <1>7. ToldIsPast'
    <2>1. ASSUME NEW v \in Nat, Past(v) PROVE Past(v)' /\ (~cancelled => v # got[p].ver)
      BY <1>1, <2>1, Numbers DEF Past, IInv
    <2>2. \A v \in Versions : told[v] # 0 => told[v] = 1 /\ Past(v)
      BY DEF IInv, Relations, ToldIsPast
    <2>3. \A h \in Readers : rpc[h] = "mail" => Owes(h)
      BY DEF IInv, Relations, ToldIsPast
    <2>4. \A v \in Versions : told'[v] # 0 => told'[v] = 1 /\ Past(v)'
      BY <1>1, <2>1, <2>2, Numbers DEF IInv
    <2>5. \A h \in Readers : rpc'[h] = "mail" => Owes(h)'
      <3>1. ASSUME NEW h \in Readers, h # p, rpc'[h] = "mail"
            PROVE  Owes(h)'
        BY <1>1, <1>2, <2>1, <2>3, <3>1, Numbers DEF IInv, Past, Owes
      <3>2. ASSUME rpc'[p] = "mail"
            PROVE  Owes(p)'
        <4>1. got'[p] = got[p] /\ got[p].state = "cancelled" /\ ~cancelled
          BY <1>2, <3>2
        <4>2. got[p].ver \in Versions
          BY <1>1 DEF IInv, TypeOK, Answers
        <4>3. told[got[p].ver] = 0
          BY <2>1, <2>2, <4>1, <4>2, Numbers DEF IInv
        <4>4. Past(got[p].ver)'
          <5>1. got'[p].ver <= shows'
            BY <1>1, <4>1, Numbers DEF IInv
          <5>2. cancelled'
            BY <1>1, <4>1 DEF Agrees
          <5> QED
            BY <5>1, <5>2 DEF Past
        <4> QED
          BY <1>1, <4>1, <4>3, <4>4 DEF Past, Owes
      <3> QED
        BY <3>1, <3>2
    <2>6. \A h, k \in Readers :
            rpc'[h] = "mail" /\ rpc'[k] = "mail" /\ got'[h].ver = got'[k].ver => h = k
      <3>1. ASSUME NEW h \in Readers, h # p, rpc'[h] = "mail", rpc'[p] = "mail"
            PROVE  got'[h].ver # got'[p].ver
        BY <1>2, <2>1, <2>3, <3>1, Numbers DEF IInv, Owes
      <3> QED
        BY <1>2, <3>1 DEF IInv, Relations, ToldIsPast
    <2> QED
      BY <2>4, <2>5, <2>6 DEF ToldIsPast
  <1> QED
    BY <1>3, <1>4, <1>5, <1>6, <1>7 DEF Relations

\* A cancellation that commits keeps every relation.
LEMMA CancelStep ==
  ASSUME IInv, CancelCommit
  PROVE  Relations'
  <1>1. /\ cancelling > 0 /\ shows < cancelling /\ shows' = cancelling /\ cancelled' = TRUE
        /\ cancelling' = 0 /\ fresh' = Overtaken /\ Says(cancelling, TRUE)
        /\ UNCHANGED <<clk, link, rpc, got, told>>
    BY DEF CancelCommit, IInv, Relations, RowIsTrue
  <1>2. ClockLeads' /\ SameVersionSameState' /\ FreshIsNewer' /\ Unlinked'
    BY <1>1, Numbers
    DEF Overtaken, IInv, Relations, ClockLeads, SameVersionSameState, FreshIsNewer, Unlinked
  <1>3. RowIsTrue'
    <2>1. Says(shows, cancelled)'
      BY <1>1 DEF Says
    <2> QED
      BY <1>1, <2>1 DEF RowIsTrue
  <1>4. \A v \in Nat : Past(v) => Past(v)'
    BY <1>1, Numbers DEF Past, IInv
  <1>5. ToldIsPast'
    <2>1. \A v \in Versions : told'[v] # 0 => told'[v] = 1 /\ Past(v)'
      BY <1>1, <1>4, Numbers DEF IInv, Relations, ToldIsPast
    <2>2. \A h \in Readers : rpc'[h] = "mail" => Owes(h)'
      BY <1>1, <1>4, Numbers DEF IInv, Relations, ToldIsPast, Past, Owes
    <2> QED
      BY <1>1, <2>1, <2>2 DEF IInv, Relations, ToldIsPast
  <1> QED
    BY <1>2, <1>3, <1>5 DEF Relations

\* A reader that ends, with its mail sent or without.
LEMMA EndStep ==
  ASSUME IInv, NEW p \in Readers, LeaveOut(p) \/ NotifyStaff(p) \/ GiveUp(p)
  PROVE  Relations'
  <1>1. /\ UNCHANGED <<clk, link, shows, cancelled, cancelling>>
        /\ rpc' = [rpc EXCEPT ![p] = "idle"] /\ got' = [got EXCEPT ![p] = NoAnswer]
        /\ \A q \in Readers : q # p => fresh'[q] = fresh[q]
        /\ \/ told' = told
           \/ rpc[p] = "mail" /\ told' = [told EXCEPT ![got[p].ver] = @ + 1]
    BY DEF LeaveOut, NotifyStaff, GiveUp, Ends, row, IInv, TypeOK
  <1>2. /\ rpc'[p] = "idle" /\ got'[p] = NoAnswer
        /\ \A q \in Readers : q # p => rpc'[q] = rpc[q] /\ got'[q] = got[q]
    BY <1>1 DEF IInv, TypeOK
  <1>3. ClockLeads' /\ FreshIsNewer' /\ Unlinked'
    BY <1>1, <1>2, NoAnswerFacts, Numbers
    DEF IInv, Relations, ClockLeads, FreshIsNewer, Unlinked
  <1>4. SameVersionSameState'
    <2>1. ASSUME NEW q \in Readers, got[q].ver = 0 PROVE got[q] = NoAnswer
      BY <2>1, Numbers DEF IInv, TypeOK, Relations, ClockLeads
    <2> QED
      BY <1>2, <2>1, NoAnswerFacts DEF IInv, Relations, SameVersionSameState
  <1>5. RowIsTrue'
    <2>2. /\ shows > 0 => shows \in Nat \ {0}
          /\ cancelling > 0 => cancelling \in Nat \ {0}
      BY Numbers DEF IInv
    <2>4. /\ shows > 0 => Says(shows, cancelled)
          /\ cancelling > 0 => shows < cancelling /\ Says(cancelling, TRUE)
      BY DEF IInv, Relations, RowIsTrue
    <2>5. shows > 0 => Says(shows, cancelled)'
      <3>1. ASSUME shows > 0 PROVE Says(shows, cancelled)'
        <4>1. Says(shows, cancelled) /\ shows \in Nat \ {0}
          BY <2>2, <2>4, <3>1
        <4>2. \A q \in Readers : shows = got'[q].ver => q # p /\ got'[q] = got[q]
          BY <1>2, <4>1, NoAnswerFacts
        <4> QED
          BY <1>1, <4>1, <4>2 DEF Says
      <3> QED
        BY <3>1
    <2>6. cancelling > 0 => shows < cancelling /\ Says(cancelling, TRUE)'
      <3>1. ASSUME cancelling > 0 PROVE Says(cancelling, TRUE)'
        <4>1. Says(cancelling, TRUE) /\ cancelling \in Nat \ {0}
          BY <2>2, <2>4, <3>1
        <4>2. \A q \in Readers : cancelling = got'[q].ver => q # p /\ got'[q] = got[q]
          BY <1>2, <4>1, NoAnswerFacts
        <4> QED
          BY <1>1, <4>1, <4>2 DEF Says
      <3> QED
        BY <2>4, <3>1
    <2> QED
      BY <1>1, <2>5, <2>6 DEF RowIsTrue
  <1>6. ToldIsPast'
    <2>1. \A h \in Readers : rpc'[h] = "mail" =>
            /\ h # p /\ rpc[h] = "mail" /\ got'[h] = got[h]
            /\ Owes(h)
      BY <1>2 DEF IInv, Relations, ToldIsPast
    <2>2. \A v : Past(v)' <=> Past(v)
      BY <1>1 DEF Past
    <2>3. CASE told' = told
      BY <1>1, <2>1, <2>2, <2>3 DEF IInv, Relations, ToldIsPast, Past, Owes
    <2>4. CASE rpc[p] = "mail" /\ told' = [told EXCEPT ![got[p].ver] = @ + 1]
      <3>1. told[got[p].ver] = 0 /\ Past(got[p].ver)
        BY <2>4 DEF IInv, Relations, ToldIsPast, Owes
      <3>2. \A v \in Versions : IF v = got[p].ver THEN told'[v] = 1 ELSE told'[v] = told[v]
        BY <2>4, <3>1, Numbers DEF IInv, TypeOK
      <3>3. \A v \in Versions : told'[v] # 0 => told'[v] = 1 /\ Past(v)'
        BY <2>2, <3>1, <3>2 DEF IInv, Relations, ToldIsPast
      <3>4. \A h \in Readers : rpc'[h] = "mail" => got[h].ver # got[p].ver
        BY <2>1, <2>4 DEF IInv, Relations, ToldIsPast
      <3>5. \A v : v # got[p].ver => told'[v] = told[v]
        BY <2>4
      <3>6. \A h \in Readers : rpc'[h] = "mail" => Owes(h)'
        BY <1>1, <2>1, <2>2, <3>4, <3>5 DEF Past, Owes
      <3> QED
        BY <2>1, <3>3, <3>6 DEF IInv, Relations, ToldIsPast
    <2> QED
      BY <1>1, <2>3, <2>4
  <1> QED
    BY <1>3, <1>4, <1>5, <1>6 DEF Relations

\* A reader that starts, or is answered by Clock.
LEMMA AskStep ==
  ASSUME IInv, NEW p \in Readers, Look(p) \/ Fetch(p)
  PROVE  Relations'
  <1>1. CASE Look(p)
    BY <1>1
    DEF Look, IInv, TypeOK, Relations, ClockLeads, SameVersionSameState, FreshIsNewer, Unlinked,
        RowIsTrue, Says, ToldIsPast, Past, Owes, row
  <1>2. CASE Fetch(p)
    <2>1. /\ rpc[p] = "asking" /\ rpc'[p] = "answered"
          /\ got'[p].ver = clk.ver /\ got'[p].state = clk.state
          /\ \A q \in Readers : q # p => rpc'[q] = rpc[q] /\ got'[q] = got[q]
          /\ UNCHANGED <<clk, link, shows, cancelled, cancelling, fresh, told>>
      BY <1>2 DEF Fetch, row, IInv, TypeOK, Answers
    <2>2. ClockLeads' /\ SameVersionSameState' /\ FreshIsNewer' /\ Unlinked'
      BY <2>1, Numbers
      DEF IInv, Relations, ClockLeads, SameVersionSameState, FreshIsNewer, Unlinked
    <2>3. RowIsTrue'
      BY <2>1 DEF IInv, Relations, RowIsTrue, Says
    <2>4. ToldIsPast'
      BY <2>1 DEF IInv, Relations, ToldIsPast, Past, Owes
    <2> QED
      BY <2>2, <2>3, <2>4 DEF Relations
  <1> QED
    BY <1>1, <1>2

\* A booking that waits for its link shows no version yet, so that neither the
\* link nor its cancellation says anything of one.
LEMMA LinkStep ==
  ASSUME IInv, \/ SaveLink \/ CancelUnlinked
               \/ \E p \in Readers : LinkOwn(p)
  PROVE  Relations'
  <1>1. /\ shows = 0 /\ cancelling = 0 /\ shows' = 0 /\ cancelling' = 0
        /\ UNCHANGED <<clk, told>>
        /\ \A q \in Readers : fresh'[q] => fresh[q] /\ rpc'[q] = rpc[q] /\ got'[q] = got[q]
        /\ \A q \in Readers : \/ rpc'[q] = rpc[q] /\ got'[q] = got[q]
                              \/ rpc'[q] = "idle" /\ got'[q] = NoAnswer
    BY DEF SaveLink, CancelUnlinked, LinkOwn, Locks, Ends, Overtaken, reading, IInv, TypeOK,
           Relations, Unlinked
  <1>2. ClockLeads' /\ FreshIsNewer' /\ Unlinked' /\ RowIsTrue'
    BY <1>1, NoAnswerFacts, Numbers
    DEF IInv, Relations, ClockLeads, FreshIsNewer, Unlinked, RowIsTrue
  <1>3. SameVersionSameState'
    <2>1. ASSUME NEW q \in Readers, got[q].ver = 0 PROVE got[q] = NoAnswer
      BY <2>1, Numbers DEF IInv, TypeOK, Relations, ClockLeads
    <2> QED
      BY <1>1, <2>1, NoAnswerFacts DEF IInv, Relations, SameVersionSameState
  <1>4. ToldIsPast'
    <2>1. \A v \in Versions : v \in Nat /\ v >= 1
      BY BookingMirrorAssumption DEF Versions
    <2>2. \A v \in Versions : told[v] = 0
      BY <1>1, <2>1 DEF IInv, Relations, ToldIsPast, Past
    <2>3. \A h \in Readers : rpc[h] # "mail"
      BY <1>1, Numbers DEF IInv, Relations, ClockLeads, ToldIsPast, Owes, Past
    <2> QED
      BY <1>1, <2>2, <2>3 DEF ToldIsPast
  <1> QED
    BY <1>2, <1>3, <1>4 DEF Relations

\* Every step preserves the relations between Clock, row and readers.
LEMMA InvStep ==
  ASSUME IInv, [Next]_vars
  PROVE  IInv'
  <1>1. TypeOK'
    BY TypeStep DEF IInv
  <1>2. CASE ClockEdit
    BY <1>1, <1>2, VersionStep DEF ClockEdit, IInv
  <1>3. CASE CancelInClock
    BY <1>1, <1>3, VersionStep DEF CancelInClock, ClockStatuses, IInv
  <1>4. CASE UNCHANGED <<clk, link, shows, cancelled, cancelling, rpc, fresh, got, told>>
    BY <1>1, <1>4
    DEF IInv, Relations, ClockLeads, SameVersionSameState, FreshIsNewer, Unlinked, RowIsTrue,
        Says, ToldIsPast, Past, Owes
  <1>5. CASE LocalWrite
    BY <1>1, <1>5
    DEF LocalWrite, Overtaken, IInv, Relations, ClockLeads, SameVersionSameState, FreshIsNewer,
        Unlinked, RowIsTrue, Says, ToldIsPast, Past, Owes
  <1>6. CASE CancelUndone
    <2>1. UNCHANGED <<clk, link, shows, cancelled, rpc, fresh, got, told>> /\ cancelling' = 0
      BY <1>6 DEF CancelUndone, row, reading
    <2> QED
      BY <1>1, <2>1, Numbers
      DEF IInv, Relations, ClockLeads, SameVersionSameState, FreshIsNewer, Unlinked, RowIsTrue,
          Says, ToldIsPast, Past, Owes
  <1>7. CASE CancelCommit
    BY <1>1, <1>7, CancelStep DEF IInv
  <1>8. ASSUME NEW p \in Readers, ReaderStep(p) PROVE IInv'
    BY <1>1, <1>8, AskStep, ApplyStep, EndStep, LinkStep DEF ReaderStep, IInv
  <1>9. CASE Tick \/ ConfirmMapping \/ UNCHANGED vars
    BY <1>4, <1>9 DEF Tick, ConfirmMapping, vars, row, reading
  <1>10. CASE SaveLink \/ CancelUnlinked
    BY <1>1, <1>10, LinkStep DEF IInv
  <1> QED
    BY <1>2, <1>3, <1>5, <1>6, <1>7, <1>8, <1>9, <1>10 DEF Next

\* The inductive invariant holds in every reachable state.
LEMMA Invariance == Spec => []IInv
  BY InitInv, InvStep, PTL DEF Spec

\* Types of the row, of the reservation and of the readings.
THEOREM MirrorTypes == Spec => []TypeOK
  BY Invariance, PTL DEF IInv

\* However many webhooks read one cancellation, at once or later, staff are told
\* of it at most once, also when the row was reinstated and cancelled again in
\* between.
THEOREM OneMail == Spec => []OneMailPerCancellation
  <1>1. IInv => OneMailPerCancellation
    BY Numbers DEF IInv, Relations, ToldIsPast, OneMailPerCancellation
  <1> QED
    BY <1>1, Invariance, PTL

-----------------------------------------------------------------------------
\* A step changes what the row shows only by an answer that is at least as new
\* or by the cancellation that holds the row's lock.
LEMMA RowStep ==
  ASSUME IInv, [Next]_vars
  PROVE  \/ UNCHANGED <<shows, cancelled>>
         \/ /\ clk' = clk /\ shows <= shows' /\ shows' <= clk.ver
            /\ shows > 0 /\ shows' = shows => cancelled' = cancelled
  <1>1. ASSUME NEW p \in Readers, Apply(p)
        PROVE  /\ clk' = clk /\ shows <= shows' /\ shows' <= clk.ver
               /\ shows' = shows => cancelled' = cancelled
    BY <1>1, ApplyFacts DEF IInv, Relations, ClockLeads
  <1>2. CASE CancelCommit
    <2>1. clk' = clk /\ shows' = cancelling /\ shows < cancelling /\ cancelling <= clk.ver
      BY <1>2 DEF CancelCommit, IInv, Relations, ClockLeads, RowIsTrue
    <2> QED
      BY <2>1, Numbers DEF IInv
  <1>4. CASE CancelUnlinked
    <2>1. shows = 0 /\ shows' = shows /\ clk' = clk /\ clk.ver >= 1
      BY <1>4 DEF CancelUnlinked, IInv, Relations, Unlinked, ClockLeads
    <2> QED
      BY <2>1, Numbers DEF IInv
  <1>3. ASSUME ~CancelCommit, ~CancelUnlinked, ~ \E p \in Readers : Apply(p)
        PROVE  UNCHANGED <<shows, cancelled>>
    BY <1>3 DEF Next, vars, row, Tick, ClockEdit, ConfirmMapping, LocalWrite, SaveLink,
                CancelInClock, CancelUndone, ReaderStep, Look, Fetch, LeaveOut, LinkOwn,
                NotifyStaff, GiveUp
  <1> QED
    BY <1>1, <1>2, <1>3, <1>4

\* What happens to the reservation itself.
LEMMA ReservationStep ==
  ASSUME IInv, [Next]_vars
  PROVE  \/ clk' = clk
         \/ /\ clk'.ver > clk.ver /\ clk'.state \in ClockStatuses
            /\ UNCHANGED <<shows, cancelled>>
  <1>1. ASSUME NEW st \in ClockStatuses, NextVersion(st)
        PROVE  clk'.ver > clk.ver /\ clk'.state \in ClockStatuses
    BY <1>1, Numbers DEF NextVersion, IInv
  <1>2. CASE ClockEdit \/ CancelInClock
    BY <1>1, <1>2 DEF ClockEdit, CancelInClock, ClockStatuses, row
  <1>3. CASE ~ClockEdit /\ ~CancelInClock
    BY <1>3 DEF Next, vars, row, Tick, ConfirmMapping, LocalWrite, SaveLink, CancelUnlinked,
                CancelCommit, CancelUndone, ReaderStep, Look, Fetch, LeaveOut, LinkOwn, Apply,
                NotifyStaff, GiveUp
  <1> QED
    BY <1>2, <1>3

\* A row is a faithful copy of its reservation, whatever readings, local
\* changes, cancellations, skewed stamps and crashes come together: it never
\* goes back, has one state per version, and at the newest version Clock's.
THEOREM RowIsVersionedCopy == Spec => ImplementsVersionedCopy
  <1>1. Init => Copy!Init
    <2> SUFFICES ASSUME Init PROVE Copy!Init
      OBVIOUS
    <2>1. clk.ver = 1 /\ clk.state = "live" /\ shows \in 0 .. 1 /\ cancelled = FALSE
      BY DEF Init
    <2> QED
      BY <2>1 DEF Copy!Init, Copy!Faithful
  <1>2. IInv /\ IInv' /\ [Next]_vars => [Copy!Next]_Copy!vars
    <2> SUFFICES ASSUME IInv, IInv', [Next]_vars PROVE [Copy!Next]_Copy!vars
      OBVIOUS
    <2>1. clk.ver \in Nat /\ clk'.ver \in Nat /\ shows \in Nat /\ shows' \in Nat
          /\ cancelled' \in BOOLEAN /\ clk'.state \in ClockStatuses
      BY Numbers DEF IInv, TypeOK, Answers, Versions
    <2>2. Copy!Faithful'
      BY <2>1 DEF IInv, Relations, RowIsTrue, Says, Agrees, ClockStatuses, Copy!Faithful
    <2>3. CASE clk' # clk
      <3>1. Copy!Edit
        BY <2>1, <2>3, ReservationStep DEF Copy!Edit, ClockStatuses
      <3> QED
        BY <3>1 DEF Copy!Next
    <2>4. CASE clk' = clk /\ UNCHANGED <<shows, cancelled>>
      BY <2>4 DEF Copy!vars
    <2>5. CASE clk' = clk /\ ~UNCHANGED <<shows, cancelled>>
      <3>1. Copy!Take
        BY <2>1, <2>2, <2>5, RowStep DEF Copy!Take
      <3> QED
        BY <3>1 DEF Copy!Next
    <2> QED
      BY <2>3, <2>4, <2>5
  <1> QED
    BY <1>1, <1>2, Invariance, PTL DEF Spec, ImplementsVersionedCopy, Copy!Spec
=============================================================================
