------------------------- MODULE RefundLedgerProofs -------------------------
(***************************************************************************)
(* Machine-checked proofs about RefundLedger, for any charge and any       *)
(* number of commands, sweeps and faults.                                  *)
(***************************************************************************)
EXTENDS RefundLedger, TLAPS

\* Money of c that the ledger does not show yet.
Outstanding(c) == moved[c] > 0 /\ row[c] = "none"

\* The ledger has only rows of commands, ...
Clean == row[Reconciled] = "none"

\* ... and not the whole charge: only then can money still move.
Open == Clean /\ recorded < Charge

\* A row that a command may commit: its own, or one that is true of the gateway.
Sound(c, e) ==
  e.status \in {"REFUNDED", "PENDING"} =>
    \/ e.ref = c /\ moved[c] > 0 /\ e.amount = asked[c]
    \/ e.ref = Reconciled /\ e.status = "REFUNDED" /\ sent = Charge
    \/ row[e.ref] = "REFUNDED"

Plans ==
  \A c \in Commands :
    /\ Sound(c, plan[c])
    /\ pc[c] = "answered" =>
         \/ plan[c] = Failed
         \/ /\ plan[c].status \in {"REFUNDED", "PENDING"} /\ plan[c].ref = c
            /\ plan[c].amount = asked[c] /\ moved[c] > 0

Attempts ==
  \A c \in Commands :
    /\ moved[c] > 0 => attempt[c].stage # "none"
    /\ attempt[c].stage = "RETURNED" =>
         /\ attempt[c].status \in {"REFUNDED", "PENDING"}
         /\ (attempt[c].ref = c /\ moved[c] > 0) \/ row[attempt[c].ref] = "REFUNDED"

\* The ledger is behind the gateway by at most the money of one command.
Behind ==
  Clean =>
    /\ recorded <= sent
    /\ \A c \in Commands : Outstanding(c) => Blocks(c) /\ recorded + asked[c] <= sent
    /\ \A c, d \in Commands : Outstanding(c) /\ Outstanding(d) => c = d

\* It is behind by exactly that, while the hotel returned nothing elsewhere.
Tally ==
  Clean /\ ~elsewhere =>
    /\ (\A c \in Commands : ~Outstanding(c)) => recorded = sent
    /\ \A c \in Commands : Outstanding(c) => recorded + asked[c] = sent

\* One request is on its way, and nothing else is in doubt.
OneAtATime ==
  Open =>
    \A c \in Commands :
      /\ attempt[c].stage = "RETURNED" => attempt[c].ref = c
      /\ pc[c] \in {"sending", "answered"} => attempt[c].stage = "PREPARING"
      /\ pc[c] = "sending" => moved[c] = 0 /\ \A d \in Commands \ {c} : ~Blocks(d)

Reconciling ==
  /\ row[Reconciled] \in {"none", "REFUNDED"}
  /\ \A s \in Sweeps :
       /\ sweep[s].at # "idle" => sweep[s].op \in Commands
       /\ sweep[s].at \in {"behind", "mirrored"} => sent = Charge

IInv ==
  /\ TypeOK /\ BooksFollowMoney
  /\ Plans /\ Attempts /\ Behind /\ Tally /\ OneAtATime /\ Reconciling

-----------------------------------------------------------------------------
Entries == [status : Statuses, ref : Refs, amount : 0 .. Charge]
AttemptRows == [stage : {"none", "PREPARING", "UNCERTAIN", "RETURNED"}, status : Statuses, ref : Refs]
SweepRows == [at : {"idle", "behind", "mirrored", "alert"}, op : Commands \cup {Nobody},
              missing : 0 .. Charge]

LEMMA Records ==
  /\ NoEntry \in Entries /\ NoEntry.status = "none"
  /\ Failed \in Entries /\ Failed.status = "FAILED" /\ Failed.ref = Reconciled
  /\ Unsaved \in AttemptRows /\ Unsaved.stage = "none"
  /\ Asleep \in SweepRows /\ Asleep.at = "idle"
  BY RefundAssumption DEF NoEntry, Failed, Entry, Entries, Unsaved, Saved, AttemptRows, Asleep, At,
     SweepRows, Statuses, Refs

\* The initial state satisfies the inductive invariant.
LEMMA InitInv == Init => IInv
  <1> SUFFICES ASSUME Init PROVE IInv
    OBVIOUS
  <1> USE RefundAssumption, Records DEF Init
  <1>1. TypeOK
    <2>1. /\ plan \in [Commands -> Entries] /\ attempt \in [Commands -> AttemptRows]
          /\ sweep \in [Sweeps -> SweepRows]
      OBVIOUS
    <2>2. /\ row \in [Refs -> {"none", "PENDING", "REFUNDED"}] /\ clock \in [Refs -> 0 .. Charge]
          /\ moved \in [Commands -> {0, 1}]
      OBVIOUS
    <2>3. recorded \in Nat /\ sent \in 0 .. Charge /\ faults \in 0 .. MaxFaults
      BY SMT
    <2>4. elsewhere \in BOOLEAN
      BY Zenon
    <2>5. pc \in [Commands -> {"idle", "begun", "sending", "answered", "result", "mirrored"}]
      OBVIOUS
    <2> QED
      BY <2>1, <2>2, <2>3, <2>4, <2>5 DEF TypeOK, Entries, AttemptRows, SweepRows
  <1>2. BooksFollowMoney
    BY DEF BooksFollowMoney, Refs
  <1>3. Plans /\ Attempts
    BY DEF Plans, Attempts, Sound
  <1>4. Behind /\ Tally
    BY DEF Behind, Tally, Clean, Outstanding
  <1>5. OneAtATime
    BY DEF OneAtATime
  <1>6. Reconciling
    BY DEF Reconciling, Refs
  <1> QED
    BY <1>1, <1>2, <1>3, <1>4, <1>5, <1>6 DEF IInv

-----------------------------------------------------------------------------
\* Rounded division.
LEMMA Rounding ==
  ASSUME NEW n \in Nat, NEW d \in Nat \ {0}
  PROVE  /\ n \div d \in Nat
         /\ d * (n \div d) <= n /\ n < d * (n \div d) + d
  <1>1. n \div d \in Nat
    OBVIOUS
  <1>2. d * (n \div d) <= n
    OBVIOUS
  <1>3. n < d * (n \div d) + d
    OBVIOUS
  <1> QED
    BY <1>1, <1>2, <1>3

Rate(C, s, r, a) == (2 * a * (C - s) + (C - r)) \div (2 * (C - r))

\* What PokPay is asked for amount a, when s of the charge C went back and the
\* ledger has r: no more than what is left or than a, enough to bring what went
\* back to what the ledger will show, and exactly a if the two agree.
LEMMA RateFacts ==
  ASSUME NEW C \in Nat \ {0}, NEW s \in 0 .. C, NEW r \in Nat, r <= s,
         NEW a \in 1 .. C, a <= C - r
  PROVE  /\ Rate(C, s, r, a) \in Nat /\ Rate(C, s, r, a) <= C - s /\ Rate(C, s, r, a) <= a
         /\ r + a <= s + Rate(C, s, r, a)
         /\ s = r => Rate(C, s, r, a) = a
  <1> DEFINE R == C - r
             L == C - s
             n == 2 * a * L + R
             q == n \div (2 * R)
  <1>1. R \in Nat \ {0} /\ L \in Nat /\ a \in Nat /\ a <= R /\ L <= R /\ s - r = R - L
    OBVIOUS
  <1>2. n \in Nat /\ 2 * R \in Nat \ {0} /\ a * L \in Nat /\ a * R \in Nat
    BY <1>1
  <1>3. n = 2 * (a * L) + R
    BY <1>1
  <1> HIDE DEF R, L, n
  <1>4. q \in Nat /\ (2 * R) * q <= n /\ n < (2 * R) * q + 2 * R
    BY <1>2, Rounding
  <1> HIDE DEF q
  <1>5. ASSUME NEW k \in Nat, n < (2 * R) * k + 2 * R PROVE q <= k
    <2>1. SUFFICES ASSUME q >= k + 1 PROVE FALSE
      BY <1>4
    <2>2. (2 * R) * q >= (2 * R) * (k + 1)
      BY <1>1, <1>4, <2>1
    <2>3. (2 * R) * (k + 1) = (2 * R) * k + 2 * R
      BY <1>1
    <2> QED
      BY <1>1, <1>2, <1>4, <1>5, <2>2, <2>3
  <1>6. ASSUME NEW k \in Int, (2 * R) * k <= n PROVE k <= q
    <2>1. SUFFICES ASSUME k >= q + 1 PROVE FALSE
      BY <1>4
    <2>2. (2 * R) * k >= (2 * R) * (q + 1)
      BY <1>1, <1>4, <2>1
    <2>3. (2 * R) * (q + 1) = (2 * R) * q + 2 * R
      BY <1>1, <1>4
    <2> QED
      BY <1>1, <1>2, <1>4, <1>6, <2>2, <2>3
  <1>7. q <= L
    <2>1. a * L <= R * L
      BY <1>1
    <2>2. (2 * R) * L = 2 * (R * L) /\ R * L \in Nat
      BY <1>1
    <2>3. n < (2 * R) * L + 2 * R
      BY <1>1, <1>2, <1>3, <2>1, <2>2
    <2> QED
      BY <1>1, <1>5, <2>3
  <1>8. q <= a
    <2>1. a * L <= a * R
      BY <1>1
    <2>2. (2 * R) * a = 2 * (a * R)
      BY <1>1
    <2>3. n < (2 * R) * a + 2 * R
      BY <1>1, <1>2, <1>3, <2>1, <2>2
    <2> QED
      BY <1>1, <1>5, <2>3
  <1>9. a - (R - L) <= q
    <2> DEFINE e == R - L
    <2>1. e \in Nat /\ L = R - e
      BY <1>1
    <2> HIDE DEF e
    <2>2. a * L = a * R - a * e /\ a * e \in Nat /\ R * e \in Nat
      BY <1>1, <2>1
    <2>3. a * e <= R * e
      BY <1>1, <2>1
    <2>4. (2 * R) * (a - e) = 2 * (a * R) - 2 * (R * e)
      BY <1>1, <2>1
    <2>5. (2 * R) * (a - e) <= n
      BY <1>1, <1>2, <1>3, <2>2, <2>3, <2>4
    <2>6. a - e \in Int
      BY <1>1, <2>1
    <2>7. a - e <= q
      BY <1>6, <2>5, <2>6
    <2> QED
      BY <2>7 DEF e
  <1>10. r + a <= s + q /\ (s = r => q = a)
    BY <1>1, <1>4, <1>8, <1>9
  <1> QED
    BY <1>4, <1>7, <1>8, <1>10 DEF Rate, q, n, L, R

\* A gateway that has returned the whole charge returns no more.
LEMMA NothingLeft ==
  ASSUME TypeOK, NEW c \in Commands, sent = Charge
  PROVE  Returns(c) = 0
  <1> USE RefundAssumption
  <1>1. asked[c] \in 1 .. Charge /\ recorded \in Nat
    BY DEF TypeOK
  <1>2. CASE gateway = "pokpay" /\ asked[c] <= Charge - recorded
    <2> DEFINE R == Charge - recorded
    <2>1. R \in Nat \ {0} /\ Charge - sent = 0
      BY <1>1, <1>2
    <2>2. 2 * asked[c] * (Charge - sent) + R = R
      BY <1>1, <2>1
    <2> HIDE DEF R
    <2>3. R \div (2 * R) = 0
      <3>1. /\ R \div (2 * R) \in Nat /\ (2 * R) * (R \div (2 * R)) <= R
        BY <2>1, Rounding
      <3>2. SUFFICES ASSUME R \div (2 * R) >= 1 PROVE FALSE
        BY <3>1
      <3>3. (2 * R) * (R \div (2 * R)) >= 2 * R
        BY <2>1, <3>1, <3>2
      <3> QED
        BY <2>1, <3>1, <3>3
    <2> QED
      BY <1>2, <2>2, <2>3 DEF Returns, Share, R
  <1>3. CASE ~(gateway = "pokpay" /\ asked[c] <= Charge - recorded)
    BY <1>1, <1>3 DEF Returns
  <1> QED
    BY <1>2, <1>3

\* While money can move the ledger is open and no other command is in doubt.
LEMMA SendFacts ==
  ASSUME IInv, NEW c \in Commands, Send(c)
  PROVE  /\ Open /\ moved[c] = 0
         /\ attempt[c].stage = "PREPARING"
         /\ \A d \in Commands \ {c} : moved[d] > 0 => row[d] = "REFUNDED"
  <1>1. sent < Charge
    BY NothingLeft, RefundAssumption DEF IInv, TypeOK, Send
  <1>2. Clean
    BY <1>1, RefundAssumption DEF IInv, BooksFollowMoney, Clean, TypeOK
  <1>3. recorded < Charge
    BY <1>1, <1>2, RefundAssumption DEF IInv, Behind, TypeOK
  <1>4. Open /\ moved[c] = 0 /\ attempt[c].stage = "PREPARING"
        /\ \A d \in Commands \ {c} : ~Blocks(d) /\ (attempt[d].stage = "RETURNED" => attempt[d].ref = d)
    BY <1>2, <1>3 DEF Open, IInv, OneAtATime, Send
  <1> QED
    BY <1>4 DEF IInv, Attempts, Blocks

\* What the gateway returns for a command: something of what is left, which is
\* the amount asked unless the hotel returned money elsewhere.
LEMMA ReturnFacts ==
  ASSUME IInv, NEW c \in Commands, Send(c)
  PROVE  /\ Returns(c) \in 1 .. asked[c] /\ sent + Returns(c) <= Charge
         /\ recorded + asked[c] <= sent + Returns(c)
         /\ ~elsewhere => Returns(c) = asked[c] /\ recorded = sent
  <1> USE RefundAssumption
  <1>1. /\ asked[c] \in 1 .. Charge /\ recorded \in Nat /\ sent \in 0 .. Charge
        /\ recorded <= sent /\ Returns(c) > 0
        /\ gateway \in {"stripe", "pokpay"}
    BY SendFacts DEF IInv, TypeOK, Behind, Open, Send
  <1>2. ~elsewhere => recorded = sent
    BY SendFacts DEF IInv, Tally, Open, Outstanding
  <1>3. CASE gateway = "stripe"
    BY <1>1, <1>2, <1>3 DEF Returns
  <1>4. CASE gateway = "pokpay"
    <2>1. asked[c] <= Charge - recorded /\ Returns(c) = Share(asked[c])
      BY <1>1, <1>4 DEF Returns
    <2>2. /\ Share(asked[c]) \in Nat /\ Share(asked[c]) <= Charge - sent
          /\ Share(asked[c]) <= asked[c] /\ recorded + asked[c] <= sent + Share(asked[c])
          /\ sent = recorded => Share(asked[c]) = asked[c]
      <3>1. Share(asked[c]) = Rate(Charge, sent, recorded, asked[c])
        BY DEF Share, Rate
      <3>2. /\ Rate(Charge, sent, recorded, asked[c]) \in Nat
            /\ Rate(Charge, sent, recorded, asked[c]) <= Charge - sent
            /\ Rate(Charge, sent, recorded, asked[c]) <= asked[c]
            /\ recorded + asked[c] <= sent + Rate(Charge, sent, recorded, asked[c])
            /\ sent = recorded => Rate(Charge, sent, recorded, asked[c]) = asked[c]
        <4>1. /\ Charge \in Nat \ {0} /\ sent \in 0 .. Charge /\ recorded \in Nat
              /\ recorded <= sent /\ asked[c] \in 1 .. Charge /\ asked[c] <= Charge - recorded
          BY <1>1, <2>1
        <4> QED
          BY ONLY <4>1, RateFacts
      <3> QED
        BY <3>1, <3>2
    <2> QED
      BY <1>1, <1>2, <2>1, <2>2
  <1> QED
    BY <1>1, <1>3, <1>4

\* What a command commits to the ledger.
LEMMA InsertFacts ==
  ASSUME TypeOK, NEW e \in Entries, Insert(e)
  PROVE  /\ row' \in [Refs -> {"none", "PENDING", "REFUNDED"}] /\ recorded' \in Nat
         /\ recorded' >= recorded
         /\ \A r \in Refs : row[r] # "none" => row'[r] = row[r]
         /\ \/ UNCHANGED books
            \/ /\ row[e.ref] = "none" /\ e.status \in {"REFUNDED", "PENDING"}
               /\ row' = [row EXCEPT ![e.ref] = e.status] /\ recorded' = recorded + e.amount
  <1>1. e.ref \in Refs /\ e.amount \in Nat /\ recorded \in Nat
    BY RefundAssumption DEF Entries, TypeOK
  <1>2. CASE UNCHANGED books
    BY <1>1, <1>2 DEF TypeOK, books
  <1>3. CASE ~UNCHANGED books
    <2>1. /\ row[e.ref] = "none" /\ e.status \in {"REFUNDED", "PENDING"}
          /\ row' = [row EXCEPT ![e.ref] = e.status] /\ recorded' = recorded + e.amount
      BY <1>3 DEF books, Insert
    <2>2. row \in [Refs -> {"none", "PENDING", "REFUNDED"}]
      BY DEF TypeOK
    <2> QED
      BY <1>1, <2>1, <2>2
  <1> QED
    BY <1>2, <1>3

-----------------------------------------------------------------------------
\* Every step preserves types, and the gateway returns money once a command.
LEMMA TypeStep ==
  ASSUME IInv, [Next]_vars
  PROVE  TypeOK'
  <1> USE RefundAssumption, Records DEF books, provider
  <1>0. /\ TypeOK
        /\ plan \in [Commands -> Entries] /\ attempt \in [Commands -> AttemptRows]
        /\ sweep \in [Sweeps -> SweepRows]
    BY DEF IInv, TypeOK, Entries, AttemptRows, SweepRows
  <1>1. ASSUME NEW c \in Commands, Begin(c) \/ Refuse(c) \/ LoseTransaction(c) PROVE TypeOK'
    BY <1>0, <1>1 DEF Begin, Refuse, LoseTransaction, Fault, TypeOK
  <1>2. ASSUME NEW c \in Commands, AlreadyDone(c) PROVE TypeOK'
    <2>1. Charge - recorded \in 0 .. Charge \/ recorded >= Charge
      BY <1>0 DEF TypeOK
    <2>2. plan' \in [Commands -> Entries]
      BY <1>0, <1>2, <2>1 DEF AlreadyDone, Concludes, Entry, Entries, Statuses, Refs, TypeOK
    <2> QED
      BY <1>0, <1>2, <2>2 DEF AlreadyDone, Concludes, TypeOK, Entries
  <1>3. ASSUME NEW c \in Commands, Prepare(c) PROVE TypeOK'
    <2>1. attempt' \in [Commands -> AttemptRows]
      BY <1>0, <1>3 DEF Prepare, Saved, AttemptRows, Statuses, Refs
    <2> QED
      BY <1>0, <1>3, <2>1 DEF Prepare, TypeOK, AttemptRows
  <1>4. ASSUME NEW c \in Commands, Replay(c) PROVE TypeOK'
    <2>1. asked[c] \in 0 .. Charge /\ attempt[c].status \in Statuses /\ attempt[c].ref \in Refs
      BY <1>0 DEF TypeOK, AttemptRows
    <2>2. plan' \in [Commands -> Entries]
      BY <1>0, <1>4, <2>1 DEF Replay, Concludes, Entry, Entries
    <2> QED
      BY <1>0, <1>4, <2>2 DEF Replay, Concludes, TypeOK, Entries
  <1>5. ASSUME NEW c \in Commands, Send(c) PROVE TypeOK'
    <2>1. asked[c] \in 0 .. Charge /\ sent + Returns(c) \in 0 .. Charge
      BY <1>0, <1>5, ReturnFacts DEF TypeOK
    <2>2. plan' \in [Commands -> Entries] /\ pc' = [pc EXCEPT ![c] = "answered"]
      BY <1>0, <1>5, <2>1 DEF Send, Answered, AnswerTo, Entry, Entries, Statuses, Refs
    <2>3. moved' \in [Commands -> {0, 1}]
      <3>1. moved[c] = 0
        BY <1>5, SendFacts
      <3> QED
        BY <1>0, <1>5, <3>1 DEF Send, TypeOK
    <2> QED
      BY <1>0, <1>5, <2>1, <2>2, <2>3 DEF Send, TypeOK, Entries
  <1>6. ASSUME NEW c \in Commands, SendFails(c) \/ GiveUp(c) PROVE TypeOK'
    <2>1. plan' \in [Commands -> Entries]
      BY <1>0, <1>6 DEF SendFails, GiveUp, Answered
    <2> QED
      BY <1>0, <1>6, <2>1 DEF SendFails, GiveUp, Answered, TypeOK, Entries
  <1>7. ASSUME NEW c \in Commands, Persist(c) PROVE TypeOK'
    <2>1. plan[c].status \in Statuses /\ plan[c].ref \in Refs
      BY <1>0 DEF Entries
    <2>2. faults' \in 0 .. MaxFaults
      BY <1>0, <1>7 DEF Persist, Fault, TypeOK
    <2>3. \A stage \in {"UNCERTAIN", "RETURNED"} :
            Saved(stage, plan[c].status, plan[c].ref) \in AttemptRows
      BY <2>1 DEF Saved, AttemptRows
    <2>4. attempt' \in [Commands -> AttemptRows]
      BY <1>0, <1>7, <2>3 DEF Persist
    <2> QED
      BY <1>0, <1>7, <2>2, <2>4 DEF Persist, TypeOK, AttemptRows
  <1>8. ASSUME NEW c \in Commands, Mirror(c) PROVE TypeOK'
    <2>1. clock' \in [Refs -> 0 .. Charge]
      BY <1>0, <1>8 DEF Mirror, TypeOK, Entries, Refs
    <2> QED
      BY <1>0, <1>8, <2>1 DEF Mirror, TypeOK
  <1>9. ASSUME NEW c \in Commands, Commit(c) PROVE TypeOK'
    <2>1. plan[c] \in Entries /\ plan' \in [Commands -> Entries]
      BY <1>0, <1>9 DEF Commit
    <2> QED
      BY <1>0, <1>9, <2>1, InsertFacts DEF Commit, TypeOK, Entries
  <1>10. CASE RefundAtProvider
    BY <1>0, <1>10 DEF RefundAtProvider, TypeOK
  <1>11. ASSUME NEW s \in Sweeps, NEW c \in Commands, Look(s, c) PROVE TypeOK'
    <2>1. CASE LookComplete(s, c)
      <3>1. attempt' \in [Commands -> AttemptRows]
        BY <1>0, <2>1 DEF LookComplete, Saved, AttemptRows, Statuses
      <3> QED
        BY <1>0, <2>1, <3>1 DEF LookComplete, TypeOK, AttemptRows
    <2>2. CASE LookBehind(s, c)
      <3>1. Charge - recorded \in 0 .. Charge
        BY <1>0, <2>2 DEF TypeOK, LookBehind
      <3>2. sweep' \in [Sweeps -> SweepRows]
        BY <1>0, <2>2, <3>1 DEF LookBehind, Goto, At, SweepRows
      <3> QED
        BY <1>0, <2>2, <3>2 DEF LookBehind, TypeOK, SweepRows
    <2>3. CASE LookUnproved(s, c)
      <3>1. sweep' \in [Sweeps -> SweepRows]
        BY <1>0, <2>3 DEF LookUnproved, Goto, At, SweepRows
      <3> QED
        BY <1>0, <2>3, <3>1 DEF LookUnproved, TypeOK, SweepRows
    <2> QED
      BY <1>11, <2>1, <2>2, <2>3 DEF Look
  <1>12. ASSUME NEW s \in Sweeps, RecoverMirror(s) PROVE TypeOK'
    <2>1. clock' \in [Refs -> 0 .. Charge]
      BY <1>0, <1>12 DEF RecoverMirror, TypeOK, SweepRows, Refs
    <2>2. sweep' \in [Sweeps -> SweepRows]
      BY <1>0, <1>12 DEF RecoverMirror, Goto, SweepRows
    <2> QED
      BY <1>0, <1>12, <2>1, <2>2 DEF RecoverMirror, TypeOK, SweepRows
  <1>13. ASSUME NEW s \in Sweeps, RecoverCommit(s) PROVE TypeOK'
    <2>1. Entry("REFUNDED", Reconciled, sweep[s].missing) \in Entries
      BY <1>0 DEF Entry, Entries, SweepRows, Refs, Statuses
    <2>2. attempt' \in [Commands -> AttemptRows] /\ sweep' \in [Sweeps -> SweepRows]
      BY <1>0, <1>13 DEF RecoverCommit, Goto, Saved, AttemptRows, Statuses, Refs
    <2>3. row' \in [Refs -> {"none", "PENDING", "REFUNDED"}] /\ recorded' \in Nat
      BY <1>0, <1>13, <2>1, InsertFacts DEF RecoverCommit
    <2> QED
      BY <1>0, <1>13, <2>2, <2>3 DEF RecoverCommit, TypeOK, AttemptRows, SweepRows
  <1>14. ASSUME NEW s \in Sweeps, Alert(s) PROVE TypeOK'
    <2>1. sweep[s].op \in Commands
      BY <1>14 DEF Alert, IInv, Reconciling
    <2>2. sweep' \in [Sweeps -> SweepRows]
      BY <1>0, <1>14 DEF Alert, Goto
    <2> QED
      BY <1>0, <1>14, <2>1, <2>2 DEF Alert, TypeOK, SweepRows
  <1>15. ASSUME NEW s \in Sweeps, SweepFails(s) PROVE TypeOK'
    <2>1. sweep' \in [Sweeps -> SweepRows]
      BY <1>0, <1>15 DEF SweepFails, Goto
    <2> QED
      BY <1>0, <1>15, <2>1 DEF SweepFails, Fault, TypeOK, SweepRows
  <1>16. CASE UNCHANGED vars
    BY <1>0, <1>16 DEF vars, TypeOK
  <1> QED
    BY <1>1, <1>2, <1>3, <1>4, <1>5, <1>6, <1>7, <1>8, <1>9, <1>10, <1>11, <1>12, <1>13, <1>14,
       <1>15, <1>16 DEF Next, CommandStep, SweepStep

-----------------------------------------------------------------------------
\* Which actions write the ledger, Clock, the gateway and the attempts.
LEMMA Frame ==
  ASSUME [Next]_vars
  PROVE  /\ asked' = asked
         /\ \/ UNCHANGED books
            \/ \E c \in Commands : Commit(c)
            \/ \E s \in Sweeps : RecoverCommit(s)
         /\ \/ UNCHANGED clock
            \/ \E c \in Commands : Mirror(c)
            \/ \E s \in Sweeps : RecoverMirror(s)
         /\ \/ UNCHANGED provider
            \/ \E c \in Commands : Send(c)
            \/ RefundAtProvider
         /\ \/ UNCHANGED attempt
            \/ \E c \in Commands : Prepare(c) \/ Persist(c) \/ \E s \in Sweeps : LookComplete(s, c)
            \/ \E s \in Sweeps : RecoverCommit(s)
  <1> USE DEF books, provider
  <1>1. ASSUME NEW c \in Commands, Begin(c) \/ Refuse(c) \/ LoseTransaction(c)
        PROVE UNCHANGED <<asked, books, clock, provider, attempt>>
    BY <1>1 DEF Begin, Refuse, LoseTransaction
  <1>2. ASSUME NEW c \in Commands, AlreadyDone(c) \/ Replay(c) \/ SendFails(c) \/ GiveUp(c)
        PROVE UNCHANGED <<asked, books, clock, provider, attempt>>
    BY <1>2 DEF AlreadyDone, Replay, SendFails, GiveUp
  <1>3. ASSUME NEW c \in Commands, Prepare(c) \/ Persist(c)
        PROVE UNCHANGED <<asked, books, clock, provider>>
    BY <1>3 DEF Prepare, Persist
  <1>4. ASSUME NEW c \in Commands, Send(c)
        PROVE UNCHANGED <<asked, books, clock, attempt>>
    BY <1>4 DEF Send
  <1>5. ASSUME NEW c \in Commands, Mirror(c)
        PROVE UNCHANGED <<asked, books, provider, attempt>>
    BY <1>5 DEF Mirror
  <1>6. ASSUME NEW c \in Commands, Commit(c)
        PROVE UNCHANGED <<asked, clock, provider, attempt>>
    BY <1>6 DEF Commit
  <1>7. CASE RefundAtProvider
    BY <1>7 DEF RefundAtProvider
  <1>8. ASSUME NEW s \in Sweeps, NEW c \in Commands, LookComplete(s, c)
        PROVE UNCHANGED <<asked, books, clock, provider>>
    BY <1>8 DEF LookComplete
  <1>9. ASSUME NEW s \in Sweeps, NEW c \in Commands, LookBehind(s, c) \/ LookUnproved(s, c)
        PROVE UNCHANGED <<asked, books, clock, provider, attempt>>
    BY <1>9 DEF LookBehind, LookUnproved
  <1>10. ASSUME NEW s \in Sweeps, RecoverMirror(s)
         PROVE UNCHANGED <<asked, books, provider, attempt>>
    BY <1>10 DEF RecoverMirror
  <1>11. ASSUME NEW s \in Sweeps, RecoverCommit(s)
         PROVE UNCHANGED <<asked, clock, provider>>
    BY <1>11 DEF RecoverCommit
  <1>12. ASSUME NEW s \in Sweeps, Alert(s) \/ SweepFails(s)
         PROVE UNCHANGED <<asked, books, clock, provider, attempt>>
    BY <1>12 DEF Alert, SweepFails
  <1>13. CASE UNCHANGED vars
    BY <1>13 DEF vars
  <1>14. ASSUME NEW c \in Commands, CommandStep(c)
         PROVE AlreadyDone(c) \/ Prepare(c) \/ Replay(c) \/ Send(c) \/ SendFails(c) \/ Persist(c)
               \/ Mirror(c) \/ Commit(c) \/ GiveUp(c)
    BY <1>14 DEF CommandStep
  <1> QED
    BY <1>1, <1>2, <1>3, <1>4, <1>5, <1>6, <1>7, <1>8, <1>9, <1>10, <1>11, <1>12, <1>13, <1>14
    DEF Next, SweepStep, Look

\* The entry the recovery adds to the ledger.
LEMMA RecoveryFacts ==
  ASSUME IInv, NEW s \in Sweeps, RecoverCommit(s)
  PROVE  /\ row'[Reconciled] = "REFUNDED" /\ sent = Charge
         /\ \A c \in Commands : row'[c] = row[c]
         /\ \A r \in Refs : row[r] # "none" => row'[r] = row[r]
         /\ recorded' >= recorded
  <1> USE RefundAssumption
  <1> DEFINE e == Entry("REFUNDED", Reconciled, sweep[s].missing)
  <1>1. e \in Entries /\ e.ref = Reconciled /\ e.status = "REFUNDED" /\ Insert(e)
    BY DEF IInv, TypeOK, Entry, Entries, Refs, Statuses, RecoverCommit
  <1>2. sent = Charge
    BY DEF IInv, Reconciling, RecoverCommit
  <1>3. row[Reconciled] \in {"none", "REFUNDED"} /\ row \in [Refs -> {"none", "PENDING", "REFUNDED"}]
    BY DEF IInv, Reconciling, TypeOK
  <1>4. /\ \A r \in Refs : row[r] # "none" => row'[r] = row[r]
        /\ recorded' >= recorded
    BY <1>1, InsertFacts DEF IInv
  <1>5. row'[Reconciled] = "REFUNDED" /\ \A c \in Commands : row'[c] = row[c]
    BY <1>1, <1>3 DEF Insert, books, Refs
  <1> QED
    BY <1>2, <1>4, <1>5

\* The entry a command adds: its own, whose money has moved, or the rest of the
\* charge once the gateway shows it as returned.
LEMMA CommitFacts ==
  ASSUME IInv, NEW c \in Commands, Commit(c)
  PROVE  /\ \A r \in Refs : row[r] # "none" => row'[r] = row[r]
         /\ recorded' >= recorded
         /\ \/ UNCHANGED books
            \/ /\ moved[c] > 0 /\ row[c] = "none" /\ recorded' = recorded + asked[c]
               /\ \A r \in Refs \ {c} : row'[r] = row[r]
               /\ row'[c] # "none"
            \/ /\ sent = Charge /\ row'[Reconciled] = "REFUNDED"
               /\ \A r \in Commands : row'[r] = row[r]
  <1> USE RefundAssumption
  <1> DEFINE e == plan[c]
  <1>1. e \in Entries /\ Insert(e) /\ Sound(c, e) /\ row \in [Refs -> {"none", "PENDING", "REFUNDED"}]
    BY DEF IInv, TypeOK, Entries, Commit, Plans
  <1> HIDE DEF e
  <1>2. /\ \A r \in Refs : row[r] # "none" => row'[r] = row[r]
        /\ recorded' >= recorded
    BY <1>1, InsertFacts DEF IInv
  <1>3. CASE ~UNCHANGED books
    <2>1. /\ row[e.ref] = "none" /\ e.status \in {"REFUNDED", "PENDING"}
          /\ row' = [row EXCEPT ![e.ref] = e.status] /\ recorded' = recorded + e.amount
      BY <1>1, <1>3 DEF Insert
    <2>2. CASE e.ref = c /\ moved[c] > 0 /\ e.amount = asked[c]
      BY <1>1, <1>2, <2>1, <2>2 DEF Refs
    <2>3. CASE e.ref = Reconciled /\ e.status = "REFUNDED" /\ sent = Charge
      BY <1>1, <1>2, <2>1, <2>3 DEF Refs
    <2> QED
      BY <1>1, <2>1, <2>2, <2>3 DEF Sound
  <1> QED
    BY <1>2, <1>3

\* Nothing that moved, was recorded or blocked is ever taken back.
LEMMA Growth ==
  ASSUME IInv, [Next]_vars
  PROVE  /\ asked' = asked
         /\ \A r \in Refs : row[r] # "none" => row'[r] = row[r]
         /\ recorded' >= recorded
         /\ \A c \in Commands : moved[c] > 0 => moved'[c] > 0
         /\ sent = Charge => sent' = Charge
         /\ Clean' => Clean
         /\ Open' => Open
  <1> USE RefundAssumption
  <1>1. asked' = asked
    BY Frame
  <1>2. /\ \A r \in Refs : row[r] # "none" => row'[r] = row[r]
        /\ recorded' >= recorded
    <2>1. CASE UNCHANGED books
      BY <2>1 DEF books, IInv, TypeOK
    <2> QED
      BY <2>1, Frame, RecoveryFacts, CommitFacts
  <1>3. /\ \A c \in Commands : moved[c] > 0 => moved'[c] > 0
        /\ sent = Charge => sent' = Charge
    <2>1. CASE UNCHANGED provider
      BY <2>1 DEF provider
    <2>2. ASSUME NEW c \in Commands, Send(c)
          PROVE  (\A d \in Commands : moved[d] > 0 => moved'[d] > 0) /\ (sent = Charge => sent' = Charge)
      <3>1. moved' = [moved EXCEPT ![c] = @ + 1] /\ sent < Charge
        BY <2>2, NothingLeft DEF Send, IInv, TypeOK
      <3> QED
        BY <3>1 DEF IInv, TypeOK
    <2>3. CASE RefundAtProvider
      BY <2>3 DEF RefundAtProvider
    <2> QED
      BY <2>1, <2>2, <2>3, Frame
  <1>4. /\ Clean' => Clean
        /\ Open' => Open
    BY <1>2, TypeStep DEF Clean, Open, IInv, TypeOK, Refs
  <1> QED
    BY <1>1, <1>2, <1>3, <1>4

-----------------------------------------------------------------------------
\* Every step keeps the ledger and Clock behind the money.
LEMMA BooksStep ==
  ASSUME IInv, [Next]_vars
  PROVE  BooksFollowMoney'
  <1> USE RefundAssumption
  <1>0. TypeOK /\ BooksFollowMoney
    BY DEF IInv
  <1>1. ASSUME NEW c \in Commands, row'[c] # "none" PROVE moved'[c] > 0
    <2>1. CASE row[c] # "none"
      BY <1>0, <2>1, Growth DEF BooksFollowMoney
    <2>2. CASE row[c] = "none"
      <3>1. PICK d \in Commands : Commit(d)
        BY <1>1, <2>2, Frame, RecoveryFacts DEF books
      <3>2. d = c /\ moved[c] > 0
        BY <1>1, <2>2, <3>1, CommitFacts DEF books, Refs
      <3> QED
        BY <3>2, Growth
    <2> QED
      BY <2>1, <2>2
  <1>2. ASSUME NEW c \in Commands, clock'[c] > 0 PROVE moved'[c] > 0
    <2>1. CASE clock[c] > 0
      BY <1>0, <2>1, Growth DEF BooksFollowMoney
    <2>2. ASSUME NEW d \in Commands, Mirror(d), ~(clock[c] > 0) PROVE moved[c] > 0
      <3>1. d = c
        BY <1>0, <1>2, <2>2 DEF Mirror, TypeOK, Refs
      <3>2. Sound(c, plan[c]) /\ plan[c].status = "REFUNDED" /\ plan[c].ref = c /\ row[c] = "none"
        BY <2>2, <3>1 DEF IInv, Plans, Mirror
      <3> QED
        BY <3>2 DEF Sound
    <2>3. ASSUME NEW s \in Sweeps, RecoverMirror(s) PROVE clock'[c] = clock[c]
      BY <1>0, <2>3 DEF RecoverMirror, TypeOK, Refs
    <2> QED
      BY <1>2, <2>1, <2>2, <2>3, Frame, Growth
  <1>3. ASSUME row'[Reconciled] # "none" PROVE sent' = Charge
    <2>1. CASE row[Reconciled] # "none"
      BY <1>0, <2>1, Growth DEF BooksFollowMoney
    <2>2. CASE row[Reconciled] = "none"
      <3>1. CASE \E d \in Commands : Commit(d)
        BY <1>3, <2>2, <3>1, CommitFacts, Growth DEF books, Refs
      <3>2. CASE \E s \in Sweeps : RecoverCommit(s)
        BY <3>2, RecoveryFacts, Growth
      <3> QED
        BY <1>3, <2>2, <3>1, <3>2, Frame DEF books
    <2> QED
      BY <2>1, <2>2
  <1>4. ASSUME clock'[Reconciled] > 0 PROVE sent' = Charge
    <2>1. CASE clock[Reconciled] > 0
      BY <1>0, <2>1, Growth DEF BooksFollowMoney
    <2>2. ASSUME NEW d \in Commands, Mirror(d) PROVE clock'[Reconciled] = clock[Reconciled]
      BY <1>0, <2>2 DEF Mirror, TypeOK, Refs
    <2>3. ASSUME NEW s \in Sweeps, RecoverMirror(s) PROVE sent = Charge
      BY <2>3 DEF RecoverMirror, IInv, Reconciling
    <2> QED
      BY <1>4, <2>1, <2>2, <2>3, Frame, Growth
  <1> QED
    BY <1>1, <1>2, <1>3, <1>4 DEF BooksFollowMoney

\* A row that was true of the gateway stays true.
LEMMA SoundStays ==
  ASSUME IInv, [Next]_vars, NEW c \in Commands, NEW e \in Entries, Sound(c, e)
  PROVE  Sound(c, e)'
  <1>1. e.ref \in Refs
    BY DEF Entries
  <1> QED
    BY <1>1, Growth DEF Sound

\* Every step keeps what commands are about to commit true.
LEMMA PlanStep ==
  ASSUME IInv, [Next]_vars
  PROVE  Plans'
  <1> USE RefundAssumption
  <1> DEFINE Own(c) == \/ plan[c] = Failed
                       \/ /\ plan[c].status \in {"REFUNDED", "PENDING"} /\ plan[c].ref = c
                          /\ plan[c].amount = asked[c] /\ moved[c] > 0
  <1>0. /\ TypeOK /\ Plans /\ asked' = asked
        /\ plan \in [Commands -> Entries]
        /\ pc \in [Commands -> {"idle", "begun", "sending", "answered", "result", "mirrored"}]
        /\ Failed.status = "FAILED" /\ NoEntry.status = "none"
    BY Growth, Records DEF IInv, TypeOK, Entries
  <1> SUFFICES ASSUME NEW d \in Commands
               PROVE  Sound(d, plan[d])' /\ (pc'[d] = "answered" => Own(d)')
    BY DEF Plans
  <1>1. CASE plan'[d] = plan[d] /\ pc'[d] = pc[d]
    <2>1. Sound(d, plan[d]) /\ (pc[d] = "answered" => Own(d)) /\ plan[d] \in Entries
      BY <1>0 DEF Plans
    <2>2. Sound(d, plan[d])'
      BY <1>1, <2>1, SoundStays DEF Sound
    <2> QED
      BY <1>0, <1>1, <2>1, <2>2, Growth
  <1>2. CASE plan'[d] = plan[d] /\ pc'[d] # "answered"
    <2>1. Sound(d, plan[d]) /\ plan[d] \in Entries
      BY <1>0 DEF Plans
    <2> QED
      BY <1>2, <2>1, SoundStays DEF Sound
  <1>3. CASE plan'[d] = NoEntry /\ pc'[d] # "answered"
    BY <1>0, <1>3 DEF Sound
  <1>4. CASE plan'[d] = Failed
    BY <1>0, <1>4 DEF Sound
  <1>5. ASSUME AlreadyDone(d), plan'[d] # Failed
        PROVE  Sound(d, plan[d])' /\ pc'[d] = "result"
    <2>1. plan'[d] = Entry("REFUNDED", Reconciled, Charge - recorded) /\ pc'[d] = "result"
      BY <1>0, <1>5 DEF AlreadyDone, Concludes
    <2>2. sent' = Charge
      BY <1>5, Growth DEF AlreadyDone
    <2> QED
      BY <2>1, <2>2 DEF Sound, Entry
  <1>6. ASSUME Replay(d), plan'[d] # Failed
        PROVE  Sound(d, plan[d])' /\ pc'[d] = "result"
    <2>1. /\ plan'[d] = Entry(attempt[d].status, attempt[d].ref, asked[d])
          /\ attempt[d].stage = "RETURNED" /\ pc'[d] = "result"
      BY <1>0, <1>6 DEF Replay, Concludes
    <2>2. (attempt[d].ref = d /\ moved[d] > 0) \/ row[attempt[d].ref] = "REFUNDED"
      BY <2>1 DEF IInv, Attempts
    <2>3. attempt[d].ref \in Refs
      BY <1>0 DEF TypeOK
    <2>4. (attempt[d].ref = d /\ moved'[d] > 0) \/ row'[attempt[d].ref] = "REFUNDED"
      BY <2>2, <2>3, Growth
    <2> QED
      BY <1>0, <2>1, <2>4 DEF Sound, Entry
  <1>7. ASSUME Send(d), plan'[d] # Failed
        PROVE  Sound(d, plan[d])' /\ Own(d)'
    <2>1. PICK a \in AnswerTo(d) : plan'[d] = Entry(a, d, asked[d])
      BY <1>0, <1>7 DEF Send, Answered
    <2>2. a \in {"REFUNDED", "PENDING"}
      BY <2>1 DEF AnswerTo
    <2>3. moved'[d] > 0
      <3>1. moved[d] = 0 /\ moved' = [moved EXCEPT ![d] = @ + 1]
        BY <1>7, SendFacts DEF Send
      <3> QED
        BY <1>0, <3>1 DEF TypeOK
    <2> QED
      BY <1>0, <2>1, <2>2, <2>3 DEF Sound, Entry
  <1>8. \/ plan'[d] = plan[d] /\ (pc'[d] = pc[d] \/ pc'[d] # "answered")
        \/ plan'[d] = NoEntry /\ pc'[d] # "answered"
        \/ plan'[d] = Failed
        \/ AlreadyDone(d) \/ Replay(d) \/ Send(d)
    <2>1. ASSUME NEW c \in Commands,
                 Begin(c) \/ Refuse(c) \/ LoseTransaction(c) \/ Prepare(c) \/ Persist(c) \/ Mirror(c)
          PROVE  plan'[d] = plan[d] /\ (pc'[d] = pc[d] \/ pc'[d] # "answered")
      BY <1>0, <2>1 DEF Begin, Refuse, LoseTransaction, Prepare, Persist, Mirror
    <2>2. ASSUME NEW c \in Commands, AlreadyDone(c) \/ Replay(c) \/ Send(c), d # c
          PROVE  plan'[d] = plan[d] /\ pc'[d] = pc[d]
      BY <1>0, <2>2 DEF AlreadyDone, Replay, Concludes, Send, Answered
    <2>3. ASSUME NEW c \in Commands, SendFails(c)
          PROVE  (plan'[d] = plan[d] /\ pc'[d] = pc[d]) \/ plan'[d] = Failed
      BY <1>0, <2>3 DEF SendFails, Answered
    <2>4. ASSUME NEW c \in Commands, Commit(c) \/ GiveUp(c)
          PROVE  (plan'[d] = plan[d] /\ pc'[d] = pc[d]) \/ (plan'[d] = NoEntry /\ pc'[d] # "answered")
      BY <1>0, <2>4 DEF Commit, GiveUp
    <2>5. CASE RefundAtProvider \/ UNCHANGED vars
      BY <2>5 DEF RefundAtProvider, vars
    <2>6. ASSUME NEW s \in Sweeps,
                 SweepStep(s) \/ SweepFails(s) \/ \E c \in Commands : Look(s, c)
          PROVE  plan' = plan /\ pc' = pc
      BY <2>6 DEF SweepStep, RecoverMirror, RecoverCommit, Alert, SweepFails, Look, LookComplete,
         LookBehind, LookUnproved
    <2> QED
      BY <2>1, <2>2, <2>3, <2>4, <2>5, <2>6 DEF Next, CommandStep
  <1> QED
    BY <1>1, <1>2, <1>3, <1>4, <1>5, <1>6, <1>7, <1>8

\* Every step keeps a saved answer true.
LEMMA AttemptStep ==
  ASSUME IInv, [Next]_vars
  PROVE  Attempts'
  <1> USE RefundAssumption
  <1> DEFINE True(c) ==
        /\ attempt[c].status \in {"REFUNDED", "PENDING"}
        /\ (attempt[c].ref = c /\ moved[c] > 0) \/ row[attempt[c].ref] = "REFUNDED"
  <1>0. TypeOK /\ Attempts /\ attempt \in [Commands -> AttemptRows]
    BY DEF IInv, TypeOK, AttemptRows
  <1>1. \A c \in Commands : attempt[c].stage = "RETURNED" => True(c)
    BY <1>0 DEF Attempts
  <1> SUFFICES ASSUME NEW d \in Commands
               PROVE  /\ moved'[d] > 0 => attempt'[d].stage # "none"
                      /\ attempt'[d].stage = "RETURNED" => True(d)'
    BY DEF Attempts
  <1>2. moved'[d] > 0 => attempt[d].stage # "none"
    <2>1. CASE \E c \in Commands : Send(c)
      <3>1. PICK c \in Commands : Send(c)
        BY <2>1
      <3>2. d # c => moved'[d] = moved[d]
        BY <1>0, <3>1 DEF Send, TypeOK
      <3> QED
        BY <1>0, <3>1, <3>2, SendFacts DEF Attempts
    <2>2. CASE RefundAtProvider
      BY <1>0, <2>2 DEF RefundAtProvider, Attempts
    <2>3. CASE UNCHANGED provider
      BY <1>0, <2>3 DEF provider, Attempts
    <2> QED
      BY <2>1, <2>2, <2>3, Frame
  <1>3. CASE attempt'[d] = attempt[d]
    <2>1. attempt[d].ref \in Refs
      BY <1>0 DEF AttemptRows
    <2> QED
      BY <1>1, <1>2, <1>3, <2>1, Growth
  <1>4. ASSUME Prepare(d) PROVE attempt'[d].stage = "PREPARING"
    BY <1>0, <1>4 DEF Prepare, Saved
  <1>5. ASSUME Persist(d), attempt'[d] # attempt[d]
        PROVE  attempt'[d].stage # "none" /\ (attempt'[d].stage = "RETURNED" => True(d)')
    <2>1. attempt'[d] = Saved(IF plan[d].status = "FAILED" THEN "UNCERTAIN" ELSE "RETURNED",
                              plan[d].status, plan[d].ref)
      BY <1>0, <1>5 DEF Persist
    <2>2. \/ plan[d].status = "FAILED"
          \/ plan[d].status \in {"REFUNDED", "PENDING"} /\ plan[d].ref = d /\ moved[d] > 0
      BY <1>5, Records DEF Persist, IInv, Plans
    <2> QED
      BY <2>1, <2>2, Growth DEF Saved
  <1>6. ASSUME NEW s \in Sweeps, LookComplete(s, d)
        PROVE  attempt'[d].stage # "none" /\ (attempt'[d].stage = "RETURNED" => True(d)')
    <2>1. PICK r \in Refs : row[r] = "REFUNDED" /\ attempt'[d] = Saved("RETURNED", "REFUNDED", r)
      BY <1>0, <1>6 DEF LookComplete
    <2> QED
      BY <2>1, Growth DEF Saved
  <1>7. ASSUME NEW s \in Sweeps, RecoverCommit(s), attempt'[d] # attempt[d]
        PROVE  attempt'[d].stage # "none" /\ (attempt'[d].stage = "RETURNED" => True(d)')
    <2>1. attempt'[d] = Saved("RETURNED", "REFUNDED", Reconciled)
      BY <1>0, <1>7 DEF RecoverCommit
    <2> QED
      BY <1>7, <2>1, RecoveryFacts DEF Saved
  <1>8. ASSUME NEW c \in Commands, c # d,
               Prepare(c) \/ Persist(c) \/ \E s \in Sweeps : LookComplete(s, c)
        PROVE  attempt'[d] = attempt[d]
    BY <1>0, <1>8 DEF Prepare, Persist, LookComplete
  <1> QED
    BY <1>2, <1>3, <1>4, <1>5, <1>6, <1>7, <1>8, Frame

\* An attempt goes on blocking when the ledger only grows.
LEMMA BlocksBack ==
  ASSUME IInv, [Next]_vars, NEW c \in Commands, attempt'[c] = attempt[c]
  PROVE  Blocks(c)' => Blocks(c)
  <1>1. attempt[c].ref \in Refs
    BY DEF IInv, TypeOK
  <1> QED
    BY <1>1, Growth DEF Blocks

\* Every step keeps the ledger at most one command behind the gateway.
LEMMA BehindStep ==
  ASSUME IInv, [Next]_vars
  PROVE  Behind' /\ Tally'
  <1> USE RefundAssumption
  <1> DEFINE Within == /\ recorded <= sent
                       /\ \A c \in Commands : Outstanding(c) => recorded + asked[c] <= sent
             Known == \A c \in Commands : Outstanding(c) => Blocks(c)
             Single == \A c, d \in Commands : Outstanding(c) /\ Outstanding(d) => c = d
             Even == ~elsewhere =>
                       /\ (\A c \in Commands : ~Outstanding(c)) => recorded = sent
                       /\ \A c \in Commands : Outstanding(c) => recorded + asked[c] = sent
  <1> SUFFICES ASSUME Clean' PROVE Within' /\ Known' /\ Single' /\ Even'
    BY DEF Behind, Tally
  <1>0. /\ Within /\ Known /\ Single /\ Even /\ TypeOK /\ TypeOK' /\ asked' = asked
        /\ recorded \in Int /\ sent \in Int /\ asked \in [Commands -> 1 .. Charge]
    BY Growth, TypeStep DEF IInv, Behind, Tally, TypeOK
  <1>1. ASSUME NEW c \in Commands, Send(c) PROVE Within' /\ Known' /\ Single' /\ Even'
    <2>1. /\ UNCHANGED <<books, attempt, elsewhere>> /\ sent' = sent + Returns(c)
          /\ \A d \in Commands \ {c} : moved'[d] = moved[d]
          /\ attempt[c].stage = "PREPARING"
      BY <1>0, <1>1, SendFacts DEF Send, TypeOK
    <2>2. \A d \in Commands : Outstanding(d)' => d = c
      BY <1>1, <2>1, SendFacts DEF Outstanding, books
    <2>3. Blocks(c)'
      BY <2>1 DEF Blocks
    <2>4. Within'
      BY <1>0, <1>1, <2>1, <2>2, ReturnFacts DEF books
    <2>5. Outstanding(c)'
      BY <1>0, <1>1, <2>1, SendFacts
      DEF Send, Outstanding, IInv, BooksFollowMoney, books, TypeOK, Refs
    <2>6. Even'
      BY <1>0, <1>1, <2>1, <2>2, <2>5, ReturnFacts DEF books
    <2> QED
      BY <2>2, <2>3, <2>4, <2>6
  <1>2. ASSUME NEW c \in Commands, Commit(c), ~UNCHANGED books PROVE Within' /\ Known' /\ Single' /\ Even'
    <2>1. /\ moved[c] > 0 /\ row[c] = "none" /\ recorded' = recorded + asked[c]
          /\ \A r \in Refs \ {c} : row'[r] = row[r]
          /\ row'[c] # "none"
      BY <1>2, CommitFacts DEF Clean
    <2>2. Outstanding(c) /\ UNCHANGED provider
      BY <1>2, <2>1 DEF Outstanding, Commit
    <2>3. \A d \in Commands : ~Outstanding(d)'
      BY <1>0, <2>1, <2>2 DEF Outstanding, provider, Refs
    <2> QED
      BY <1>0, <2>1, <2>2, <2>3 DEF provider
  <1>3. ASSUME UNCHANGED books, UNCHANGED moved
        PROVE  /\ \A c \in Commands : Outstanding(c)' <=> Outstanding(c)
               /\ Single'
    BY <1>0, <1>3 DEF Outstanding, books
  <1>4. ASSUME UNCHANGED books, UNCHANGED moved, sent' >= sent PROVE Within'
    BY <1>0, <1>3, <1>4 DEF books, TypeOK
  <1>10. ASSUME UNCHANGED books, UNCHANGED provider PROVE Even'
    BY <1>0, <1>3, <1>10 DEF books, provider
  <1>5. ASSUME UNCHANGED <<books, provider, attempt>>
        PROVE  Within' /\ Known' /\ Single' /\ Even'
    <2>1. UNCHANGED books /\ UNCHANGED moved /\ sent' >= sent
      BY <1>0, <1>5 DEF provider
    <2>2. Known'
      BY <1>0, <1>3, <1>5, <2>1 DEF Blocks, books
    <2> QED
      BY <1>3, <1>4, <1>5, <1>10, <2>1, <2>2
  <1>6. CASE RefundAtProvider
    <2>1. UNCHANGED books /\ UNCHANGED moved /\ UNCHANGED attempt /\ sent' >= sent /\ elsewhere'
      BY <1>0, <1>6 DEF RefundAtProvider, TypeOK
    <2>2. Known'
      BY <1>0, <1>3, <2>1 DEF Blocks, books
    <2> QED
      BY <1>3, <1>4, <2>1, <2>2
  <1>7. ASSUME NEW c \in Commands,
               Prepare(c) \/ Persist(c) \/ \E s \in Sweeps : LookComplete(s, c)
        PROVE  Within' /\ Known' /\ Single' /\ Even'
    <2>1. UNCHANGED books /\ UNCHANGED provider /\ UNCHANGED moved /\ sent' >= sent
      BY <1>0, <1>7 DEF Prepare, Persist, LookComplete, provider
    <2>0. \A d \in Commands \ {c} : attempt'[d] = attempt[d]
      BY <1>0, <1>7 DEF Prepare, Persist, LookComplete, TypeOK
    <2>2. \A d \in Commands \ {c} : Blocks(d)' <=> Blocks(d)
      BY <2>0, <2>1 DEF Blocks, books
    <2>3. Outstanding(c) => Blocks(c)'
      <3>1. CASE Prepare(c)
        BY <1>0, <3>1 DEF Prepare, Saved, Blocks, TypeOK
      <3>2. CASE Persist(c)
        <4>1. \/ attempt'[c] = attempt[c]
              \/ attempt'[c].stage = "UNCERTAIN"
              \/ attempt'[c].stage = "RETURNED" /\ attempt'[c].ref = plan[c].ref /\ plan[c] # Failed
          BY <1>0, <3>2, Records DEF Persist, Saved, TypeOK
        <4>2. plan[c] # Failed => plan[c].ref = c
          BY <3>2 DEF Persist, IInv, Plans
        <4> QED
          BY <1>0, <2>1, <4>1, <4>2 DEF Blocks, Outstanding, books
      <3>3. CASE \E s \in Sweeps : LookComplete(s, c)
        BY <1>0, <3>3 DEF LookComplete, TypeOK
      <3> QED
        BY <1>7, <3>1, <3>2, <3>3
    <2>4. Known'
      BY <1>0, <1>3, <2>1, <2>2, <2>3
    <2> QED
      BY <1>3, <1>4, <1>10, <2>1, <2>4
  <1>8. ASSUME NEW s \in Sweeps, RecoverCommit(s) PROVE FALSE
    BY <1>8, RecoveryFacts DEF Clean
  <1>9. ASSUME NEW c \in Commands, Commit(c), UNCHANGED books
        PROVE  UNCHANGED <<books, provider, attempt>>
    BY <1>9 DEF Commit
  <1> QED
    BY <1>1, <1>2, <1>5, <1>6, <1>7, <1>8, <1>9, Frame

\* While the ledger is open, every step keeps one request on its way at most.
LEMMA OneStep ==
  ASSUME IInv, [Next]_vars
  PROVE  OneAtATime'
  <1> USE RefundAssumption
  <1> DEFINE Own(d) == attempt[d].stage = "RETURNED" => attempt[d].ref = d
             Waits(d) == pc[d] \in {"sending", "answered"} => attempt[d].stage = "PREPARING"
             Alone(c) == pc[c] = "sending" => moved[c] = 0 /\ \A d \in Commands \ {c} : ~Blocks(d)
  <1> SUFFICES ASSUME Open' PROVE \A c \in Commands : Own(c)' /\ Waits(c)' /\ Alone(c)'
    BY DEF OneAtATime
  <1>0. /\ TypeOK /\ \A c \in Commands : Own(c) /\ Waits(c) /\ Alone(c)
        /\ pc \in [Commands -> {"idle", "begun", "sending", "answered", "result", "mirrored"}]
        /\ attempt \in [Commands -> AttemptRows]
    BY Growth DEF IInv, OneAtATime, TypeOK, AttemptRows
  <1>1. \A c \in Commands : Waits(c) /\ pc[c] \in {"sending", "answered"} => Blocks(c)
    BY DEF Blocks
  \* No attempt is saved, no money moves, and nobody starts to send.
  <1>2. ASSUME UNCHANGED attempt, UNCHANGED moved,
               \A c \in Commands : /\ pc'[c] = "sending" => pc[c] = "sending"
                                   /\ pc'[c] = "answered" => pc[c] \in {"sending", "answered"}
        PROVE  \A c \in Commands : Own(c)' /\ Waits(c)' /\ Alone(c)'
    BY <1>0, <1>2, BlocksBack
  <1>3. ASSUME NEW c \in Commands, Prepare(c)
        PROVE  \A d \in Commands : Own(d)' /\ Waits(d)' /\ Alone(d)'
    <2>1. /\ attempt[c].stage = "none" /\ moved[c] = 0 /\ \A d \in Commands : ~Blocks(d)
          /\ UNCHANGED <<books, moved>>
      BY <1>0, <1>3 DEF Prepare, MayStart, IInv, Attempts, TypeOK, provider
    <2>2. /\ attempt'[c].stage = "PREPARING" /\ pc'[c] = "sending"
          /\ \A d \in Commands \ {c} : attempt'[d] = attempt[d] /\ pc'[d] = pc[d]
      BY <1>0, <1>3 DEF Prepare, Saved
    <2>3. \A d \in Commands \ {c} : ~Blocks(d)' /\ pc[d] \notin {"sending", "answered"}
      BY <1>0, <1>1, <2>1, <2>2 DEF Blocks, books
    <2> QED
      BY <1>0, <2>1, <2>2, <2>3
  <1>4. ASSUME NEW c \in Commands, Send(c)
        PROVE  \A d \in Commands : Own(d)' /\ Waits(d)' /\ Alone(d)'
    <2>1. /\ pc[c] = "sending" /\ pc'[c] = "answered" /\ UNCHANGED attempt
          /\ \A d \in Commands \ {c} : pc'[d] = pc[d]
      BY <1>0, <1>4 DEF Send, Answered
    <2>2. \A d \in Commands \ {c} : pc[d] \notin {"sending", "answered"}
      BY <1>0, <1>1, <2>1
    <2> QED
      BY <1>0, <2>1, <2>2
  <1>5. ASSUME NEW c \in Commands, Persist(c)
        PROVE  \A d \in Commands : Own(d)' /\ Waits(d)' /\ Alone(d)'
    <2>1. /\ pc[c] = "answered" /\ pc'[c] = "result" /\ UNCHANGED moved
          /\ \A d \in Commands \ {c} : attempt'[d] = attempt[d] /\ pc'[d] = pc[d]
      BY <1>0, <1>5 DEF Persist, provider
    <2>2. Own(c)'
      <3>1. CASE attempt'[c] = attempt[c]
        BY <1>0, <3>1
      <3>2. CASE attempt'[c] # attempt[c]
        <4>1. attempt'[c] = Saved(IF plan[c].status = "FAILED" THEN "UNCERTAIN" ELSE "RETURNED",
                                  plan[c].status, plan[c].ref)
          BY <1>0, <1>5, <3>2 DEF Persist
        <4>2. plan[c].status = "FAILED" \/ plan[c].ref = c
          BY <1>5, Records DEF Persist, IInv, Plans
        <4> QED
          BY <4>1, <4>2 DEF Saved
      <3> QED
        BY <3>1, <3>2
    <2>3. \A d \in Commands \ {c} : pc[d] # "sending"
      BY <1>0, <1>1, <2>1
    <2> QED
      BY <1>0, <2>1, <2>2, <2>3
  <1>6. ASSUME NEW s \in Sweeps, NEW c \in Commands, LookComplete(s, c) PROVE FALSE
    BY <1>0, <1>6 DEF LookComplete, Open, TypeOK, books
  <1>7. ASSUME NEW s \in Sweeps, RecoverCommit(s) PROVE FALSE
    BY <1>7, RecoveryFacts DEF Open, Clean
  <1>8. \/ /\ UNCHANGED attempt /\ UNCHANGED moved
           /\ \A c \in Commands : /\ pc'[c] = "sending" => pc[c] = "sending"
                                  /\ pc'[c] = "answered" => pc[c] \in {"sending", "answered"}
        \/ \E c \in Commands : Prepare(c) \/ Send(c) \/ Persist(c)
        \/ \E s \in Sweeps : RecoverCommit(s) \/ \E c \in Commands : LookComplete(s, c)
    <2> DEFINE Idle == /\ UNCHANGED attempt /\ UNCHANGED moved
                       /\ \A c \in Commands :
                            /\ pc'[c] = "sending" => pc[c] = "sending"
                            /\ pc'[c] = "answered" => pc[c] \in {"sending", "answered"}
    <2>1. ASSUME NEW c \in Commands,
                 Begin(c) \/ Refuse(c) \/ LoseTransaction(c) \/ Mirror(c) \/ Commit(c) \/ GiveUp(c)
          PROVE  Idle
      BY <1>0, <2>1 DEF Begin, Refuse, LoseTransaction, Mirror, Commit, GiveUp, provider
    <2>2. ASSUME NEW c \in Commands, AlreadyDone(c) \/ Replay(c) \/ SendFails(c)
          PROVE  Idle
      BY <1>0, <2>2 DEF AlreadyDone, Replay, Concludes, SendFails, Answered, provider
    <2>3. CASE RefundAtProvider \/ UNCHANGED vars
      BY <2>3 DEF RefundAtProvider, vars, provider
    <2>4. ASSUME NEW s \in Sweeps, RecoverMirror(s) \/ Alert(s) \/ SweepFails(s)
          PROVE  Idle
      BY <2>4 DEF RecoverMirror, Alert, SweepFails, provider
    <2>5. ASSUME NEW s \in Sweeps, NEW c \in Commands, LookBehind(s, c) \/ LookUnproved(s, c)
          PROVE  Idle
      BY <2>5 DEF LookBehind, LookUnproved, provider
    <2> QED
      BY <2>1, <2>2, <2>3, <2>4, <2>5 DEF Next, CommandStep, SweepStep, Look
  <1> QED
    BY <1>2, <1>3, <1>4, <1>5, <1>6, <1>7, <1>8

\* Every step keeps the recovery on firm ground.
LEMMA ReconcilingStep ==
  ASSUME IInv, [Next]_vars
  PROVE  Reconciling'
  <1> USE RefundAssumption
  <1>0. TypeOK /\ sweep \in [Sweeps -> SweepRows]
        /\ row[Reconciled] \in {"none", "REFUNDED"} /\ Reconciled \in Refs
    BY DEF IInv, TypeOK, SweepRows, Reconciling, Refs
  <1>1. row'[Reconciled] \in {"none", "REFUNDED"}
    <2>1. CASE UNCHANGED books
      BY <1>0, <2>1 DEF books
    <2>2. CASE \E c \in Commands : Commit(c)
      BY <1>0, <2>2, CommitFacts DEF books
    <2>3. CASE \E s \in Sweeps : RecoverCommit(s)
      BY <2>3, RecoveryFacts
    <2> QED
      BY <2>1, <2>2, <2>3, Frame
  <1> DEFINE Firm(s) == /\ sweep[s].at # "idle" => sweep[s].op \in Commands
                        /\ sweep[s].at \in {"behind", "mirrored"} => sent = Charge
  <1> SUFFICES ASSUME NEW t \in Sweeps PROVE Firm(t)'
    BY <1>1 DEF Reconciling
  <1>2. Firm(t)
    BY DEF IInv, Reconciling
  <1>3. CASE sweep'[t] = sweep[t]
    BY <1>2, <1>3, Growth
  <1>4. CASE sweep'[t] = Asleep
    BY <1>4, Records
  <1>5. ASSUME NEW c \in Commands, LookBehind(t, c) PROVE Firm(t)'
    <2>1. sweep'[t] = At("behind", c, Charge - recorded) /\ sent' = Charge
      BY <1>0, <1>5 DEF LookBehind, Goto, provider
    <2> QED
      BY <2>1 DEF At
  <1>6. ASSUME NEW c \in Commands, LookUnproved(t, c) PROVE Firm(t)'
    <2>1. sweep'[t] = At("alert", c, 0)
      BY <1>0, <1>6 DEF LookUnproved, Goto
    <2> QED
      BY <2>1 DEF At
  <1>7. ASSUME RecoverMirror(t) PROVE Firm(t)'
    <2>1. sweep'[t].op = sweep[t].op /\ sweep[t].at = "behind" /\ sent' = sent
      BY <1>0, <1>7 DEF RecoverMirror, Goto, SweepRows, provider
    <2> QED
      BY <1>2, <2>1
  <1>8. \/ sweep'[t] = sweep[t] \/ sweep'[t] = Asleep \/ RecoverMirror(t)
        \/ \E c \in Commands : LookBehind(t, c) \/ LookUnproved(t, c)
    <2>1. ASSUME NEW c \in Commands, Begin(c) \/ Refuse(c) \/ CommandStep(c) \/ LoseTransaction(c)
          PROVE  sweep' = sweep
      BY <2>1 DEF Begin, Refuse, CommandStep, LoseTransaction, AlreadyDone, Prepare, Replay, Send,
         SendFails, Persist, Mirror, Commit, GiveUp
    <2>2. CASE RefundAtProvider \/ UNCHANGED vars
      BY <2>2 DEF RefundAtProvider, vars
    <2>3. ASSUME NEW s \in Sweeps, s # t, RecoverMirror(s) \/ \E c \in Commands : Look(s, c)
          PROVE  sweep'[t] = sweep[t]
      BY <1>0, <2>3 DEF RecoverMirror, Look, LookComplete, LookBehind, LookUnproved, Goto
    <2>4. ASSUME NEW s \in Sweeps, RecoverCommit(s) \/ Alert(s) \/ SweepFails(s)
          PROVE  sweep'[t] = sweep[t] \/ sweep'[t] = Asleep
      BY <1>0, <2>4 DEF RecoverCommit, Alert, SweepFails, Goto
    <2>5. ASSUME NEW c \in Commands, LookComplete(t, c) PROVE sweep' = sweep
      BY <2>5 DEF LookComplete
    <2> QED
      BY <2>1, <2>2, <2>3, <2>4, <2>5 DEF Next, SweepStep, Look
  <1> QED
    BY <1>3, <1>4, <1>5, <1>6, <1>7, <1>8

-----------------------------------------------------------------------------
LEMMA Invariance == Spec => []IInv
  <1>1. IInv /\ [Next]_vars => IInv'
    BY TypeStep, BooksStep, PlanStep, AttemptStep, BehindStep, OneStep, ReconcilingStep DEF IInv
  <1> QED
    BY InitInv, <1>1, PTL DEF Spec

\* Types hold, and the gateway returns money at most once for each command.
THEOREM RefundTypes == Spec => []TypeOK
  <1>1. IInv => TypeOK
    BY DEF IInv
  <1> QED
    BY Invariance, <1>1, PTL

\* The ledger and Clock never show a refund whose money did not move.
THEOREM BooksFollow == Spec => []BooksFollowMoney
  <1>1. IInv => BooksFollowMoney
    BY DEF IInv
  <1> QED
    BY Invariance, <1>1, PTL

\* Money that moved is in the ledger or blocks every later refund, whichever
\* transactions, answers and writes were lost.
THEOREM MoneyTraced == Spec => []MoneyIsTraced
  <1>1. IInv => MoneyIsTraced
    BY DEF IInv, MoneyIsTraced, Behind, Clean, Outstanding
  <1> QED
    BY Invariance, <1>1, PTL

-----------------------------------------------------------------------------
(***************************************************************************)
(* The refunds implement ExactRefunds.                                     *)
(***************************************************************************)
\* A refund whose money goes back.
LEMMA SendReturns ==
  ASSUME IInv, NEW c \in Commands, Send(c)
  PROVE  Exact!Return(c)
  <1>1. /\ moved[c] = 0 /\ \A d \in Commands \ {c} : moved[d] > 0 => row[d] = "REFUNDED"
        /\ moved \in [Commands -> {0, 1}]
    BY SendFacts DEF IInv, TypeOK
  <1>2. /\ sent' = sent + Returns(c) /\ moved' = [moved EXCEPT ![c] = @ + 1]
        /\ UNCHANGED <<asked, row, elsewhere>>
    BY DEF Send, books
  <1>3. {d \in Commands : moved'[d] > 0} = {d \in Commands : moved[d] > 0} \cup {c}
    BY <1>1, <1>2
  <1>4. \E m \in 1 .. asked[c] :
          /\ m = asked[c] \/ elsewhere
          /\ sent + m <= Charge /\ sent' = sent + m
    BY <1>2, ReturnFacts
  <1>5. c \notin {d \in Commands : moved[d] > 0}
        /\ {d \in Commands : moved[d] > 0} \subseteq {d \in Commands : row[d] = "REFUNDED"}
    BY <1>1
  <1>6. {d \in Commands : row'[d] = "REFUNDED"} = {d \in Commands : row[d] = "REFUNDED"}
    BY <1>2
  <1> QED
    BY <1>2, <1>3, <1>4, <1>5, <1>6 DEF Exact!Return

\* A refund, or the rest of the charge, that enters the ledger.
LEMMA BooksRefine ==
  ASSUME IInv, UNCHANGED <<asked, provider>>,
         (\E c \in Commands : Commit(c)) \/ \E s \in Sweeps : RecoverCommit(s)
  PROVE  [Exact!Next]_Exact!vars
  <1> DEFINE paid == {c \in Commands : moved[c] > 0}
             done_ == {c \in Commands : row[c] = "REFUNDED"}
  <1>1. UNCHANGED <<asked, sent, elsewhere>> /\ paid' = paid
    BY DEF provider
  <1>2. row \in [Refs -> {"none", "PENDING", "REFUNDED"}]
        /\ row[Reconciled] \in {"none", "REFUNDED"}
    BY DEF IInv, TypeOK, Reconciling
  <1>3. ASSUME row'[Reconciled] = "REFUNDED", sent = Charge, \A c \in Commands : row'[c] = row[c]
        PROVE  [Exact!Next]_Exact!vars
    <2>1. done_' = done_
      BY <1>3
    <2>2. CASE row[Reconciled] = "REFUNDED"
      BY <1>1, <1>3, <2>1, <2>2 DEF Exact!vars
    <2>3. CASE row[Reconciled] # "REFUNDED"
      <3>1. Exact!Settle
        BY <1>1, <1>3, <2>1, <2>3 DEF Exact!Settle
      <3> QED
        BY <3>1 DEF Exact!Next
    <2> QED
      BY <2>2, <2>3
  <1>4. ASSUME NEW c \in Commands, moved[c] > 0, row[c] = "none",
               \A r \in Refs \ {c} : row'[r] = row[r]
        PROVE  [Exact!Next]_Exact!vars
    <2>1. (row'[Reconciled] = "REFUNDED") = (row[Reconciled] = "REFUNDED")
      BY <1>4, RefundAssumption DEF Refs
    <2>2. CASE row'[c] # "REFUNDED"
      <3>1. done_' = done_
        BY <1>4, <2>2 DEF Refs
      <3> QED
        BY <1>1, <2>1, <3>1 DEF Exact!vars
    <2>3. CASE row'[c] = "REFUNDED"
      <3>1. done_' = done_ \cup {c}
        BY <1>4, <2>3 DEF Refs
      <3>2. c \in paid \ done_
        BY <1>4
      <3>3. Exact!Book(c)
        BY <1>1, <2>1, <3>1, <3>2 DEF Exact!Book
      <3> QED
        BY <3>3 DEF Exact!Next
    <2> QED
      BY <2>2, <2>3
  <1>5. CASE UNCHANGED books
    BY <1>1, <1>5 DEF Exact!vars, books
  <1>6. ASSUME NEW c \in Commands, Commit(c) PROVE [Exact!Next]_Exact!vars
    BY <1>3, <1>4, <1>5, <1>6, CommitFacts
  <1>7. ASSUME NEW s \in Sweeps, RecoverCommit(s) PROVE [Exact!Next]_Exact!vars
    BY <1>3, <1>7, RecoveryFacts
  <1> QED
    BY <1>6, <1>7

\* However often commands are repeated, answers and transactions lost and the
\* recovery run, the money of a refund goes back once, after all that went back
\* before is in the ledger, and enters the ledger once and for good.
THEOREM RefundsAreExact == Spec => ImplementsExactRefunds
  <1>1. Init => Exact!Init
    <2> SUFFICES ASSUME Init PROVE Exact!Init
      OBVIOUS
    <2>1. {c \in Commands : moved[c] > 0} = {} /\ {c \in Commands : row[c] = "REFUNDED"} = {}
          /\ row[Reconciled] # "REFUNDED"
      BY DEF Init, Refs
    <2> QED
      BY <2>1 DEF Init, Exact!Init
  <1>2. IInv /\ [Next]_vars => [Exact!Next]_Exact!vars
    <2> SUFFICES ASSUME IInv, [Next]_vars PROVE [Exact!Next]_Exact!vars
      OBVIOUS
    <2>1. asked' = asked
      BY Frame
    <2>2. ASSUME NEW c \in Commands, Send(c) PROVE Exact!Next
      BY <2>2, SendReturns DEF Exact!Next
    <2>3. CASE RefundAtProvider
      <3>1. Exact!ReturnElsewhere
        BY <2>3 DEF RefundAtProvider, Exact!ReturnElsewhere, books
      <3> QED
        BY <3>1 DEF Exact!Next
    <2>4. CASE UNCHANGED <<provider, books>>
      BY <2>1, <2>4 DEF Exact!vars, provider, books
    <2>5. CASE UNCHANGED provider /\ ~UNCHANGED books
      BY <2>1, <2>5, Frame, BooksRefine
    <2> QED
      BY <2>2, <2>3, <2>4, <2>5, Frame
  <1> QED
    BY <1>1, <1>2, Invariance, PTL DEF Spec, ImplementsExactRefunds, Exact!Spec
=============================================================================
