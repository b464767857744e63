--------------------------- MODULE BookingMirror ---------------------------
(***************************************************************************)
(* How a reservation of Clock reaches its row in MUST:                     *)
(* ClockBookingHydrationService.hydrateBooking, run by webhook attempts    *)
(* and by the importers (the background sync and the import), beside the   *)
(* local writers it races: a change of the row, the link MUST saves for a  *)
(* reservation of its own, and a cancellation, which cancels in Clock      *)
(* before it commits.                                                      *)
(*                                                                         *)
(* Rows are locked one by one, so one reservation is modelled.  A reading  *)
(* looks at the row, then asks Clock, then writes under the row's lock;    *)
(* each is a step, so readings and writers interleave anywhere.  A version *)
(* number stands for the content of the reservation.  Its status is live,  *)
(* cancelled, or a word MUST does not know (localStatusForClockStatus).    *)
(***************************************************************************)
EXTENDS Integers

CONSTANTS
  Hooks,        \* webhook attempts
  Importers,    \* readers with notify = false
  Skew,         \* how far Clock's stamps may be behind MUST's clock
  MaxTime,      \* bound: the clock
  MaxVersion    \* bound: versions of the reservation

ASSUME BookingMirrorAssumption ==
  /\ Hooks \cap Importers = {}
  /\ Skew \in Nat /\ MaxTime \in Nat /\ MaxVersion \in Nat \ {0}

Readers == Hooks \cup Importers
Never == -1                   \* a stamp that is NULL
Time == 0 .. MaxTime
Versions == 1 .. MaxVersion
ClockStatuses == {"live", "cancelled", "unknown"}

VARIABLES
  now,        \* the clock
  clk,        \* the reservation in Clock: version, updated_at, status
  mapped,     \* its room type has a confirmed mapping
  link,       \* its booking: none, MUST's "own" before the link, or "linked"
  shows,      \* the version the booking shows, 0 before it took one
  src,        \* bookings.pms_source_updated_at
  cancelled,  \* bookings.status is CANCELLED
  updated,    \* bookings.updated_at
  cancelling, \* the version a cancellation made in Clock and did not commit yet
  rpc,        \* where each reader is
  fresh,      \* the row is what the reader saw (version, status, updated_at)
  got,        \* what Clock answered the reader
  told        \* mails that told staff of each version's cancellation

row == <<link, shows, src, cancelled, updated>>
reading == <<rpc, fresh, got>>
vars == <<now, clk, mapped, row, cancelling, reading, told>>

NoAnswer == [ver |-> 0, stamp |-> 0, state |-> "live"]

\* A reservation MUST does not have, or one it made: its booking is linked, or
\* is still waiting for the link and may be cancelled meanwhile.
Init ==
  /\ now = 0
  /\ clk = [ver |-> 1, stamp |-> 0, state |-> "live"]
  /\ mapped \in BOOLEAN
  /\ link \in {"none", "own", "linked"}
  /\ shows = IF link = "linked" THEN 1 ELSE 0
  /\ src = Never /\ cancelled = FALSE /\ updated = 0
  /\ cancelling = 0
  /\ rpc = [p \in Readers |-> "idle"]
  /\ fresh = [p \in Readers |-> FALSE]
  /\ got = [p \in Readers |-> NoAnswer]
  /\ told = [v \in Versions |-> 0]

-----------------------------------------------------------------------------
(***************************************************************************)
(* Time, Clock and the catalog.                                            *)
(***************************************************************************)
Tick ==
  /\ now < MaxTime
  /\ now' = now + 1
  /\ UNCHANGED <<clk, mapped, row, cancelling, reading, told>>

\* Clock's stamps never go back, and may be late.
NextVersion(st) ==
  /\ clk.ver < MaxVersion
  /\ \E s \in Time :
       /\ clk.stamp <= s /\ now - Skew <= s /\ s <= now
       /\ clk' = [ver |-> clk.ver + 1, stamp |-> s, state |-> st]

\* The hotel changes, cancels or reinstates the reservation in Clock.
ClockEdit ==
  /\ \E st \in ClockStatuses : NextVersion(st)
  /\ UNCHANGED <<now, mapped, row, cancelling, reading, told>>

\* Staff confirm the mapping.
ConfirmMapping ==
  /\ ~mapped /\ mapped' = TRUE
  /\ UNCHANGED <<now, clk, row, cancelling, reading, told>>

-----------------------------------------------------------------------------
(***************************************************************************)
(* hydrateBooking.                                                         *)
(***************************************************************************)
\* The row is read before Clock is asked, outside any lock.
Look(p) ==
  /\ rpc[p] = "idle"
  /\ rpc' = [rpc EXCEPT ![p] = "asking"]
  /\ fresh' = [fresh EXCEPT ![p] = TRUE]
  /\ UNCHANGED <<now, clk, mapped, row, cancelling, got, told>>

\* An answer may come without a stamp (providerTimestamp).
Fetch(p) ==
  /\ rpc[p] = "asking"
  /\ rpc' = [rpc EXCEPT ![p] = "answered"]
  /\ got' \in {[got EXCEPT ![p] = clk], [got EXCEPT ![p] = [clk EXCEPT !.stamp = Never]]}
  /\ UNCHANGED <<now, clk, mapped, row, cancelling, fresh, told>>

OlderStamp(p) == got[p].stamp # Never /\ src # Never /\ got[p].stamp < src

\* A live answer to a booking cancelled no earlier, as far as stamps tell.
Reinstates(p) == cancelled /\ got[p].state = "live" /\ got[p].stamp <= updated

MutantStaleNoSnapshot(p) == link = "linked" /\ (OlderStamp(p) \/ Reinstates(p))

\* What the transaction drops: the answer is older than the one applied, the
\* row is not the one seen before (or there was none), or the answer would
\* reinstate a cancelled booking.
Stale(p) == link = "linked" /\ (OlderStamp(p) \/ ~fresh[p] \/ Reinstates(p))

\* The transaction takes the row's lock, which a cancellation may hold.
Locks(p) == rpc[p] = "answered" /\ cancelling = 0

Ends(p) ==
  /\ rpc' = [rpc EXCEPT ![p] = "idle"]
  /\ got' = [got EXCEPT ![p] = NoAnswer]

\* The reading ends without touching the row.  It was stale; or, with a review
\* item, the room type has no mapping, a reservation that is no booking yet has
\* a status MUST does not know, or the total has no valid currency, which any
\* answer may lack.
LeaveOut(p) ==
  /\ Locks(p) /\ link # "own"
  /\ Ends(p)
  /\ fresh' = [fresh EXCEPT ![p] = FALSE]
  /\ UNCHANGED <<now, clk, mapped, row, cancelling, told>>

Overtaken == [p \in Readers |-> FALSE]

\* MUST's own booking, found by its reference, only gets the link.
LinkOwn(p) ==
  /\ Locks(p) /\ link = "own"
  /\ link' = "linked"
  /\ Ends(p)
  /\ fresh' = Overtaken
  /\ UNCHANGED <<now, clk, mapped, shows, src, cancelled, updated, cancelling, told>>

MutantTakesOver(p) == link = "linked" /\ got[p].state = "cancelled"

\* cancelledInPms: Clock's own cancellation, seen for the first time.
TakesOver(p) == link = "linked" /\ ~cancelled /\ got[p].state = "cancelled"

MutantUpdatedAt(p) == IF p \in Importers THEN got[p].stamp ELSE now

\* An importer keeps Clock's stamp, if there is one.
UpdatedAt(p) ==
  CASE p \in Importers /\ got[p].stamp # Never -> got[p].stamp
    [] p \in Importers /\ got[p].stamp = Never /\ link = "linked" -> updated
    [] OTHER -> now

\* The upsert.  A booking keeps its status when Clock's is unknown.  Only a
\* webhook tells staff, after the commit.
Apply(p) ==
  /\ Locks(p) /\ ~Stale(p) /\ mapped
  /\ link = "linked" \/ (link = "none" /\ got[p].state # "unknown")
  /\ link' = "linked"
  /\ shows' = got[p].ver
  /\ src' = IF got[p].stamp = Never THEN src ELSE got[p].stamp
  /\ cancelled' = IF got[p].state = "unknown" THEN cancelled ELSE got[p].state = "cancelled"
  /\ updated' = UpdatedAt(p)
  /\ IF p \in Hooks /\ TakesOver(p)
       THEN rpc' = [rpc EXCEPT ![p] = "mail"] /\ UNCHANGED got
       ELSE Ends(p)
  /\ fresh' = Overtaken
  /\ UNCHANGED <<now, clk, mapped, cancelling, told>>

NotifyStaff(h) ==
  /\ rpc[h] = "mail"
  /\ told' = [told EXCEPT ![got[h].ver] = @ + 1]
  /\ Ends(h)
  /\ UNCHANGED <<now, clk, mapped, row, cancelling, fresh>>

\* The request fails, or the process dies.
GiveUp(p) ==
  /\ rpc[p] # "idle"
  /\ Ends(p)
  /\ fresh' = [fresh EXCEPT ![p] = FALSE]
  /\ UNCHANGED <<now, clk, mapped, row, cancelling, told>>

-----------------------------------------------------------------------------
(***************************************************************************)
(* Local writers.                                                          *)
(***************************************************************************)
\* Any change but a cancellation: it gives the booking a new version or
\* updated_at.
LocalWrite ==
  /\ link # "none" /\ cancelling = 0
  /\ updated' = now
  /\ fresh' = Overtaken
  /\ UNCHANGED <<now, clk, mapped, link, shows, src, cancelled, cancelling, rpc, got, told>>

\* MUST's payment flow finds its reservation first and saves the link itself.
SaveLink ==
  /\ link = "own" /\ ~cancelled
  /\ link' = "linked"
  /\ updated' = now
  /\ fresh' = Overtaken
  /\ UNCHANGED <<now, clk, mapped, shows, src, cancelled, cancelling, rpc, got, told>>

\* cancelBooking without a link: the reservation in Clock is not touched.
CancelUnlinked ==
  /\ link = "own" /\ ~cancelled
  /\ cancelled' = TRUE /\ updated' = now
  /\ UNCHANGED <<now, clk, mapped, link, shows, src, cancelling, reading, told>>

\* cancelBooking holds the row's lock while it cancels in Clock ...
CancelInClock ==
  /\ link = "linked" /\ ~cancelled /\ cancelling = 0 /\ clk.state # "cancelled"
  /\ NextVersion("cancelled")
  /\ cancelling' = clk.ver + 1
  /\ UNCHANGED <<now, mapped, row, reading, told>>

\* ... and then commits, ...
CancelCommit ==
  /\ cancelling > 0
  /\ shows' = cancelling /\ cancelled' = TRUE /\ updated' = now
  /\ cancelling' = 0
  /\ fresh' = Overtaken
  /\ UNCHANGED <<now, clk, mapped, link, src, rpc, got, told>>

\* ... or is rolled back, when the answer of Clock was lost.
CancelUndone ==
  /\ cancelling > 0 /\ cancelling' = 0
  /\ UNCHANGED <<now, clk, mapped, row, reading, told>>

-----------------------------------------------------------------------------
ReaderStep(p) ==
  \/ Look(p) \/ Fetch(p) \/ LeaveOut(p) \/ LinkOwn(p) \/ Apply(p) \/ NotifyStaff(p)
  \/ GiveUp(p)

Next ==
  \/ Tick \/ ClockEdit \/ ConfirmMapping
  \/ \E p \in Readers : ReaderStep(p)
  \/ LocalWrite \/ SaveLink \/ CancelUnlinked
  \/ CancelInClock \/ CancelCommit \/ CancelUndone

Spec == Init /\ [][Next]_vars

-----------------------------------------------------------------------------
(***************************************************************************)
(* Properties.                                                             *)
(***************************************************************************)
Answers == [ver : Versions \cup {0}, stamp : Time \cup {Never}, state : ClockStatuses]

\* Types of the row, of the reservation and of the readings.
TypeOK ==
  /\ now \in Time /\ clk \in Answers /\ clk.stamp \in Time /\ mapped \in BOOLEAN
  /\ link \in {"none", "own", "linked"}
  /\ shows \in Versions \cup {0} /\ src \in Time \cup {Never}
  /\ cancelled \in BOOLEAN /\ updated \in Time
  /\ cancelling \in Versions \cup {0}
  /\ rpc \in [Readers -> {"idle", "asking", "answered", "mail"}]
  /\ fresh \in [Readers -> BOOLEAN]
  /\ got \in [Readers -> Answers]
  /\ told \in [Versions -> Nat]

\* A booking never goes back to an older version of its reservation, does not
\* show two states as one version, and at the newest version has that one's
\* state if MUST knows the word for it, whichever of several readings, links,
\* local changes and a cancellation writes last, and although stamps can be
\* equal, late or missing (hydrateBooking compares the row with the one it saw
\* before it asked Clock).
Copy == INSTANCE VersionedCopy WITH
  Contents <- {"live", "cancelled"}, Unreadable <- "unknown",
  newest <- clk.ver, original <- clk.state,
  shown <- shows, content <- IF cancelled THEN "cancelled" ELSE "live"

ImplementsVersionedCopy == Copy!Spec

\* Staff are told at most once of each version that cancels the reservation,
\* however many events of it are read, at once or later, and though the row is
\* reinstated and cancelled again (cancelledInPms).
OneMailPerCancellation == \A v \in Versions : told[v] <= 1
=============================================================================
