--------------------------- MODULE VersionedCopy ---------------------------
(***************************************************************************)
(* What a copy of a record that somebody else owns promises: it shows one  *)
(* version of the original, never goes back to an older one, never shows   *)
(* two contents as the same version, and once it shows the newest version  *)
(* it shows the original's content, if that can be read.  The copy may     *)
(* skip versions and may stay behind.  BookingMirror implements this.      *)
(***************************************************************************)
EXTENDS Naturals

CONSTANTS
  Contents,    \* what a copy can show
  Unreadable   \* what the original holds when no copy can show it

VARIABLES
  newest,    \* version of the original
  original,  \* its content
  shown,     \* version the copy shows, 0 before there is a copy
  content    \* what it shows

vars == <<newest, original, shown, content>>

Faithful == shown > 0 /\ shown = newest /\ original # Unreadable => content = original

Init ==
  /\ newest \in Nat /\ original \in Contents \cup {Unreadable}
  /\ shown \in 0 .. newest /\ content \in Contents
  /\ Faithful

Edit ==
  /\ newest' \in Nat /\ newest' > newest
  /\ original' \in Contents \cup {Unreadable}
  /\ UNCHANGED <<shown, content>>

\* The copy takes a version that is not older than the one it shows; before it
\* took any, what it holds is its own.
Take ==
  /\ shown' \in shown .. newest /\ content' \in Contents
  /\ shown > 0 /\ shown' = shown => content' = content
  /\ UNCHANGED <<newest, original>>
  /\ Faithful'

Next == Edit \/ Take

Spec == Init /\ [][Next]_vars
=============================================================================
