------------------------------ MODULE KeyHandover ------------------------------
(***************************************************************************)
(* What everything that rotates a key promises to whoever reads the key:   *)
(* one is handed out only while it is valid, and as long as its owner is   *)
(* there the one that is handed out stays valid. Keys come and go beside   *)
(* it. The owner may be lost with all its keys at any time.                *)
(***************************************************************************)
CONSTANTS
  Keys,   \* what a key may be
  None    \* and what is none of them

VARIABLES
  valid,    \* the keys of the owner that there is
  held,     \* the key that is handed out, or None
  current   \* held was made for the owner that there is

vars == <<valid, held, current>>

Init == valid = {} /\ held = None /\ current = FALSE

\* A new key is one that nobody holds.
Issue ==
  /\ \E k \in valid' \ (valid \cup {held}) : k \in Keys /\ valid' = valid \cup {k}
  /\ UNCHANGED <<held, current>>

Hand ==
  /\ held' \in valid /\ current' = TRUE
  /\ UNCHANGED valid

\* Its owner was lost on the way.
HandTooLate ==
  /\ valid = {}
  /\ held' \in Keys /\ current' = FALSE
  /\ UNCHANGED valid

Retire ==
  /\ \E k \in valid : (current => k # held) /\ valid' = valid \ {k}
  /\ UNCHANGED <<held, current>>

LoseOwner ==
  /\ valid' = {} /\ current' = FALSE
  /\ UNCHANGED held

Withdraw ==
  /\ held' = None /\ current' = FALSE
  /\ UNCHANGED valid

Next == Issue \/ Hand \/ HandTooLate \/ Retire \/ LoseOwner \/ Withdraw

Spec == Init /\ [][Next]_vars

-----------------------------------------------------------------------------
(* Properties.                                                             *)

TypeOK == valid \subseteq Keys /\ held \in Keys \cup {None} /\ current \in BOOLEAN

\* Whoever reads the key can use it, as long as its owner is there.
HeldIsValid == current => held \in valid
=============================================================================
