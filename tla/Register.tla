------------------------------ MODULE Register ------------------------------
(***************************************************************************)
(* What write_private_atomic (pasivd/src/main.rs) promises of its file:    *)
(* whoever reads it finds a whole value, the last one put or, when the     *)
(* power goes before the disk has caught up, one that it replaced.         *)
(***************************************************************************)
CONSTANTS Values, NoFile

VARIABLES
  value,   \* what the file holds
  after,   \* what it may hold after a power cut
  want     \* the value being written

vars == <<value, after, want>>

Init == value = NoFile /\ after = {NoFile} /\ want \in Values

Ask    == want' \in Values /\ UNCHANGED <<value, after>>
Put    == value' = want /\ after' = after \union {want} /\ UNCHANGED want
Clear  == value' = NoFile /\ after' = after \union {NoFile} /\ UNCHANGED want
Settle == after' = {value} /\ UNCHANGED <<value, want>>
Cut    == value' \in after /\ after' = {value'} /\ UNCHANGED want

Spec == Init /\ [][Ask \/ Put \/ Clear \/ Settle \/ Cut]_vars
=============================================================================
