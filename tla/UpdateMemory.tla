---------------------------- MODULE UpdateMemory ----------------------------
(***************************************************************************)
(* What the launcher does not remember (pasivd/src/update.rs, decide):     *)
(* histories beside SelfUpdate, and what update.rs says of them, which TLC *)
(* refutes (README, section 4).                                            *)
(***************************************************************************)
EXTENDS SelfUpdate

VARIABLES
  proven,     \* history: the staged build has checked in since it was staged
  abandoned   \* history: builds given up because they "never checked in"

NeverCheckedIn == Signed /\ staged > own /\ PendingBoots >= MaxPendingBoots

Restaged == \E p \in Stager : stage[p].step = "signed" /\ stage'[p].step = "renamed"

MemoryInit == Init /\ proven = FALSE /\ abandoned = {}

MemoryNext ==
  /\ Next
  /\ proven' = IF Restaged THEN FALSE
               ELSE proven \/ (~healthy /\ healthy' /\ build = staged)
  /\ abandoned' = IF pc = "launch" /\ pc' = "discard" /\ NeverCheckedIn
                  THEN abandoned \cup {staged} ELSE abandoned

MemorySpec == MemoryInit /\ [][MemoryNext]_<<vars, proven, abandoned>>

\* "A staged build gets this many starts to check in once before the launcher gives up on
\* it" (update.rs:39): a build that has checked in is not given up as one that never did.
ProvenIsKept == pc = "launch" /\ NeverCheckedIn => ~proven

\* "A staged build that never reaches its first successful check-in is abandoned"
\* (update.rs:12): an abandoned build does not come back.
AbandonedStaysAway == pc = "run" => build = own \/ build \notin abandoned
=============================================================================
