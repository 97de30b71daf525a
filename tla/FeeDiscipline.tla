--------------------------- MODULE FeeDiscipline ---------------------------
(***************************************************************************)
(* The reconcile discipline both consumers of SliceScheduler must follow,  *)
(* as crates/pasiv-core/src/fee.rs states it (the canonical tick of its    *)
(* conformance test): ask where the miner really is, confirm it or swap    *)
(* it, and stop mining when it cannot be brought back to the user.         *)
(*                                                                         *)
(* Time advances in ticks.  Of mining_secs only its position in the fee    *)
(* window matters, so `pos` is mining time modulo Window.  The miner is an *)
(* outside process: it may die, its login may be rewritten by others       *)
(* through the same local API (never to the fee login), its answers may be *)
(* lost, and a swap ends in one of the outcomes of PutOutcomes:            *)
(*   ok       applied, and reported as success                             *)
(*   late     applied, but the answer is lost: reported as failure         *)
(*   refused  not applied, reported as failure                             *)
(*   lying    not applied, reported as success                             *)
(***************************************************************************)
EXTENDS FeeSchedule

CONSTANTS Window, Slice,   \* the slice shape, in ticks
          PutOutcomes      \* what a swap may do

ASSUME ShapeAssumption ==
  /\ Window \in Nat
  /\ Slice \in Nat
  /\ 0 < Slice
  /\ Slice < Window

\* The return budget runs out before the next slice (3 ticks against 96).
ASSUME BudgetAssumption == MaxRetries <= Window - Slice

ASSUME PutAssumption == PutOutcomes \subseteq {"ok", "late", "refused", "lying"}

VARIABLES
  held,      \* the driver holds a miner handle
  alive,     \* the miner process runs
  login,     \* where the miner's pools log in: "User", "Fee" or "Other"
  pos,       \* mining ticks so far, modulo Window
  hashing,   \* the driver believes hashes are produced (last_hashrate > 0)
  sched,     \* the SliceScheduler
  phase      \* within a tick: "observe" the miner, then "reconcile" its login

vars == <<held, alive, login, pos, hashing, sched, phase>>

InSlice == SliceAtWindowEnd(pos, Window, Slice)
Want    == Desired(hashing, InSlice)
OnFee   == alive /\ login = "Fee"

Init ==
  /\ held = FALSE /\ alive = FALSE /\ login = "User"
  /\ pos = 0 /\ hashing = FALSE /\ sched = FreshScheduler /\ phase = "observe"

----------------------------------------------------------------------------
(* Starting and losing a miner.                                             *)

\* A (re)spawn comes up on the user's address, with a fresh scheduler.
Spawn ==
  /\ ~held
  /\ held' = TRUE /\ alive' = TRUE /\ login' = "User"
  /\ sched' = FreshScheduler
  /\ UNCHANGED <<pos, hashing, phase>>

\* The driver kills its miner, or reaps one that died.
Drop ==
  /\ held /\ phase = "observe"
  /\ held' = FALSE /\ alive' = FALSE /\ hashing' = FALSE
  /\ UNCHANGED <<login, pos, sched, phase>>

\* The driver itself starts again: mining time starts from zero.
Restart ==
  /\ held' = FALSE /\ alive' = FALSE /\ hashing' = FALSE
  /\ pos' = 0 /\ sched' = FreshScheduler /\ phase' = "observe"
  /\ UNCHANGED login

Die ==
  /\ alive
  /\ alive' = FALSE
  /\ UNCHANGED <<held, login, pos, hashing, sched, phase>>

RewriteLogin ==
  /\ alive
  /\ login' \in {"User", "Other"} \ {login}
  /\ UNCHANGED <<held, alive, pos, hashing, sched, phase>>

----------------------------------------------------------------------------
(* One tick: observe, then reconcile.                                       *)

\* A tick has passed.  Mining time advances only while hashing.
Observe(h) ==
  /\ held /\ phase = "observe"
  /\ hashing' = h
  /\ phase' = "reconcile"
  /\ sched' = Elapse(sched)
  /\ pos' = IF h THEN (pos + 1) % Window ELSE pos
  /\ UNCHANGED <<held, alive, login>>

\* The consumer takes the miner to be on the wanted side.
Believe ==
  /\ sched' = Confirmed(sched, Want)
  /\ phase' = "observe"
  /\ UNCHANGED <<held, alive, pos, hashing>>

\* The read-back says the miner already is where it belongs.
ReadBack ==
  /\ phase = "reconcile" /\ alive /\ login = Want
  /\ Believe
  /\ UNCHANGED login

\* It is not there (or did not answer), and the swap is reported as a success.
SwapReportedOk ==
  /\ phase = "reconcile" /\ alive
  /\ \/ "ok" \in PutOutcomes /\ login' = Want
     \/ "lying" \in PutOutcomes /\ login' = login
  /\ Believe

\* ... or as a failure: retried next tick, and fatal when returns keep failing.
SwapReportedFailed ==
  /\ phase = "reconcile" /\ held
  /\ \/ "late" \in PutOutcomes /\ alive /\ login' = Want
     \/ "refused" \in PutOutcomes /\ login' = login
     \/ ~alive /\ login' = login
  /\ sched' = SwapFailed(sched, Want)
  /\ phase' = "observe"
  /\ IF MustStop(sched, Want)
     THEN held' = FALSE /\ alive' = FALSE /\ hashing' = FALSE
     ELSE UNCHANGED <<held, alive, hashing>>
  /\ UNCHANGED pos

Reconcile == ReadBack \/ SwapReportedOk \/ SwapReportedFailed

----------------------------------------------------------------------------

Next ==
  \/ Spawn \/ Drop \/ Restart \/ Die \/ RewriteLogin
  \/ \E h \in BOOLEAN : Observe(h)
  \/ Reconcile

Spec == Init /\ [][Next]_vars

----------------------------------------------------------------------------
(* Properties.                                                              *)

TypeOK ==
  /\ held \in BOOLEAN /\ alive \in BOOLEAN /\ login \in {"User", "Fee", "Other"}
  /\ pos \in 0..(Window - 1) /\ hashing \in BOOLEAN
  /\ sched \in Scheduler
  /\ phase \in {"observe", "reconcile"}

\* "A paused or idle user is charged exactly zero" (fee.rs, module comment): between
\* ticks, a live miner on the fee login is hashing inside a slice, or its return to the
\* user has failed and is being retried.
ChargedOnlyWhileMining ==
  phase = "observe" /\ OnFee =>
    \/ hashing /\ pos >= Window - Slice
    \/ sched.failedReturns > 0

============================================================================
